--------------------------- MODULE Training_proofs ---------------------------
(***************************************************************************)
(* The labels that train the policy, from where they are made to what they *)
(* teach.  What Episode promises for every budget: typing, the budget      *)
(* discipline, the meaning of the two labels that train the bandit, and    *)
(* that no soft signal rescues a failed attempt.  What PolicyLedger        *)
(* promises for any episodes, rows, windows and arms, and a ledger of any  *)
(* length: typing, labels read back as the lines say them, and a preferred *)
(* arm that has earned it.                                                 *)
(*                                                                         *)
(* The two components share no state; each has its own specification and   *)
(* invariant.                                                              *)
(***************************************************************************)
EXTENDS Episode, PolicyLedger, FiniteSetTheorems, SequenceTheorems, WellFoundedInduction, TLAPS

-----------------------------------------------------------------------------
(* An episode: the inductive invariant                                     *)

Checking == {"tests", "regress", "audit", "settle"}
Closing == {"finally", "release", "ended"}

(* The signals a later check will write are still untouched.               *)
FreshSignals ==
    /\ pc = "tests" => signals.tests = "disabled"
    /\ pc \in {"tests", "regress"} => signals.regress = "disabled"
    /\ pc \in {"tests", "regress", "audit"} => signals.audit = "skipped"

(* What the verdict of the attempt last verified says about its signals.   *)
VerdictMatchesSignals ==
    /\ verdict.v = "pass" => signals.tests # "fail" /\ signals.regress # "fail"
    /\ verdict.v = "pass" /\ verdict.obj =>
           signals.replay = "pass_objective" \/ signals.tests = "pass"
    /\ verdict.v = "fail" /\ verdict.obj =>
           RejectedByACheck /\ signals.audit = "skipped"
    /\ pc \in Checking /\ verdict.v = "pass" => GateParses
    /\ pc = "tests" /\ GateParses /\ task # "service" => verdict.v # "fail"
    /\ pc = "settle" /\ verdict.v = "pass" => signals.audit = "eligible"

(* Outcomes are decided once, when the episode starts to close; until then *)
(* only an answer waiting for its reader counts as verified.               *)
OutcomeDecided ==
    /\ pc \notin Closing => ~aborted /\ ~thrown /\ ~objectiveOutcome
    /\ pc \notin Closing => (verified <=> pc = "asking" /\ reason = "answer")
    /\ pc \in Closing => /\ ~(verified /\ aborted)
                         /\ thrown <=> (~verified /\ ~aborted)

(* What the labels rest on.                                                *)
LabelsJustified ==
    /\ pc \in Closing /\ verified /\ objectiveOutcome => Earned
    /\ pc \notin Checking /\ lastObjectiveFail =>
           RejectedByACheck /\ signals.audit # "demoted"
    /\ pc = "ended" /\ aborted /\ objectiveOutcome => lastObjectiveFail

IInv == /\ TypeOK
        /\ BudgetDiscipline
        /\ FreshSignals
        /\ VerdictMatchesSignals
        /\ OutcomeDecided
        /\ LabelsJustified

-----------------------------------------------------------------------------
(* Typing                                                                  *)

(* Every signal the replay can leave is one of the declared ones.          *)
LEMMA ReplaySignalType ==
    ASSUME NEW v
    PROVE  ReplaySignal(v) \in {"none", "unavailable", "pass_objective",
                                "pass_heuristic", "fail"}
  BY DEF ReplaySignal

(* A verdict built from its two parts is one. *)
LEMMA VerdictType ==
    ASSUME NEW v \in {"none", "pass", "fail", "inconclusive", "answered"},
           NEW obj \in BOOLEAN
    PROVE  Verdict(v, obj) \in Verdicts
  BY DEF Verdict, Verdicts

(* What the replay answers is a verdict. *)
LEMMA ReplayVerdictType == ReplayVerdicts \subseteq Verdicts
  BY DEF ReplayVerdicts

(* The signals of an attempt nothing has been checked of. *)
LEMMA NoSignalsType == NoSignals \in Signals
  BY DEF NoSignals, Signals, TestSignals, AcceptanceStates

(* The initial state is typed. *)
LEMMA InitTypeOK == Init => TypeOK
<1> SUFFICES ASSUME Init PROVE TypeOK
  OBVIOUS
<1>1. verdict \in Verdicts /\ signals \in Signals
  BY VerdictType, NoSignalsType DEF Init
<1>2. InitialBudget \in Nat
  BY BudgetAssumption
<1>3. QED
  BY <1>1, <1>2 DEF Init, TypeOK, PCs, AcceptanceStates, Reasons

(* Every step keeps every variable in its type. *)
LEMMA NextTypeOK == TypeOK /\ [Next]_vars => TypeOK'
<1> SUFFICES ASSUME TypeOK, [Next]_vars PROVE TypeOK'
  OBVIOUS
<1> USE DEF TypeOK, PCs, setup, oracle, budgets, attempt, outcome
<1>1. CASE Open
  BY <1>1 DEF Open
<1>2. CASE GenerateOracle
  BY <1>2 DEF GenerateOracle
<1>3. CASE BeginAttempt
  BY <1>3 DEF BeginAttempt
<1>4. CASE LeaveLoop
  BY <1>4 DEF LeaveLoop
<1>5. CASE HarnessBlocked
  BY <1>5 DEF HarnessBlocked
<1>6. CASE HarnessReturns
  <2>1. edits' \in SUBSET Places
    BY <1>6, ZenonT(60) DEF HarnessReturns, AgentEdits, Places
  <2>2. pc' \in PCs /\ run' \in {"none", "ok", "failed"}
    BY <1>6 DEF HarnessReturns
  <2>3. QED
    BY <1>6, <2>1, <2>2 DEF HarnessReturns
<1>7. CASE NegotiateDispute
  BY <1>7 DEF NegotiateDispute, Reasons
<1>8. CASE Verify
  <2>1. verdict' \in Verdicts
    BY <1>8, VerdictType, ReplayVerdictType DEF Verify
  <2>2. signals' \in Signals
    <3>1. ASSUME NEW g \in {"skipped", "parses", "broken"},
                 NEW r \in {"none", "unavailable", "pass_objective", "pass_heuristic", "fail"}
          PROVE  /\ [NoSignals EXCEPT !.gate = g, !.replay = r] \in Signals
                 /\ [NoSignals EXCEPT !.gate = g] \in Signals
                 /\ [NoSignals EXCEPT !.replay = r] \in Signals
      <4>1. NoSignals \in Signals
        BY DEF Signals, NoSignals, TestSignals, AcceptanceStates
      <4>2. ASSUME NEW s \in Signals
            PROVE  [s EXCEPT !.gate = g] \in Signals /\ [s EXCEPT !.replay = r] \in Signals
        BY DEF Signals
      <4>3. [NoSignals EXCEPT !.gate = g, !.replay = r]
              = [[NoSignals EXCEPT !.gate = g] EXCEPT !.replay = r]
        BY <4>1 DEF Signals
      <4>4. QED
        BY <4>1, <4>2, <4>3
    <3>2. QED
      BY <1>8, <3>1, ReplaySignalType DEF Verify
  <2>3. QED
    BY <1>8, <2>1, <2>2 DEF Verify
<1>9. CASE RunAcceptance
  <2>1. verdict' \in Verdicts
    BY <1>9, VerdictType DEF RunAcceptance, AfterTests
  <2>2. signals' \in Signals
    BY <1>9 DEF RunAcceptance, Signals, TestSignals, AcceptanceStates
  <2>3. QED
    BY <1>9, <2>1, <2>2 DEF RunAcceptance
<1>10. CASE RunRegression
  <2>1. verdict' \in Verdicts
    BY <1>10, VerdictType DEF RunRegression, AfterRegression
  <2>2. signals' \in Signals
    BY <1>10 DEF RunRegression, Signals, TestSignals
  <2>3. QED
    BY <1>10, <2>1, <2>2 DEF RunRegression
<1>11. CASE AuditAndJudge
  <2>1. verdict' \in Verdicts
    BY <1>11, VerdictType DEF AuditAndJudge
  <2>2. signals' \in Signals
    BY <1>11, ZenonT(60) DEF AuditAndJudge, Signals
  <2>3. QED
    BY <1>11, <2>1, <2>2 DEF AuditAndJudge
<1>12. CASE SettlePass
  <2>1. pc' \in PCs
    BY <1>12 DEF SettlePass
  <2>2. objectiveOutcome' \in BOOLEAN
    BY <1>12 DEF SettlePass, Verdicts
  <2>3. QED
    BY <1>12, <2>1, <2>2, ZenonT(60) DEF SettlePass
<1>13. CASE SettleAnswer
  <2>1. reason' \in Reasons /\ pc' \in PCs
    BY <1>13 DEF SettleAnswer, Reasons
  <2>2. QED
    BY <1>13, <2>1, ZenonT(60) DEF SettleAnswer
<1>14. CASE SettleInconclusive
  <2>1. reason' \in Reasons /\ pc' \in PCs
    BY <1>14 DEF SettleInconclusive, Reasons
  <2>2. QED
    BY <1>14, <2>1, ZenonT(60) DEF SettleInconclusive
<1>15. CASE SettleFail
  BY <1>15 DEF SettleFail, Verdicts
<1>16. CASE NegotiateStall
  BY <1>16 DEF NegotiateStall, NegotiatedBudget, Reasons
<1>17. CASE AfterLoopCancelled \/ AfterLoopExhausted
  <2>1. CASE AfterLoopCancelled
    BY <2>1 DEF AfterLoopCancelled
  <2>2. CASE AfterLoopExhausted
    BY <2>2 DEF AfterLoopExhausted, Reasons
  <2>3. QED
    BY <1>17, <2>1, <2>2
<1>18. CASE CancelledAsk \/ Abort
  <2>1. AbortReply
    BY <1>18 DEF CancelledAsk, Abort
  <2>2. QED
    BY <2>1 DEF AbortReply
<1>19. CASE CloseRun \/ ReleaseAndEnd
  BY <1>19 DEF CloseRun, ReleaseAndEnd, FinalObjective
<1>20. CASE Approve \/ Revert
  <2>1. CASE Approve
    BY <2>1 DEF Approve
  <2>2. CASE Revert
    BY <2>2, ZenonT(60) DEF Revert
  <2>3. QED
    BY <1>20, <2>1, <2>2
<1>21. CASE Retry
  <2>1. PICK note \in BOOLEAN : RetryWith(note)
    BY <1>21 DEF Retry
  <2>2. budget' \in Nat /\ operatorGrants' \in Nat
    BY <2>1 DEF RetryWith, NegotiatedBudget
  <2>3. acceptance' \in AcceptanceStates
    BY <2>1 DEF RetryWith, Reconciled, AcceptanceStates
  <2>4. QED
    BY <2>1, <2>2, <2>3, ZenonT(60) DEF RetryWith
<1>22. CASE Cancel
  BY <1>22 DEF Cancel
<1>23. CASE Ended \/ UNCHANGED vars
  BY <1>23 DEF Ended, vars
<1>24. QED
  BY <1>1, <1>2, <1>3, <1>4, <1>5, <1>6, <1>7, <1>8, <1>9, <1>10, <1>11,
     <1>12, <1>13, <1>14, <1>15, <1>16, <1>17, <1>18, <1>19, <1>20, <1>21,
     <1>22, <1>23 DEF Next, System, Operator

(* Every variable of an episode keeps its type, for every budget. *)
THEOREM TypeCorrect == Spec => []TypeOK
  BY InitTypeOK, NextTypeOK, PTL DEF Spec

-----------------------------------------------------------------------------
(* The budget                                                              *)

(* Attempts stay within the budget, and the budget within the ceiling and  *)
(* the operator's grants, across every step.                               *)
LEMMA NextBudget ==
    TypeOK /\ BudgetDiscipline /\ [Next]_vars => BudgetDiscipline'
<1> SUFFICES ASSUME TypeOK, BudgetDiscipline, [Next]_vars
             PROVE  BudgetDiscipline'
  OBVIOUS
<1> USE BudgetAssumption DEF BudgetDiscipline, Larger
<1>1. attempts \in Nat /\ budget \in Nat /\ operatorGrants \in Nat
  BY DEF TypeOK
<1>2. CASE BeginAttempt
  BY <1>1, <1>2 DEF BeginAttempt, MayAttempt
<1>3. CASE NegotiateStall
  BY <1>1, <1>3 DEF NegotiateStall, NegotiatedBudget
<1>4. CASE Retry
  BY <1>1, <1>4 DEF Retry, RetryWith, NegotiatedBudget
<1>5. CASE UNCHANGED budgets
  BY <1>5 DEF budgets
<1>6. UNCHANGED budgets \/ BeginAttempt \/ NegotiateStall \/ Retry
  BY DEF Next, System, Operator, Open, GenerateOracle, LeaveLoop,
     HarnessBlocked, HarnessReturns, NegotiateDispute, Verify, RunAcceptance,
     RunRegression, AuditAndJudge, SettlePass, SettleAnswer,
     SettleInconclusive, SettleFail, AfterLoopCancelled, AfterLoopExhausted,
     CancelledAsk, Abort, AbortReply, CloseRun, ReleaseAndEnd, Approve, Revert,
     Cancel, Ended, vars, budgets
<1>7. QED
  BY <1>2, <1>3, <1>4, <1>5, <1>6

(* No order of retries, stalls and disputes runs past the budget, and only *)
(* the operator raises the budget past the policy's ceiling.               *)
THEOREM BudgetHolds == Spec => []BudgetDiscipline
<1>1. Init => BudgetDiscipline
  BY BudgetAssumption DEF Init, BudgetDiscipline, Larger
<1>2. QED
  BY <1>1, TypeCorrect, NextBudget, PTL DEF Spec

-----------------------------------------------------------------------------
(* Verdicts, outcomes and labels                                           *)

(* The initial state satisfies the invariant. *)
LEMMA InitIInv == Init => IInv
<1> SUFFICES ASSUME Init PROVE IInv
  OBVIOUS
<1>1. TypeOK
  BY InitTypeOK
<1>2. BudgetDiscipline
  BY BudgetAssumption DEF Init, BudgetDiscipline, Larger
<1>3. FreshSignals /\ VerdictMatchesSignals
  BY DEF Init, FreshSignals, VerdictMatchesSignals, Verdict, NoSignals, Checking
<1>4. OutcomeDecided /\ LabelsJustified
  BY DEF Init, OutcomeDecided, LabelsJustified, Checking, Closing
<1>5. QED
  BY <1>1, <1>2, <1>3, <1>4 DEF IInv

(* The steps that neither begin nor make a check leave the verdict and the *)
(* signals alone.                                                          *)
LEMMA OtherStepsKeepVerdict ==
    ASSUME [Next]_vars
    PROVE  \/ Verify \/ RunAcceptance \/ RunRegression \/ AuditAndJudge
           \/ /\ UNCHANGED <<verdict, signals, task>>
              /\ pc' \in Checking => pc' = pc /\ UNCHANGED run
  BY DEF Next, System, Operator, Open, GenerateOracle, BeginAttempt, LeaveLoop,
     HarnessBlocked, HarnessReturns, NegotiateDispute, SettlePass, SettleAnswer,
     SettleInconclusive, SettleFail, NegotiateStall, AfterLoopCancelled,
     AfterLoopExhausted, CancelledAsk, Abort, AbortReply, CloseRun,
     ReleaseAndEnd, Approve, Revert, Retry, RetryWith, Cancel, Ended, vars,
     setup, oracle, attempt, outcome, budgets, Checking

(* The checks find the signals they write untouched. *)
LEMMA NextFreshSignals ==
    TypeOK /\ FreshSignals /\ [Next]_vars => FreshSignals'
<1> SUFFICES ASSUME TypeOK, FreshSignals, [Next]_vars PROVE FreshSignals'
  OBVIOUS
<1> USE DEF FreshSignals
<1>0. signals \in Signals
  BY DEF TypeOK
<1>1. CASE Verify
  BY <1>1 DEF Verify, NoSignals
<1>2. CASE RunAcceptance
  BY <1>0, <1>2 DEF RunAcceptance, Signals
<1>3. CASE RunRegression
  BY <1>0, <1>3 DEF RunRegression, Signals
<1>4. CASE AuditAndJudge
  BY <1>4 DEF AuditAndJudge
<1>5. CASE UNCHANGED signals /\ (pc' \in Checking => pc' = pc)
  BY <1>5 DEF Checking
<1>6. QED
  BY <1>1, <1>2, <1>3, <1>4, <1>5, OtherStepsKeepVerdict

(* The verdict keeps saying what the signals say, through every check. *)
LEMMA NextVerdictMatchesSignals ==
    TypeOK /\ FreshSignals /\ VerdictMatchesSignals /\ [Next]_vars
        => VerdictMatchesSignals'
<1> SUFFICES ASSUME TypeOK, FreshSignals, VerdictMatchesSignals, [Next]_vars
             PROVE  VerdictMatchesSignals'
  OBVIOUS
<1> USE DEF VerdictMatchesSignals, FreshSignals, RejectedByACheck, GateParses,
            Checking
<1>0. /\ signals \in Signals /\ verdict \in Verdicts
      /\ acceptance # "fail"
  BY DEF TypeOK, AcceptanceStates
<1>1. CASE Verify
  <2>1. /\ pc' = "tests" /\ signals'.tests = "disabled"
        /\ signals'.regress = "disabled" /\ signals'.audit = "skipped"
        /\ UNCHANGED <<run, task>>
    BY <1>1 DEF Verify, NoSignals, setup
  <2>2. CASE run = "failed" /\ verdict' = Verdict("fail", FALSE)
    BY <2>1, <2>2 DEF Verdict
  <2>3. CASE run = "ok" /\ verdict' = Verdict("fail", TRUE) /\ signals'.gate = "broken"
    BY <2>1, <2>3 DEF Verdict
  <2>4. CASE /\ run = "ok" /\ task = "service" /\ signals'.gate = "parses"
             /\ signals'.replay = ReplaySignal(verdict')
    BY <2>1, <2>4 DEF ReplaySignal
  <2>5. CASE \E v \in {"answered", "inconclusive"} : verdict' = Verdict(v, FALSE)
    BY <2>1, <2>5 DEF Verdict
  <2>6. QED
    BY <1>1, <2>2, <2>3, <2>4, <2>5 DEF Verify, NoSignals
<1>2. CASE RunAcceptance
  <2>1. CASE AcceptanceApplies
    <3>1. PICK t \in TestSignals : /\ signals' = [signals EXCEPT !.tests = t]
                                   /\ verdict' = AfterTests(t)
      BY <1>2, <2>1 DEF RunAcceptance
    <3>2. CASE t = "fail"
      BY <1>0, <1>2, <2>1, <3>1, <3>2 DEF RunAcceptance, AfterTests, Verdict, Signals
    <3>3. CASE t = "pass" /\ task # "service"
      BY <1>0, <1>2, <2>1, <3>1, <3>3 DEF RunAcceptance, AcceptanceApplies,
         AfterTests, Verdict, Signals
    <3>4. CASE t # "fail" /\ ~(t = "pass" /\ task # "service")
      BY <1>0, <1>2, <2>1, <3>1, <3>4 DEF RunAcceptance, AcceptanceApplies,
         AfterTests, Verdict, Signals
    <3>5. QED
      BY <3>2, <3>3, <3>4
  <2>2. CASE ~AcceptanceApplies
    BY <1>0, <1>2, <2>2 DEF RunAcceptance, Signals
  <2>3. QED
    BY <2>1, <2>2
<1>3. CASE RunRegression
  BY <1>0, <1>3 DEF RunRegression, RegressionApplies, AfterRegression, Verdict,
     Signals, TestSignals
<1>4. CASE AuditAndJudge
  BY <1>0, <1>4 DEF AuditAndJudge, Verdict, Signals
<1>5. CASE /\ UNCHANGED <<verdict, signals, task>>
           /\ pc' \in Checking => pc' = pc /\ UNCHANGED run
  BY <1>5
<1>6. QED
  BY <1>1, <1>2, <1>3, <1>4, <1>5, OtherStepsKeepVerdict

(* Outcomes are decided by the step that starts to close the episode and   *)
(* by no other.                                                            *)
LEMMA NextOutcomeDecided ==
    TypeOK /\ OutcomeDecided /\ [Next]_vars => OutcomeDecided'
<1> SUFFICES ASSUME TypeOK, OutcomeDecided, [Next]_vars PROVE OutcomeDecided'
  OBVIOUS
<1> USE DEF OutcomeDecided, Closing
<1>0. {verified, aborted, thrown, objectiveOutcome} \subseteq BOOLEAN
  BY DEF TypeOK
<1>1. CASE SettlePass \/ SettleAnswer \/ SettleInconclusive
  BY <1>1 DEF SettlePass, SettleAnswer, SettleInconclusive
<1>2. CASE SettleFail \/ NegotiateStall \/ NegotiateDispute
  BY <1>2 DEF SettleFail, NegotiateStall, NegotiateDispute, outcome
<1>3. CASE AfterLoopCancelled \/ AfterLoopExhausted
  BY <1>3 DEF AfterLoopCancelled, AfterLoopExhausted, outcome
<1>4. CASE Approve \/ Revert
  BY <1>4 DEF Approve, Revert
<1>5. CASE CancelledAsk \/ Abort
  <2>1. pc = "asking" /\ AbortReply
    BY <1>5 DEF CancelledAsk, Abort
  <2>2. QED
    BY <1>0, <2>1 DEF AbortReply
<1>6. CASE Retry
  BY <1>6 DEF Retry, RetryWith
<1>7. CASE HarnessBlocked \/ HarnessReturns
  BY <1>7 DEF HarnessBlocked, HarnessReturns, outcome
<1>8. CASE BeginAttempt \/ LeaveLoop
  <2>1. CASE BeginAttempt
    BY <1>0, <2>1 DEF BeginAttempt
  <2>2. CASE LeaveLoop
    BY <2>2 DEF LeaveLoop, outcome
  <2>3. QED
    BY <1>8, <2>1, <2>2
<1>9. CASE Open \/ GenerateOracle \/ Verify \/ RunAcceptance \/ RunRegression
             \/ AuditAndJudge
  <2>1. /\ pc \notin Closing /\ pc' \notin Closing
        /\ pc # "asking" /\ pc' # "asking" /\ UNCHANGED outcome
    BY <1>9 DEF Open, GenerateOracle, Verify, RunAcceptance, RunRegression,
       AuditAndJudge
  <2>2. QED
    BY <2>1 DEF outcome
<1>10. CASE CloseRun \/ ReleaseAndEnd
  BY <1>10 DEF CloseRun, ReleaseAndEnd, outcome
<1>11. CASE Cancel \/ Ended \/ UNCHANGED vars
  BY <1>11 DEF Cancel, Ended, vars, outcome
<1>12. QED
  BY <1>1, <1>2, <1>3, <1>4, <1>5, <1>6, <1>7, <1>8, <1>9, <1>10, <1>11
     DEF Next, System, Operator

(* Labels keep resting on the signals of the attempt last checked.         *)
LEMMA NextLabelsJustified ==
    IInv /\ [Next]_vars => LabelsJustified'
<1> SUFFICES ASSUME IInv, [Next]_vars PROVE LabelsJustified'
  OBVIOUS
<1> USE DEF LabelsJustified, Closing, Checking
<1>0. FreshSignals /\ VerdictMatchesSignals /\ OutcomeDecided /\ LabelsJustified
  BY DEF IInv
<1>1. CASE Verify \/ RunAcceptance \/ RunRegression \/ AuditAndJudge
  <2>1. pc' \in Checking
    BY <1>1 DEF Verify, RunAcceptance, RunRegression, AuditAndJudge
  <2>2. QED
    BY <2>1
<1>2. CASE SettlePass
  BY <1>0, <1>2 DEF SettlePass, VerdictMatchesSignals, Earned, GateParses,
     OutcomeDecided, attempt
<1>3. CASE SettleAnswer \/ SettleInconclusive
  BY <1>0, <1>3 DEF SettleAnswer, SettleInconclusive, OutcomeDecided
<1>4. CASE SettleFail
  BY <1>0, <1>4 DEF SettleFail, VerdictMatchesSignals, RejectedByACheck,
     OutcomeDecided, attempt
<1>5. CASE HarnessBlocked \/ HarnessReturns
  BY <1>0, <1>5 DEF HarnessBlocked, HarnessReturns, OutcomeDecided,
     RejectedByACheck, outcome
<1>6. CASE Approve \/ Revert \/ CancelledAsk \/ Abort \/ Retry
  BY <1>0, <1>6 DEF Approve, Revert, CancelledAsk, Abort, AbortReply, Retry,
     RetryWith, OutcomeDecided, RejectedByACheck, attempt
<1>7. CASE ReleaseAndEnd
  BY <1>0, <1>7 DEF ReleaseAndEnd, FinalObjective, OutcomeDecided, Earned,
     RejectedByACheck, attempt
<1>8. CASE CloseRun \/ Cancel \/ Ended \/ UNCHANGED vars
  BY <1>0, <1>8 DEF CloseRun, Cancel, Ended, vars, Earned, RejectedByACheck,
     OutcomeDecided, attempt, outcome
<1>9. CASE \/ Open \/ GenerateOracle \/ BeginAttempt \/ LeaveLoop
           \/ NegotiateDispute \/ NegotiateStall \/ AfterLoopCancelled
           \/ AfterLoopExhausted
  BY <1>0, <1>9 DEF Open, GenerateOracle, BeginAttempt, LeaveLoop,
     NegotiateDispute, NegotiateStall, AfterLoopCancelled, AfterLoopExhausted,
     OutcomeDecided, RejectedByACheck, attempt, outcome
<1>10. QED
  BY <1>1, <1>2, <1>3, <1>4, <1>5, <1>6, <1>7, <1>8, <1>9
     DEF Next, System, Operator

(* The invariant is inductive. *)
LEMMA NextIInv == IInv /\ [Next]_vars => IInv'
  BY NextTypeOK, NextBudget, NextFreshSignals, NextVerdictMatchesSignals,
     NextOutcomeDecided, NextLabelsJustified DEF IInv

(* The invariant holds of every reachable state. *)
THEOREM Invariance == Spec => []IInv
  BY InitIInv, NextIInv, PTL DEF Spec

(* A success that trains the bandit was earned by an oracle.               *)
THEOREM SuccessIsEarned == Spec => []ObjectiveSuccessIsEarned
<1>1. IInv => ObjectiveSuccessIsEarned
  BY DEF IInv, LabelsJustified, ObjectiveSuccessIsEarned, Closing
<1>2. QED
  BY <1>1, Invariance, PTL

(* A failure that trains the bandit was a rejection by a check.            *)
THEOREM BlameIsJustified == Spec => []NegativeLabelNeedsRejection
<1>1. IInv => NegativeLabelNeedsRejection
  BY DEF IInv, LabelsJustified, NegativeLabelNeedsRejection, Checking
<1>2. QED
  BY <1>1, Invariance, PTL

(* Every episode ends verified, or aborted, or by an exception, and by one *)
(* of them only.                                                           *)
THEOREM EndsDecided == Spec => []EveryEndIsDecided
<1>1. IInv => EveryEndIsDecided
  BY DEF IInv, TypeOK, OutcomeDecided, EveryEndIsDecided, Closing
<1>2. QED
  BY <1>1, Invariance, PTL

(* A failed attempt is rescued by no later signal.                         *)
THEOREM NeverRescued == Spec => SoftSignalsNeverRescue
<1>1. IInv /\ [Next]_vars => [verdict.v = "fail" /\ verdict'.v # "fail" => pc = "verify"]_vars
  <2> SUFFICES ASSUME IInv, [Next]_vars, verdict.v = "fail", verdict'.v # "fail"
               PROVE  pc = "verify"
    OBVIOUS
  <2>1. CASE Verify
    BY <2>1 DEF Verify
  <2>2. CASE RunAcceptance
    BY <2>2 DEF RunAcceptance, AcceptanceApplies, AfterTests, Verdict, IInv,
       VerdictMatchesSignals
  <2>3. CASE RunRegression
    BY <2>3 DEF RunRegression, RegressionApplies, AfterRegression
  <2>4. CASE AuditAndJudge
    BY <2>4 DEF AuditAndJudge
  <2>5. QED
    BY <2>1, <2>2, <2>3, <2>4, OtherStepsKeepVerdict
<1>2. QED
  BY <1>1, Invariance, PTL DEF Spec, SoftSignalsNeverRescue

-------------------------------------------------------------------------------
(***************************************************************************)
(* Numbers                                                                 *)
(***************************************************************************)
\* Induction over the natural numbers, for a set of them.
LEMMA Stepwise ==
    ASSUME NEW G, 0 \in G, \A n \in Nat : n \in G => n + 1 \in G
    PROVE  Nat \subseteq G
<1> DEFINE Less == {ss \in Nat \X Nat : ss[1] < ss[2]}
           Bad == Nat \ G
<1>1. SUFFICES ASSUME Bad # {} PROVE FALSE
  OBVIOUS
<1>2. IsWellFoundedOn(Less, Nat)
  BY NatLessThanWellFounded DEF OpToRel
<1>3. PICK n \in Bad : \A m \in Bad : ~(<<m, n>> \in Less)
  BY <1>1, <1>2, WFMin
<1>4. n \in Nat /\ n # 0
  BY <1>3
<1>5. n - 1 \in Nat /\ n - 1 < n /\ (n - 1) + 1 = n
  BY <1>4
<1>6. n - 1 \in G
  BY <1>3, <1>4, <1>5
<1>7. QED
  BY <1>3, <1>5, <1>6

\* A line that comes first, and one that comes last.
LEMMA FirstIn ==
    ASSUME NEW S \in SUBSET Nat, S # {}
    PROVE  First(S) \in S /\ \A j \in S : First(S) <= j
<1> DEFINE Less == {ss \in Nat \X Nat : ss[1] < ss[2]}
<1>1. IsWellFoundedOn(Less, Nat)
  BY NatLessThanWellFounded DEF OpToRel
<1>2. PICK n \in S : \A m \in S : ~(<<m, n>> \in Less)
  BY <1>1, WFMin
<1>3. ASSUME NEW m \in S PROVE n <= m
  <2>1. ~(<<m, n>> \in Less) /\ m \in Nat /\ n \in Nat
    BY <1>2
  <2>2. QED
    BY <2>1
<1>4. QED
  BY <1>3 DEF First

LEMMA LatestIn ==
    ASSUME NEW n \in Nat, NEW S \in SUBSET (1..n), S # {}
    PROVE  Latest(S) \in S /\ \A j \in S : Latest(S) >= j
<1> DEFINE Back == {n - i : i \in S}
<1>1. Back \in SUBSET Nat /\ Back # {}
  <2>1. \A i \in S : n - i \in Nat
    OBVIOUS
  <2>2. QED
    BY <2>1
<1>2. PICK b \in Back : \A c \in Back : b <= c
  BY <1>1, FirstIn
<1>3. PICK i \in S : b = n - i
  BY <1>2
<1>4. ASSUME NEW j \in S PROVE i >= j
  <2>1. n - i <= n - j
    BY <1>2, <1>3
  <2>2. i \in Int /\ j \in Int
    OBVIOUS
  <2>3. QED
    BY <2>1, <2>2
<1>5. QED
  BY <1>4 DEF Latest

-------------------------------------------------------------------------------
(***************************************************************************)
(* Reading the ledger line by line                                         *)
(***************************************************************************)
\* h gives what has been read after each number of lines.
Reads(h, lines) ==
    /\ h = [n \in 0..Len(lines) |-> h[n]]
    /\ \A n \in 0..Len(lines) :
          h[n] = IF n = 0 THEN NothingRead ELSE TakeLine(h[n - 1], lines[n])

LEMMA ReadingExists ==
    ASSUME NEW lines, Len(lines) \in Nat
    PROVE  \E h : Reads(h, lines)
<1> DEFINE Upto(h, m) == \A n \in 0..m :
                h[n] = IF n = 0 THEN NothingRead ELSE TakeLine(h[n - 1], lines[n])
           Level == {m \in Nat : \E h : Upto(h, m)}
<1>1. 0 \in Level
  <2> DEFINE h == [n \in {0} |-> NothingRead]
  <2>1. Upto(h, 0)
    OBVIOUS
  <2> HIDE DEF h
  <2>2. QED
    BY <2>1, Zenon
<1>2. ASSUME NEW m \in Nat, m \in Level PROVE m + 1 \in Level
  <2>1. PICK h : Upto(h, m)
    BY <1>2, Zenon
  <2> DEFINE k == [n \in 0..(m + 1) |-> IF n = m + 1 THEN TakeLine(h[m], lines[n]) ELSE h[n]]
  <2>2. \A n \in 0..m : k[n] = h[n]
    OBVIOUS
  <2>3. k[m + 1] = TakeLine(h[m], lines[m + 1])
    OBVIOUS
  <2> HIDE DEF k
  <2>4. ASSUME NEW n \in 0..(m + 1)
        PROVE  k[n] = IF n = 0 THEN NothingRead ELSE TakeLine(k[n - 1], lines[n])
    <3>1. CASE n = m + 1
      <4>1. n - 1 = m /\ n # 0 /\ m \in 0..m
        BY <3>1
      <4>2. k[n - 1] = h[m]
        BY <2>2, <4>1
      <4>3. QED
        BY <2>3, <3>1, <4>1, <4>2
    <3>2. CASE n # m + 1
      <4>1. n \in 0..m /\ (n # 0 => n - 1 \in 0..m)
        BY <3>2
      <4>2. k[n] = h[n] /\ (n # 0 => k[n - 1] = h[n - 1])
        BY <2>2, <4>1
      <4>3. h[n] = IF n = 0 THEN NothingRead ELSE TakeLine(h[n - 1], lines[n])
        BY <2>1, <4>1
      <4>4. QED
        BY <4>2, <4>3
    <3>3. QED
      BY <3>1, <3>2
  <2>5. Upto(k, m + 1)
    BY <2>4
  <2>6. m + 1 \in Nat
    OBVIOUS
  <2>7. QED
    BY <2>5, <2>6, Zenon
<1>3. Nat \subseteq Level
  <2> HIDE DEF Level
  <2> QED
    BY <1>1, <1>2, Stepwise
<1>4. PICK h : Upto(h, Len(lines))
  BY <1>3, Zenon
<1> DEFINE k == [n \in 0..Len(lines) |-> h[n]]
<1>5. \A n \in 0..Len(lines) : k[n] = h[n] /\ (n # 0 => k[n - 1] = h[n - 1])
  OBVIOUS
<1>6. k = [n \in 0..Len(lines) |-> k[n]]
  OBVIOUS
<1> HIDE DEF k
<1>7. Reads(k, lines)
  BY <1>4, <1>5, <1>6 DEF Reads
<1>8. QED
  BY <1>7

\* There is one reading, and it is the one the model computes.
LEMMA ReadingUnique ==
    ASSUME NEW lines, Len(lines) \in Nat, NEW h, NEW k,
           NEW m \in 0..Len(lines),
           \A n \in 0..m : h[n] = IF n = 0 THEN NothingRead ELSE TakeLine(h[n - 1], lines[n]),
           \A n \in 0..m : k[n] = IF n = 0 THEN NothingRead ELSE TakeLine(k[n - 1], lines[n])
    PROVE  h[m] = k[m]
<1> DEFINE G == {n \in Nat : n <= m => h[n] = k[n]}
<1>1. 0 \in G
  OBVIOUS
<1>2. ASSUME NEW n \in Nat, n \in G PROVE n + 1 \in G
  <2>1. SUFFICES ASSUME n + 1 <= m PROVE h[n + 1] = k[n + 1]
    OBVIOUS
  <2>2. h[n] = k[n] /\ n + 1 \in 0..m /\ n + 1 # 0 /\ (n + 1) - 1 = n
    BY <1>2, <2>1
  <2>3. h[n + 1] = TakeLine(h[n], lines[n + 1]) /\ k[n + 1] = TakeLine(k[n], lines[n + 1])
    BY <2>2
  <2>4. QED
    BY <2>2, <2>3
<1>3. Nat \subseteq G
  <2> HIDE DEF G
  <2> QED
    BY <1>1, <1>2, Stepwise
<1>4. QED
  BY <1>3

LEMMA ReadLinesIs ==
    ASSUME NEW lines, Len(lines) \in Nat, NEW h, Reads(h, lines)
    PROVE  ReadLines(lines) = h[Len(lines)]
<1> DEFINE Body(f) == [n \in 0..Len(lines) |->
                          IF n = 0 THEN NothingRead ELSE TakeLine(f[n - 1], lines[n])]
           read == CHOOSE f : f = Body(f)
<1>1. h = Body(h)
  BY DEF Reads
<1>2. read = Body(read)
  <2> HIDE DEF Body
  <2> QED
    BY <1>1
<1>3. ReadLines(lines) = read[Len(lines)]
  BY Zenon DEF ReadLines
<1> HIDE DEF read
<1>4. \A n \in 0..Len(lines) :
          read[n] = IF n = 0 THEN NothingRead ELSE TakeLine(read[n - 1], lines[n])
  BY <1>2
<1>5. \A n \in 0..Len(lines) :
          h[n] = IF n = 0 THEN NothingRead ELSE TakeLine(h[n - 1], lines[n])
  BY DEF Reads
<1>6. Len(lines) \in 0..Len(lines)
  OBVIOUS
<1>7. read[Len(lines)] = h[Len(lines)]
  BY <1>4, <1>5, <1>6, ReadingUnique
<1>8. QED
  BY <1>3, <1>7


-------------------------------------------------------------------------------
(***************************************************************************)
(* What has been read is what the lines say                                *)
(***************************************************************************)
Readings == [
    arm : [Episodes -> Arms \cup {None}],
    end : [Episodes -> Outcomes \cup {None}],
    retracted : SUBSET Episodes,
    verdict : [Episodes -> [Rows -> MeasuredVerdicts \cup {None}]]]

Says(line, type, e) == line.type = type /\ line.id = e

\* An end counts if a start of its episode stands before it.
Counts(lines, i, e) ==
    Says(lines[i], "end", e) /\ \E j \in 1..(i - 1) : Says(lines[j], "start", e)
Rules(lines, i, e, r) == Says(lines[i], "verdict", e) /\ lines[i].row = r

\* The first n lines.
HasStart(lines, n, e) == \E j \in 1..n : Says(lines[j], "start", e)
HasEnd(lines, n, e) == \E i \in 1..n : Counts(lines, i, e)
HasRetraction(lines, n, e) == \E i \in 1..n : Says(lines[i], "retraction", e)
HasRuling(lines, n, e, r) == \E i \in 1..n : Rules(lines, i, e, r)
FirstEnd(lines, n, i, e) ==
    i \in 1..n /\ Counts(lines, i, e) /\ \A k \in 1..n : Counts(lines, k, e) => i <= k
LastRuling(lines, n, i, e, r) ==
    i \in 1..n /\ Rules(lines, i, e, r) /\ \A k \in 1..n : Rules(lines, k, e, r) => i >= k

Reflects(read, lines, n) ==
    /\ read \in Readings
    /\ \A e \in Episodes :
          /\ read.arm[e] # None <=> HasStart(lines, n, e)
          /\ read.end[e] # None <=> HasEnd(lines, n, e)
          /\ \A i : FirstEnd(lines, n, i, e) =>
                /\ read.end[e].verified = lines[i].verified
                /\ read.end[e].objective = lines[i].objective
          /\ e \in read.retracted <=> HasRetraction(lines, n, e)
          /\ \A r \in Rows :
                /\ read.verdict[e][r] # None <=> HasRuling(lines, n, e, r)
                /\ \A i : LastRuling(lines, n, i, e, r) => read.verdict[e][r] = lines[i].verdict

LEMMA NothingReflects ==
    ASSUME NEW lines
    PROVE  Reflects(NothingRead, lines, 0)
<1>1. NothingRead \in Readings
  BY DEF NothingRead, Readings
<1>2. \A i : i \notin 1..0
  OBVIOUS
<1>3. QED
  BY <1>1, <1>2 DEF Reflects, NothingRead, HasStart, HasEnd, HasRetraction, HasRuling, FirstEnd, LastRuling

\* One more line, of what there is to say.
LEMMA OneLineMore ==
    ASSUME NEW lines, NEW n \in Nat, NEW e \in Episodes
    PROVE  /\ HasStart(lines, n + 1, e) <=> HasStart(lines, n, e) \/ Says(lines[n + 1], "start", e)
           /\ Counts(lines, n + 1, e) <=> Says(lines[n + 1], "end", e) /\ HasStart(lines, n, e)
           /\ HasEnd(lines, n + 1, e) <=> HasEnd(lines, n, e) \/ Counts(lines, n + 1, e)
           /\ HasRetraction(lines, n + 1, e)
                 <=> HasRetraction(lines, n, e) \/ Says(lines[n + 1], "retraction", e)
           /\ \A i : FirstEnd(lines, n + 1, i, e) =>
                 \/ FirstEnd(lines, n, i, e)
                 \/ i = n + 1 /\ Counts(lines, n + 1, e) /\ ~HasEnd(lines, n, e)
           /\ \A r \in Rows :
                 /\ HasRuling(lines, n + 1, e, r) <=> HasRuling(lines, n, e, r) \/ Rules(lines, n + 1, e, r)
                 /\ \A i : LastRuling(lines, n + 1, i, e, r) =>
                       \/ LastRuling(lines, n, i, e, r) /\ ~Rules(lines, n + 1, e, r)
                       \/ i = n + 1 /\ Rules(lines, n + 1, e, r)
<1>1. \A j : j \in 1..(n + 1) <=> j \in 1..n \/ j = n + 1
  OBVIOUS
<1>2. (n + 1) - 1 = n
  OBVIOUS
<1>3. HasStart(lines, n + 1, e) <=> HasStart(lines, n, e) \/ Says(lines[n + 1], "start", e)
  BY <1>1 DEF HasStart
<1>4. Counts(lines, n + 1, e) <=> Says(lines[n + 1], "end", e) /\ HasStart(lines, n, e)
  BY <1>2 DEF Counts, HasStart
<1>5. HasEnd(lines, n + 1, e) <=> HasEnd(lines, n, e) \/ Counts(lines, n + 1, e)
  BY <1>1 DEF HasEnd
<1>6. HasRetraction(lines, n + 1, e)
         <=> HasRetraction(lines, n, e) \/ Says(lines[n + 1], "retraction", e)
  BY <1>1 DEF HasRetraction
<1>7. ASSUME NEW i, FirstEnd(lines, n + 1, i, e)
      PROVE  \/ FirstEnd(lines, n, i, e)
             \/ i = n + 1 /\ Counts(lines, n + 1, e) /\ ~HasEnd(lines, n, e)
  <2>1. CASE i \in 1..n
    BY <1>1, <1>7, <2>1 DEF FirstEnd
  <2>2. CASE i = n + 1
    <3>1. ASSUME NEW k \in 1..n PROVE ~Counts(lines, k, e)
      <4>1. Counts(lines, k, e) => n + 1 <= k
        BY <1>1, <1>7, <2>2 DEF FirstEnd
      <4>2. QED
        BY <4>1
    <3>2. QED
      BY <1>7, <2>2, <3>1 DEF FirstEnd, HasEnd
  <2>3. QED
    BY <1>1, <1>7, <2>1, <2>2 DEF FirstEnd
<1>8. ASSUME NEW r \in Rows
      PROVE  HasRuling(lines, n + 1, e, r) <=> HasRuling(lines, n, e, r) \/ Rules(lines, n + 1, e, r)
  BY <1>1 DEF HasRuling
<1>9. ASSUME NEW r \in Rows, NEW i, LastRuling(lines, n + 1, i, e, r)
      PROVE  \/ LastRuling(lines, n, i, e, r) /\ ~Rules(lines, n + 1, e, r)
             \/ i = n + 1 /\ Rules(lines, n + 1, e, r)
  <2>1. CASE i \in 1..n
    <3>1. Rules(lines, n + 1, e, r) => i >= n + 1
      BY <1>1, <1>9 DEF LastRuling
    <3>2. ~Rules(lines, n + 1, e, r)
      BY <2>1, <3>1
    <3>3. QED
      BY <1>1, <1>9, <2>1, <3>2 DEF LastRuling
  <2>2. CASE i = n + 1
    BY <1>9, <2>2 DEF LastRuling
  <2>3. QED
    BY <1>1, <1>9, <2>1, <2>2 DEF LastRuling
<1>10. QED
  BY <1>3, <1>4, <1>5, <1>6, <1>7, <1>8, <1>9

\* What each line changes.
LEMMA LineTypes ==
    ASSUME NEW line \in Event
    PROVE  \/ line.type = "start" /\ line.id \in Episodes /\ line.arm \in Arms
           \/ line.type = "end" /\ line.id \in Episodes
                /\ line.verified \in BOOLEAN /\ line.objective \in BOOLEAN
           \/ line.type = "retraction" /\ line.id \in Episodes
           \/ line.type = "verdict" /\ line.id \in Episodes
                /\ line.row \in Rows /\ line.verdict \in MeasuredVerdicts
           \/ line.type \in {"torn", "lost"}
  BY DEF Event

LEMMA TakeStart ==
    ASSUME NEW read \in Readings, NEW line,
           line.type = "start", line.id \in Episodes, line.arm \in Arms
    PROVE  LET out == TakeLine(read, line)
           IN  /\ out \in Readings
               /\ out.arm = [read.arm EXCEPT ![line.id] = line.arm]
               /\ out.end = read.end /\ out.retracted = read.retracted
               /\ out.verdict = read.verdict
<1> DEFINE arm == [read.arm EXCEPT ![line.id] = line.arm]
<1>1. TakeLine(read, line) = [read EXCEPT !.arm = arm]
  BY DEF TakeLine
<1>2. arm \in [Episodes -> Arms \cup {None}]
  BY DEF Readings
<1> HIDE DEF arm
<1>3. /\ [read EXCEPT !.arm = arm] \in Readings
      /\ [read EXCEPT !.arm = arm].arm = arm
      /\ [read EXCEPT !.arm = arm].end = read.end
      /\ [read EXCEPT !.arm = arm].retracted = read.retracted
      /\ [read EXCEPT !.arm = arm].verdict = read.verdict
  BY <1>2 DEF Readings
<1>4. QED
  BY <1>1, <1>3 DEF arm

LEMMA TakeOneEnd ==
    ASSUME NEW read \in Readings, NEW line,
           line.type = "end", line.id \in Episodes,
           line.verified \in BOOLEAN, line.objective \in BOOLEAN
    PROVE  LET out == TakeLine(read, line)
               new == [arm |-> read.arm[line.id], verified |-> line.verified,
                       objective |-> line.objective]
           IN  /\ out \in Readings
               /\ out.arm = read.arm /\ out.retracted = read.retracted
               /\ out.verdict = read.verdict
               /\ IF read.arm[line.id] = None \/ read.end[line.id] # None
                  THEN out.end = read.end
                  ELSE out.end = [read.end EXCEPT ![line.id] = new] /\ new \in Outcomes
<1> DEFINE new == [arm |-> read.arm[line.id], verified |-> line.verified,
                   objective |-> line.objective]
<1>1. TakeLine(read, line) =
        IF read.arm[line.id] = None \/ read.end[line.id] # None THEN read
        ELSE [read EXCEPT !.end[line.id] = new]
  BY DEF TakeLine, TakeEnd
<1>2. read.arm[line.id] # None => new \in Outcomes
  BY DEF Readings, Outcomes
<1> HIDE DEF new
<1>3. CASE read.arm[line.id] = None \/ read.end[line.id] # None
  BY <1>1, <1>3
<1>4. CASE ~(read.arm[line.id] = None \/ read.end[line.id] # None)
  <2> DEFINE end == [read.end EXCEPT ![line.id] = new]
  <2>1. TakeLine(read, line) = [read EXCEPT !.end = end] /\ new \in Outcomes
    BY <1>1, <1>2, <1>4
  <2>2. end \in [Episodes -> Outcomes \cup {None}]
    BY <2>1 DEF Readings
  <2> HIDE DEF end
  <2>3. /\ [read EXCEPT !.end = end] \in Readings
        /\ [read EXCEPT !.end = end].end = end
        /\ [read EXCEPT !.end = end].arm = read.arm
        /\ [read EXCEPT !.end = end].retracted = read.retracted
        /\ [read EXCEPT !.end = end].verdict = read.verdict
    BY <2>2 DEF Readings
  <2>4. QED
    BY <1>4, <2>1, <2>3 DEF end, new
<1>5. QED
  BY <1>3, <1>4

LEMMA TakeRetraction ==
    ASSUME NEW read \in Readings, NEW line, line.type = "retraction", line.id \in Episodes
    PROVE  LET out == TakeLine(read, line)
           IN  /\ out \in Readings
               /\ out.arm = read.arm /\ out.end = read.end /\ out.verdict = read.verdict
               /\ out.retracted = read.retracted \cup {line.id}
<1>1. TakeLine(read, line) = [read EXCEPT !.retracted = @ \cup {line.id}]
  BY DEF TakeLine
<1>2. QED
  BY <1>1 DEF Readings

LEMMA TakeVerdict ==
    ASSUME NEW read \in Readings, NEW line, line.type = "verdict", line.id \in Episodes,
           line.row \in Rows, line.verdict \in MeasuredVerdicts
    PROVE  LET out == TakeLine(read, line)
           IN  /\ out \in Readings
               /\ out.arm = read.arm /\ out.end = read.end /\ out.retracted = read.retracted
               /\ \A e \in Episodes, r \in Rows :
                     out.verdict[e][r] = IF e = line.id /\ r = line.row
                                         THEN line.verdict ELSE read.verdict[e][r]
<1> DEFINE row == [read.verdict[line.id] EXCEPT ![line.row] = line.verdict]
           all == [read.verdict EXCEPT ![line.id] = row]
<1>1. TakeLine(read, line) = [read EXCEPT !.verdict = all]
  BY DEF TakeLine
<1>2. /\ read.verdict \in [Episodes -> [Rows -> MeasuredVerdicts \cup {None}]]
      /\ read.verdict[line.id] \in [Rows -> MeasuredVerdicts \cup {None}]
  BY DEF Readings
<1>3. /\ row \in [Rows -> MeasuredVerdicts \cup {None}]
      /\ \A r \in Rows : row[r] = IF r = line.row THEN line.verdict ELSE read.verdict[line.id][r]
  BY <1>2
<1> HIDE DEF row
<1>4. /\ all \in [Episodes -> [Rows -> MeasuredVerdicts \cup {None}]]
      /\ \A e \in Episodes : all[e] = IF e = line.id THEN row ELSE read.verdict[e]
  BY <1>2, <1>3
<1> HIDE DEF all
<1>5. /\ [read EXCEPT !.verdict = all] \in Readings
      /\ [read EXCEPT !.verdict = all].verdict = all
      /\ [read EXCEPT !.verdict = all].arm = read.arm
      /\ [read EXCEPT !.verdict = all].end = read.end
      /\ [read EXCEPT !.verdict = all].retracted = read.retracted
  BY <1>4 DEF Readings
<1>6. QED
  BY <1>1, <1>3, <1>4, <1>5

LEMMA TakeUnreadable ==
    ASSUME NEW read, NEW line, line.type \in {"torn", "lost"}
    PROVE  TakeLine(read, line) = read
  BY DEF TakeLine


LEMMA ReflectsMore ==
    ASSUME NEW lines, NEW n \in Nat, NEW read, Reflects(read, lines, n), lines[n + 1] \in Event
    PROVE  Reflects(TakeLine(read, lines[n + 1]), lines, n + 1)
<1> DEFINE line == lines[n + 1]
           out == TakeLine(read, line)
<1>1. read \in Readings
  BY DEF Reflects
<1>2. \/ line.type = "start" /\ line.id \in Episodes /\ line.arm \in Arms
      \/ line.type = "end" /\ line.id \in Episodes
           /\ line.verified \in BOOLEAN /\ line.objective \in BOOLEAN
      \/ line.type = "retraction" /\ line.id \in Episodes
      \/ line.type = "verdict" /\ line.id \in Episodes
           /\ line.row \in Rows /\ line.verdict \in MeasuredVerdicts
      \/ line.type \in {"torn", "lost"}
  BY LineTypes
<1>3. /\ out \in Readings
      /\ line.type # "start" => out.arm = read.arm
      /\ line.type # "end" => out.end = read.end
      /\ line.type # "retraction" => out.retracted = read.retracted
      /\ line.type # "verdict" => out.verdict = read.verdict
      /\ line.type = "start" => out.arm = [read.arm EXCEPT ![line.id] = line.arm]
      /\ line.type = "end" =>
            IF read.arm[line.id] = None \/ read.end[line.id] # None
            THEN out.end = read.end
            ELSE LET new == [arm |-> read.arm[line.id], verified |-> line.verified,
                             objective |-> line.objective]
                 IN  out.end = [read.end EXCEPT ![line.id] = new] /\ new \in Outcomes
      /\ line.type = "retraction" => out.retracted = read.retracted \cup {line.id}
      /\ line.type = "verdict" =>
            \A e \in Episodes, r \in Rows :
                  out.verdict[e][r] = IF e = line.id /\ r = line.row
                                      THEN line.verdict ELSE read.verdict[e][r]
  <2> HIDE DEF line, out
  <2>1. CASE line.type = "start"
    BY <1>1, <1>2, <2>1, TakeStart DEF out
  <2>2. CASE line.type = "end"
    BY <1>1, <1>2, <2>2, TakeOneEnd DEF out
  <2>3. CASE line.type = "retraction"
    BY <1>1, <1>2, <2>3, TakeRetraction DEF out
  <2>4. CASE line.type = "verdict"
    BY <1>1, <1>2, <2>4, TakeVerdict DEF out
  <2>5. CASE line.type \in {"torn", "lost"}
    BY <1>1, <1>2, <2>5, TakeUnreadable DEF out
  <2>6. QED
    BY <1>2, <2>1, <2>2, <2>3, <2>4, <2>5
<1> HIDE DEF out
<1>4. ASSUME NEW e \in Episodes
      PROVE  /\ out.arm[e] # None <=> HasStart(lines, n + 1, e)
             /\ out.end[e] # None <=> HasEnd(lines, n + 1, e)
             /\ \A i : FirstEnd(lines, n + 1, i, e) =>
                   /\ out.end[e].verified = lines[i].verified
                   /\ out.end[e].objective = lines[i].objective
             /\ e \in out.retracted <=> HasRetraction(lines, n + 1, e)
  <2>1. /\ read.arm[e] # None <=> HasStart(lines, n, e)
        /\ read.end[e] # None <=> HasEnd(lines, n, e)
        /\ \A i : FirstEnd(lines, n, i, e) =>
              /\ read.end[e].verified = lines[i].verified
              /\ read.end[e].objective = lines[i].objective
        /\ e \in read.retracted <=> HasRetraction(lines, n, e)
    BY DEF Reflects
  <2>2. /\ HasStart(lines, n + 1, e) <=> HasStart(lines, n, e) \/ Says(line, "start", e)
        /\ Counts(lines, n + 1, e) <=> Says(line, "end", e) /\ HasStart(lines, n, e)
        /\ HasEnd(lines, n + 1, e) <=> HasEnd(lines, n, e) \/ Counts(lines, n + 1, e)
        /\ HasRetraction(lines, n + 1, e) <=> HasRetraction(lines, n, e) \/ Says(line, "retraction", e)
        /\ \A i : FirstEnd(lines, n + 1, i, e) =>
              \/ FirstEnd(lines, n, i, e)
              \/ i = n + 1 /\ Counts(lines, n + 1, e) /\ ~HasEnd(lines, n, e)
    BY OneLineMore
  <2>3. read.arm \in [Episodes -> Arms \cup {None}] /\ read.end \in [Episodes -> Outcomes \cup {None}]
    BY <1>1 DEF Readings
  <2>4. \A i : FirstEnd(lines, n, i, e) => HasEnd(lines, n, e)
    BY DEF FirstEnd, HasEnd
  <2>5. \A t : Says(line, t, e) <=> line.type = t /\ line.id = e
    BY DEF Says
  <2> HIDE DEF line
  <2>6. out.arm[e] # None <=> HasStart(lines, n + 1, e)
    BY <1>2, <1>3, <2>1, <2>2, <2>3, <2>5, NoneAssumption
  <2>7. e \in out.retracted <=> HasRetraction(lines, n + 1, e)
    BY <1>2, <1>3, <2>1, <2>2, <2>5
  <2>8. CASE Counts(lines, n + 1, e) /\ ~HasEnd(lines, n, e)
    <3> DEFINE new == [arm |-> read.arm[e], verified |-> line.verified,
                       objective |-> line.objective]
    <3>1. line.type = "end" /\ line.id = e
          /\ ~(read.arm[e] = None \/ read.end[e] # None)
      BY <2>1, <2>2, <2>5, <2>8
    <3>2. out.end = [read.end EXCEPT ![e] = new] /\ new \in Outcomes
      BY <1>3, <3>1
    <3>3. out.end[e] = new /\ new # None
      BY <2>3, <3>2, NoneAssumption
    <3>4. new.verified = line.verified /\ new.objective = line.objective
      OBVIOUS
    <3> HIDE DEF new
    <3>5. ASSUME NEW i, FirstEnd(lines, n + 1, i, e) PROVE i = n + 1
      BY <2>2, <2>4, <2>8, <3>5
    <3>6. QED
      BY <2>2, <2>6, <2>7, <2>8, <3>3, <3>4, <3>5 DEF line
  <2>9. CASE ~(Counts(lines, n + 1, e) /\ ~HasEnd(lines, n, e))
    <3>1. out.end[e] = read.end[e]
      <4>1. CASE line.type # "end"
        BY <1>3, <4>1
      <4>2. CASE line.type = "end" /\ line.id # e
        BY <1>2, <1>3, <2>3, <4>2
      <4>3. CASE line.type = "end" /\ line.id = e
        <5>1. read.arm[e] = None \/ read.end[e] # None
          BY <2>1, <2>2, <2>5, <2>9, <4>3
        <5>2. QED
          BY <1>3, <4>3, <5>1
      <4>4. QED
        BY <4>1, <4>2, <4>3
    <3>2. QED
      BY <2>1, <2>2, <2>6, <2>7, <2>9, <3>1
  <2>10. QED
    BY <2>8, <2>9
<1>5. ASSUME NEW e \in Episodes, NEW r \in Rows
      PROVE  /\ out.verdict[e][r] # None <=> HasRuling(lines, n + 1, e, r)
             /\ \A i : LastRuling(lines, n + 1, i, e, r) => out.verdict[e][r] = lines[i].verdict
  <2>1. /\ read.verdict[e][r] # None <=> HasRuling(lines, n, e, r)
        /\ \A i : LastRuling(lines, n, i, e, r) => read.verdict[e][r] = lines[i].verdict
    BY DEF Reflects
  <2>2. /\ HasRuling(lines, n + 1, e, r) <=> HasRuling(lines, n, e, r) \/ Rules(lines, n + 1, e, r)
        /\ \A i : LastRuling(lines, n + 1, i, e, r) =>
              \/ LastRuling(lines, n, i, e, r) /\ ~Rules(lines, n + 1, e, r)
              \/ i = n + 1 /\ Rules(lines, n + 1, e, r)
    BY OneLineMore
  <2>3. Rules(lines, n + 1, e, r) <=> line.type = "verdict" /\ line.id = e /\ line.row = r
    BY DEF Rules, Says
  <2>4. out.verdict[e][r] = IF Rules(lines, n + 1, e, r) THEN line.verdict ELSE read.verdict[e][r]
    BY <1>3, <2>3
  <2>5. Rules(lines, n + 1, e, r) => line.verdict # None
    BY <1>2, <2>3, NoneAssumption
  <2>6. QED
    BY <2>1, <2>2, <2>4, <2>5
<1>6. QED
  BY <1>3, <1>4, <1>5 DEF Reflects, out

LEMMA ReadingReflects ==
    ASSUME NEW lines \in Seq(Event)
    PROVE  Reflects(ReadLines(lines), lines, Len(lines))
<1>1. Len(lines) \in Nat /\ \A i \in 1..Len(lines) : lines[i] \in Event
  OBVIOUS
<1>2. PICK h : Reads(h, lines)
  BY <1>1, ReadingExists
<1> DEFINE G == {n \in Nat : n <= Len(lines) => Reflects(h[n], lines, n)}
<1>3. 0 \in G
  <2>1. h[0] = NothingRead
    BY <1>1, <1>2 DEF Reads
  <2>2. QED
    BY <2>1, NothingReflects
<1>4. ASSUME NEW n \in Nat, n \in G PROVE n + 1 \in G
  <2>1. SUFFICES ASSUME n + 1 <= Len(lines) PROVE Reflects(h[n + 1], lines, n + 1)
    OBVIOUS
  <2>2. Reflects(h[n], lines, n) /\ lines[n + 1] \in Event
    BY <1>1, <1>4, <2>1
  <2>3. h[n + 1] = TakeLine(h[n], lines[n + 1])
    <3>1. n + 1 \in 0..Len(lines) /\ n + 1 # 0 /\ (n + 1) - 1 = n
      BY <1>1, <2>1
    <3>2. QED
      BY <1>2, <3>1 DEF Reads
  <2>4. QED
    BY <2>2, <2>3, ReflectsMore
<1>5. Nat \subseteq G
  <2> HIDE DEF G
  <2> QED
    BY <1>3, <1>4, Stepwise
<1>6. QED
  BY <1>1, <1>2, <1>5, ReadLinesIs


-------------------------------------------------------------------------------
(***************************************************************************)
(* Labels                                                                  *)
(***************************************************************************)
LEMMA EndsOf ==
    ASSUME ledger \in Seq(Event), NEW e \in Episodes
    PROVE  /\ Ends(e) # {} <=> HasEnd(ledger, Len(ledger), e)
           /\ Ends(e) # {} => FirstEnd(ledger, Len(ledger), First(Ends(e)), e)
<1>1. Len(ledger) \in Nat
  OBVIOUS
<1>2. Ends(e) = {i \in 1..Len(ledger) : Counts(ledger, i, e)}
  <2>1. ASSUME NEW i \in 1..Len(ledger)
        PROVE  (\E j \in Lines("start") : j < i /\ ledger[j].id = e)
                  <=> \E j \in 1..(i - 1) : Says(ledger[j], "start", e)
    <3>1. \A j : j \in 1..Len(ledger) /\ j < i <=> j \in 1..(i - 1)
      BY <1>1
    <3>2. QED
      BY <3>1 DEF Lines, Says
  <2>2. QED
    BY <2>1 DEF Ends, Lines, Counts, Says
<1>3. Ends(e) \in SUBSET Nat
  BY <1>1, <1>2
<1>4. Ends(e) # {} => First(Ends(e)) \in Ends(e) /\ \A j \in Ends(e) : First(Ends(e)) <= j
  BY <1>3, FirstIn
<1>5. QED
  BY <1>2, <1>4 DEF HasEnd, FirstEnd

LEMMA RowsOf ==
    ASSUME ledger \in Seq(Event), NEW e \in Episodes, NEW v \in MeasuredVerdicts
    PROVE  SomeRowSays(e, v) <=> \E r \in Rows : ReadLines(ledger).verdict[e][r] = v
<1> DEFINE n == Len(ledger)
           read == ReadLines(ledger)
<1>1. n \in Nat /\ Reflects(read, ledger, n)
  BY ReadingReflects
<1>2. ASSUME NEW r \in Rows
      PROVE  (VerdictsOn(e, r) # {} /\ ledger[Latest(VerdictsOn(e, r))].verdict = v)
                <=> read.verdict[e][r] = v
  <2>1. VerdictsOn(e, r) = {i \in 1..n : Rules(ledger, i, e, r)}
    BY DEF VerdictsOn, Lines, Rules, Says
  <2>2. VerdictsOn(e, r) # {} => LastRuling(ledger, n, Latest(VerdictsOn(e, r)), e, r)
    <3>1. SUFFICES ASSUME VerdictsOn(e, r) # {}
                   PROVE  LastRuling(ledger, n, Latest(VerdictsOn(e, r)), e, r)
      OBVIOUS
    <3>2. VerdictsOn(e, r) \in SUBSET (1..n)
      BY <2>1
    <3>3. /\ Latest(VerdictsOn(e, r)) \in VerdictsOn(e, r)
          /\ \A j \in VerdictsOn(e, r) : Latest(VerdictsOn(e, r)) >= j
      BY <1>1, <3>1, <3>2, LatestIn
    <3>4. QED
      BY <2>1, <3>3 DEF LastRuling
  <2>3. VerdictsOn(e, r) # {} <=> HasRuling(ledger, n, e, r)
    BY <2>1 DEF HasRuling
  <2>4. /\ read.verdict[e][r] # None <=> HasRuling(ledger, n, e, r)
        /\ \A i : LastRuling(ledger, n, i, e, r) => read.verdict[e][r] = ledger[i].verdict
    BY <1>1 DEF Reflects
  <2>5. QED
    BY <2>2, <2>3, <2>4, NoneAssumption
<1>3. QED
  BY <1>2 DEF SomeRowSays

LEMMA LabelsHold == ledger \in Seq(Event) => LabelsFollowEvidence
<1> SUFFICES ASSUME ledger \in Seq(Event) PROVE LabelsFollowEvidence
  OBVIOUS
<1> DEFINE n == Len(ledger)
           read == ReadLines(ledger)
           episodes == CompletedEpisodes(ledger)
<1>1. n \in Nat /\ Reflects(read, ledger, n)
  BY ReadingReflects
<1>2. /\ DOMAIN episodes = {e \in Episodes : read.end[e] # None}
      /\ \A e \in DOMAIN episodes : episodes[e] = Relabel(read, e)
  BY DEF CompletedEpisodes
<1>3. \A e \in Episodes : read.end[e] # None <=> Ends(e) # {}
  BY <1>1, EndsOf DEF Reflects
<1> HIDE DEF episodes, read
<1>4. ASSUME NEW e \in DOMAIN episodes
      PROVE  LET end == ledger[First(Ends(e))]
             IN  /\ episodes[e].objective <=>
                       end.objective \/ FailedByEvidence(e) \/ ProvenByEvidence(e)
                 /\ episodes[e].verified <=>
                       ProvenByEvidence(e) \/ (end.verified /\ ~FailedByEvidence(e))
  <2> DEFINE end == ledger[First(Ends(e))]
             was == read.end[e]
             seen == {read.verdict[e][r] : r \in Rows}
  <2>1. e \in Episodes /\ Ends(e) # {} /\ was # None
    BY <1>2, <1>3
  <2>2. was.verified = end.verified /\ was.objective = end.objective
    BY <1>1, <2>1, EndsOf DEF Reflects
  <2>3. was \in Outcomes
    BY <1>1, <2>1 DEF Reflects, Readings
  <2>4. e \in read.retracted <=> Has(e, "retraction")
    BY <1>1, <2>1 DEF Reflects, HasRetraction, Has, Says
  <2>5. /\ "regressed" \in seen <=> SomeRowSays(e, "regressed")
        /\ "proven" \in seen <=> SomeRowSays(e, "proven")
    <3>1. \A v \in MeasuredVerdicts : SomeRowSays(e, v) <=> \E r \in Rows : read.verdict[e][r] = v
      BY <2>1, RowsOf DEF read
    <3>2. QED
      BY <3>1 DEF MeasuredVerdicts
  <2> HIDE DEF was, seen, end
  <2>6. /\ Failed(was).verified = FALSE /\ Failed(was).objective = TRUE
        /\ Proven(was).verified = TRUE /\ Proven(was).objective = TRUE
    BY <2>3 DEF Failed, Proven, Outcomes
  <2>7. episodes[e] = IF e \in read.retracted THEN Failed(was)
                      ELSE IF "regressed" \in seen THEN Failed(was)
                      ELSE IF "proven" \in seen THEN Proven(was)
                      ELSE was
    BY <1>2 DEF Relabel, Measured, was, seen
  <2>8. FailedByEvidence(e) <=> e \in read.retracted \/ "regressed" \in seen
    BY <2>4, <2>5 DEF FailedByEvidence
  <2>9. ProvenByEvidence(e) <=> ~FailedByEvidence(e) /\ "proven" \in seen
    BY <2>5 DEF ProvenByEvidence
  <2>10. /\ episodes[e].objective <=>
               end.objective \/ FailedByEvidence(e) \/ ProvenByEvidence(e)
         /\ episodes[e].verified <=>
               ProvenByEvidence(e) \/ (end.verified /\ ~FailedByEvidence(e))
    <3>1. CASE FailedByEvidence(e)
      <4>1. episodes[e] = Failed(was)
        BY <2>7, <2>8, <3>1
      <4>2. QED
        BY <2>6, <2>9, <3>1, <4>1
    <3>2. CASE ~FailedByEvidence(e) /\ "proven" \in seen
      <4>1. episodes[e] = Proven(was)
        BY <2>7, <2>8, <3>2
      <4>2. QED
        BY <2>6, <2>9, <3>2, <4>1
    <3>3. CASE ~FailedByEvidence(e) /\ "proven" \notin seen
      <4>1. episodes[e] = was
        BY <2>7, <2>8, <3>3
      <4>2. QED
        BY <2>2, <2>9, <3>3, <4>1
    <3>4. QED
      BY <3>1, <3>2, <3>3
  <2>11. QED
    BY <2>10 DEF end
<1>5. QED
  BY <1>2, <1>3, <1>4 DEF LabelsFollowEvidence, episodes


-------------------------------------------------------------------------------
(***************************************************************************)
(* The best arm                                                            *)
(***************************************************************************)
Betas == [alpha : Nat, beta : Nat]
Total(p) == p.alpha + p.beta
Tried == {p \in Betas : Total(p) > 0}

Ahead(p, q) == LeadsBy(p, q, 0, 1)

LEMMA TimesKeeps ==
    ASSUME NEW x \in Nat, NEW y \in Nat, NEW z \in Nat, x >= y
    PROVE  x * z >= y * z
<1> DEFINE d == x - y
<1>1. d \in Nat /\ x = y + d
  OBVIOUS
<1> HIDE DEF d
<1>2. x * z = y * z + d * z
  BY <1>1
<1>3. d * z \in Nat /\ y * z \in Nat
  BY <1>1
<1>4. QED
  BY <1>2, <1>3

LEMMA TimesCancels ==
    ASSUME NEW x \in Nat, NEW y \in Nat, NEW z \in Nat, z > 0, x * z >= y * z
    PROVE  x >= y
<1> SUFFICES ASSUME y >= x + 1 PROVE FALSE
  OBVIOUS
<1>1. y * z >= (x + 1) * z
  BY TimesKeeps
<1>2. (x + 1) * z = x * z + z
  OBVIOUS
<1>3. x * z \in Nat /\ y * z \in Nat
  OBVIOUS
<1>4. QED
  BY <1>1, <1>2, <1>3

LEMMA AheadMeans ==
    ASSUME NEW p \in Betas, NEW q \in Betas
    PROVE  /\ Ahead(p, q) <=> p.alpha * Total(q) >= q.alpha * Total(p)
           /\ p.alpha * Total(q) \in Nat /\ q.alpha * Total(p) \in Nat
<1>1. p.alpha \in Nat /\ q.alpha \in Nat /\ Total(p) \in Nat /\ Total(q) \in Nat
  BY DEF Betas, Total
<1> DEFINE x == p.alpha * Total(q)
           y == q.alpha * Total(p)
<1>2. x \in Nat /\ y \in Nat
  BY <1>1
<1>3. Ahead(p, q) <=> 1 * (x - y) >= 0 * Total(p) * Total(q)
  BY DEF Ahead, LeadsBy, Total
<1>4. 0 * Total(p) * Total(q) = 0
  BY <1>1
<1> HIDE DEF x, y
<1>5. 1 * (x - y) >= 0 <=> x >= y
  BY <1>2
<1>6. QED
  BY <1>2, <1>3, <1>4, <1>5 DEF x, y

LEMMA AheadTotal ==
    ASSUME NEW p \in Betas, NEW q \in Betas
    PROVE  Ahead(p, q) \/ Ahead(q, p)
  BY AheadMeans

LEMMA AheadTransitive ==
    ASSUME NEW p \in Tried, NEW q \in Tried, NEW r \in Tried, Ahead(p, q), Ahead(q, r)
    PROVE  Ahead(p, r)
<1> DEFINE P == Total(p)
           Q == Total(q)
           R == Total(r)
           a == p.alpha
           b == q.alpha
           c == r.alpha
<1>1. /\ p \in Betas /\ q \in Betas /\ r \in Betas
      /\ P \in Nat /\ Q \in Nat /\ R \in Nat /\ Q > 0
      /\ a \in Nat /\ b \in Nat /\ c \in Nat
  BY DEF Tried, Betas, Total
<1>2. a * Q >= b * P /\ b * R >= c * Q
  BY <1>1, AheadMeans
<1> HIDE DEF P, Q, R, a, b, c
<1>3. /\ a * Q \in Nat /\ b * P \in Nat /\ b * R \in Nat /\ c * Q \in Nat
      /\ a * R \in Nat /\ c * P \in Nat
  BY <1>1
<1>4. (a * Q) * R >= (b * P) * R
  BY <1>1, <1>2, <1>3, TimesKeeps
<1>5. (b * R) * P >= (c * Q) * P
  BY <1>1, <1>2, <1>3, TimesKeeps
<1>6. (a * Q) * R = (a * R) * Q /\ (b * P) * R = (b * R) * P /\ (c * Q) * P = (c * P) * Q
  BY <1>1
<1>7. (a * R) * Q >= (c * P) * Q
  <2>1. (a * R) * Q \in Nat /\ (b * R) * P \in Nat /\ (c * P) * Q \in Nat
    BY <1>1, <1>3
  <2>2. QED
    BY <1>4, <1>5, <1>6, <2>1
<1>8. a * R >= c * P
  BY <1>1, <1>3, <1>7, TimesCancels
<1>9. QED
  BY <1>1, <1>8, AheadMeans DEF P, R, a, c

\* Some arm is ahead of all, and the first of those is the best (argmax).
Leads(posteriors, a, n) ==
    /\ a \in 0..n
    /\ \A b \in 0..n : Ahead(posteriors[a], posteriors[b])
    /\ \A b \in 0..n : b < a => ~Ahead(posteriors[b], posteriors[a])

LEMMA BestLeads ==
    ASSUME NEW posteriors \in [Arms -> Tried]
    PROVE  /\ Best(posteriors) \in Arms
           /\ \A b \in Arms : Ahead(posteriors[Best(posteriors)], posteriors[b])
<1> DEFINE G == {n \in Nat : n < ArmCount => \E a \in 0..n : Leads(posteriors, a, n)}
<1>1. ArmCount \in Nat /\ ArmCount > 0 /\ Arms = 0..(ArmCount - 1)
  BY LedgerAssumption DEF Arms
<1>2. \A a \in Arms : posteriors[a] \in Tried /\ posteriors[a] \in Betas
  BY DEF Tried
<1>3. \A a \in Arms : Ahead(posteriors[a], posteriors[a])
  BY <1>2, AheadTotal
<1>4. 0 \in G
  <2>1. 0 < ArmCount => Leads(posteriors, 0, 0)
    BY <1>1, <1>3 DEF Leads
  <2>2. QED
    BY <2>1
<1>5. ASSUME NEW n \in Nat, n \in G PROVE n + 1 \in G
  <2>1. SUFFICES ASSUME n + 1 < ArmCount PROVE \E a \in 0..(n + 1) : Leads(posteriors, a, n + 1)
    OBVIOUS
  <2>2. PICK a \in 0..n : Leads(posteriors, a, n)
    <3>1. n < ArmCount
      BY <1>1, <2>1
    <3>2. QED
      BY <1>5, <3>1, Zenon
  <2>3. /\ \A b \in 0..(n + 1) : b \in Arms
        /\ \A b \in 0..(n + 1) : b \in 0..n \/ b = n + 1
        /\ n + 1 \in 0..(n + 1) /\ a \in 0..(n + 1)
    BY <1>1, <2>1
  <2>4. CASE Ahead(posteriors[a], posteriors[n + 1])
    <3>1. \A b \in 0..(n + 1) : Ahead(posteriors[a], posteriors[b])
      BY <2>2, <2>3, <2>4 DEF Leads
    <3>2. \A b \in 0..(n + 1) : b < a => ~Ahead(posteriors[b], posteriors[a])
      <4>1. ~(n + 1 < a)
        BY <2>2
      <4>2. QED
        BY <2>2, <2>3, <4>1 DEF Leads
    <3>3. QED
      BY <2>3, <3>1, <3>2 DEF Leads
  <2>5. CASE ~Ahead(posteriors[a], posteriors[n + 1])
    <3>1. Ahead(posteriors[n + 1], posteriors[a])
      BY <1>2, <2>3, <2>5, AheadTotal
    <3>2. ASSUME NEW b \in 0..(n + 1) PROVE Ahead(posteriors[n + 1], posteriors[b])
      <4>1. CASE b = n + 1
        BY <1>3, <2>3, <4>1
      <4>2. CASE b \in 0..n
        <5>1. Ahead(posteriors[a], posteriors[b])
          BY <2>2, <4>2 DEF Leads
        <5>2. QED
          BY <1>2, <2>3, <3>1, <5>1, AheadTransitive
      <4>3. QED
        BY <2>3, <4>1, <4>2
    <3>3. ASSUME NEW b \in 0..(n + 1), b < n + 1, Ahead(posteriors[b], posteriors[n + 1])
          PROVE  FALSE
      <4>1. b \in 0..n
        BY <3>3
      <4>2. Ahead(posteriors[a], posteriors[b])
        BY <2>2, <4>1 DEF Leads
      <4>3. Ahead(posteriors[a], posteriors[n + 1])
        BY <1>2, <2>3, <3>3, <4>2, AheadTransitive
      <4>4. QED
        BY <2>5, <4>3
    <3>4. Leads(posteriors, n + 1, n + 1)
      BY <2>3, <3>2, <3>3 DEF Leads
    <3>5. QED
      BY <2>3, <3>4
  <2>6. QED
    BY <2>4, <2>5
<1>6. Nat \subseteq G
  <2> HIDE DEF G
  <2> QED
    BY <1>4, <1>5, Stepwise
<1>7. ArmCount - 1 \in G /\ ArmCount - 1 < ArmCount
  BY <1>1, <1>6
<1>8. PICK a \in 0..(ArmCount - 1) : Leads(posteriors, a, ArmCount - 1)
  BY <1>7
<1>9. /\ a \in Arms
      /\ \A b \in Arms : LeadsBy(posteriors[a], posteriors[b], 0, 1)
      /\ \A b \in Arms : b < a => ~LeadsBy(posteriors[b], posteriors[a], 0, 1)
  BY <1>1, <1>8 DEF Leads, Ahead
<1>10. /\ Best(posteriors) \in Arms
       /\ \A b \in Arms : LeadsBy(posteriors[Best(posteriors)], posteriors[b], 0, 1)
  BY <1>9, Zenon DEF Best
<1>11. QED
  BY <1>10 DEF Ahead


-------------------------------------------------------------------------------
(***************************************************************************)
(* The policy                                                              *)
(***************************************************************************)
LEMMA PosteriorTried ==
    ASSUME NEW episodes, IsFiniteSet(DOMAIN episodes), NEW a
    PROVE  /\ Posterior(episodes, a) \in Tried
           /\ Pulls(episodes, a) \in Nat
<1>1. Trials(episodes, a) \subseteq DOMAIN episodes /\ Successes(episodes, a) \subseteq DOMAIN episodes
  BY DEF Trials, Successes
<1>2. /\ IsFiniteSet(Trials(episodes, a)) /\ IsFiniteSet(Successes(episodes, a))
      /\ IsFiniteSet(Trials(episodes, a) \ Successes(episodes, a))
  BY <1>1, FS_Subset
<1>3. /\ Cardinality(Trials(episodes, a)) \in Nat /\ Cardinality(Successes(episodes, a)) \in Nat
      /\ Cardinality(Trials(episodes, a) \ Successes(episodes, a)) \in Nat
  BY <1>2, FS_CardinalityType
<1>4. PriorAlpha \in Nat /\ PriorAlpha > 0 /\ PriorBeta \in Nat
  BY LedgerAssumption
<1>5. QED
  BY <1>3, <1>4 DEF Posterior, Tried, Betas, Total, Pulls

\* Enough outcomes of an arm, and none did better: what the lines must say for it.
EarnedBy(a, lines) ==
    LET episodes == CompletedEpisodes(lines)
    IN  /\ Pulls(episodes, a) >= MinPromotionN
        /\ \A b \in Arms : Ahead(Posterior(episodes, a), Posterior(episodes, b))

EarnedOn(p, lines) ==
    p.preferred # 0 => \E n \in 1..Len(lines) : EarnedBy(p.preferred, SubSeq(lines, 1, n))

LEMMA CompletedFinite ==
    ASSUME NEW lines
    PROVE  IsFiniteSet(DOMAIN CompletedEpisodes(lines))
<1>1. DOMAIN CompletedEpisodes(lines) \subseteq Episodes
  BY DEF CompletedEpisodes
<1>2. QED
  BY <1>1, FS_Subset, LedgerAssumption

\* An update keeps the preference or earns a new one (computeUpdatedPolicy).
LEMMA UpdatedEarns ==
    ASSUME NEW p \in Policies, NEW lines
    PROVE  LET new == Updated(p, CompletedEpisodes(lines))
           IN  /\ new \in Policies
               /\ \/ new.preferred = p.preferred
                  \/ DOMAIN CompletedEpisodes(lines) # {} /\ EarnedBy(new.preferred, lines)
<1> DEFINE episodes == CompletedEpisodes(lines)
           posteriors == [a \in Arms |-> Posterior(episodes, a)]
           best == Best(posteriors)
           new == [posteriors |-> posteriors, preferred |-> Prefer(p.preferred, posteriors, episodes)]
<1>1. IsFiniteSet(DOMAIN episodes)
  BY CompletedFinite
<1>2. Updated(p, episodes) = IF DOMAIN episodes = {} THEN p ELSE new
  BY DEF Updated
<1> HIDE DEF episodes
<1>3. posteriors \in [Arms -> Tried] /\ posteriors \in [Arms -> [alpha : Nat, beta : Nat]]
      /\ \A a \in Arms : posteriors[a] = Posterior(episodes, a)
  BY <1>1, PosteriorTried DEF Tried, Betas
<1> HIDE DEF posteriors
<1>4. best \in Arms /\ \A b \in Arms : Ahead(posteriors[best], posteriors[b])
  BY <1>3, BestLeads
<1>5. Prefer(p.preferred, posteriors, episodes) =
        IF /\ Pulls(episodes, best) >= MinPromotionN
           /\ LeadsBy(posteriors[best], posteriors[p.preferred], DeltaNum, DeltaDen)
        THEN best ELSE p.preferred
  BY DEF Prefer
<1> HIDE DEF best
<1>6. p.preferred \in Arms
  BY DEF Policies
<1>7. CASE DOMAIN episodes = {}
  BY <1>2, <1>7 DEF episodes
<1>8. CASE DOMAIN episodes # {}
  <2>1. new \in Policies /\ new.preferred \in {p.preferred, best}
    BY <1>3, <1>4, <1>5, <1>6 DEF Policies
  <2>2. new.preferred # p.preferred =>
            new.preferred = best /\ Pulls(episodes, best) >= MinPromotionN
    BY <1>5
  <2>3. Pulls(episodes, best) >= MinPromotionN => EarnedBy(best, lines)
    BY <1>3, <1>4 DEF EarnedBy, episodes
  <2> HIDE DEF new
  <2>4. Updated(p, episodes) = new
    BY <1>2, <1>8
  <2>5. QED
    BY <1>8, <2>1, <2>2, <2>3, <2>4 DEF episodes
<1>9. QED
  BY <1>7, <1>8

\* Nothing read is no episode.
LEMMA NoneCompleted == DOMAIN CompletedEpisodes(<<>>) = {}
<1>1. Len(<<>>) = 0 /\ Len(<<>>) \in Nat
  OBVIOUS
<1>2. PICK h : Reads(h, <<>>)
  BY <1>1, ReadingExists
<1>3. ReadLines(<<>>) = NothingRead
  <2>1. ReadLines(<<>>) = h[0]
    BY <1>1, <1>2, ReadLinesIs
  <2>2. h[0] = NothingRead
    BY <1>1, <1>2 DEF Reads
  <2>3. QED
    BY <2>1, <2>2
<1>4. QED
  BY <1>3 DEF CompletedEpisodes, NothingRead

\* Lines that cannot be read are all alike.
LEMMA UnreadableAlike ==
    ASSUME NEW lines, NEW others, Len(lines) \in Nat, Len(others) = Len(lines),
           \A i \in 1..Len(lines) :
              others[i] = lines[i] \/ {lines[i].type, others[i].type} \subseteq {"torn", "lost"}
    PROVE  CompletedEpisodes(others) = CompletedEpisodes(lines)
<1>1. PICK h : Reads(h, lines)
  BY ReadingExists
<1>2. ASSUME NEW n \in 0..Len(lines)
      PROVE  h[n] = IF n = 0 THEN NothingRead ELSE TakeLine(h[n - 1], others[n])
  <2>1. CASE n = 0
    BY <1>1, <2>1 DEF Reads
  <2>2. CASE n # 0
    <3>1. n \in 1..Len(lines)
      BY <2>2
    <3>2. h[n] = TakeLine(h[n - 1], lines[n])
      <4>1. h[n] = IF n = 0 THEN NothingRead ELSE TakeLine(h[n - 1], lines[n])
        BY <1>1 DEF Reads
      <4>2. QED
        BY <2>2, <4>1
    <3>3. TakeLine(h[n - 1], others[n]) = TakeLine(h[n - 1], lines[n])
      BY <3>1, TakeUnreadable
    <3>4. QED
      BY <2>2, <3>2, <3>3
  <2>3. QED
    BY <2>1, <2>2
<1>3. Reads(h, others)
  BY <1>1, <1>2 DEF Reads
<1>4. ReadLines(others) = ReadLines(lines)
  BY <1>1, <1>3, ReadLinesIs
<1>5. QED
  BY <1>4 DEF CompletedEpisodes


\* What a policy has earned stays earned, whatever the ledger gains.
LEMMA AppendKeeps ==
    ASSUME NEW lines \in Seq(Event), NEW event, NEW p, EarnedOn(p, lines)
    PROVE  EarnedOn(p, Append(lines, event))
<1>1. Len(lines) \in Nat /\ Len(Append(lines, event)) = Len(lines) + 1
  OBVIOUS
<1>2. ASSUME NEW n \in 1..Len(lines)
      PROVE  /\ SubSeq(Append(lines, event), 1, n) = SubSeq(lines, 1, n)
             /\ n \in 1..Len(Append(lines, event))
  OBVIOUS
<1>3. QED
  BY <1>2 DEF EarnedOn

LEMMA SwallowKeeps ==
    ASSUME NEW lines \in Seq(Event), IsTorn(lines), NEW p, EarnedOn(p, lines)
    PROVE  EarnedOn(p, [lines EXCEPT ![Len(lines)] = [type |-> "lost"]])
<1> DEFINE m == Len(lines)
           others == [lines EXCEPT ![m] = [type |-> "lost"]]
<1>1. m \in Nat /\ m > 0 /\ lines[m].type = "torn"
  BY DEF IsTorn, Last
<1>2. others \in Seq(Event) /\ Len(others) = m
  <2>1. [type |-> "lost"] \in Event
    BY DEF Event
  <2>2. QED
    BY <1>1, <2>1
<1>3. \A i \in 1..m : others[i] = IF i = m THEN [type |-> "lost"] ELSE lines[i]
  BY <1>1
<1> HIDE DEF others
<1>4. ASSUME NEW n \in 1..m
      PROVE  CompletedEpisodes(SubSeq(others, 1, n)) = CompletedEpisodes(SubSeq(lines, 1, n))
  <2>1. /\ Len(SubSeq(lines, 1, n)) = n /\ Len(SubSeq(others, 1, n)) = n /\ n \in Nat
        /\ \A i \in 1..n : /\ SubSeq(lines, 1, n)[i] = lines[i]
                           /\ SubSeq(others, 1, n)[i] = others[i]
                           /\ i \in 1..m
    BY <1>1, <1>2
  <2>2. ASSUME NEW i \in 1..n
        PROVE  \/ SubSeq(others, 1, n)[i] = SubSeq(lines, 1, n)[i]
               \/ {SubSeq(lines, 1, n)[i].type, SubSeq(others, 1, n)[i].type} \subseteq {"torn", "lost"}
    BY <1>1, <1>3, <2>1
  <2>3. QED
    BY <2>1, <2>2, UnreadableAlike
<1>5. \A n \in 1..m : EarnedBy(p.preferred, SubSeq(lines, 1, n)) =>
                      EarnedBy(p.preferred, SubSeq(others, 1, n))
  BY <1>4 DEF EarnedBy
<1>6. QED
  BY <1>2, <1>5 DEF EarnedOn, others

LEMMA SubSeqAll ==
    ASSUME NEW lines \in Seq(Event)
    PROVE  SubSeq(lines, 1, Len(lines)) = lines
  OBVIOUS

-------------------------------------------------------------------------------
(***************************************************************************)
(* The ledger: invariance                                                  *)
(***************************************************************************)
AllEarned ==
    /\ EarnedOn(policy, ledger)
    /\ \A w \in Windows : held[w] # None => EarnedOn(held[w], ledger)

LedgerInv == LedgerTypeOK /\ AllEarned

LEMMA LedgerInitInv == LedgerInit => LedgerInv
<1> SUFFICES ASSUME LedgerInit PROVE LedgerInv
  OBVIOUS
<1>1. Priors \in Policies /\ Priors.preferred = 0
  BY LedgerAssumption DEF Priors, Policies, Arms
<1>2. LedgerTypeOK
  BY <1>1 DEF LedgerInit, LedgerTypeOK
<1>3. AllEarned
  BY <1>1 DEF LedgerInit, AllEarned, EarnedOn
<1>4. QED
  BY <1>2, <1>3 DEF LedgerInv

\* The ledger only grows, or loses a line that was cut off.
LEMMA LedgerGrows ==
    ASSUME LedgerTypeOK,
           \/ ledger' = ledger
           \/ \E event \in Event : ledger' = Append(ledger, event)
           \/ IsTorn(ledger) /\ ledger' = Swallowed
    PROVE  /\ ledger' \in Seq(Event)
           /\ \A p : EarnedOn(p, ledger) => EarnedOn(p, ledger')
<1>1. ledger \in Seq(Event)
  BY DEF LedgerTypeOK
<1>2. CASE ledger' = ledger
  BY <1>1, <1>2
<1>3. ASSUME NEW event \in Event, ledger' = Append(ledger, event)
      PROVE  /\ ledger' \in Seq(Event)
             /\ \A p : EarnedOn(p, ledger) => EarnedOn(p, ledger')
  BY <1>1, <1>3, AppendKeeps
<1>4. CASE IsTorn(ledger) /\ ledger' = Swallowed
  <2>1. [type |-> "lost"] \in Event
    BY DEF Event
  <2>2. ledger' \in Seq(Event)
    BY <1>1, <1>4, <2>1 DEF Swallowed, IsTorn
  <2>3. QED
    BY <1>1, <1>4, <2>2, SwallowKeeps DEF Swallowed
<1>5. QED
  BY <1>2, <1>3, <1>4

LEMMA RecordInv ==
    ASSUME LedgerInv, NEW w \in Windows, NEW event \in Event, NEW next \in {"idle", "due"},
           Record(w, event, next)
    PROVE  LedgerInv'
<1>1. LedgerTypeOK /\ AllEarned
  BY DEF LedgerInv
<1>2. /\ ledger' \in Seq(Event)
      /\ \A p : EarnedOn(p, ledger) => EarnedOn(p, ledger')
  BY <1>1, LedgerGrows DEF Record, AppendLine
<1>3. LedgerTypeOK'
  <2>1. stage' = [stage EXCEPT ![w] = next] /\ stage[w] = "idle"
        /\ policy' = policy /\ held' = held
    BY DEF Record
  <2>2. QED
    BY <1>1, <1>2, <2>1 DEF LedgerTypeOK
<1>4. AllEarned'
  BY <1>1, <1>2 DEF AllEarned, Record
<1>5. QED
  BY <1>3, <1>4 DEF LedgerInv

LEMMA AppendsInv ==
    ASSUME LedgerInv, NEW w \in Windows,
           \/ \E e \in Episodes :
                 EpisodeStarts(w, e) \/ EpisodeEnds(w, e) \/ Retracts(w, e) \/ VerdictResolves(w, e)
           \/ Tears(w)
    PROVE  LedgerInv'
<1>1. \E event \in Event, next \in {"idle", "due"} : Record(w, event, next)
  <2>1. ASSUME NEW e \in Episodes, EpisodeStarts(w, e)
        PROVE  \E event \in Event, next \in {"idle", "due"} : Record(w, event, next)
    <3>1. \A a \in Arms : [type |-> "start", id |-> e, arm |-> a] \in Event
      BY DEF Event
    <3>2. QED
      BY <2>1, <3>1 DEF EpisodeStarts
  <2>2. ASSUME NEW e \in Episodes, EpisodeEnds(w, e)
        PROVE  \E event \in Event, next \in {"idle", "due"} : Record(w, event, next)
    <3>1. \A v, o \in BOOLEAN :
              [type |-> "end", id |-> e, verified |-> v, objective |-> o] \in Event
      BY DEF Event
    <3>2. QED
      BY <2>2, <3>1 DEF EpisodeEnds
  <2>3. ASSUME NEW e \in Episodes, Retracts(w, e)
        PROVE  \E event \in Event, next \in {"idle", "due"} : Record(w, event, next)
    <3>1. [type |-> "retraction", id |-> e] \in Event
      BY DEF Event
    <3>2. QED
      BY <2>3, <3>1 DEF Retracts
  <2>4. ASSUME NEW e \in Episodes, VerdictResolves(w, e)
        PROVE  \E event \in Event, next \in {"idle", "due"} : Record(w, event, next)
    <3>1. \A r \in Rows, v \in MeasuredVerdicts :
              [type |-> "verdict", id |-> e, row |-> r, verdict |-> v] \in Event
      BY DEF Event
    <3>2. QED
      BY <2>4, <3>1 DEF VerdictResolves
  <2>5. CASE Tears(w)
    <3>1. [type |-> "torn"] \in Event
      BY DEF Event
    <3>2. QED
      BY <2>5, <3>1 DEF Tears
  <2>6. QED
    BY <2>1, <2>2, <2>3, <2>4, <2>5
<1>2. QED
  BY <1>1, RecordInv

LEMMA UpdateInv ==
    ASSUME LedgerInv, NEW w \in Windows, UpdateLoads(w) \/ UpdateReads(w) \/ UpdateSaves(w)
    PROVE  LedgerInv'
<1>1. LedgerTypeOK /\ AllEarned
  BY DEF LedgerInv
<1>2. /\ ledger \in Seq(Event) /\ policy \in Policies /\ held \in [Windows -> Policies \cup {None}]
      /\ stage \in [Windows -> {"idle", "due", "loaded", "computed"}]
      /\ \A v \in Windows : held[v] = None <=> stage[v] \in {"idle", "due"}
  BY <1>1 DEF LedgerTypeOK
<1>3. \A p \in Policies : p # None
  BY NoneAssumption
<1>4. CASE UpdateLoads(w)
  <2> USE DEF UpdateLoads
  <2>1. LedgerTypeOK'
    BY <1>2, <1>3, <1>4 DEF LedgerTypeOK
  <2>2. AllEarned'
    BY <1>1, <1>2, <1>4 DEF AllEarned
  <2>3. QED
    BY <2>1, <2>2 DEF LedgerInv
<1>5. CASE UpdateReads(w)
  <2> DEFINE new == Updated(held[w], CompletedEpisodes(ledger))
  <2>1. /\ stage[w] = "loaded" /\ stage' = [stage EXCEPT ![w] = "computed"]
        /\ held' = [held EXCEPT ![w] = new]
        /\ UNCHANGED <<ledger, policy>>
    BY <1>5 DEF UpdateReads
  <2>2. held[w] \in Policies /\ EarnedOn(held[w], ledger)
    BY <1>1, <1>2, <2>1 DEF AllEarned
  <2>3. /\ new \in Policies
        /\ \/ new.preferred = held[w].preferred
           \/ DOMAIN CompletedEpisodes(ledger) # {} /\ EarnedBy(new.preferred, ledger)
    BY <2>2, UpdatedEarns
  <2> HIDE DEF new
  <2>4. EarnedOn(new, ledger)
    <3>1. CASE new.preferred = held[w].preferred
      BY <2>2, <3>1 DEF EarnedOn
    <3>2. CASE DOMAIN CompletedEpisodes(ledger) # {} /\ EarnedBy(new.preferred, ledger)
      <4>1. ledger # <<>>
        BY <3>2, NoneCompleted
      <4>2. Len(ledger) \in 1..Len(ledger)
        BY <1>2, <4>1
      <4>3. EarnedBy(new.preferred, SubSeq(ledger, 1, Len(ledger)))
        BY <1>2, <3>2, SubSeqAll
      <4>4. QED
        BY <4>2, <4>3 DEF EarnedOn
    <3>3. QED
      BY <2>3, <3>1, <3>2
  <2>5. LedgerTypeOK'
    BY <1>2, <1>3, <2>1, <2>3 DEF LedgerTypeOK
  <2>6. AllEarned'
    BY <1>1, <1>2, <2>1, <2>4 DEF AllEarned
  <2>7. QED
    BY <2>5, <2>6 DEF LedgerInv
<1>6. CASE UpdateSaves(w)
  <2>1. /\ stage[w] = "computed" /\ stage' = [stage EXCEPT ![w] = "idle"]
        /\ policy' = held[w]
        /\ held' = [held EXCEPT ![w] = None]
        /\ ledger' = ledger \/ (IsTorn(ledger) /\ ledger' = Swallowed)
    BY <1>6 DEF UpdateSaves
  <2>2. /\ ledger' \in Seq(Event)
        /\ \A p : EarnedOn(p, ledger) => EarnedOn(p, ledger')
    BY <1>1, <2>1, LedgerGrows
  <2>3. held[w] \in Policies /\ EarnedOn(held[w], ledger)
    BY <1>1, <1>2, <2>1 DEF AllEarned
  <2>4. LedgerTypeOK'
    BY <1>2, <2>1, <2>2, <2>3 DEF LedgerTypeOK
  <2>5. AllEarned'
    BY <1>1, <1>2, <2>1, <2>2, <2>3 DEF AllEarned
  <2>6. QED
    BY <2>4, <2>5 DEF LedgerInv
<1>7. QED
  BY <1>4, <1>5, <1>6

LEMMA LedgerNextInv == LedgerInv /\ [LedgerNext]_ledgerVars => LedgerInv'
<1> SUFFICES ASSUME LedgerInv, [LedgerNext]_ledgerVars PROVE LedgerInv'
  OBVIOUS
<1>1. CASE LedgerNext
  BY <1>1, AppendsInv, UpdateInv DEF LedgerNext
<1>2. CASE UNCHANGED ledgerVars
  BY <1>2 DEF ledgerVars, LedgerInv, LedgerTypeOK, AllEarned
<1>3. QED
  BY <1>1, <1>2

-------------------------------------------------------------------------------
(***************************************************************************)
(* The ledger: the theorems                                                *)
(***************************************************************************)
\* The invariant holds in every state of every behaviour.
THEOREM LedgerInvariance == LedgerSpec => []LedgerInv
  BY LedgerInitInv, LedgerNextInv, PTL DEF LedgerSpec

\* Every variable of the ledger and its readers has its type (episodePolicyUpdater.ts).
THEOREM LedgerTypeCorrect == LedgerSpec => []LedgerTypeOK
<1>1. LedgerInv => LedgerTypeOK
  BY DEF LedgerInv
<1>2. QED
  BY <1>1, LedgerInvariance, PTL

\* However many windows write starts, ends, retractions and verdicts in whatever
\* order, the labels read back are what the lines say (readCompletedEpisodes).
THEOREM LabelsAreEvidence == LedgerSpec => []LabelsFollowEvidence
<1>1. LedgerInv => LabelsFollowEvidence
  BY LabelsHold DEF LedgerInv, LedgerTypeOK
<1>2. QED
  BY <1>1, LedgerInvariance, PTL

\* An arm is preferred only on a ledger that once held enough outcomes of it, none
\* better, whichever window saved last (computeUpdatedPolicy).
THEOREM PreferenceIsEarned == LedgerSpec => []PreferenceEarned
<1>1. LedgerInv => PreferenceEarned
  BY DEF LedgerInv, AllEarned, EarnedOn, EarnedBy, Ahead, PreferenceEarned
<1>2. QED
  BY <1>1, LedgerInvariance, PTL
===============================================================================
