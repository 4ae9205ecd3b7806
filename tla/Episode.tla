------------------------------ MODULE Episode ------------------------------
(***************************************************************************)
(* One closed-loop episode: runEpisode of                                  *)
(* src/extension/src/harness/episodeLoop.ts.  A coding agent gets a        *)
(* context pack, edits the run's tree, and its attempt is verified; a      *)
(* failed attempt is fed back until the attempt budget is spent, the       *)
(* operator decides, or the operator cancels.  The episode ends with one   *)
(* label (verified, aborted, objective) that trains the composition        *)
(* bandit.                                                                 *)
(*                                                                         *)
(* The code is one asynchronous function; pc names the await it stands at. *)
(* What happens between two awaits is one action.  The only step that      *)
(* interleaves with it is the operator's Cancel.                           *)
(***************************************************************************)
EXTENDS Integers

CONSTANTS
    InitialBudget,  \* policy.attempt_budget
    MaxBudget,      \* policy.attempt_budget_max
    GrantBound      \* the operator's patience: extra attempts ever granted

ASSUME BudgetAssumption ==
    /\ InitialBudget \in Nat \ {0}
    /\ MaxBudget \in Nat
    /\ GrantBound \in Nat

VARIABLES
    pc,             \* the await the episode stands at
    task,           \* what the run was asked for
    isolated,       \* openRun gave the run a worktree of its own
    canRevert,      \* snapshotSha !== null
    acceptance,     \* acceptance.status
    regression,     \* regressionPath is set
    attempts,       \* attempts
    budget,         \* attemptBudget
    operatorGrants, \* history: attempts the operator added to the budget
    run,            \* run.ok of the current attempt
    verdict,        \* verify
    signals,        \* the signals the reward breakdown is composed from
    hasEvidence,    \* lastEvidence is not empty
    reason,         \* which escalation the operator is looking at
    cancelled,      \* token.isCancellationRequested
    verified, aborted, objectiveOutcome, lastObjectiveFail,
    infra,          \* infraBlocked is set
    thrown,         \* an exception unwinds into the finally block
    edits           \* the places that hold edits of the agent

vars == <<pc, task, isolated, canRevert, acceptance, regression, attempts,
          budget, operatorGrants, run, verdict, signals, hasEvidence, reason,
          cancelled, verified, aborted, objectiveOutcome, lastObjectiveFail,
          infra, thrown, edits>>

setup == <<task, isolated, canRevert>>
oracle == <<acceptance, regression>>
budgets == <<attempts, budget, operatorGrants>>
attempt == <<run, verdict, signals>>
outcome == <<verified, aborted, objectiveOutcome, lastObjectiveFail, infra, thrown>>

-----------------------------------------------------------------------------
(* Values                                                                  *)

Tasks == {"service", "defect", "question"}
TestSignals == {"pass", "fail", "unavailable"}
AcceptanceStates == {"disabled", "ready", "unavailable", "not_discriminating"}
Reasons == {"none", "dispute", "answer", "inconclusive", "stall", "exhausted"}
Places == {"root", "tree", "branch"}
PCs == {"open", "oracle", "loop", "after", "working", "disputed", "verify",
        "tests", "regress", "audit", "settle", "stalled", "asking",
        "finally", "release", "ended"}

Verdicts == [v : {"none", "pass", "fail", "inconclusive", "answered"}, obj : BOOLEAN]
Verdict(v, obj) == [v |-> v, obj |-> obj]

Signals == [gate : {"skipped", "parses", "broken"},
            replay : {"none", "unavailable", "pass_objective", "pass_heuristic", "fail"},
            tests : TestSignals \cup AcceptanceStates,
            regress : TestSignals \cup {"disabled"},
            audit : {"skipped", "eligible", "demoted"}]

NoSignals == [gate |-> "skipped", replay |-> "none", tests |-> "disabled",
              regress |-> "disabled", audit |-> "skipped"]

TypeOK ==
    /\ pc \in PCs
    /\ task \in Tasks
    /\ isolated \in BOOLEAN
    /\ canRevert \in BOOLEAN
    /\ acceptance \in AcceptanceStates
    /\ regression \in BOOLEAN
    /\ attempts \in Nat
    /\ budget \in Nat
    /\ operatorGrants \in Nat
    /\ run \in {"none", "ok", "failed"}
    /\ verdict \in Verdicts
    /\ signals \in Signals
    /\ hasEvidence \in BOOLEAN
    /\ reason \in Reasons
    /\ cancelled \in BOOLEAN
    /\ verified \in BOOLEAN
    /\ aborted \in BOOLEAN
    /\ objectiveOutcome \in BOOLEAN
    /\ lastObjectiveFail \in BOOLEAN
    /\ infra \in BOOLEAN
    /\ thrown \in BOOLEAN
    /\ edits \in SUBSET Places

-----------------------------------------------------------------------------
(* Opening the run                                                         *)

Init ==
    /\ pc = "open"
    /\ task \in Tasks
    /\ isolated = FALSE
    /\ canRevert = FALSE
    /\ acceptance = "disabled"
    /\ regression = FALSE
    /\ attempts = 0
    /\ budget = InitialBudget
    /\ operatorGrants = 0
    /\ run = "none"
    /\ verdict = Verdict("none", FALSE)
    /\ signals = NoSignals
    /\ hasEvidence = FALSE
    /\ reason = "none"
    /\ cancelled = FALSE
    /\ verified = FALSE
    /\ aborted = FALSE
    /\ objectiveOutcome = FALSE
    /\ lastObjectiveFail = FALSE
    /\ infra = FALSE
    /\ thrown = FALSE
    /\ edits = {}

(* openRun adds a worktree off HEAD when it can, and the pre-episode       *)
(* snapshot of the run's tree is taken when it can; both may fail alone.   *)
Open ==
    /\ pc = "open"
    /\ pc' = "oracle"
    /\ isolated' \in BOOLEAN
    /\ canRevert' \in BOOLEAN
    /\ UNCHANGED <<task, oracle, budgets, attempt, hasEvidence, reason,
                   cancelled, outcome, edits>>

(* The acceptance and regression sets are written once, before any fix.    *)
(* Regression tests exist only where the generation was not switched off.  *)
GenerateOracle ==
    /\ pc = "oracle"
    /\ pc' = "loop"
    /\ acceptance' \in AcceptanceStates
    /\ regression' \in BOOLEAN
    /\ acceptance' = "disabled" => ~regression'
    /\ UNCHANGED <<setup, budgets, attempt, hasEvidence, reason, cancelled,
                   outcome, edits>>

-----------------------------------------------------------------------------
(* One attempt                                                             *)

MayAttempt == attempts < budget /\ ~cancelled

(* Mutation: the attempt is not counted. *)
BeginAttemptUncounted ==
    /\ pc = "loop"
    /\ MayAttempt
    /\ pc' \in {"working", "after", "finally"}
    /\ thrown' = (pc' = "finally")
    /\ UNCHANGED <<setup, oracle, budgets, attempt, hasEvidence, reason,
                   cancelled, verified, aborted, objectiveOutcome,
                   lastObjectiveFail, infra, edits>>

(* The graph snapshot may fail, which leaves the while loop; writing the   *)
(* context pack may throw, which unwinds into the finally block.           *)
BeginAttempt ==
    /\ pc = "loop"
    /\ MayAttempt
    /\ attempts' = attempts + 1
    /\ pc' \in {"working", "after", "finally"}
    /\ thrown' = (pc' = "finally")
    /\ UNCHANGED <<setup, oracle, budget, operatorGrants, attempt, hasEvidence,
                   reason, cancelled, verified, aborted, objectiveOutcome,
                   lastObjectiveFail, infra, edits>>

LeaveLoop ==
    /\ pc = "loop"
    /\ ~MayAttempt
    /\ pc' = "after"
    /\ UNCHANGED <<setup, oracle, budgets, attempt, hasEvidence, reason,
                   cancelled, outcome, edits>>

(* The agent edits the tree it was started in.  Nothing in the code asks   *)
(* it to commit; an agent may do so on its own.                            *)
AgentEdits == IF isolated THEN {{}, {"tree"}, {"tree", "branch"}} ELSE {{}, {"root"}}

(* A harness that cannot run at all (signed out, quota, network) ends the  *)
(* episode at once.  A cancelled run settles as 'cancelled', never infra.  *)
HarnessBlocked ==
    /\ pc = "working"
    /\ ~cancelled
    /\ pc' = "finally"
    /\ run' = "failed"
    /\ infra' = TRUE
    /\ aborted' = TRUE
    /\ hasEvidence' = TRUE
    /\ UNCHANGED <<setup, oracle, budgets, verdict, signals, reason, cancelled,
                   verified, objectiveOutcome, lastObjectiveFail, thrown, edits>>

(* A dispute on the first attempt re-dispatches at once; a later one is    *)
(* negotiated.  A question has no premise to dispute.                      *)
HarnessReturns ==
    /\ pc = "working"
    /\ run' \in {"ok", "failed"}
    /\ \E e \in AgentEdits : edits' = edits \cup e
    /\ \/ pc' = "verify"
       \/ task # "question" /\ attempts < 2 /\ pc' = "loop"
       \/ task # "question" /\ attempts >= 2 /\ pc' = "disputed"
    /\ UNCHANGED <<setup, oracle, budgets, verdict, signals, hasEvidence,
                   reason, cancelled, outcome>>

(* The negotiation judge (breakStall) says escalate or continue; when it   *)
(* is unavailable the answer is escalate.                                  *)
NegotiateDispute ==
    /\ pc = "disputed"
    /\ \/ pc' = "asking" /\ reason' = "dispute"
       \/ pc' = "verify" /\ UNCHANGED reason
    /\ UNCHANGED <<setup, oracle, budgets, attempt, hasEvidence, cancelled,
                   outcome, edits>>

-----------------------------------------------------------------------------
(* Verification: pre-gate, replay, tests, regression, audit                *)

(* Mutation: tests run on an attempt whose harness run or pre-gate failed. *)
GateIgnored == TRUE

(* The agent ran and every file it changed parses. *)
GateParses == run = "ok" /\ signals.gate = "parses"

(* What verifyServiceReplay can answer.                                    *)
ReplayVerdicts ==
    {r \in Verdicts : r.v \in {"pass", "fail"} \/ r = Verdict("inconclusive", FALSE)}

ReplaySignal(v) ==
    CASE v.v = "pass" /\ v.obj -> "pass_objective"
      [] v.v = "pass" /\ ~v.obj -> "pass_heuristic"
      [] v.v = "fail" /\ v.obj -> "fail"
      [] OTHER -> "unavailable"

(* A run that failed has been checked by nothing: the verdict is a failure *)
(* but no objective one.  A changed file that does not parse is one.       *)
Verify ==
    /\ pc = "verify"
    /\ pc' = "tests"
    /\ \/ /\ run = "failed"
          /\ verdict' = Verdict("fail", FALSE)
          /\ signals' = [NoSignals EXCEPT
                 !.replay = IF task = "service" THEN "unavailable" ELSE "none"]
       \/ /\ run = "ok"
          /\ verdict' = Verdict("fail", TRUE)
          /\ signals' = [NoSignals EXCEPT !.gate = "broken",
                 !.replay = IF task = "service" THEN "unavailable" ELSE "none"]
       \/ /\ run = "ok" /\ task = "service"
          /\ verdict' \in ReplayVerdicts
          /\ signals' = [NoSignals EXCEPT !.gate = "parses",
                                          !.replay = ReplaySignal(verdict')]
       \/ /\ run = "ok" /\ task # "service"
          /\ verdict' = Verdict(IF task = "question" THEN "answered"
                                ELSE "inconclusive", FALSE)
          /\ signals' = [NoSignals EXCEPT !.gate = "parses"]
    /\ UNCHANGED <<setup, oracle, budgets, run, hasEvidence, reason, cancelled,
                   outcome, edits>>

AcceptanceApplies ==
    /\ GateParses
    /\ acceptance = "ready"
    /\ task = "service" => verdict.v = "pass"

(* For a service the tests can only take a pass away; for any other task   *)
(* they are the oracle.                                                    *)
AfterTests(t) ==
    CASE t = "fail" -> Verdict("fail", TRUE)
      [] t = "pass" /\ task # "service" -> Verdict("pass", TRUE)
      [] OTHER -> verdict

RunAcceptance ==
    /\ pc = "tests"
    /\ pc' = "regress"
    /\ \/ /\ AcceptanceApplies
          /\ \E t \in TestSignals :
                /\ signals' = [signals EXCEPT !.tests = t]
                /\ verdict' = AfterTests(t)
       \/ /\ ~AcceptanceApplies
          /\ signals' = [signals EXCEPT !.tests =
                 IF acceptance = "ready" THEN "unavailable" ELSE acceptance]
          /\ UNCHANGED verdict
    /\ UNCHANGED <<setup, oracle, budgets, run, hasEvidence, reason, cancelled,
                   outcome, edits>>

RegressionApplies == GateParses /\ regression /\ verdict.v = "pass"

(* Mutation: a failing regression set is recorded and not acted upon.      *)
AfterRegressionAdvisory(t) == verdict

AfterRegression(t) == IF t = "fail" THEN Verdict("fail", TRUE) ELSE verdict

RunRegression ==
    /\ pc = "regress"
    /\ pc' = "audit"
    /\ \/ /\ RegressionApplies
          /\ \E t \in TestSignals :
                /\ signals' = [signals EXCEPT !.regress = t]
                /\ verdict' = AfterRegression(t)
       \/ /\ ~RegressionApplies
          /\ signals' = [signals EXCEPT !.regress =
                 IF regression THEN "unavailable" ELSE "disabled"]
          /\ UNCHANGED verdict
    /\ UNCHANGED <<setup, oracle, budgets, run, hasEvidence, reason, cancelled,
                   outcome, edits>>

(* The audit and the judge look at candidate passes only, and may take the *)
(* pass away.  Suspicion is about the agent's conduct, so that failure is  *)
(* not an objective one.                                                   *)
AuditAndJudge ==
    /\ pc = "audit"
    /\ pc' = "settle"
    /\ \/ /\ verdict.v = "pass"
          /\ \/ signals' = [signals EXCEPT !.audit = "eligible"] /\ UNCHANGED verdict
             \/ /\ signals' = [signals EXCEPT !.audit = "demoted"]
                /\ verdict' = Verdict("fail", FALSE)
       \/ verdict.v # "pass" /\ UNCHANGED <<signals, verdict>>
    /\ UNCHANGED <<setup, oracle, budgets, run, hasEvidence, reason, cancelled,
                   outcome, edits>>

-----------------------------------------------------------------------------
(* Settling the attempt                                                    *)

SettlePass ==
    /\ pc = "settle" /\ verdict.v = "pass"
    /\ pc' = "finally"
    /\ verified' = TRUE
    /\ objectiveOutcome' = verdict.obj
    /\ lastObjectiveFail' = FALSE
    /\ UNCHANGED <<setup, oracle, budgets, attempt, hasEvidence, reason,
                   cancelled, aborted, infra, thrown, edits>>

(* An answer counts as a success before the operator has said anything.    *)
SettleAnswer ==
    /\ pc = "settle" /\ verdict.v = "answered"
    /\ pc' = "asking"
    /\ reason' = "answer"
    /\ verified' = TRUE
    /\ objectiveOutcome' = FALSE
    /\ lastObjectiveFail' = FALSE
    /\ UNCHANGED <<setup, oracle, budgets, attempt, hasEvidence, cancelled,
                   aborted, infra, thrown, edits>>

SettleInconclusive ==
    /\ pc = "settle" /\ verdict.v = "inconclusive"
    /\ pc' = "asking"
    /\ reason' = "inconclusive"
    /\ lastObjectiveFail' = FALSE
    /\ UNCHANGED <<setup, oracle, budgets, attempt, hasEvidence, cancelled,
                   verified, aborted, objectiveOutcome, infra, thrown, edits>>

(* Two failures with near-identical evidence in a row are a stall.         *)
SettleFail ==
    /\ pc = "settle" /\ verdict.v = "fail"
    /\ lastObjectiveFail' = verdict.obj
    /\ hasEvidence' = TRUE
    /\ \/ pc' = "loop"
       \/ hasEvidence /\ pc' = "stalled"
    /\ UNCHANGED <<setup, oracle, budgets, attempt, reason, cancelled,
                   verified, aborted, objectiveOutcome, infra, thrown, edits>>

(* Mutation: the policy's ceiling is not looked at. *)
NegotiatedBudgetUncapped == IF attempts >= budget THEN budget + 1 ELSE budget

(* A negotiated continue on the final attempt earns one more, up to the    *)
(* policy's ceiling.                                                       *)
NegotiatedBudget ==
    IF attempts >= budget /\ budget < MaxBudget THEN budget + 1 ELSE budget

NegotiateStall ==
    /\ pc = "stalled"
    /\ \/ /\ pc' = "asking"
          /\ reason' = "stall"
          /\ UNCHANGED budget
       \/ /\ pc' = "loop"
          /\ budget' = NegotiatedBudget
          /\ UNCHANGED reason
    /\ UNCHANGED <<setup, oracle, attempts, operatorGrants, attempt,
                   hasEvidence, cancelled, outcome, edits>>

AfterLoopCancelled ==
    /\ pc = "after" /\ cancelled
    /\ pc' = "finally"
    /\ aborted' = TRUE
    /\ UNCHANGED <<setup, oracle, budgets, attempt, hasEvidence, reason,
                   cancelled, verified, objectiveOutcome, lastObjectiveFail,
                   infra, thrown, edits>>

AfterLoopExhausted ==
    /\ pc = "after" /\ ~cancelled
    /\ pc' = "asking"
    /\ reason' = "exhausted"
    /\ UNCHANGED <<setup, oracle, budgets, attempt, hasEvidence, cancelled,
                   outcome, edits>>

-----------------------------------------------------------------------------
(* The operator's decision (escalate)                                      *)

Approve ==
    /\ pc = "asking" /\ ~cancelled
    /\ pc' = "finally"
    /\ verified' = TRUE
    /\ UNCHANGED <<setup, oracle, budgets, attempt, hasEvidence, reason,
                   cancelled, aborted, objectiveOutcome, lastObjectiveFail,
                   infra, thrown, edits>>

(* Mutation: a reverted answer stays verified. *)
RevertKeepingVerified ==
    /\ pc = "asking" /\ ~cancelled /\ canRevert
    /\ pc' = "finally"
    /\ aborted' = TRUE
    /\ edits' \in {edits, edits \ {"root", "tree"}}
    /\ UNCHANGED <<setup, oracle, budgets, attempt, hasEvidence, reason,
                   cancelled, verified, objectiveOutcome, lastObjectiveFail,
                   infra, thrown>>

(* Reverting restores the run's tree; a failed restore is reported and the *)
(* episode ends all the same.                                              *)
Revert ==
    /\ pc = "asking" /\ ~cancelled /\ canRevert
    /\ pc' = "finally"
    /\ verified' = FALSE
    /\ aborted' = TRUE
    /\ edits' \in {edits, edits \ {"root", "tree"}}
    /\ UNCHANGED <<setup, oracle, budgets, attempt, hasEvidence, reason,
                   cancelled, objectiveOutcome, lastObjectiveFail, infra, thrown>>

(* An answer stands even when the operator walks away from it. *)
AbortReply ==
    /\ pc' = "finally"
    /\ aborted' = (reason # "answer")
    /\ UNCHANGED <<setup, oracle, budgets, attempt, hasEvidence, reason,
                   cancelled, verified, objectiveOutcome, lastObjectiveFail,
                   infra, thrown, edits>>

Abort == pc = "asking" /\ ~cancelled /\ AbortReply

(* Mutation: a pending escalation does not listen to the token. *)
CancelledAskUnheard == pc = "asking" /\ cancelled /\ UNCHANGED vars

(* The episode's token resolves a pending escalation as 'abort', so a      *)
(* parked judgment can never hang a cancelled episode.                     *)
CancelledAsk == pc = "asking" /\ cancelled /\ AbortReply

GrantsAttempt(note) ==
    \/ reason = "exhausted"
    \/ note /\ reason # "stall" /\ attempts >= budget

(* An instruction may be turned into a counterexample test, which then is  *)
(* the acceptance set, also where there was none.                          *)
Reconciled(note) ==
    IF note /\ reason # "answer" THEN {acceptance, "ready"} ELSE {acceptance}

RetryWith(note) ==
    /\ reason = "answer" => note
    /\ GrantsAttempt(note) => operatorGrants < GrantBound
    /\ pc' = "loop"
    /\ verified' = FALSE
    /\ IF GrantsAttempt(note)
       THEN budget' = budget + 1 /\ operatorGrants' = operatorGrants + 1
       ELSE /\ budget' = IF reason = "stall" THEN NegotiatedBudget ELSE budget
            /\ UNCHANGED operatorGrants
    /\ acceptance' \in Reconciled(note)
    /\ UNCHANGED <<setup, regression, attempts, attempt, hasEvidence, reason,
                   cancelled, aborted, objectiveOutcome, lastObjectiveFail,
                   infra, thrown, edits>>

Retry == pc = "asking" /\ ~cancelled /\ \E note \in BOOLEAN : RetryWith(note)

(* The chat's or the notification's cancel control, live from the creation *)
(* of the token until the finally block.                                   *)
Cancel ==
    /\ pc \notin {"open", "finally", "release", "ended"}
    /\ ~cancelled
    /\ cancelled' = TRUE
    /\ UNCHANGED <<pc, setup, oracle, budgets, attempt, hasEvidence, reason,
                   outcome, edits>>

-----------------------------------------------------------------------------
(* The finally block                                                       *)

(* closeRun stamps the run record, before the unified objective rule.      *)
CloseRun ==
    /\ pc = "finally"
    /\ pc' = "release"
    /\ UNCHANGED <<setup, oracle, budgets, attempt, hasEvidence, reason,
                   cancelled, outcome, edits>>

(* Mutation: every aborted episode is evidence against the arm. *)
FinalObjectiveBlamesAborts == aborted \/ objectiveOutcome

(* The arm is blamed only where the oracle rejected the fix. *)
FinalObjective == IF aborted THEN lastObjectiveFail ELSE objectiveOutcome

(* releaseRun drops the worktree with whatever is uncommitted in it; the   *)
(* label is settled and the episode_end record is written.                 *)
ReleaseAndEnd ==
    /\ pc = "release"
    /\ pc' = "ended"
    /\ edits' = edits \ {"tree"}
    /\ objectiveOutcome' = FinalObjective
    /\ UNCHANGED <<setup, oracle, budgets, attempt, hasEvidence, reason,
                   cancelled, verified, aborted, lastObjectiveFail, infra, thrown>>

Ended == pc = "ended" /\ UNCHANGED vars

-----------------------------------------------------------------------------

System ==
    \/ Open \/ GenerateOracle \/ BeginAttempt \/ LeaveLoop
    \/ HarnessBlocked \/ HarnessReturns \/ NegotiateDispute
    \/ Verify \/ RunAcceptance \/ RunRegression \/ AuditAndJudge
    \/ SettlePass \/ SettleAnswer \/ SettleInconclusive \/ SettleFail
    \/ NegotiateStall \/ AfterLoopCancelled \/ AfterLoopExhausted
    \/ CancelledAsk \/ CloseRun \/ ReleaseAndEnd

Operator == Approve \/ Revert \/ Abort \/ Retry \/ Cancel

Next == System \/ Operator \/ Ended

Spec == Init /\ [][Next]_vars

(* Every await of the loop settles: the harness has a watchdog, tests and  *)
(* replays have time limits, git has none but does not wait for anybody.   *)
(* The operator owes nothing.                                              *)
FairSpec == Spec /\ WF_vars(System)

-----------------------------------------------------------------------------
(* Properties                                                              *)

Larger(a, b) == IF a >= b THEN a ELSE b

(* No path of the loop runs an attempt the budget does not hold, and the   *)
(* budget grows past the policy's ceiling only by what the operator        *)
(* granted: stalls, disputes and retries can alternate in any order.       *)
BudgetDiscipline ==
    /\ attempts <= budget
    /\ budget <= Larger(InitialBudget, MaxBudget) + operatorGrants

(* An episode recorded verified and objective trains the bandit with a     *)
(* success.  It was earned: the agent's run succeeded and its files parse, *)
(* an oracle passed, no test set failed, and the audit let it through.     *)
Earned ==
    /\ run = "ok" /\ signals.gate = "parses" /\ signals.audit = "eligible"
    /\ signals.tests # "fail" /\ signals.regress # "fail"
    /\ signals.replay = "pass_objective" \/ signals.tests = "pass"

ObjectiveSuccessIsEarned ==
    pc = "ended" /\ verified /\ objectiveOutcome => Earned

(* An aborted episode trains the bandit with a failure only where a check  *)
(* rejected the last attempt that was checked: the files did not parse,    *)
(* the service failed its replay, or a test set failed.  A demotion by the *)
(* audit is no rejection of the arm.                                       *)
RejectedByACheck ==
    \/ signals.gate = "broken"
    \/ signals.replay = "fail"
    \/ signals.tests = "fail"
    \/ signals.regress = "fail"

NegativeLabelNeedsRejection ==
    pc = "ended" /\ aborted /\ objectiveOutcome =>
        RejectedByACheck /\ signals.audit # "demoted"

(* Once a check failed an attempt nothing after it in the chain turns the  *)
(* attempt into anything else: no test set, no audit, no judge rescues it. *)
(* Only verifying the next attempt gives a new verdict.                    *)
SoftSignalsNeverRescue ==
    [][verdict.v = "fail" /\ verdict'.v # "fail" => pc = "verify"]_vars

(* An episode whose function returns is verified or aborted, never both    *)
(* and, unless an exception unwound it, never neither.  The trajectory     *)
(* continuation after the finally block asks for neither, so it is not     *)
(* reached by any episode.                                                 *)
EveryEndIsDecided ==
    pc = "ended" => /\ ~(verified /\ aborted)
                    /\ thrown = (~verified /\ ~aborted)

(* A cancelled episode ends, wherever the cancel found it: also one whose  *)
(* judgment is parked in front of an operator who never answers.           *)
CancelEnds == cancelled ~> pc = "ended"

(* The loop waits for nobody but the operator, and does not spin.          *)
WaitsOnlyOnOperator == []<>(pc \in {"asking", "ended"})

(* What a comment of the loop says of an infra stop: it is not negative    *)
(* evidence, lastObjectiveFail stays false and the bandit learns nothing.  *)
InfraNeverBlames == pc = "ended" /\ infra => ~objectiveOutcome

(* What the isolation module says of a run's branch: the worktree is       *)
(* scratch, the branch it leaves behind is the deliverable.  Edits that    *)
(* verified outlive the release of the run.                                *)
DeliverableSurvives ==
    [][pc = "release" /\ verified /\ edits # {} => edits' # {}]_vars

=============================================================================
