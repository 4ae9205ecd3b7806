----------------------------- MODULE PolicyLedger -----------------------------
(***************************************************************************)
(* What the episode ledger teaches the policy (episodePolicyUpdater.ts).   *)
(* Every window of the machine appends to one ledger: starts and ends of   *)
(* episodes, retractions, and verdicts of measured optimisations, which    *)
(* may come long after the end.  After an end and after a verdict a window *)
(* loads the policy, reads the whole ledger, computes the policy anew and  *)
(* saves it; nothing keeps two windows from doing so at once.              *)
(*                                                                         *)
(* Rewards, attempt counts, the attribution and the calibration table are  *)
(* computed beside it and left out: the arm that is preferred depends on   *)
(* the verified and objective bits alone.                                  *)
(***************************************************************************)
EXTENDS Integers, Sequences, FiniteSets, SequencesExt

CONSTANTS
    Episodes, Rows, Windows,
    ArmCount,               \* arms are 0..ArmCount-1
    PriorAlpha, PriorBeta,  \* ts_prior_alpha, ts_prior_beta
    MinPromotionN,
    DeltaNum, DeltaDen,     \* promotion_delta, as a fraction
    MaxEvents,              \* bound: lines of the ledger
    None

Arms == 0..(ArmCount - 1)

ASSUME LedgerAssumption ==
    /\ IsFiniteSet(Episodes) /\ IsFiniteSet(Rows) /\ IsFiniteSet(Windows)
    /\ ArmCount \in Nat \ {0} /\ PriorAlpha \in Nat \ {0} /\ PriorBeta \in Nat \ {0}
    /\ MinPromotionN \in Nat /\ DeltaNum \in Nat /\ DeltaDen \in Nat \ {0}
    /\ MaxEvents \in Nat

MeasuredVerdicts == {"proven", "regressed", "inconclusive"}
Outcomes == [arm : Arms, verified : BOOLEAN, objective : BOOLEAN]
Policies == [posteriors : [Arms -> [alpha : Nat, beta : Nat]], preferred : Arms]

ASSUME NoneAssumption ==
    None \notin Arms /\ None \notin MeasuredVerdicts /\ None \notin Outcomes /\ None \notin Policies

Event ==
    [type : {"start"}, id : Episodes, arm : Arms]
    \cup [type : {"end"}, id : Episodes, verified : BOOLEAN, objective : BOOLEAN]
    \cup [type : {"retraction"}, id : Episodes]
    \cup [type : {"verdict"}, id : Episodes, row : Rows, verdict : MeasuredVerdicts]
    \cup [type : {"torn", "lost"}]   \* lines that do not parse

VARIABLES
    ledger,     \* the lines of episodes.jsonl
    policy,     \* the policy file: the posteriors and the preferred arm
    stage,      \* each window: "idle", "due", "loaded" or "computed"
    held        \* the policy a window has loaded, or computed

ledgerVars == <<ledger, policy, stage, held>>

(***************************************************************************)
(* Reading the ledger                                                      *)
(***************************************************************************)
NothingRead == [
    arm |-> [e \in Episodes |-> None],
    end |-> [e \in Episodes |-> None],
    retracted |-> {},
    verdict |-> [e \in Episodes |-> [r \in Rows |-> None]]]

\* An end counts for the arm of the start read before it; the first end wins.
TakeEnd(read, event) ==
    IF read.arm[event.id] = None \/ read.end[event.id] # None THEN read
    ELSE [read EXCEPT !.end[event.id] =
            [arm |-> read.arm[event.id], verified |-> event.verified, objective |-> event.objective]]

\* One line; a line that does not parse is skipped.
TakeLine(read, event) ==
    CASE event.type = "start" -> [read EXCEPT !.arm[event.id] = event.arm]
      [] event.type = "end" -> TakeEnd(read, event)
      [] event.type = "retraction" -> [read EXCEPT !.retracted = @ \cup {event.id}]
      [] event.type = "verdict" -> [read EXCEPT !.verdict[event.id][event.row] = event.verdict]
      [] OTHER -> read

Failed(end) == [end EXCEPT !.verified = FALSE, !.objective = TRUE]
Proven(end) == [end EXCEPT !.verified = TRUE, !.objective = TRUE]

\* The measured verdicts of an episode relabel it; a failure outweighs.
Measured(end, verdicts) ==
    LET seen == {verdicts[r] : r \in Rows}
    IN  IF "regressed" \in seen THEN Failed(end)
        ELSE IF "proven" \in seen THEN Proven(end)
        ELSE end

\* Mutant: the verdict of a measurement is applied last.
RelabelMeasuredLast(read, e) ==
    Measured(IF e \in read.retracted THEN Failed(read.end[e]) ELSE read.end[e], read.verdict[e])

\* A retraction outranks them all.
Relabel(read, e) ==
    IF e \in read.retracted THEN Failed(read.end[e])
    ELSE Measured(read.end[e], read.verdict[e])

\* The lines are taken in the order of the file.
ReadLines(lines) ==
    LET read[n \in 0..Len(lines)] ==
            IF n = 0 THEN NothingRead ELSE TakeLine(read[n - 1], lines[n])
    IN  read[Len(lines)]

\* readCompletedEpisodes
CompletedEpisodes(lines) ==
    LET read == ReadLines(lines)
    IN  [e \in {x \in Episodes : read.end[x] # None} |-> Relabel(read, e)]

(***************************************************************************)
(* The policy                                                              *)
(***************************************************************************)
\* The episodes that train an arm.
Trials(episodes, a) == {e \in DOMAIN episodes : episodes[e].objective /\ episodes[e].arm = a}
Successes(episodes, a) == {e \in Trials(episodes, a) : episodes[e].verified}
Pulls(episodes, a) == Cardinality(Trials(episodes, a))

Posterior(episodes, a) == [
    alpha |-> PriorAlpha + Cardinality(Successes(episodes, a)),
    beta  |-> PriorBeta + Cardinality(Trials(episodes, a) \ Successes(episodes, a))]

\* mean p - mean q >= num/den, for means alpha/(alpha+beta)
LeadsBy(p, q, num, den) ==
    LET P == p.alpha + p.beta
        Q == q.alpha + q.beta
    IN  den * (p.alpha * Q - q.alpha * P) >= num * P * Q

Best(posteriors) ==
    CHOOSE a \in Arms :
        /\ \A b \in Arms : LeadsBy(posteriors[a], posteriors[b], 0, 1)
        /\ \A b \in Arms : b < a => ~LeadsBy(posteriors[b], posteriors[a], 0, 1)

\* Mutant: the best arm is preferred, however little it was tried.
PreferBest(incumbent, posteriors, episodes) == Best(posteriors)

\* The promotion gates: the incumbent stays unless the best arm was tried often
\* enough, and leads by enough.
Prefer(incumbent, posteriors, episodes) ==
    LET best == Best(posteriors)
    IN  IF /\ Pulls(episodes, best) >= MinPromotionN
           /\ LeadsBy(posteriors[best], posteriors[incumbent], DeltaNum, DeltaDen)
        THEN best ELSE incumbent

\* computeUpdatedPolicy
Updated(current, episodes) ==
    IF DOMAIN episodes = {} THEN current
    ELSE LET posteriors == [a \in Arms |-> Posterior(episodes, a)]
         IN  [posteriors |-> posteriors, preferred |-> Prefer(current.preferred, posteriors, episodes)]

Priors == [posteriors |-> [a \in Arms |-> [alpha |-> PriorAlpha, beta |-> PriorBeta]], preferred |-> 0]

LedgerInit ==
    /\ ledger = <<>>
    /\ policy = Priors
    /\ stage = [w \in Windows |-> "idle"]
    /\ held = [w \in Windows |-> None]

(***************************************************************************)
(* Appending                                                               *)
(***************************************************************************)
Has(e, type) == \E i \in 1..Len(ledger) : ledger[i].type = type /\ ledger[i].id = e
IsTorn(lines) == lines # <<>> /\ Last(lines).type = "torn"
Lines(type) == {i \in 1..Len(ledger) : ledger[i].type = type}

\* A line appended to one that was cut off has no line of its own.
Swallowed == [ledger EXCEPT ![Len(ledger)] = [type |-> "lost"]]

AppendLine(event) ==
    /\ Len(ledger) < MaxEvents
    /\ ledger' = IF IsTorn(ledger) THEN Swallowed ELSE Append(ledger, event)

\* appendEpisodeEvent by a window, which may go on to update the policy.
Record(w, event, next) ==
    /\ stage[w] = "idle"
    /\ AppendLine(event)
    /\ stage' = [stage EXCEPT ![w] = next]
    /\ UNCHANGED <<policy, held>>

EpisodeStarts(w, e) ==
    /\ ~Has(e, "start")
    /\ \E a \in Arms : Record(w, [type |-> "start", id |-> e, arm |-> a], "idle")

\* A second end of an episode is not expected, and does no harm.
EpisodeEnds(w, e) ==
    /\ Has(e, "start")
    /\ \E v, o \in BOOLEAN :
          Record(w, [type |-> "end", id |-> e, verified |-> v, objective |-> o], "due")

\* A disputed outcome is retracted; the policy is not updated for it.
Retracts(w, e) ==
    /\ Has(e, "end")
    /\ Record(w, [type |-> "retraction", id |-> e], "idle")

VerdictResolves(w, e) ==
    /\ Has(e, "start")
    /\ \E r \in Rows, v \in MeasuredVerdicts :
          Record(w, [type |-> "verdict", id |-> e, row |-> r, verdict |-> v], "due")

\* A window dies in the middle of a line.
Tears(w) == ~IsTorn(ledger) /\ Record(w, [type |-> "torn"], "idle")

(***************************************************************************)
(* maybeUpdateEpisodePolicy                                                *)
(***************************************************************************)
UpdateLoads(w) ==
    /\ stage[w] = "due" /\ stage' = [stage EXCEPT ![w] = "loaded"]
    /\ held' = [held EXCEPT ![w] = policy]
    /\ UNCHANGED <<ledger, policy>>

UpdateReads(w) ==
    /\ stage[w] = "loaded" /\ stage' = [stage EXCEPT ![w] = "computed"]
    /\ held' = [held EXCEPT ![w] = Updated(@, CompletedEpisodes(ledger))]
    /\ UNCHANGED <<ledger, policy>>

\* The policy_updated event it appends teaches nothing; it may only end a line
\* that was cut off.
UpdateSaves(w) ==
    /\ stage[w] = "computed" /\ stage' = [stage EXCEPT ![w] = "idle"]
    /\ policy' = held[w]
    /\ held' = [held EXCEPT ![w] = None]
    /\ ledger' = IF IsTorn(ledger) THEN Swallowed ELSE ledger

LedgerNext ==
    \E w \in Windows :
        \/ \E e \in Episodes :
              EpisodeStarts(w, e) \/ EpisodeEnds(w, e) \/ Retracts(w, e) \/ VerdictResolves(w, e)
        \/ Tears(w)
        \/ UpdateLoads(w) \/ UpdateReads(w) \/ UpdateSaves(w)

LedgerSpec == LedgerInit /\ [][LedgerNext]_ledgerVars

-------------------------------------------------------------------------------
(***************************************************************************)
(* Properties                                                              *)
(***************************************************************************)
\* Every variable has its type.
LedgerTypeOK ==
    /\ ledger \in Seq(Event)
    /\ policy \in Policies
    /\ held \in [Windows -> Policies \cup {None}]
    /\ stage \in [Windows -> {"idle", "due", "loaded", "computed"}]
    /\ \A w \in Windows : held[w] = None <=> stage[w] \in {"idle", "due"}

(* What the lines say of an episode, without reading them in order.        *)
Ends(e) == {i \in Lines("end") : ledger[i].id = e
                /\ \E j \in Lines("start") : j < i /\ ledger[j].id = e}
First(S) == CHOOSE i \in S : \A j \in S : i <= j
Latest(S) == CHOOSE i \in S : \A j \in S : i >= j
VerdictsOn(e, r) == {i \in Lines("verdict") : ledger[i].id = e /\ ledger[i].row = r}
SomeRowSays(e, v) == \E r \in Rows : VerdictsOn(e, r) # {} /\ ledger[Latest(VerdictsOn(e, r))].verdict = v

FailedByEvidence(e) == Has(e, "retraction") \/ SomeRowSays(e, "regressed")
ProvenByEvidence(e) == ~FailedByEvidence(e) /\ SomeRowSays(e, "proven")

\* What the bandit is trained on is what the ledger says, in whatever order
\* windows wrote it: an episode counts once, by its first end; a retraction
\* outranks everything, before or after; then a regressed row, then a proven
\* one, each by the row's latest verdict; and what no oracle decided is left
\* non-objective.
LabelsFollowEvidence ==
    LET episodes == CompletedEpisodes(ledger)
    IN  /\ DOMAIN episodes = {e \in Episodes : Ends(e) # {}}
        /\ \A e \in DOMAIN episodes :
              LET end == ledger[First(Ends(e))]
              IN  /\ episodes[e].objective <=>
                        end.objective \/ FailedByEvidence(e) \/ ProvenByEvidence(e)
                  /\ episodes[e].verified <=>
                        ProvenByEvidence(e) \/ (end.verified /\ ~FailedByEvidence(e))

\* The arm that greedy readers serve has earned it, even when two windows update
\* at once and the older result is saved last: it is the first one, or at some
\* time the ledger held enough objective outcomes of it, and none did better.
PreferenceEarned ==
    policy.preferred # 0 =>
        \E n \in 1..Len(ledger) :
            LET episodes == CompletedEpisodes(SubSeq(ledger, 1, n))
            IN  /\ Pulls(episodes, policy.preferred) >= MinPromotionN
                /\ \A a \in Arms :
                      LeadsBy(Posterior(episodes, policy.preferred), Posterior(episodes, a), 0, 1)
===============================================================================
