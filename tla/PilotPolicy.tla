----------------------------- MODULE PilotPolicy -----------------------------
(***************************************************************************)
(* The pure half of Auto-Pilot (autoPilotMachine.ts): the scheduler, the   *)
(* budget policies and the ledger of the post-green stages.  A service is  *)
(* [phase, setups, fixes], the pipeline ledger is                          *)
(* [probes, exercise, fixes, rearmed]; fixes counts episodes per failure   *)
(* signature.                                                              *)
(***************************************************************************)
EXTENDS Naturals, FiniteSets, Functions

CONSTANTS
    Services,    \* service names; their order is that of services.json
    Signatures   \* failure signatures, as many as a run meets

ASSUME PolicyAssumption ==
    /\ Services \subseteq Nat
    /\ Signatures # {} /\ IsFiniteSet(Signatures)

Terminal == {"green", "library", "gave-up"}
Phases == {"needs-setup", "needs-start"} \cup Terminal
StagePhases == {"pending", "done", "failed", "skipped"}
Stages == {"probes", "exercise"}

Spend == [Signatures -> Nat]
NoSpend == [g \in Signatures |-> 0]

ServiceStates == [phase : Phases, setups : Nat, fixes : Spend]
Ledgers == [probes : StagePhases, exercise : StagePhases, fixes : Spend, rearmed : BOOLEAN]
Budgets == [setups : Nat, perSignature : Nat, total : Nat]

-----------------------------------------------------------------------------
(* Services                                                                *)

NewService(phase) == [phase |-> phase, setups |-> 0, fixes |-> NoSpend]

(* What the outcome on disk and a live session say of a service at start.  *)
InitialServiceState(setup, isRunning) ==
    CASE setup = "library" -> NewService("library")
      [] setup = "verified" /\ isRunning -> NewService("green")
      [] setup = "verified" /\ ~isRunning -> NewService("needs-start")
      [] OTHER -> NewService("needs-setup")

With(svc, phase) == [svc EXCEPT !.phase = phase]

NoteSetupAttempt(svc) == [svc EXCEPT !.setups = @ + 1]

(* A failed setup stays needs-setup; the budget decides later.             *)
ApplySetupOutcome(svc, found) ==
    CASE found = "verified" -> With(svc, "needs-start")
      [] found = "library" -> With(svc, "library")
      [] OTHER -> With(svc, "needs-setup")

(* Back in the game, with nothing spent. *)
GrantMoreBudget(svc) ==
    [svc EXCEPT !.setups = 0, !.fixes = NoSpend,
                !.phase = IF @ = "gave-up" THEN "needs-setup" ELSE @]

-----------------------------------------------------------------------------
(* Budgets                                                                 *)

(* Mutation: no absolute cap, so a failure whose signature shifts at every *)
(* attempt is fixed for as long as there are signatures.                   *)
MaySpendNoCap(fixes, signature, b) == fixes[signature] < b.perSignature

MaySpend(fixes, signature, b) ==
    fixes[signature] < b.perSignature /\ SumFunction(fixes) < b.total

SpendOn(fixes, signature) == [fixes EXCEPT ![signature] = @ + 1]

(* Whether a failed step gets a fix episode; otherwise it is given up.     *)
MayFix(svc, step, signature, b) ==
    /\ step = "setup" => svc.setups < b.setups
    /\ MaySpend(svc.fixes, signature, b)

-----------------------------------------------------------------------------
(* The pipeline ledger                                                     *)

InitialLedger ==
    [probes |-> "pending", exercise |-> "pending", fixes |-> NoSpend, rearmed |-> FALSE]

(* Mutation: the flag that bounds the re-arm is ignored. *)
RearmProbesForever(ledger) ==
    IF ledger.probes = "skipped" /\ ledger.exercise = "done"
    THEN [ledger EXCEPT !.probes = "pending", !.rearmed = TRUE]
    ELSE ledger

(* Mutation: skipped probes stay skipped. *)
RearmProbesNever(ledger) == ledger

(* Skipped probes get one second chance once exercise produced traffic.    *)
RearmProbesAfterExercise(ledger) ==
    IF ~ledger.rearmed /\ ledger.probes = "skipped" /\ ledger.exercise = "done"
    THEN [ledger EXCEPT !.probes = "pending", !.rearmed = TRUE]
    ELSE ledger

AnyGreen(svcs) == \E s \in Services : svcs[s].phase = "green"

(* Mutation: nothing settles the probes of a workspace without a server. *)
SettleNothing(svcs, ledger) == ledger

(* Probes that no live service will feed are skipped.                      *)
SettleUnreachableStages(svcs, ledger) ==
    IF ~AnyGreen(svcs) /\ ledger.probes = "pending"
    THEN [ledger EXCEPT !.probes = "skipped"] ELSE ledger

ApplyStageOutcome(ledger, stage, found) == [ledger EXCEPT ![stage] = found]

(* A failed stage is retried while there is budget for its signature.      *)
AfterStageFailure(ledger, stage, signature, b) ==
    IF MaySpend(ledger.fixes, signature, b)
    THEN [ledger EXCEPT ![stage] = "pending", !.fixes = SpendOn(@, signature)]
    ELSE [ledger EXCEPT ![stage] = "failed"]

-----------------------------------------------------------------------------
(* The scheduler                                                           *)

First(S) == CHOOSE s \in S : \A t \in S : s <= t

In(svcs, phase) == {s \in Services : svcs[s].phase = phase}

Action(kind, service) == [kind |-> kind, service |-> service]
NoService == 0

(* Setups drain before any start. *)
PlanNextAction(discovered, svcs) ==
    CASE ~discovered -> Action("discover", NoService)
      [] discovered /\ In(svcs, "needs-setup") # {} ->
             Action("setup", First(In(svcs, "needs-setup")))
      [] discovered /\ In(svcs, "needs-setup") = {} /\ In(svcs, "needs-start") # {} ->
             Action("start", First(In(svcs, "needs-start")))
      [] OTHER -> Action("done", NoService)

(* A setup that is being retried does not starve the testing of services   *)
(* that are up.                                                            *)
ExercisesEarly(act, svcs, ledger) ==
    /\ ledger.exercise = "pending"
    /\ act.kind = "setup"
    /\ svcs[act.service].setups > 0
    /\ AnyGreen(svcs)

(* Services drain first, then probes, which need something green, then     *)
(* exercise, which does not.                                               *)
PlanPipelineAction(discovered, svcs, ledger) ==
    LET act == PlanNextAction(discovered, svcs)
    IN  CASE ExercisesEarly(act, svcs, ledger) -> Action("exercise", NoService)
          [] ~ExercisesEarly(act, svcs, ledger) /\ act.kind # "done" -> act
          [] act.kind = "done" /\ AnyGreen(svcs) /\ ledger.probes = "pending" ->
                 Action("probes", NoService)
          [] act.kind = "done" /\ ~(AnyGreen(svcs) /\ ledger.probes = "pending")
                 /\ ledger.exercise = "pending" -> Action("exercise", NoService)
          [] OTHER -> Action("done", NoService)

=============================================================================
