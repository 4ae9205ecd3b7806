------------------------------ MODULE AutoPilot ------------------------------
(***************************************************************************)
(* One Auto-Pilot run: the loop of drive in autoPilot.ts over the policy   *)
(* of PilotPolicy.  It plans one action, awaits it, feeds the outcome back *)
(* and plans again, until every service is terminal and the post-green     *)
(* stages have settled.  The awaits are the steps; the user's Cancel may   *)
(* fall between any two of them.                                           *)
(***************************************************************************)
EXTENDS PilotPolicy

CONSTANTS
    InitialBudgets, \* the saved budgets
    Extras,         \* the top-ups the exhaustion prompt offers
    TopUpBound      \* the user's patience: top-ups ever granted

ASSUME PilotAssumption ==
    /\ NoService \notin Services
    /\ InitialBudgets \in Budgets
    /\ InitialBudgets.setups > 0 /\ InitialBudgets.perSignature > 0
    /\ InitialBudgets.total > 0
    /\ Extras \subseteq Nat \ {0}
    /\ TopUpBound \in Nat

VARIABLES
    pc,         \* the await the loop stands at
    discovered, \* isProjectDiscovered
    services,   \* the per-service ledger
    ledger,     \* the pipeline ledger
    budgets,
    action,     \* the action being taken
    signature,  \* the signature of the failure being handled
    cancelled,  \* token.isCancellationRequested
    topUps,     \* history: top-ups granted
    probed      \* history: a probe pass has run

pilotVars == <<pc, discovered, services, ledger, budgets, action, signature,
          cancelled, topUps, probed>>

Outcomes == {"verified", "library", "failed", "unattempted"}
PCs == {"plan", "discover", "stage", "setup", "bringup", "start", "failure",
        "topup", "fix", "done", "cancelled", "stopped"}
Over == {"done", "cancelled", "stopped"}
Actions == [kind : {"discover", "setup", "start", "done"} \cup Stages,
            service : Services \cup {NoService}]

PilotTypeOK ==
    /\ pc \in PCs
    /\ discovered \in BOOLEAN
    /\ services \in [Services -> ServiceStates]
    /\ ledger \in Ledgers
    /\ budgets \in Budgets
    /\ action \in Actions
    /\ signature \in Signatures
    /\ cancelled \in BOOLEAN
    /\ topUps \in Nat
    /\ probed \in BOOLEAN

(* buildServiceStates: what is on disk and what is alive right now.        *)
BuildServiceStates ==
    [Services -> {InitialServiceState(o, r) : o \in Outcomes, r \in BOOLEAN}]

PilotInit ==
    /\ pc = "plan"
    /\ discovered \in BOOLEAN
    /\ services \in BuildServiceStates
    /\ ~discovered => services = [s \in Services |-> NewService("needs-setup")]
    /\ ledger = InitialLedger
    /\ budgets = InitialBudgets
    /\ action = Action("done", NoService)
    /\ signature \in Signatures
    /\ cancelled = FALSE
    /\ topUps = 0
    /\ probed = FALSE

-----------------------------------------------------------------------------
(* Helpers                                                                 *)

Current == services[action.service]
Replace(svc) == services' = [services EXCEPT ![action.service] = svc]

(* The phase a plan is awaited at. *)
AwaitOf(kind) == IF kind \in Stages THEN "stage" ELSE kind

(* The list of services is empty until discovery has run. *)
Known == IF discovered THEN services ELSE [s \in Services |-> NewService("needs-setup")]

Fail == pc' = "failure" /\ signature' \in Signatures

-----------------------------------------------------------------------------
(* Planning                                                                *)

StopCancelled ==
    /\ pc = "plan" /\ cancelled
    /\ pc' = "cancelled"
    /\ UNCHANGED <<discovered, services, ledger, budgets, action, signature,
                   cancelled, topUps, probed>>

Plan ==
    /\ pc = "plan" /\ ~cancelled
    /\ ledger' = SettleUnreachableStages(Known, ledger)
    /\ action' = PlanPipelineAction(discovered, Known, ledger')
    /\ pc' = AwaitOf(action'.kind)
    /\ UNCHANGED <<discovered, services, budgets, signature, cancelled, topUps, probed>>

(* Discovery may fail, which ends the run; the services are read anew.     *)
Discover ==
    /\ pc = "discover"
    /\ \/ ~cancelled /\ pc' = "plan" /\ discovered' = TRUE /\ services' \in BuildServiceStates
       \/ cancelled /\ pc' = "plan" /\ UNCHANGED <<discovered, services>>
       \/ ~cancelled /\ pc' = "stopped" /\ UNCHANGED <<discovered, services>>
    /\ UNCHANGED <<ledger, budgets, action, signature, cancelled, topUps, probed>>

-----------------------------------------------------------------------------
(* The post-green stages                                                   *)

(* A pass that is done without issues, or had nothing to do.               *)
StageSettles ==
    /\ pc = "stage"
    /\ pc' = "plan"
    /\ \E found \in {"done", "skipped"} :
          ledger' = RearmProbesAfterExercise(ApplyStageOutcome(ledger, action.kind, found))
    /\ probed' = (probed \/ action.kind = "probes")
    /\ UNCHANGED <<discovered, services, budgets, action, signature, cancelled, topUps>>

(* A pass that failed, threw, or found issues. *)
StageFails ==
    /\ pc = "stage"
    /\ pc' = "plan"
    /\ \E g \in Signatures :
          ledger' = AfterStageFailure(ledger, action.kind, g, budgets)
    /\ probed' = (probed \/ action.kind = "probes")
    /\ UNCHANGED <<discovered, services, budgets, action, signature, cancelled, topUps>>

-----------------------------------------------------------------------------
(* Setting a service up                                                    *)

(* The wait for an idle harness ends early when the run is cancelled.      *)
WaitCancelled ==
    /\ pc \in {"setup", "fix"} /\ cancelled
    /\ pc' = "plan"
    /\ UNCHANGED <<discovered, services, ledger, budgets, action, signature,
                   cancelled, topUps, probed>>

(* The preflight is awaited after the wait, and a cancel that comes then is *)
(* seen only at the next plan.  Signed out or out of quota: given up for    *)
(* this run, nothing spent.                                                 *)
SetupBlocked ==
    /\ pc = "setup"
    /\ pc' = "plan"
    /\ Replace(With(Current, "gave-up"))
    /\ UNCHANGED <<discovered, ledger, budgets, action, signature, cancelled, topUps, probed>>

BeginSetup ==
    /\ pc = "setup"
    /\ pc' = "bringup"
    /\ Replace(NoteSetupAttempt(Current))
    /\ UNCHANGED <<discovered, ledger, budgets, action, signature, cancelled, topUps, probed>>

(* The service is no longer listed: given up as it was before the attempt. *)
ServiceDisappeared ==
    /\ pc = "setup"
    /\ pc' = "plan"
    /\ Replace(With(Current, "gave-up"))
    /\ UNCHANGED <<discovered, ledger, budgets, action, signature, cancelled, topUps, probed>>

BringupReturns ==
    /\ pc = "bringup"
    /\ \E found \in Outcomes :
          /\ Replace(ApplySetupOutcome(Current, found))
          /\ IF found \in {"verified", "library"}
             THEN pc' = "plan" /\ UNCHANGED signature
             ELSE Fail
    /\ UNCHANGED <<discovered, ledger, budgets, action, cancelled, topUps, probed>>

-----------------------------------------------------------------------------
(* Starting a service                                                      *)

StartSettles ==
    /\ pc = "start" /\ ~cancelled
    /\ pc' = "plan"
    /\ \E phase \in {"green", "library"} : Replace(With(Current, phase))
    /\ UNCHANGED <<discovered, ledger, budgets, action, signature, cancelled, topUps, probed>>

(* A replay that was cancelled says nothing. *)
StartCancelled ==
    /\ pc = "start" /\ cancelled
    /\ pc' = "plan"
    /\ UNCHANGED <<discovered, services, ledger, budgets, action, signature,
                   cancelled, topUps, probed>>

StartFails ==
    /\ pc = "start"
    /\ Fail
    /\ UNCHANGED <<discovered, services, ledger, budgets, action, cancelled, topUps, probed>>

-----------------------------------------------------------------------------
(* The failure path                                                        *)

(* The step found out that the harness cannot run at all. *)
FailureBlocked ==
    /\ pc = "failure"
    /\ pc' = "plan"
    /\ Replace(With(Current, "gave-up"))
    /\ UNCHANGED <<discovered, ledger, budgets, action, signature, cancelled, topUps, probed>>

(* The budget is spent; the user is asked for more. *)
BudgetSpent ==
    /\ pc = "failure"
    /\ ~MayFix(Current, action.kind, signature, budgets)
    /\ pc' = "topup"
    /\ UNCHANGED <<discovered, services, ledger, budgets, action, signature,
                   cancelled, topUps, probed>>

(* An episode is spent on this signature.  A harness that needs a human    *)
(* for every prompt cannot run it.                                         *)
SpendFix ==
    /\ pc = "failure"
    /\ MayFix(Current, action.kind, signature, budgets)
    /\ LET budgeted == [Current EXCEPT !.fixes = SpendOn(@, signature)]
       IN  \/ Replace(budgeted) /\ pc' = "fix"
           \/ Replace(With(budgeted, "gave-up")) /\ pc' = "plan"
    /\ UNCHANGED <<discovered, ledger, budgets, action, signature, cancelled, topUps, probed>>

(* The saved budgets rise by the answer, and by one setup attempt.         *)
Extended(extra) ==
    [setups |-> budgets.setups + 1,
     perSignature |-> budgets.perSignature + extra,
     total |-> budgets.total + extra]

TopUp ==
    /\ pc = "topup"
    /\ topUps < TopUpBound
    /\ topUps' = topUps + 1
    /\ \E extra \in Extras : budgets' = Extended(extra)
    /\ Replace(GrantMoreBudget(Current))
    /\ pc' = "plan"
    /\ UNCHANGED <<discovered, ledger, action, signature, cancelled, probed>>

DeclineTopUp ==
    /\ pc = "topup"
    /\ Replace(With(Current, "gave-up"))
    /\ pc' = "plan"
    /\ UNCHANGED <<discovered, ledger, budgets, action, signature, cancelled, topUps, probed>>

(* The fix episode ends, verified or not; the step is retried, unless the  *)
(* episode found out that the harness cannot run.  The episode does not    *)
(* hear the run's token, so a cancelled run still waits for it, or for the *)
(* judgment the episode has parked.                                        *)
FixReturns ==
    /\ pc = "fix"
    /\ pc' = "plan"
    /\ Replace(Current) \/ Replace(With(Current, "gave-up"))
    /\ UNCHANGED <<discovered, ledger, budgets, action, signature, cancelled, topUps, probed>>

Cancel ==
    /\ pc \notin Over /\ ~cancelled
    /\ cancelled' = TRUE
    /\ UNCHANGED <<pc, discovered, services, ledger, budgets, action, signature,
                   topUps, probed>>

Finished == pc \in Over /\ UNCHANGED pilotVars

-----------------------------------------------------------------------------

Drive ==
    \/ StopCancelled \/ Plan \/ Discover \/ StageSettles \/ StageFails
    \/ WaitCancelled \/ SetupBlocked \/ BeginSetup \/ ServiceDisappeared
    \/ BringupReturns \/ StartSettles \/ StartCancelled \/ StartFails
    \/ FailureBlocked \/ BudgetSpent \/ SpendFix \/ FixReturns

User == TopUp \/ DeclineTopUp \/ Cancel

PilotNext == Drive \/ User \/ Finished

PilotSpec == PilotInit /\ [][PilotNext]_pilotVars

(* The awaits that may be for a person, for as long as the person likes:   *)
(* discovery asks which agent to use; an episode parks its judgment, be it *)
(* the run's own (fix), one of a pass (stage) or another's that the wait   *)
(* for an idle harness stands behind (setup, fix); an agent in the chat    *)
(* panel waits for Enter (bringup); the exhaustion prompt asks (topup).    *)
AwaitsPerson == {"discover", "stage", "setup", "bringup", "fix", "topup"}

(* Those that do not hear the run's token: discovery has a token of its    *)
(* own, episodes, passes and the prompt have none.                         *)
AwaitsDeaf == {"discover", "stage", "fix", "topup"}

(* What the host does whatever people do.  A cancel ends the wait for an   *)
(* idle harness and bring-up; a replay has time limits.                    *)
Unattended ==
    \/ StopCancelled \/ Plan
    \/ pc = "setup" /\ WaitCancelled
    \/ cancelled /\ BringupReturns
    \/ StartSettles \/ StartCancelled \/ StartFails
    \/ FailureBlocked \/ BudgetSpent \/ SpendFix

(* Nothing is owed by a person: an await of AwaitsPerson may last for ever. *)
FairPilotSpec == PilotSpec /\ WF_pilotVars(Unattended)

-----------------------------------------------------------------------------
(* Properties                                                              *)

(* No service spends more setup attempts, episodes on one failure, or      *)
(* episodes in all, than the budgets in force, through any order of        *)
(* failures, signature shifts and top-ups; the stages neither.             *)
WithinBudget ==
    /\ \A s \in Services :
          /\ services[s].setups <= budgets.setups
          /\ \A g \in Signatures : services[s].fixes[g] <= budgets.perSignature
          /\ SumFunction(services[s].fixes) <= budgets.total
    /\ \A g \in Signatures : ledger.fixes[g] <= budgets.perSignature
    /\ SumFunction(ledger.fixes) <= budgets.total

(* A run that reports done has no service and no stage left that reads as  *)
(* outstanding work.                                                       *)
DoneMeansSettled ==
    pc = "done" =>
        /\ \A s \in Services : services[s].phase \in Terminal
        /\ ledger.probes # "pending" /\ ledger.exercise # "pending"

(* The run ends, or comes to stay at one await for a person who never      *)
(* answers: probes, exercise, retries and top-ups do not keep each other   *)
(* going, whatever the passes and episodes return.  A cancelled run stays  *)
(* only where the token is not heard.                                      *)
PilotSettles ==
    <>[](pc \in Over \cup IF cancelled THEN AwaitsDeaf ELSE AwaitsPerson)

(* Probes are settled as skipped by the first plan of a run in which no    *)
(* service is green yet, and what makes up for it is the re-arm after an   *)
(* exercise pass: a run ends with a green service that was never probed    *)
(* only if its exercise pass did not end done.                             *)
GreenIsProbed ==
    /\ pc = "done" /\ ~probed
    /\ \E s \in Services : services[s].phase = "green"
    => ledger.exercise # "done"

=============================================================================
