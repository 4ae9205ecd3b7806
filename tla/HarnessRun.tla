------------------------------ MODULE HarnessRun ------------------------------
(***************************************************************************)
(* Calls of the agent CLI (harnessRunner.ts): prompts of episodes and      *)
(* questions (runHarnessPrompt), engine tasks (runHarnessTask) and         *)
(* verification agents (dispatchAgentPrompt).  Each spawns a child that    *)
(* may succeed, fail, be refused by its vendor or hang; timers, a watchdog *)
(* and the operator end it early, and its exit arrives later, as an event. *)
(*                                                                         *)
(* All calls share the count of runs in flight and, per CLI, the registry: *)
(* whether it is blocked (a refusal was seen) and whether its sign-in was  *)
(* probed and passed.  One CLI with a probe is modelled; hand-offs to an   *)
(* editor's own chat are left out.                                         *)
(***************************************************************************)
EXTENDS Integers, FiniteSets

CONSTANTS
    Calls,
    KindOf,         \* the kind of each call: "prompt", "task" or "agent"
    MaxSignOuts,    \* bound: times the operator signs out of the CLI
    None

ASSUME HarnessAssumption ==
    /\ IsFiniteSet(Calls)
    /\ KindOf \in [Calls -> {"prompt", "task", "agent"}]
    /\ MaxSignOuts \in Nat
    /\ None \notin {"asking", "in", "out", "unclear",
                    "ok", "failed", "refused", "cancelled", "hung", "timeout"}

VARIABLES
    pc,         \* each call: "new", "probing", "fetching", "running" or "done"
    result,     \* what a call that is done resolved with
    probe,      \* what the sign-in probe of a call saw
    child,      \* the process of a call: "none", "alive", "hung" or "gone"
    exit,       \* the exit of a child that has not been handled yet
    kill,       \* calls with a SIGTERM sent and a SIGKILL on its timer
    token,      \* calls the operator cancelled
    inFlight,
    blocked,    \* harnessBlocks
    passed,     \* preflightPassed
    signedIn,   \* external: the CLI's sign-in
    signOuts,
    outSeen     \* calls during which the CLI was signed out (history)

registry == <<blocked, passed>>
process == <<child, exit, kill>>
account == <<signedIn, signOuts>>
vars == <<pc, result, probe, process, token, inFlight, registry, account, outSeen>>

Counted(r) == KindOf[r] # "agent"
Living(r) == child[r] \in {"alive", "hung"}

Init ==
    /\ pc = [r \in Calls |-> "new"]
    /\ result = [r \in Calls |-> None]
    /\ probe = [r \in Calls |-> None]
    /\ child = [r \in Calls |-> "none"]
    /\ exit = [r \in Calls |-> None]
    /\ kill = {} /\ token = {}
    /\ inFlight = 0
    /\ blocked = FALSE /\ passed = FALSE
    /\ signedIn \in BOOLEAN /\ signOuts = 0
    /\ outSeen = {}

(***************************************************************************)
(* The registry                                                            *)
(***************************************************************************)
\* Mutant: a block leaves the passed probe in the cache.
MarkBlockedOnly == blocked' = TRUE /\ passed' = passed

MarkBlocked == blocked' = TRUE /\ passed' = FALSE

\* clearHarnessBlock, after a run that succeeded.
ClearBlock == IF blocked THEN blocked' = FALSE /\ passed' = FALSE ELSE UNCHANGED registry

(***************************************************************************)
(* Settling                                                                *)
(***************************************************************************)
Move(r, stage) == pc' = [pc EXCEPT ![r] = stage]

\* The call resolves.
Return(r, value) == Move(r, "done") /\ result' = [result EXCEPT ![r] = value]

\* Mutant: every event settles.
SettleAgain(r, value) ==
    /\ Return(r, value)
    /\ inFlight' = IF Counted(r) /\ inFlight > 0 THEN inFlight - 1 ELSE inFlight

\* settle: the first of exit, watchdog and timer resolves the call and takes
\* it off the count.
Settle(r, value) ==
    IF pc[r] = "running"
    THEN /\ Return(r, value)
         /\ inFlight' = IF Counted(r) THEN inFlight - 1 ELSE inFlight
    ELSE UNCHANGED <<pc, result, inFlight>>

(***************************************************************************)
(* Starting                                                                *)
(***************************************************************************)
\* The child is spawned; a token that was cancelled before kills it at once.
Spawn(r) ==
    /\ Move(r, "running")
    /\ child' = [child EXCEPT ![r] = "alive"]
    /\ kill' = IF r \in token THEN kill \cup {r} ELSE kill
    /\ UNCHANGED <<result, exit>>

\* Past the preflight: a prompt spawns (or fails to, and is off the count
\* again), a task asks its engine for the instructions.
Start(r) ==
    \/ /\ KindOf[r] = "task"
       /\ Move(r, "fetching") /\ inFlight' = inFlight + 1
       /\ UNCHANGED <<result, process>>
    \/ /\ KindOf[r] # "task"
       /\ Spawn(r)
       /\ inFlight' = IF Counted(r) THEN inFlight + 1 ELSE inFlight
    \/ /\ KindOf[r] # "task"
       /\ Return(r, "failed")
       /\ UNCHANGED <<inFlight, process>>

Call(r) ==
    /\ pc[r] = "new"
    /\ CASE KindOf[r] = "agent" ->
              /\ IF blocked THEN Return(r, "refused") /\ UNCHANGED <<inFlight, process>>
                 ELSE Start(r)
              /\ UNCHANGED probe
         [] KindOf[r] = "prompt" /\ ~blocked -> Start(r) /\ UNCHANGED probe
         \* preflightHarnessAuth trusts the cache, and the block is still there.
         [] KindOf[r] = "prompt" /\ blocked /\ passed ->
              Return(r, "refused") /\ UNCHANGED <<inFlight, process, probe>>
         [] KindOf[r] = "task" /\ passed -> Start(r) /\ UNCHANGED probe
         [] OTHER ->
              /\ Move(r, "probing") /\ probe' = [probe EXCEPT ![r] = "asking"]
              /\ UNCHANGED <<result, inFlight, process>>
    /\ outSeen' = IF signedIn THEN outSeen ELSE outSeen \cup {r}
    /\ UNCHANGED <<token, registry, account>>

\* The CLI answers its status probe, or does not within the time it has.
ProbeAnswers(r) ==
    /\ probe[r] = "asking"
    /\ \E a \in {IF signedIn THEN "in" ELSE "out", "unclear"} :
          probe' = [probe EXCEPT ![r] = a]
    /\ UNCHANGED <<pc, result, process, token, inFlight, registry, account, outSeen>>

\* preflightHarnessAuth returns.  An unclear probe lifts the block: the run
\* itself decides.
ProbeReturns(r) ==
    /\ probe[r] \in {"in", "out", "unclear"}
    /\ probe' = [probe EXCEPT ![r] = None]
    /\ IF probe[r] = "out"
       THEN MarkBlocked /\ Return(r, "refused") /\ UNCHANGED <<inFlight, process>>
       ELSE /\ blocked' = FALSE
            /\ passed' = (passed \/ probe[r] = "in")
            /\ Start(r)
    /\ UNCHANGED <<token, account, outSeen>>

Fetched(r) ==
    /\ pc[r] = "fetching"
    /\ Spawn(r)
    /\ UNCHANGED <<probe, token, inFlight, registry, account, outSeen>>

\* Mutant: the count is given back by the exit of the child only.
FetchFailsCounted(r) ==
    /\ pc[r] = "fetching"
    /\ Return(r, "failed")
    /\ UNCHANGED <<inFlight, probe, process, token, registry, account, outSeen>>

\* No instructions, or no child: the finally of runHarnessTask.
FetchFails(r) ==
    /\ pc[r] = "fetching"
    /\ Return(r, "failed") /\ inFlight' = inFlight - 1
    /\ UNCHANGED <<probe, process, token, registry, account, outSeen>>

(***************************************************************************)
(* The child                                                               *)
(***************************************************************************)
\* A refusal takes a vendor that was signed out at some time of the call.
ChildExits(r) ==
    /\ child[r] = "alive"
    /\ child' = [child EXCEPT ![r] = "gone"]
    /\ \E code \in {"ok", "failed"} \cup (IF r \in outSeen THEN {"refused"} ELSE {}) :
          exit' = [exit EXCEPT ![r] = code]
    /\ UNCHANGED <<pc, result, probe, kill, token, inFlight, registry, account, outSeen>>

ChildHangs(r) ==
    /\ child[r] = "alive"
    /\ child' = [child EXCEPT ![r] = "hung"]
    /\ UNCHANGED <<pc, result, probe, exit, kill, token, inFlight, registry, account, outSeen>>

\* The exit is handled: for a call that is settled already, the registry is
\* updated all the same.  A cancelled run is not classified.
ExitHandled(r) ==
    /\ exit[r] # None
    /\ exit' = [exit EXCEPT ![r] = None]
    /\ IF r \in token THEN Settle(r, "cancelled") /\ UNCHANGED registry
       ELSE /\ Settle(r, exit[r])
            /\ CASE exit[r] = "refused" -> MarkBlocked
                 [] exit[r] = "ok" /\ KindOf[r] = "prompt" -> ClearBlock
                 [] OTHER -> UNCHANGED registry
    /\ UNCHANGED <<probe, child, kill, token, account, outSeen>>

(***************************************************************************)
(* Ending a call early                                                     *)
(***************************************************************************)
\* Mutant: no SIGKILL follows, and a child that hangs ignores SIGTERM.
TerminateSoftly(r) == UNCHANGED process

\* cancel: SIGTERM now, SIGKILL in two seconds.
Terminate(r) == kill' = kill \cup {r} /\ UNCHANGED <<child, exit>>

CancelledByOperator(r) ==
    /\ KindOf[r] # "agent" /\ r \notin token
    /\ pc[r] \in {"probing", "fetching", "running"}
    /\ token' = token \cup {r}
    /\ IF pc[r] = "running" THEN Terminate(r) ELSE UNCHANGED process
    /\ UNCHANGED <<pc, result, probe, inFlight, registry, account, outSeen>>

\* Mutant: the process is left to itself.
GiveUpOnly(r) ==
    /\ Settle(r, "hung")
    /\ UNCHANGED <<probe, process, token, registry, account, outSeen>>

\* The call is resolved at once, and its process killed.
GiveUp(r) ==
    /\ Settle(r, "hung")
    /\ Terminate(r)
    /\ UNCHANGED <<probe, token, registry, account, outSeen>>

\* The silence watchdog.
SilenceNoticed(r) == KindOf[r] = "prompt" /\ pc[r] = "running" /\ child[r] = "hung" /\ GiveUp(r)

\* The doom-loop guard; or a slow child takes longer than the watchdog waits.
LoopNoticed(r) == KindOf[r] = "prompt" /\ pc[r] = "running" /\ child[r] = "alive" /\ GiveUp(r)

\* The wall-clock bound of a verification agent: SIGKILL.
AgentTimesOut(r) ==
    /\ KindOf[r] = "agent" /\ pc[r] = "running" /\ Living(r)
    /\ child' = [child EXCEPT ![r] = "gone"]
    /\ exit' = [exit EXCEPT ![r] = "failed"]
    /\ Settle(r, "timeout")
    /\ UNCHANGED <<probe, kill, token, registry, account, outSeen>>

\* The SIGKILL timer; a child that is gone by then is no error.
Killed(r) ==
    /\ r \in kill /\ kill' = kill \ {r}
    /\ IF Living(r)
       THEN /\ child' = [child EXCEPT ![r] = "gone"]
            /\ exit' = [exit EXCEPT ![r] = "failed"]
       ELSE UNCHANGED <<child, exit>>
    /\ UNCHANGED <<pc, result, probe, token, inFlight, registry, account, outSeen>>

SignOut ==
    /\ signedIn /\ signOuts < MaxSignOuts
    /\ signedIn' = FALSE /\ signOuts' = signOuts + 1
    /\ outSeen' = outSeen \cup {r \in Calls : pc[r] \in {"probing", "fetching", "running"}}
    /\ UNCHANGED <<pc, result, probe, process, token, inFlight, registry>>

SignIn ==
    /\ ~signedIn /\ signedIn' = TRUE
    /\ UNCHANGED <<pc, result, probe, process, token, inFlight, registry, signOuts, outSeen>>

Next ==
    \/ \E r \in Calls :
          \/ Call(r) \/ ProbeAnswers(r) \/ ProbeReturns(r) \/ Fetched(r) \/ FetchFails(r)
          \/ ChildExits(r) \/ ChildHangs(r) \/ ExitHandled(r)
          \/ CancelledByOperator(r) \/ SilenceNoticed(r) \/ LoopNoticed(r)
          \/ AgentTimesOut(r) \/ Killed(r)
    \/ SignOut \/ SignIn

Spec == Init /\ [][Next]_vars

\* Timers fire, events are handled, and a child that does not hang exits.
Fairness ==
    \A r \in Calls :
        /\ WF_vars(ProbeAnswers(r)) /\ WF_vars(ProbeReturns(r))
        /\ WF_vars(Fetched(r) \/ FetchFails(r))
        /\ WF_vars(ChildExits(r) \/ ChildHangs(r)) /\ WF_vars(ExitHandled(r))
        /\ WF_vars(SilenceNoticed(r)) /\ WF_vars(AgentTimesOut(r)) /\ WF_vars(Killed(r))

FairSpec == Spec /\ Fairness

-------------------------------------------------------------------------------
(***************************************************************************)
(* Properties                                                              *)
(***************************************************************************)
\* Every variable has its type, and a call has a result exactly when it is done.
TypeOK ==
    /\ pc \in [Calls -> {"new", "probing", "fetching", "running", "done"}]
    /\ result \in [Calls -> {None, "ok", "failed", "refused", "cancelled", "hung", "timeout"}]
    /\ \A r \in Calls : result[r] # None <=> pc[r] = "done"
    /\ probe \in [Calls -> {None, "asking", "in", "out", "unclear"}]
    /\ child \in [Calls -> {"none", "alive", "hung", "gone"}]
    /\ exit \in [Calls -> {None, "ok", "failed", "refused"}]
    /\ kill \subseteq Calls /\ token \subseteq Calls /\ outSeen \subseteq Calls
    /\ inFlight \in Nat
    /\ blocked \in BOOLEAN /\ passed \in BOOLEAN
    /\ signedIn \in BOOLEAN /\ signOuts \in 0..MaxSignOuts

InFlightCalls == {r \in Calls : Counted(r) /\ pc[r] \in {"fetching", "running"}}

\* The count that isHarnessBusy reads is the number of prompts and tasks under
\* way: no path leaves one on it, which would refuse every later episode, and
\* none takes one off twice (exit after watchdog, failed spawn, failed fetch).
CounterExact == inFlight = Cardinality(InFlightCalls)

\* A child outlives its call only while it is being killed: when nothing is in
\* flight, no agent works in the tree but those whose SIGKILL is on its timer.
NoOrphan == \A r \in Calls : Living(r) => pc[r] = "running" \/ r \in kill

\* A block is never held together with a passed probe: the next call probes
\* again, and the operator who signed in is not refused from the cache.
BlockCanLift == ~(blocked /\ passed)

\* A prompt or a task is refused for the sign-in only if the CLI really was
\* signed out at some time after it was called: an old block refuses no one.
\* (A verification agent is turned away by the block alone.)
RefusalIsFresh ==
    \A r \in Calls : Counted(r) /\ result[r] = "refused" => r \in outSeen

\* The result a call resolved with is final, whatever its process does later.
ResultFinal == [][\A r \in Calls : pc[r] = "done" => UNCHANGED <<pc[r], result[r]>>]_vars

\* A task, which has no watchdog, waits for a child that hangs until the
\* operator cancels it.
Stuck(r) == KindOf[r] = "task" /\ child[r] = "hung" /\ r \notin token

\* Every call that was made is resolved in the end, whether its child exits,
\* hangs or is refused, its probe answers or not, and it is cancelled or not;
\* and no process of it is left.  Only a task whose child hangs is not.
CallsEnd ==
    <>[](\A r \in Calls : pc[r] = "new" \/ Stuck(r) \/ (pc[r] = "done" /\ ~Living(r)))
===============================================================================
