---------------------------- MODULE RequestQueue ----------------------------
(***************************************************************************)
(* The chat-to-editor bridge: durable request files under .vinv/requests   *)
(* (requestQueue.ts), the sweeps of the extension hosts that drain and     *)
(* dispatch them (registerEpisodeRequestTrigger in autoTrigger.ts), and    *)
(* the guard of runEpisode they run into (episodeLoop.ts).                 *)
(*                                                                         *)
(* A sweep is an async function.  Between two awaits it has its window's   *)
(* event loop to itself, but the windows are separate processes on one     *)
(* directory, so each file operation of a drain is a step.  Otherwise only *)
(* runEpisode, the offer of an episode and the engine that measures an     *)
(* optimization are awaited; nothing keeps the watcher from starting a     *)
(* second sweep meanwhile.                                                 *)
(***************************************************************************)
EXTENDS Naturals, FiniteSets

CONSTANTS
    Requests,   \* request ids; their order is that of the ts field
    Kind,       \* what each request asks: "fix", "offer" (runtime-errors,
                \* memory-trends) or "optimize" (hotspots, cache-candidates)
    Tries,      \* episodes an optimization may take (maxAttempts)
    Windows,    \* extension hosts that have the workspace open
    Sweeps,     \* invocations of sweep that can be in flight
    WindowOf,   \* the window a sweep runs in
    CrashBound, \* crashes of a window
    ThrowBound  \* sweeps that end in an exception

ASSUME QueueAssumption ==
    /\ Requests \subseteq Nat
    /\ IsFiniteSet(Requests)
    /\ Kind \in [Requests -> {"fix", "offer", "optimize"}]
    /\ Tries \in Nat \ {0}
    /\ WindowOf \in [Sweeps -> Windows]
    /\ {CrashBound, ThrowBound} \subseteq Nat

VARIABLES
    asked,      \* history: requests written so far
    files,      \* requests on disk
    ledger,     \* the last outcome recorded per request (request-outcomes.jsonl)
    up,         \* windows whose extension host is alive
    wake,       \* windows with a sweep scheduled
    running,    \* windows whose episodeRunning flag is set
    busy,       \* windows with a harness run outside of an episode
    pc,         \* where each sweep stands
    names,      \* the names the sweep has listed and not yet read
    at,         \* the file it has read and not yet deleted
    held,       \* the requests it has drained and not yet dealt with
    tries,      \* how often it has dispatched the request at hand
    ran,        \* history: how many episodes ran for a request
    offered,    \* history: requests handed to the offer flow or the engine
    lost,       \* history: requests held by a sweep that died
    ignored,    \* sweeps at an offer or in an episode that nobody answers
    closed,     \* windows nobody opens again
    crashes, throws

vars == <<asked, files, ledger, up, wake, running, busy, pc, names, at, held,
          tries, ran, offered, lost, ignored, closed, crashes, throws>>

host == <<up, running, busy>>
drain == <<names, at>>
holding == <<held, tries>>
history == <<asked, ran, offered, lost>>
people == <<ignored, closed>>
bounds == <<crashes, throws>>

Outcomes == {"none", "dispatched", "no_plan", "harness_busy", "invalid"}
PCs == {"idle", "draining", "deleting", "sweeping", "offering", "opening", "running",
        "measuring"}

TypeOK ==
    /\ {asked, files, offered, lost} \subseteq SUBSET Requests
    /\ ledger \in [Requests -> Outcomes]
    /\ {up, wake, running, busy} \subseteq SUBSET Windows
    /\ pc \in [Sweeps -> PCs]
    /\ names \in [Sweeps -> SUBSET Requests]
    /\ at \in [Sweeps -> SUBSET Requests]
    /\ held \in [Sweeps -> SUBSET Requests]
    /\ tries \in [Sweeps -> Nat]
    /\ ran \in [Requests -> Nat]
    /\ ignored \subseteq Sweeps /\ closed \subseteq Windows
    /\ {crashes, throws} \subseteq Nat

Init ==
    /\ asked = {} /\ files = {} /\ offered = {} /\ lost = {}
    /\ ledger = [r \in Requests |-> "none"]
    /\ up = Windows /\ wake = Windows
    /\ running = {} /\ busy = {}
    /\ pc = [s \in Sweeps |-> "idle"]
    /\ names = [s \in Sweeps |-> {}]
    /\ at = [s \in Sweeps |-> {}]
    /\ held = [s \in Sweeps |-> {}]
    /\ tries = [s \in Sweeps |-> 0]
    /\ ran = [r \in Requests |-> 0]
    /\ ignored = {} /\ closed = {}
    /\ crashes = 0 /\ throws = 0

-----------------------------------------------------------------------------
(* Helpers                                                                 *)

(* Steps of a sweep without an await between them exclude the other sweeps *)
(* of the window.                                                          *)
InSync(s) == pc[s] \in {"draining", "deleting", "sweeping"}
HasTurn(s) == \A t \in Sweeps \ {s} : WindowOf[t] = WindowOf[s] => ~InSync(t)

Oldest(R) == CHOOSE r \in R : \A q \in R : r <= q
Current(s) == Oldest(held[s])

Record(r, outcome) == ledger' = [ledger EXCEPT ![r] = outcome]

Goto(s, where) == pc' = [pc EXCEPT ![s] = where]
DoneWith(s, r) == held' = [held EXCEPT ![s] = @ \ {r}]

-----------------------------------------------------------------------------
(* The chat side                                                           *)

(* The MCP process, or a judgment's ticked proposals, write one file; the  *)
(* watchers of the open windows schedule a sweep.                          *)
Enqueue(r) ==
    /\ r \notin asked
    /\ asked' = asked \cup {r}
    /\ files' = files \cup {r}
    /\ wake' = wake \cup up
    /\ UNCHANGED <<ledger, host, pc, drain, holding, ran, offered, lost, people, bounds>>

-----------------------------------------------------------------------------
(* Draining                                                                *)

StartSweep(s) ==
    /\ pc[s] = "idle" /\ HasTurn(s)
    /\ WindowOf[s] \in wake \cap up
    /\ wake' = wake \ {WindowOf[s]}
    /\ names' = [names EXCEPT ![s] = files]
    /\ Goto(s, IF files = {} THEN "idle" ELSE "draining")
    /\ UNCHANGED <<files, ledger, host, at, holding, history, people, bounds>>

(* A name whose file another window has deleted reads as nothing. *)
ReadFile(s) ==
    /\ pc[s] = "draining"
    /\ \E r \in names[s] :
          /\ names' = [names EXCEPT ![s] = @ \ {r}]
          /\ at' = [at EXCEPT ![s] = {r}]
          /\ held' = [held EXCEPT ![s] = @ \cup ({r} \cap files)]
    /\ Goto(s, "deleting")
    /\ UNCHANGED <<files, ledger, host, wake, tries, history, people, bounds>>

(* Mutation: the drain leaves the file where it is. *)
DeleteFileNot(s) ==
    /\ pc[s] = "deleting"
    /\ at' = [at EXCEPT ![s] = {}]
    /\ Goto(s, IF names[s] = {} THEN "sweeping" ELSE "draining")
    /\ UNCHANGED <<files, ledger, host, wake, names, holding, history, people, bounds>>

DeleteFile(s) ==
    /\ pc[s] = "deleting"
    /\ files' = files \ at[s]
    /\ at' = [at EXCEPT ![s] = {}]
    /\ Goto(s, IF names[s] = {} THEN "sweeping" ELSE "draining")
    /\ UNCHANGED <<ledger, host, wake, names, holding, history, people, bounds>>

-----------------------------------------------------------------------------
(* Dispatching, oldest first                                               *)

SweepDone(s) ==
    /\ pc[s] = "sweeping" /\ held[s] = {}
    /\ Goto(s, "idle")
    /\ UNCHANGED <<files, ledger, host, wake, drain, holding, history, people, bounds>>

(* Mutation: only the request at hand is restored. *)
ToRestoreCurrent(s) == {Current(s)}

(* What a sweep puts back: the request at hand and everything behind it. *)
ToRestore(s) == held[s]

(* Mutation: restored files do not wake the watcher. *)
WokenByRestoreNobody == {}

(* A restored file is created anew, which the watchers see. *)
WokenByRestore == up

(* An episode of this window is running: everything goes back to disk. *)
Restore(s) ==
    /\ pc[s] = "sweeping" /\ held[s] # {}
    /\ WindowOf[s] \in running
    /\ files' = files \cup ToRestore(s)
    /\ ledger' = [r \in Requests |->
           IF r \in held[s] THEN "harness_busy" ELSE ledger[r]]
    /\ held' = [held EXCEPT ![s] = {}]
    /\ wake' = wake \cup WokenByRestore
    /\ Goto(s, "idle")
    /\ UNCHANGED <<host, drain, tries, history, people, bounds>>

MayDispatch(s, kind) ==
    /\ pc[s] = "sweeping" /\ held[s] # {}
    /\ WindowOf[s] \notin running
    /\ Kind[Current(s)] = kind

(* A fix without an issue text. *)
RejectEmpty(s) ==
    /\ MayDispatch(s, "fix")
    /\ Record(Current(s), "invalid")
    /\ DoneWith(s, Current(s))
    /\ UNCHANGED <<files, host, wake, pc, drain, tries, history, people, bounds>>

(* A kind without anything to work on says so and is done. *)
NoPlan(s) ==
    /\ MayDispatch(s, "offer") \/ MayDispatch(s, "optimize")
    /\ Record(Current(s), "no_plan")
    /\ DoneWith(s, Current(s))
    /\ UNCHANGED <<files, host, wake, pc, drain, tries, history, people, bounds>>

SetTries(s, n) == tries' = [tries EXCEPT ![s] = n]

(* A request to look for errors or leaks, with a plan, goes to the offer   *)
(* flow, and one to optimize to the verdict engine; neither records it.    *)
Offer(s) ==
    /\ MayDispatch(s, "offer")
    /\ offered' = offered \cup {Current(s)}
    /\ SetTries(s, 1)
    /\ Goto(s, "offering")
    /\ UNCHANGED <<files, ledger, host, wake, drain, held, asked, ran, lost, people, bounds>>

(* The engine freezes its probes, measures and takes a snapshot.           *)
Optimize(s) ==
    /\ MayDispatch(s, "optimize")
    /\ offered' = offered \cup {Current(s)}
    /\ SetTries(s, 0)
    /\ Goto(s, "measuring")
    /\ UNCHANGED <<files, ledger, host, wake, drain, held, asked, ran, lost, people, bounds>>

(* runEpisode refuses while the harness is busy; the caller records the    *)
(* request as dispatched whatever runEpisode returned.                     *)
Refused(s) ==
    /\ MayDispatch(s, "fix")
    /\ WindowOf[s] \in busy
    /\ Record(Current(s), "dispatched")
    /\ DoneWith(s, Current(s))
    /\ UNCHANGED <<files, host, wake, pc, drain, tries, history, people, bounds>>

(* The guard passed; the harness preflight and openRun are awaited before  *)
(* episodeRunning is set.                                                  *)
Dispatch(s) ==
    /\ MayDispatch(s, "fix")
    /\ WindowOf[s] \notin busy
    /\ SetTries(s, 1)
    /\ Goto(s, "opening")
    /\ UNCHANGED <<files, ledger, host, wake, drain, held, history, people, bounds>>

RecordIfFix(s) ==
    IF Kind[Current(s)] = "fix" THEN Record(Current(s), "dispatched")
                                ELSE UNCHANGED ledger

(* The sweep is through with the request at hand. *)
GoOn(s) ==
    /\ RecordIfFix(s)
    /\ DoneWith(s, Current(s))
    /\ SetTries(s, 0)
    /\ Goto(s, "sweeping")

(* The engine was told that an episode ran, and measures what it left. *)
ToEngine(s) ==
    /\ Kind[Current(s)] = "optimize"
    /\ Goto(s, "measuring")
    /\ UNCHANGED <<ledger, holding>>

(* The offer is dismissed, the harness is signed out, or, where no engine  *)
(* waits for it, an episode or a harness run got in the way.               *)
OfferDropped(s) ==
    /\ pc[s] = "offering" /\ HasTurn(s)
    /\ GoOn(s)
    /\ UNCHANGED <<files, host, wake, drain, history, people, bounds>>

OfferTaken(s) ==
    /\ pc[s] = "offering" /\ HasTurn(s)
    /\ WindowOf[s] \notin running \cup busy
    /\ Goto(s, "opening")
    /\ UNCHANGED <<files, ledger, host, wake, drain, holding, history, people, bounds>>

(* An episode or a harness run began while the offer was open: runEpisode  *)
(* refuses, and offerOrDispatch tells the engine that it dispatched.       *)
OfferMoot(s) ==
    /\ pc[s] = "offering" /\ HasTurn(s)
    /\ WindowOf[s] \in running \cup busy
    /\ ToEngine(s)
    /\ UNCHANGED <<files, host, wake, drain, history, people, bounds>>

(* Signed out, out of quota: runEpisode returns false.  The engine is told *)
(* so only where the harness is marked blocked.                            *)
PreflightFails(s) ==
    /\ pc[s] = "opening" /\ HasTurn(s)
    /\ GoOn(s) \/ ToEngine(s)
    /\ UNCHANGED <<files, host, wake, drain, history, people, bounds>>

BeginEpisode(s) ==
    /\ pc[s] = "opening" /\ HasTurn(s)
    /\ running' = running \cup {WindowOf[s]}
    /\ ran' = [ran EXCEPT ![Current(s)] = @ + 1]
    /\ Goto(s, "running")
    /\ UNCHANGED <<files, ledger, up, busy, wake, drain, holding, asked, offered,
                   lost, people, bounds>>

(* An optimization goes on with the engine, unless the harness blocked.    *)
FinishEpisode(s) ==
    /\ pc[s] = "running" /\ HasTurn(s)
    /\ running' = running \ {WindowOf[s]}
    /\ GoOn(s) \/ ToEngine(s)
    /\ UNCHANGED <<files, up, busy, wake, drain, history, people, bounds>>

-----------------------------------------------------------------------------
(* The verdict engine between its episodes: it has measured, and reverted  *)
(* or kept the change.                                                     *)

(* The first attempt, or another after one that was not accepted. *)
Attempt(s) ==
    /\ pc[s] = "measuring" /\ HasTurn(s)
    /\ WindowOf[s] \notin running
    /\ tries[s] < Tries
    /\ SetTries(s, tries[s] + 1)
    /\ Goto(s, "offering")
    /\ UNCHANGED <<files, ledger, host, wake, drain, held, history, people, bounds>>

(* Accepted, given up, or left to the watcher because nothing could be     *)
(* measured; or an episode is running, which counts as a declined offer.   *)
EndOptimization(s) ==
    /\ pc[s] = "measuring" /\ HasTurn(s)
    /\ tries[s] > 0 \/ WindowOf[s] \in running
    /\ GoOn(s)
    /\ UNCHANGED <<files, host, wake, drain, history, people, bounds>>

(* The exception of an episode, or of a measurement or a revert, ends the  *)
(* sweep; what it still held is gone.                                      *)
SweepThrows(s) ==
    /\ pc[s] \in {"running", "measuring"} /\ HasTurn(s) /\ s \notin ignored
    /\ throws < ThrowBound
    /\ throws' = throws + 1
    /\ running' = IF pc[s] = "running" THEN running \ {WindowOf[s]} ELSE running
    /\ lost' = lost \cup held[s]
    /\ held' = [held EXCEPT ![s] = {}]
    /\ SetTries(s, 0)
    /\ Goto(s, "idle")
    /\ UNCHANGED <<files, ledger, up, busy, wake, drain, asked, ran, offered,
                   people, crashes>>

-----------------------------------------------------------------------------
(* The surroundings                                                        *)

(* Bring-up, discovery and probe runs occupy the harness of a window. *)
HarnessTaken(w) ==
    /\ w \in up \ busy
    /\ \A s \in Sweeps : WindowOf[s] = w => ~InSync(s)
    /\ busy' = busy \cup {w}
    /\ UNCHANGED <<files, ledger, up, running, wake, pc, drain, holding, history,
                   people, bounds>>

HarnessFreed(w) ==
    /\ w \in busy
    /\ \A s \in Sweeps : WindowOf[s] = w => ~InSync(s)
    /\ busy' = busy \ {w}
    /\ UNCHANGED <<files, ledger, up, running, wake, pc, drain, holding, history,
                   people, bounds>>

In(w, f, default) == [s \in Sweeps |-> IF WindowOf[s] = w THEN default ELSE f[s]]

Crash(w) ==
    /\ w \in up
    /\ crashes < CrashBound
    /\ crashes' = crashes + 1
    /\ up' = up \ {w}
    /\ wake' = wake \ {w}
    /\ running' = running \ {w}
    /\ busy' = busy \ {w}
    /\ lost' = lost \cup ((UNION {held[s] : s \in {t \in Sweeps : WindowOf[t] = w}}) \ files)
    /\ pc' = In(w, pc, "idle")
    /\ names' = In(w, names, {})
    /\ at' = In(w, at, {})
    /\ held' = In(w, held, {})
    /\ tries' = In(w, tries, 0)
    /\ ignored' = {s \in ignored : WindowOf[s] # w}
    /\ UNCHANGED <<files, ledger, asked, ran, offered, closed, throws>>

(* Activation sweeps once, for requests written meanwhile. *)
Activate(w) ==
    /\ w \notin up \cup closed
    /\ up' = up \cup {w}
    /\ wake' = wake \cup {w}
    /\ UNCHANGED <<files, ledger, running, busy, pc, drain, holding, history, people, bounds>>

(* Nobody answers an offer or a parked judgment, ever. *)
Ignore(s) ==
    /\ pc[s] \in {"offering", "running"}
    /\ ignored' = ignored \cup {s}
    /\ UNCHANGED <<files, ledger, host, wake, pc, drain, holding, history, closed, bounds>>

(* Nobody opens the editor again. *)
Close(w) ==
    /\ w \notin up
    /\ closed' = closed \cup {w}
    /\ UNCHANGED <<files, ledger, host, wake, pc, drain, holding, history, ignored, bounds>>

-----------------------------------------------------------------------------

(* What the extension host does of itself: files, timers, probes.          *)
HostStep(s) ==
    \/ StartSweep(s) \/ ReadFile(s) \/ DeleteFile(s) \/ SweepDone(s)
    \/ Restore(s) \/ RejectEmpty(s) \/ NoPlan(s) \/ Offer(s) \/ Optimize(s)
    \/ Refused(s) \/ Dispatch(s) \/ PreflightFails(s) \/ BeginEpisode(s)
    \/ Attempt(s) \/ EndOptimization(s)

(* What may wait for a person: a toast to be clicked, an episode that has  *)
(* parked its judgment.                                                    *)
OperatorStep(s) ==
    /\ s \notin ignored
    /\ OfferDropped(s) \/ OfferTaken(s) \/ OfferMoot(s) \/ FinishEpisode(s)

SweepStep(s) == HostStep(s) \/ OperatorStep(s)

(* Nothing goes on: everything was asked and dealt with, or waits.         *)
Quiescent ==
    /\ asked = Requests /\ wake \cap up = {}
    /\ \A s \in Sweeps : pc[s] = "idle" \/ s \in ignored
    /\ up \cup closed = Windows
    /\ UNCHANGED vars

Next ==
    \/ \E r \in Requests : Enqueue(r)
    \/ \E s \in Sweeps : SweepStep(s) \/ SweepThrows(s) \/ Ignore(s)
    \/ \E w \in Windows : HarnessTaken(w) \/ HarnessFreed(w) \/ Crash(w) \/ Activate(w)
                          \/ Close(w)
    \/ Quiescent

Spec == Init /\ [][Next]_vars

(* Timers fire and the host's own calls settle.  The event loop serves its *)
(* callbacks in turn, so a sweep that can go on again and again does,      *)
(* however often the others take the loop from it.  Nothing is assumed of  *)
(* people: that an offer stays open, an episode parked or the editor       *)
(* closed is a step of its own, Ignore or Close, which they are free to    *)
(* take at any time.                                                       *)
FairSpec ==
    /\ Spec
    /\ \A s \in Sweeps : SF_vars(HostStep(s)) /\ SF_vars(OperatorStep(s))
    /\ \A w \in Windows : WF_vars(Activate(w))

-----------------------------------------------------------------------------
(* Properties                                                              *)

Terminal == {"dispatched", "no_plan", "invalid"}
Pending(r) == r \in files \/ \E s \in Sweeps : r \in held[s]
Settled(r) == ~Pending(r) /\ (ledger[r] \in Terminal \/ r \in offered)

StatusOf(r) ==
    IF r \notin asked THEN "absent"
    ELSE IF Pending(r) THEN "pending"
    ELSE IF r \in lost THEN "lost"
    ELSE IF Settled(r) THEN "settled" ELSE "vanished"

Promise == INSTANCE RequestPromise WITH status <- [r \in Requests |-> StatusOf(r)]

(* In one window a request leaves the queue only by being settled, or with *)
(* a sweep that dies holding it; restores, overlapping sweeps and restarts *)
(* never drop one, and a settled request never comes back.                 *)
KeepsPromise == Promise!Spec

(* In one window a request is worked on by one sweep, however the sweeps   *)
(* overlap, so that it costs one episode; and a request to optimize no     *)
(* more than the engine's budget of attempts, each of which waits between  *)
(* its episodes while the other sweeps drain, dispatch and restore.        *)
MayRun(r) == IF Kind[r] = "optimize" THEN Tries ELSE 1
RunsWithinTries == \A r \in Requests : ran[r] <= MayRun(r)

(* Nobody comes: for the episode that occupies the window, for an offer    *)
(* that r is for or waits behind, for any offer a sweep stands at, or for  *)
(* the closed editor.                                                      *)
NobodyComes(r) ==
    \/ \E s \in ignored : pc[s] = "running" \/ r \in held[s]
    \/ ignored = Sweeps
    \/ closed = Windows

(* A request that was asked is settled in the end, or lost to a crash or   *)
(* an exception, unless the person it waits for never comes.  A busy       *)
(* harness, restores that wake the next sweep and an engine that tries     *)
(* again only delay it.                                                    *)
EventuallySettled ==
    \A r \in Requests : r \in asked ~> Settled(r) \/ r \in lost \/ NobodyComes(r)

=============================================================================
