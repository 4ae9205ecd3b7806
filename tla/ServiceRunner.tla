---------------------------- MODULE ServiceRunner ----------------------------
(***************************************************************************)
(* The running of one service (serviceRunner.ts): debug sessions, whose    *)
(* adapter spawns the recorded start command and kills it on restart, stop *)
(* and teardown; the replays that verify an episode's fix                  *)
(* (verifyServiceReplay), which spawn the same command; and the port that  *)
(* all of them bind, which each launch first takes back from its holder    *)
(* (reclaimPort).                                                          *)
(*                                                                         *)
(* A launch is a pair <<owner, generation>>: a session counts up its       *)
(* generation with each launch and each kill, and what a launch or an exit *)
(* of an older generation does is ignored.  Replays are the launches of    *)
(* the owner Replay.  The editor is external: it starts a session, and     *)
(* tears it down when the adapter says it terminated.                      *)
(***************************************************************************)
EXTENDS Integers, FiniteSets

CONSTANTS
    Runs,           \* the debug sessions of the service
    LastGeneration, \* bound: the last generation each session launches in
    MaxReplays,     \* bound: replays of the start command
    Replay,
    Leftover,       \* a process outside of Vinv that the reclaim can kill
    Hidden,         \* one it cannot identify (another user's, a container's)
    None

ASSUME ServiceAssumption ==
    /\ IsFiniteSet(Runs) /\ Replay \notin Runs /\ None \notin Runs
    /\ LastGeneration \in [Runs -> Nat \ {0}] /\ MaxReplays \in Nat
    /\ \A x \in {Leftover, Hidden, None} : x \notin (Runs \X Nat) \cup ({Replay} \X Nat)
    /\ Leftover # Hidden /\ Leftover # None /\ Hidden # None

OfRuns == UNION {{r} \X (1..LastGeneration[r]) : r \in Runs}
OfReplays == {Replay} \X (1..MaxReplays)
Launches == OfRuns \cup OfReplays

VARIABLES
    session,    \* each session: "new", "asked", "live", "ending" or "over"
    generation,
    child,      \* the generation of this.child, 0 for none
    tracked,    \* the session that the map `sessions` holds for the service
    launch,     \* each launch: "none", "probing", "evicting", "ready", "dropped",
                \* and its process: "up", "told", "gone", then "seen"
    victim,     \* whom a launch that is "evicting" kills
    port,       \* who listens on the recorded port
    fate,       \* why a process was told to end: "none", "stopped", "evicted" (history)
    evidence,   \* launches whose exit was emitted as failure evidence
    overlap     \* a start came while another one was on its way (history)

adapter == <<session, generation, child, tracked>>
machine == <<launch, victim, port, fate>>
vars == <<adapter, machine, evidence, overlap>>

Init ==
    /\ session = [r \in Runs |-> "new"]
    /\ generation = [r \in Runs |-> 0]
    /\ child = [r \in Runs |-> 0]
    /\ tracked = None
    /\ launch = [l \in Launches |-> "none"]
    /\ victim = [l \in Launches |-> None]
    /\ port \in {None, Leftover, Hidden}
    /\ fate = [l \in Launches |-> "none"]
    /\ evidence = {} /\ overlap = FALSE

Alive(l) == launch[l] \in {"up", "told"}

(***************************************************************************)
(* Sessions                                                                *)
(***************************************************************************)
Move(r, phase) == session' = [session EXCEPT ![r] = phase]

\* launch(): the next generation begins to take the port back.  `told` are the
\* processes that a kill just before it told to end.
Launch(r, g, told) ==
    /\ launch' = [l \in Launches |-> IF l = <<r, g>> THEN "probing"
                                     ELSE IF l \in told THEN "told" ELSE launch[l]]
    /\ generation' = [generation EXCEPT ![r] = g]

\* The process of this.child, as far as it still runs.
Child(r) == {l \in OfRuns : l = <<r, child[r]>> /\ launch[l] = "up"}

\* Mutant: the handlers of the outgoing child stay valid.
KillOnly(r) ==
    /\ child' = [child EXCEPT ![r] = 0]
    /\ launch' = [l \in Launches |-> IF l \in Child(r) THEN "told" ELSE launch[l]]
    /\ fate' = [l \in Launches |-> IF l \in Child(r) THEN "stopped" ELSE fate[l]]
    /\ UNCHANGED generation

\* kill(): SIGTERM, with no SIGKILL to follow.
Kill(r) ==
    /\ child' = [child EXCEPT ![r] = 0]
    /\ launch' = [l \in Launches |-> IF l \in Child(r) THEN "told" ELSE launch[l]]
    /\ fate' = [l \in Launches |-> IF l \in Child(r) THEN "stopped" ELSE fate[l]]
    /\ generation' = [generation EXCEPT ![r] = @ + 1]

\* startService: the map is asked, and filled only by Begin.
StartService(r) ==
    /\ session[r] = "new" /\ tracked = None /\ Move(r, "asked")
    /\ overlap' = (overlap \/ \E s \in Runs : session[s] = "asked")
    /\ UNCHANGED <<generation, child, tracked, machine, evidence>>

\* The editor starts the session and sends `launch`; the adapter terminates at
\* once when there is no plan or no bash.  Or the editor does not start it.
Begin(r) ==
    /\ session[r] = "asked"
    /\ \/ /\ Move(r, "live") /\ tracked' = r
          /\ Launch(r, 1, {})
       \/ /\ Move(r, "ending") /\ tracked' = r
          /\ UNCHANGED <<generation, launch>>
       \/ /\ Move(r, "over")
          /\ UNCHANGED <<generation, launch, tracked>>
    /\ UNCHANGED <<child, victim, port, fate, evidence, overlap>>

\* The toolbar's restart: kill and launch, each with a generation of its own.
Restart(r) ==
    /\ session[r] = "live" /\ generation[r] + 2 <= LastGeneration[r]
    /\ child' = [child EXCEPT ![r] = 0]
    /\ Launch(r, generation[r] + 2, Child(r))
    /\ fate' = [l \in Launches |-> IF l \in Child(r) THEN "stopped" ELSE fate[l]]
    /\ UNCHANGED <<session, tracked, victim, port, evidence, overlap>>

\* The toolbar's stop, or stopService for the session of the map.
Terminate(r) ==
    /\ session[r] = "live" /\ Move(r, "ending")
    /\ Kill(r)
    /\ UNCHANGED <<tracked, victim, port, evidence, overlap>>

\* The editor tears the session down (disconnect, dispose); the map forgets the
\* service, whichever session it holds for it.
Close(r) ==
    /\ session[r] = "ending" /\ Move(r, "over")
    /\ Kill(r)
    /\ tracked' = None
    /\ UNCHANGED <<victim, port, evidence, overlap>>

(***************************************************************************)
(* Launches                                                                *)
(***************************************************************************)
StartReplay(l) ==
    /\ l \in OfReplays /\ launch[l] = "none"
    /\ \A k \in OfReplays : k[2] < l[2] => launch[k] \notin {"none", "probing", "evicting", "ready", "up"}
    /\ launch' = [launch EXCEPT ![l] = "probing"]
    /\ UNCHANGED <<adapter, victim, port, fate, evidence, overlap>>

\* reclaimPort finds the port free (or held by someone it cannot identify), or
\* sends SIGTERM to its holder.
Probe(l) ==
    /\ launch[l] = "probing"
    /\ IF port \in {None, Hidden}
       THEN launch' = [launch EXCEPT ![l] = "ready"] /\ UNCHANGED <<victim, fate>>
       ELSE /\ launch' = [k \in Launches |->
                  IF k = l THEN "evicting"
                  ELSE IF k = port /\ launch[k] = "up" THEN "told" ELSE launch[k]]
            /\ fate' = [k \in Launches |->
                  IF k = port /\ launch[k] = "up" THEN "evicted" ELSE fate[k]]
            /\ victim' = [victim EXCEPT ![l] = port]
    /\ UNCHANGED <<adapter, port, evidence, overlap>>

\* Mutant: the reclaim waits until the holder has ended by itself.
EvictPolitely(l) ==
    /\ launch[l] = "evicting" /\ port # victim[l]
    /\ launch' = [launch EXCEPT ![l] = "ready"]
    /\ victim' = [victim EXCEPT ![l] = None]
    /\ UNCHANGED <<adapter, port, fate, evidence, overlap>>

\* A holder that is still there gets SIGKILL; a replay is dropped when somebody
\* else has taken the port meanwhile.
Evict(l) ==
    /\ launch[l] = "evicting"
    /\ port' = IF port = victim[l] THEN None ELSE port
    /\ launch' = [k \in Launches |->
          IF k = l THEN IF l \in OfReplays /\ port' # None THEN "dropped" ELSE "ready"
          ELSE IF k = victim[l] /\ Alive(k) THEN "gone" ELSE launch[k]]
    /\ victim' = [victim EXCEPT ![l] = None]
    /\ UNCHANGED <<adapter, fate, evidence, overlap>>

\* Mutant: the generation is not tested again after the wait for the port.
SpawnAnyway(l) ==
    /\ launch[l] = "ready"
    /\ launch' = [launch EXCEPT ![l] = "up"]
    /\ child' = IF l \in OfRuns THEN [child EXCEPT ![l[1]] = l[2]] ELSE child
    /\ UNCHANGED <<session, generation, tracked, victim, port, fate, evidence, overlap>>

\* The port is ours, or the command runs into its own bind error.  A session
\* that was stopped or restarted meanwhile drops the launch, and so does a
\* replay that could not free the port.
Spawn(l) ==
    /\ launch[l] = "ready"
    /\ LET ours == IF l \in OfRuns THEN generation[l[1]] = l[2] ELSE port # Hidden
       IN  /\ launch' = [launch EXCEPT ![l] = IF ours THEN "up" ELSE "dropped"]
           /\ child' = IF ours /\ l \in OfRuns THEN [child EXCEPT ![l[1]] = l[2]] ELSE child
    /\ UNCHANGED <<session, generation, tracked, victim, port, fate, evidence, overlap>>

(***************************************************************************)
(* Processes                                                               *)
(***************************************************************************)
Bind(l) ==
    /\ Alive(l) /\ port = None
    /\ port' = l
    /\ UNCHANGED <<adapter, launch, victim, fate, evidence, overlap>>

\* A process ends, by itself or because it was told to; one that was told to
\* may take its time, or never end.
Exit(l) ==
    /\ Alive(l)
    /\ launch' = [launch EXCEPT ![l] = "gone"]
    /\ port' = IF port = l THEN None ELSE port
    /\ UNCHANGED <<adapter, victim, fate, evidence, overlap>>

\* The exit handler: the exit of a superseded child is ignored, any other one
\* terminates the session and is emitted to the automatic triggers.
ExitHandled(l) ==
    /\ l \in OfRuns /\ launch[l] = "gone"
    /\ launch' = [launch EXCEPT ![l] = "seen"]
    /\ IF generation[l[1]] = l[2]
       THEN evidence' = evidence \cup {l} /\ Move(l[1], "ending")
       ELSE UNCHANGED <<evidence, session>>
    /\ UNCHANGED <<generation, child, tracked, victim, port, fate, overlap>>

\* A replay ends with its verdict, or is cancelled: SIGTERM, and SIGKILL in
\* four seconds.
ReplayEnds(l) ==
    /\ l \in OfReplays /\ launch[l] = "up"
    /\ launch' = [launch EXCEPT ![l] = "told"]
    /\ fate' = [fate EXCEPT ![l] = "stopped"]
    /\ UNCHANGED <<adapter, victim, port, evidence, overlap>>

Next ==
    \/ \E r \in Runs : StartService(r) \/ Begin(r) \/ Restart(r) \/ Terminate(r) \/ Close(r)
    \/ \E l \in Launches :
          \/ StartReplay(l) \/ Probe(l) \/ Evict(l) \/ Spawn(l)
          \/ Bind(l) \/ Exit(l) \/ ExitHandled(l) \/ ReplayEnds(l)

Spec == Init /\ [][Next]_vars

\* Awaits return and events are delivered; a command that runs binds its port
\* or fails to; one that was told to end need not.
Fairness ==
    /\ \A r \in Runs : WF_vars(Close(r))
    /\ \A l \in Launches :
          /\ WF_vars(Probe(l)) /\ WF_vars(Evict(l)) /\ WF_vars(Spawn(l)) /\ WF_vars(ExitHandled(l))
          /\ WF_vars(launch[l] = "up" /\ port # l /\ (Bind(l) \/ Exit(l)))

FairSpec == Spec /\ Fairness

-------------------------------------------------------------------------------
(***************************************************************************)
(* Properties                                                              *)
(***************************************************************************)
\* Every variable has its type.
TypeOK ==
    /\ session \in [Runs -> {"new", "asked", "live", "ending", "over"}]
    /\ generation \in [Runs -> Nat] /\ child \in [Runs -> Nat]
    /\ tracked \in Runs \cup {None}
    /\ launch \in [Launches -> {"none", "probing", "evicting", "ready", "dropped",
                                "up", "told", "gone", "seen"}]
    /\ victim \in [Launches -> Launches \cup {None, Leftover}]
    /\ port \in Launches \cup {None, Leftover, Hidden}
    /\ fate \in [Launches -> {"none", "stopped", "evicted"}]
    /\ evidence \subseteq OfRuns /\ overlap \in BOOLEAN

\* A process that nobody told to end is the current child of a session that is
\* live: whatever was stopped, restarted or torn down while its launch waited
\* for the port has not left a server behind that no button reaches.
NoOrphan ==
    \A l \in OfRuns : launch[l] = "up" =>
        session[l[1]] = "live" /\ child[l[1]] = l[2] /\ generation[l[1]] = l[2]

\* A run that was stopped or restarted on purpose is never failure evidence,
\* whenever its exit arrives.  (One whose port another session or a replay took
\* back is: its generation is still the current one.)
StopIsNoEvidence == \A l \in evidence : fate[l] # "stopped"

\* Unless two starts overlapped, a service has one session at a time and the
\* map holds it: it is shown as running, and stopService reaches it.
SessionIsTracked ==
    ~overlap => \A r \in Runs : session[r] \in {"live", "ending"} => tracked = r

\* A session that is live ends or comes to serve the port, whoever held the
\* port when it started and whatever that process does about SIGTERM.
ServesOrEnds ==
    \A r \in Runs :
        session[r] = "live" ~> (session[r] # "live" \/ port = <<r, generation[r]>>)
===============================================================================
