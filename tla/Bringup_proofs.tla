---------------------------- MODULE Bringup_proofs ----------------------------
(***************************************************************************)
(* Bring-up, from the plan to the process.  What ServiceRunner promises    *)
(* for any number of sessions, restarts and replays: typing, no server     *)
(* that no session owns, no deliberate stop taken for a failure, and a     *)
(* session map that names the session there is.  What an Auto-Pilot run    *)
(* promises for any services, budgets and failure signatures: typing,      *)
(* spending within the budgets, an end that leaves nothing outstanding,    *)
(* and probes that make up for having been skipped.                        *)
(*                                                                         *)
(* The two components share no state; each has its own specification and   *)
(* invariant.                                                              *)
(***************************************************************************)
EXTENDS ServiceRunner, AutoPilot, FiniteSetTheorems, WellFoundedInduction, TLAPS

-------------------------------------------------------------------------------
(***************************************************************************)
(* The service runner: the inductive invariant                             *)
(***************************************************************************)
Under == {"asked", "live", "ending"}

\* What the generations tell: no launch is ahead of its session, and one that
\* is under way in the current generation belongs to a live session.
Tells(l) ==
    /\ launch[l] # "none" => l[2] <= generation[l[1]]
    /\ launch[l] \notin {"none", "dropped", "seen"} /\ generation[l[1]] = l[2]
          => session[l[1]] = "live"

GenerationsTell == \A l \in OfRuns : Tells(l)

\* A session that has not begun has not counted.
FreshSessions == \A r \in Runs : session[r] \in {"new", "asked"} => generation[r] = 0

\* A run stopped on purpose is of an older generation, and evidence is of runs
\* whose exit was seen.
StopsAreOlder ==
    /\ \A l \in OfRuns : fate[l] = "stopped" => l[2] < generation[l[1]]
    /\ \A l \in evidence : launch[l] = "seen"

\* Unless two starts overlapped there is one session under way.
OneSession ==
    ~overlap => \A r, s \in Runs : session[r] \in Under /\ session[s] \in Under => r = s

IInv ==
    /\ TypeOK
    /\ FreshSessions
    /\ GenerationsTell
    /\ NoOrphan
    /\ StopsAreOlder
    /\ StopIsNoEvidence
    /\ OneSession
    /\ SessionIsTracked

-------------------------------------------------------------------------------
(***************************************************************************)
(* Launches                                                                *)
(***************************************************************************)
\* A launch of a session is its session and a generation.
LEMMA RunLaunch ==
    ASSUME NEW l \in OfRuns
    PROVE  /\ l[1] \in Runs /\ l[2] \in Nat /\ l[2] \in 1..LastGeneration[l[1]]
           /\ l = <<l[1], l[2]>>
           /\ l \in Launches /\ l \notin OfReplays
<1>1. PICK r \in Runs : l \in {r} \X (1..LastGeneration[r])
  BY DEF OfRuns
<1>2. l[1] = r /\ l[2] \in 1..LastGeneration[r] /\ l = <<l[1], l[2]>>
  BY <1>1
<1>3. LastGeneration[r] \in Nat
  BY ServiceAssumption
<1>4. l \notin OfReplays
  BY <1>2, ServiceAssumption DEF OfReplays
<1>5. QED
  BY <1>2, <1>3, <1>4 DEF Launches

\* A session and a generation within its bound are a launch.
LEMMA LaunchOfRun ==
    ASSUME NEW r \in Runs, NEW g \in 1..LastGeneration[r]
    PROVE  <<r, g>> \in OfRuns /\ <<r, g>> \in Launches
<1>1. <<r, g>> \in {r} \X (1..LastGeneration[r])
  OBVIOUS
<1>2. QED
  BY <1>1 DEF OfRuns, Launches

LEMMA ReplayLaunch == ASSUME NEW l \in OfReplays PROVE l \in Launches /\ l \notin OfRuns
  BY RunLaunch DEF Launches

\* Nobody else who may hold the port is a launch.
LEMMA Outsiders ==
    /\ None \notin Launches /\ Leftover \notin Launches /\ Hidden \notin Launches
    /\ None \notin Runs /\ Leftover # Hidden /\ Leftover # None /\ Hidden # None
<1>1. ASSUME NEW l \in Launches PROVE l \in (Runs \X Nat) \cup ({Replay} \X Nat)
  <2>1. CASE l \in OfRuns
    BY <2>1, RunLaunch
  <2>2. CASE l \in OfReplays
    BY <2>2, ServiceAssumption DEF OfReplays
  <2>3. QED
    BY <2>1, <2>2 DEF Launches
<1>2. QED
  BY <1>1, ServiceAssumption

\* The live child of a session is one launch at most, and is a launch.
LEMMA ChildIsLaunch ==
    ASSUME TypeOK, NEW r \in Runs
    PROVE  /\ Child(r) \subseteq OfRuns
           /\ \A l \in OfRuns : l \in Child(r) <=>
                  l[1] = r /\ l[2] = child[r] /\ launch[l] = "up"
           /\ \A l \in OfReplays : l \notin Child(r)
<1>1. \A l \in OfRuns : l = <<r, child[r]>> <=> l[1] = r /\ l[2] = child[r]
  BY RunLaunch
<1>2. QED
  BY <1>1, ReplayLaunch DEF Child

-------------------------------------------------------------------------------
(***************************************************************************)
(* Typing                                                                  *)
(***************************************************************************)
LEMMA InitTypeOK == Init => TypeOK
<1> SUFFICES ASSUME Init PROVE TypeOK
  OBVIOUS
<1>1. /\ session \in [Runs -> {"new", "asked", "live", "ending", "over"}]
      /\ generation \in [Runs -> Nat] /\ child \in [Runs -> Nat]
  BY DEF Init
<1>2. /\ launch \in [Launches -> {"none", "probing", "evicting", "ready", "dropped",
                                  "up", "told", "gone", "seen"}]
      /\ victim \in [Launches -> Launches \cup {None, Leftover}]
      /\ fate \in [Launches -> {"none", "stopped", "evicted"}]
  BY DEF Init
<1>3. tracked \in Runs \cup {None} /\ port \in Launches \cup {None, Leftover, Hidden}
  BY DEF Init
<1>4. evidence \subseteq OfRuns /\ overlap \in BOOLEAN
  BY DEF Init
<1>5. QED
  BY <1>1, <1>2, <1>3, <1>4 DEF TypeOK

LEMMA KillTypeOK ==
    ASSUME TypeOK, NEW r \in Runs, Kill(r)
    PROVE  /\ generation' \in [Runs -> Nat] /\ child' \in [Runs -> Nat]
           /\ launch' \in [Launches -> {"none", "probing", "evicting", "ready", "dropped",
                                        "up", "told", "gone", "seen"}]
           /\ fate' \in [Launches -> {"none", "stopped", "evicted"}]
  BY DEF Kill, TypeOK

LEMMA NextTypeOK == TypeOK /\ [Next]_vars => TypeOK'
<1> SUFFICES ASSUME TypeOK, [Next]_vars PROVE TypeOK'
  OBVIOUS
<1> USE Outsiders DEF adapter, machine
<1>1. ASSUME NEW r \in Runs, StartService(r) PROVE TypeOK'
  BY <1>1 DEF StartService, Move, TypeOK
<1>2. ASSUME NEW r \in Runs, Begin(r) PROVE TypeOK'
  BY <1>2 DEF Begin, Launch, Move, TypeOK
<1>3. ASSUME NEW r \in Runs, Restart(r) PROVE TypeOK'
  BY <1>3 DEF Restart, Launch, TypeOK
<1>4. ASSUME NEW r \in Runs, Terminate(r) PROVE TypeOK'
  BY <1>4, KillTypeOK DEF Terminate, Move, TypeOK
<1>5. ASSUME NEW r \in Runs, Close(r) PROVE TypeOK'
  BY <1>5, KillTypeOK DEF Close, Move, TypeOK
<1>6. ASSUME NEW l \in Launches, StartReplay(l) PROVE TypeOK'
  BY <1>6 DEF StartReplay, TypeOK
<1>7. ASSUME NEW l \in Launches, Probe(l) PROVE TypeOK'
  BY <1>7 DEF Probe, TypeOK
<1>8. ASSUME NEW l \in Launches, Evict(l) PROVE TypeOK'
  BY <1>8 DEF Evict, TypeOK
<1>9. ASSUME NEW l \in Launches, Spawn(l) PROVE TypeOK'
  <2>1. l \in OfRuns => l[1] \in Runs /\ l[2] \in Nat
    BY RunLaunch
  <2>2. launch' \in [Launches -> {"none", "probing", "evicting", "ready", "dropped",
                                  "up", "told", "gone", "seen"}]
    BY <1>9 DEF Spawn, TypeOK
  <2>3. child' \in [Runs -> Nat]
    BY <1>9, <2>1 DEF Spawn, TypeOK
  <2>4. QED
    BY <1>9, <2>2, <2>3 DEF Spawn, TypeOK
<1>10. ASSUME NEW l \in Launches, Bind(l) PROVE TypeOK'
  BY <1>10 DEF Bind, TypeOK
<1>11. ASSUME NEW l \in Launches, Exit(l) PROVE TypeOK'
  BY <1>11 DEF Exit, TypeOK
<1>12. ASSUME NEW l \in Launches, ExitHandled(l) PROVE TypeOK'
  <2>1. l \in OfRuns /\ l[1] \in Runs
    BY <1>12, RunLaunch DEF ExitHandled
  <2>2. QED
    BY <1>12, <2>1 DEF ExitHandled, Move, TypeOK
<1>13. ASSUME NEW l \in Launches, ReplayEnds(l) PROVE TypeOK'
  BY <1>13 DEF ReplayEnds, TypeOK
<1>14. CASE UNCHANGED vars
  BY <1>14 DEF vars, TypeOK
<1>15. QED
  BY <1>1, <1>2, <1>3, <1>4, <1>5, <1>6, <1>7, <1>8, <1>9, <1>10, <1>11, <1>12, <1>13, <1>14
     DEF Next

-------------------------------------------------------------------------------
(***************************************************************************)
(* Sessions and the launches of their generations                          *)
(***************************************************************************)
LEMMA NextFreshSessions == TypeOK /\ FreshSessions /\ [Next]_vars => FreshSessions'
<1> SUFFICES ASSUME TypeOK, FreshSessions, [Next]_vars, NEW s \in Runs,
                    session'[s] \in {"new", "asked"}
             PROVE  generation'[s] = 0
  BY DEF FreshSessions
<1> USE DEF TypeOK, FreshSessions, adapter, machine
<1>1. ASSUME NEW r \in Runs, StartService(r) \/ Begin(r) \/ Restart(r)
      PROVE  generation'[s] = 0
  BY <1>1 DEF StartService, Begin, Restart, Launch, Move
<1>2. ASSUME NEW r \in Runs, Terminate(r) \/ Close(r) PROVE generation'[s] = 0
  BY <1>2 DEF Terminate, Close, Kill, Move
<1>3. ASSUME NEW l \in Launches,
             \/ StartReplay(l) \/ Probe(l) \/ Evict(l) \/ Spawn(l)
             \/ Bind(l) \/ Exit(l) \/ ReplayEnds(l)
      PROVE  generation'[s] = 0
  BY <1>3 DEF StartReplay, Probe, Evict, Spawn, Bind, Exit, ReplayEnds
<1>4. ASSUME NEW l \in Launches, ExitHandled(l) PROVE generation'[s] = 0
  BY <1>4 DEF ExitHandled, Move
<1>5. CASE UNCHANGED vars
  BY <1>5 DEF vars
<1>6. QED
  BY <1>1, <1>2, <1>3, <1>4, <1>5 DEF Next

\* A kill leaves no launch in the generation it moves on to.
LEMMA NextGenerationsTell ==
    TypeOK /\ FreshSessions /\ GenerationsTell /\ [Next]_vars => GenerationsTell'
<1> SUFFICES ASSUME TypeOK, FreshSessions, GenerationsTell, [Next]_vars, NEW l \in OfRuns
             PROVE  Tells(l)'
  BY DEF GenerationsTell
<1>0. /\ l[1] \in Runs /\ l[2] \in Nat /\ l \in Launches /\ l \notin OfReplays
      /\ l = <<l[1], l[2]>> /\ Tells(l)
  BY RunLaunch DEF GenerationsTell
<1> USE <1>0, ServiceAssumption DEF TypeOK, Tells, adapter, machine
<1>1. ASSUME NEW r \in Runs, StartService(r) PROVE Tells(l)'
  <2>1. session[r] = "new" /\ session' = [session EXCEPT ![r] = "asked"]
    BY <1>1 DEF StartService, Move
  <2>2. UNCHANGED <<generation, launch>>
    BY <1>1 DEF StartService
  <2>3. QED
    BY <2>1, <2>2
<1>2. ASSUME NEW r \in Runs, Begin(r) PROVE Tells(l)'
  <2>1. session[r] = "asked"
    BY <1>2 DEF Begin
  <2>2. CASE Move(r, "live") /\ Launch(r, 1, {})
    <3>1. generation[r] = 0
      BY <2>1 DEF FreshSessions
    <3>2. l[2] >= 1
      BY RunLaunch
    <3>3. QED
      BY <2>1, <2>2, <3>1, <3>2 DEF Launch, Move
  <2>3. CASE Move(r, "ending") /\ UNCHANGED <<generation, launch>>
    BY <2>1, <2>3 DEF Move
  <2>4. CASE Move(r, "over") /\ UNCHANGED <<generation, launch>>
    BY <2>1, <2>4 DEF Move
  <2>5. QED
    BY <1>2, <2>2, <2>3, <2>4 DEF Begin
<1>3. ASSUME NEW r \in Runs, Restart(r) PROVE Tells(l)'
  <2>1. l \in Child(r) => launch[l] = "up"
    BY ChildIsLaunch
  <2>2. QED
    BY <1>3, <2>1 DEF Restart, Launch
<1>4. ASSUME NEW r \in Runs, Terminate(r) \/ Close(r) PROVE Tells(l)'
  <2>1. l \in Child(r) => launch[l] = "up"
    BY ChildIsLaunch
  <2>2. QED
    BY <1>4, <2>1 DEF Terminate, Close, Kill, Move
<1>5. ASSUME NEW k \in Launches, StartReplay(k) PROVE Tells(l)'
  BY <1>5 DEF StartReplay
<1>6. ASSUME NEW k \in Launches, Probe(k) PROVE Tells(l)'
  BY <1>6 DEF Probe
<1>7. ASSUME NEW k \in Launches, Evict(k) PROVE Tells(l)'
  BY <1>7 DEF Evict, Alive
<1>8. ASSUME NEW k \in Launches, Spawn(k) PROVE Tells(l)'
  BY <1>8 DEF Spawn
<1>9. ASSUME NEW k \in Launches, Bind(k) \/ Exit(k) \/ ReplayEnds(k) PROVE Tells(l)'
  BY <1>9 DEF Bind, Exit, ReplayEnds, Alive
<1>10. ASSUME NEW k \in Launches, ExitHandled(k) PROVE Tells(l)'
  <2>1. k[1] \in Runs /\ k = <<k[1], k[2]>>
    BY <1>10, RunLaunch DEF ExitHandled
  <2>2. QED
    BY <1>10, <2>1 DEF ExitHandled, Move
<1>11. CASE UNCHANGED vars
  BY <1>11 DEF vars
<1>12. QED
  BY <1>1, <1>2, <1>3, <1>4, <1>5, <1>6, <1>7, <1>8, <1>9, <1>10, <1>11 DEF Next

\* Whoever takes a session or its generation away has told its child to end.
Owned(l) ==
    launch[l] = "up" =>
        session[l[1]] = "live" /\ child[l[1]] = l[2] /\ generation[l[1]] = l[2]

LEMMA NextNoOrphan ==
    TypeOK /\ GenerationsTell /\ NoOrphan /\ [Next]_vars => NoOrphan'
<1> SUFFICES ASSUME TypeOK, GenerationsTell, NoOrphan, [Next]_vars, NEW l \in OfRuns
             PROVE  Owned(l)'
  BY DEF NoOrphan, Owned
<1>0. /\ l[1] \in Runs /\ l[2] \in Nat /\ l \in Launches /\ l \notin OfReplays
      /\ l = <<l[1], l[2]>> /\ Tells(l) /\ Owned(l)
  BY RunLaunch DEF GenerationsTell, NoOrphan, Owned
<1> USE <1>0, ServiceAssumption DEF TypeOK, Owned, adapter, machine
<1>1. ASSUME NEW r \in Runs, StartService(r) PROVE Owned(l)'
  BY <1>1 DEF StartService, Move
<1>2. ASSUME NEW r \in Runs, Begin(r) PROVE Owned(l)'
  BY <1>2 DEF Begin, Launch, Move
<1>3. ASSUME NEW r \in Runs, Restart(r) PROVE Owned(l)'
  <2>1. l[1] = r /\ launch[l] = "up" => l \in Child(r)
    BY ChildIsLaunch
  <2>2. QED
    BY <1>3, <2>1 DEF Restart, Launch
<1>4. ASSUME NEW r \in Runs, Terminate(r) \/ Close(r) PROVE Owned(l)'
  <2>1. l[1] = r /\ launch[l] = "up" => l \in Child(r)
    BY ChildIsLaunch
  <2>2. QED
    BY <1>4, <2>1 DEF Terminate, Close, Kill, Move
<1>5. ASSUME NEW k \in Launches, StartReplay(k) PROVE Owned(l)'
  BY <1>5 DEF StartReplay
<1>6. ASSUME NEW k \in Launches, Probe(k) PROVE Owned(l)'
  BY <1>6 DEF Probe
<1>7. ASSUME NEW k \in Launches, Evict(k) PROVE Owned(l)'
  BY <1>7 DEF Evict
<1>8. ASSUME NEW k \in Launches, Spawn(k) PROVE Owned(l)'
  <2>1. CASE k \in OfRuns /\ generation[k[1]] = k[2]
    <3>1. k[1] \in Runs /\ k = <<k[1], k[2]>> /\ Tells(k)
      BY <2>1, RunLaunch DEF GenerationsTell
    <3>2. QED
      BY <1>8, <2>1, <3>1 DEF Spawn, Tells
  <2>2. CASE ~(k \in OfRuns /\ generation[k[1]] = k[2])
    BY <1>8, <2>2 DEF Spawn
  <2>3. QED
    BY <2>1, <2>2
<1>9. ASSUME NEW k \in Launches, Bind(k) \/ Exit(k) \/ ReplayEnds(k) PROVE Owned(l)'
  BY <1>9 DEF Bind, Exit, ReplayEnds
<1>10. ASSUME NEW k \in Launches, ExitHandled(k) PROVE Owned(l)'
  <2>1. k[1] \in Runs /\ k = <<k[1], k[2]>>
    BY <1>10, RunLaunch DEF ExitHandled
  <2>2. QED
    BY <1>10, <2>1 DEF ExitHandled, Move
<1>11. CASE UNCHANGED vars
  BY <1>11 DEF vars
<1>12. QED
  BY <1>1, <1>2, <1>3, <1>4, <1>5, <1>6, <1>7, <1>8, <1>9, <1>10, <1>11 DEF Next

-------------------------------------------------------------------------------
(***************************************************************************)
(* Stops and evidence                                                      *)
(***************************************************************************)
\* An exit that was seen stays seen, and a child that is told to end belongs to
\* the generation that ends with it.
Older(l) ==
    /\ fate[l] = "stopped" => l[2] < generation[l[1]]
    /\ l \in evidence => launch[l] = "seen" /\ fate[l] # "stopped"

LEMMA NextStopsAreOlder ==
    /\ TypeOK /\ FreshSessions /\ GenerationsTell /\ NoOrphan
    /\ StopsAreOlder /\ StopIsNoEvidence /\ [Next]_vars
    => StopsAreOlder' /\ StopIsNoEvidence'
<1> SUFFICES ASSUME TypeOK, FreshSessions, GenerationsTell, NoOrphan,
                    StopsAreOlder, StopIsNoEvidence, [Next]_vars
             PROVE  StopsAreOlder' /\ StopIsNoEvidence'
  OBVIOUS
<1>t. evidence' \subseteq OfRuns
  BY NextTypeOK DEF TypeOK
<1>a. SUFFICES ASSUME NEW l \in OfRuns PROVE Older(l)'
  BY <1>a, <1>t DEF StopsAreOlder, StopIsNoEvidence, Older
<1>0. /\ l[1] \in Runs /\ l[2] \in Nat /\ l \in Launches /\ l \notin OfReplays
      /\ l = <<l[1], l[2]>> /\ l[2] >= 1 /\ Tells(l) /\ Older(l) /\ Owned(l)
  BY RunLaunch DEF GenerationsTell, StopsAreOlder, StopIsNoEvidence, Older, NoOrphan, Owned
<1> USE <1>0, ServiceAssumption DEF TypeOK, Older, adapter, machine
<1>1. ASSUME NEW r \in Runs, StartService(r) PROVE Older(l)'
  BY <1>1 DEF StartService
<1>2. ASSUME NEW r \in Runs, Begin(r) PROVE Older(l)'
  <2>1. generation[r] = 0
    BY <1>2 DEF Begin, FreshSessions
  <2>2. launch[l] = "seen" => l[1] # r
    BY <2>1 DEF Tells
  <2>3. QED
    BY <1>2, <2>1, <2>2 DEF Begin, Launch, Move
<1>3. ASSUME NEW r \in Runs, Restart(r) PROVE Older(l)'
  <2>1. l \in Child(r) <=> l[1] = r /\ l[2] = child[r] /\ launch[l] = "up"
    BY ChildIsLaunch
  <2>2. generation'[r] = generation[r] + 2
    BY <1>3 DEF Restart, Launch
  <2>3. fate'[l] = "stopped" => l[2] < generation'[l[1]]
    BY <1>3, <2>1, <2>2 DEF Restart, Launch, Owned
  <2>4. launch[l] = "seen" => l # <<r, generation[r] + 2>>
    BY DEF Tells
  <2>5. launch[l] = "seen" => launch'[l] = "seen" /\ fate'[l] = fate[l]
    BY <1>3, <2>1, <2>4 DEF Restart, Launch
  <2>6. QED
    BY <1>3, <2>3, <2>5 DEF Restart
<1>4. ASSUME NEW r \in Runs, Terminate(r) \/ Close(r) PROVE Older(l)'
  <2>1. l \in Child(r) <=> l[1] = r /\ l[2] = child[r] /\ launch[l] = "up"
    BY ChildIsLaunch
  <2>2. Kill(r) /\ UNCHANGED evidence
    BY <1>4 DEF Terminate, Close
  <2>3. fate'[l] = "stopped" => l[2] < generation'[l[1]]
    BY <2>1, <2>2 DEF Kill, Owned
  <2>4. launch[l] = "seen" => launch'[l] = "seen" /\ fate'[l] = fate[l]
    BY <2>1, <2>2 DEF Kill
  <2>5. QED
    BY <2>2, <2>3, <2>4
<1>5. ASSUME NEW k \in Launches, StartReplay(k) PROVE Older(l)'
  BY <1>5 DEF StartReplay
<1>6. ASSUME NEW k \in Launches, Probe(k) PROVE Older(l)'
  BY <1>6 DEF Probe
<1>7. ASSUME NEW k \in Launches, Evict(k) PROVE Older(l)'
  BY <1>7 DEF Evict, Alive
<1>8. ASSUME NEW k \in Launches, Spawn(k) PROVE Older(l)'
  BY <1>8 DEF Spawn
<1>9. ASSUME NEW k \in Launches, Bind(k) \/ Exit(k) \/ ReplayEnds(k) PROVE Older(l)'
  BY <1>9 DEF Bind, Exit, ReplayEnds, Alive
<1>10. ASSUME NEW k \in Launches, ExitHandled(k) PROVE Older(l)'
  BY <1>10 DEF ExitHandled
<1>11. CASE UNCHANGED vars
  BY <1>11 DEF vars
<1>12. QED
  BY <1>1, <1>2, <1>3, <1>4, <1>5, <1>6, <1>7, <1>8, <1>9, <1>10, <1>11 DEF Next

-------------------------------------------------------------------------------
(***************************************************************************)
(* The map of the sessions                                                 *)
(***************************************************************************)
\* The exit of a child of the current generation comes to a live session only.
LEMMA ExitOfLive ==
    ASSUME GenerationsTell, NEW l \in Launches, ExitHandled(l)
    PROVE  /\ UNCHANGED <<tracked, overlap>>
           /\ \/ UNCHANGED session
              \/ session[l[1]] = "live" /\ l[1] \in Runs /\ Move(l[1], "ending")
  BY RunLaunch DEF ExitHandled, GenerationsTell, Tells

\* Steps of launches and processes other than an exit leave the sessions alone.
LEMMA MachineStep ==
    ASSUME NEW l \in Launches,
           \/ StartReplay(l) \/ Probe(l) \/ Evict(l) \/ Spawn(l)
           \/ Bind(l) \/ Exit(l) \/ ReplayEnds(l)
    PROVE  UNCHANGED <<session, tracked, overlap>>
  BY DEF StartReplay, Probe, Evict, Spawn, Bind, Exit, ReplayEnds, adapter, machine

LEMMA NextTracked ==
    TypeOK /\ GenerationsTell /\ OneSession /\ SessionIsTracked /\ [Next]_vars
    => OneSession' /\ SessionIsTracked'
<1> SUFFICES ASSUME TypeOK, GenerationsTell, OneSession, SessionIsTracked, [Next]_vars
             PROVE  OneSession' /\ SessionIsTracked'
  OBVIOUS
<1> USE DEF TypeOK, OneSession, SessionIsTracked, Under
<1>1. ASSUME NEW r \in Runs, StartService(r) PROVE OneSession' /\ SessionIsTracked'
  <2>1. /\ session[r] = "new" /\ tracked = None /\ tracked' = None
        /\ session' = [session EXCEPT ![r] = "asked"]
    BY <1>1 DEF StartService, Move
  <2>2. ~overlap' => ~overlap /\ \A s \in Runs : session[s] # "asked"
    BY <1>1 DEF StartService
  <2>3. ~overlap' => \A s \in Runs : session[s] \notin Under
    BY <2>1, <2>2, Outsiders
  <2>4. QED
    BY <2>1, <2>3
<1>2. ASSUME NEW r \in Runs, Begin(r) PROVE OneSession' /\ SessionIsTracked'
  <2>1. session[r] = "asked" /\ UNCHANGED overlap
    BY <1>2 DEF Begin
  <2>2. \A s \in Runs \ {r} : session'[s] = session[s]
    BY <1>2 DEF Begin, Move
  <2>3. ~overlap => \A s \in Runs \ {r} : session[s] \notin Under
    BY <2>1
  <2>4. session'[r] = "over" \/ tracked' = r
    BY <1>2 DEF Begin, Move
  <2>5. QED
    BY <2>1, <2>2, <2>3, <2>4
<1>3. ASSUME NEW r \in Runs, Restart(r) PROVE OneSession' /\ SessionIsTracked'
  BY <1>3 DEF Restart
<1>4. ASSUME NEW r \in Runs, Terminate(r) PROVE OneSession' /\ SessionIsTracked'
  BY <1>4 DEF Terminate, Move
<1>5. ASSUME NEW r \in Runs, Close(r) PROVE OneSession' /\ SessionIsTracked'
  <2>1. /\ session[r] = "ending" /\ session' = [session EXCEPT ![r] = "over"]
        /\ UNCHANGED overlap
    BY <1>5 DEF Close, Move
  <2>2. ~overlap => \A s \in Runs : session'[s] \notin Under
    BY <2>1
  <2>3. QED
    BY <2>1, <2>2
<1>6. ASSUME NEW l \in Launches,
             \/ StartReplay(l) \/ Probe(l) \/ Evict(l) \/ Spawn(l)
             \/ Bind(l) \/ Exit(l) \/ ReplayEnds(l)
      PROVE  OneSession' /\ SessionIsTracked'
  BY <1>6, MachineStep
<1>7. ASSUME NEW l \in Launches, ExitHandled(l) PROVE OneSession' /\ SessionIsTracked'
  BY <1>7, ExitOfLive DEF Move
<1>8. CASE UNCHANGED vars
  BY <1>8 DEF vars, adapter
<1>9. QED
  BY <1>1, <1>2, <1>3, <1>4, <1>5, <1>6, <1>7, <1>8 DEF Next

-------------------------------------------------------------------------------
(***************************************************************************)
(* The service runner: the theorems                                        *)
(***************************************************************************)
LEMMA InitIInv == Init => IInv
<1> SUFFICES ASSUME Init PROVE IInv
  OBVIOUS
<1>1. TypeOK
  BY InitTypeOK
<1>2. \A l \in OfRuns : l \in Launches
  BY RunLaunch
<1>3. FreshSessions /\ OneSession /\ SessionIsTracked
  BY DEF Init, FreshSessions, OneSession, SessionIsTracked, Under
<1>4. GenerationsTell /\ NoOrphan /\ StopsAreOlder /\ StopIsNoEvidence
  BY <1>2 DEF Init, GenerationsTell, Tells, NoOrphan, StopsAreOlder, StopIsNoEvidence
<1>5. QED
  BY <1>1, <1>3, <1>4 DEF IInv

LEMMA NextIInv == IInv /\ [Next]_vars => IInv'
  BY NextTypeOK, NextFreshSessions, NextGenerationsTell, NextNoOrphan, NextStopsAreOlder,
     NextTracked DEF IInv

\* The invariant holds in every state of every behaviour.
THEOREM Invariance == Spec => []IInv
  BY InitIInv, NextIInv, PTL DEF Spec

\* Every variable of the service runner (serviceRunner.ts) has its type.
THEOREM TypeCorrect == Spec => []TypeOK
<1>1. IInv => TypeOK
  BY DEF IInv
<1>2. QED
  BY <1>1, Invariance, PTL

\* A stop, a restart or a teardown that comes while a launch waits for the port
\* leaves no server behind: a process that nobody told to end is the current
\* child of a live session.
THEOREM NoServerIsLeft == Spec => []NoOrphan
<1>1. IInv => NoOrphan
  BY DEF IInv
<1>2. QED
  BY <1>1, Invariance, PTL

\* A run that was stopped or restarted on purpose never becomes the failure
\* evidence that the automatic triggers act on.
THEOREM StopsTeachNothing == Spec => []StopIsNoEvidence
<1>1. IInv => StopIsNoEvidence
  BY DEF IInv
<1>2. QED
  BY <1>1, Invariance, PTL

\* As long as no two starts overlap, the session map names the one session.
THEOREM SessionsAreTracked == Spec => []SessionIsTracked
<1>1. IInv => SessionIsTracked
  BY DEF IInv
<1>2. QED
  BY <1>1, Invariance, PTL

-------------------------------------------------------------------------------
(***************************************************************************)
(* Induction and sums                                                      *)
(***************************************************************************)
\* Induction over the natural numbers, for a set of them.
LEMMA Stepwise ==
    ASSUME NEW G, 0 \in G, \A n \in Nat : n \in G => n + 1 \in G
    PROVE  Nat \subseteq G
<1> DEFINE Less == {ss \in Nat \X Nat : ss[1] < ss[2]}
           Bad == Nat \ G
<1>1. SUFFICES ASSUME Bad # {} PROVE FALSE
  OBVIOUS
<1>2. IsWellFoundedOn(Less, Nat)
  BY NatLessThanWellFounded DEF OpToRel
<1>3. PICK n \in Bad : \A m \in Bad : ~(<<m, n>> \in Less)
  BY <1>1, <1>2, WFMin
<1>4. n \in Nat /\ n # 0
  BY <1>3
<1>5. n - 1 \in Nat /\ n - 1 < n /\ (n - 1) + 1 = n
  BY <1>4
<1>6. n - 1 \in G
  BY <1>3, <1>4, <1>5
<1>7. QED
  BY <1>3, <1>5, <1>6

\* Induction over the subsets of a finite set, for a set of them.
LEMMA SubsetByOne ==
    ASSUME NEW S, IsFiniteSet(S), NEW G,
           \A T \in SUBSET S : (\A x \in T : T \ {x} \in G) => T \in G
    PROVE  SUBSET S \subseteq G
<1> DEFINE Level == {n \in Nat : \A T \in SUBSET S : Cardinality(T) = n => T \in G}
<1>1. \A T \in SUBSET S : IsFiniteSet(T) /\ Cardinality(T) \in Nat
  BY FS_Subset, FS_CardinalityType
<1>2. 0 \in Level
  BY <1>1, FS_EmptySet
<1>3. ASSUME NEW n \in Nat, n \in Level PROVE n + 1 \in Level
  <2>1. SUFFICES ASSUME NEW T \in SUBSET S, Cardinality(T) = n + 1, NEW x \in T
                 PROVE  T \ {x} \in G
    OBVIOUS
  <2>2. Cardinality(T \ {x}) = n
    BY <1>1, <2>1, FS_RemoveElement
  <2>3. QED
    BY <1>3, <2>2
<1>4. Nat \subseteq Level
  <2> HIDE DEF Level
  <2> QED
    BY <1>2, <1>3, Stepwise
<1>5. QED
  BY <1>1, <1>4

\* What a sum is by the fold that defines it: h gives the sum over each set of signatures.
Take(T) == CHOOSE x \in T : TRUE
Sums(h, f) ==
    \A T \in SUBSET Signatures :
        h[T] = IF T = {} THEN 0 ELSE f[Take(T)] + h[T \ {Take(T)}]

LEMMA SumsExist ==
    ASSUME NEW f \in Spend
    PROVE  \E h \in [SUBSET Signatures -> Nat] : Sums(h, f)
<1> DEFINE Right(h, T) == h[T] = IF T = {} THEN 0 ELSE f[Take(T)] + h[T \ {Take(T)}]
           Level == {n \in Nat : \E h \in [SUBSET Signatures -> Nat] :
                        \A T \in SUBSET Signatures : Cardinality(T) <= n => Right(h, T)}
<1>1. \A T \in SUBSET Signatures : IsFiniteSet(T) /\ Cardinality(T) \in Nat
  BY FS_Subset, FS_CardinalityType, PolicyAssumption
<1>2. \A T \in SUBSET Signatures : T # {} => Take(T) \in T
  BY DEF Take
<1>3. 0 \in Level
  <2> DEFINE h == [T \in SUBSET Signatures |-> 0]
  <2>1. \A T \in SUBSET Signatures : Cardinality(T) <= 0 => T = {}
    BY <1>1, FS_EmptySet
  <2>2. h \in [SUBSET Signatures -> Nat]
    OBVIOUS
  <2>3. \A T \in SUBSET Signatures : Cardinality(T) <= 0 => Right(h, T)
    BY <2>1
  <2> HIDE DEF h
  <2>4. QED
    BY <2>2, <2>3
<1>4. ASSUME NEW n \in Nat, n \in Level PROVE n + 1 \in Level
  <2>1. PICK h \in [SUBSET Signatures -> Nat] :
            \A T \in SUBSET Signatures : Cardinality(T) <= n => Right(h, T)
    BY <1>4
  <2> DEFINE k == [T \in SUBSET Signatures |-> IF T = {} THEN 0 ELSE f[Take(T)] + h[T \ {Take(T)}]]
  <2>2. k \in [SUBSET Signatures -> Nat]
    <3>1. ASSUME NEW T \in SUBSET Signatures, T # {}
          PROVE  f[Take(T)] + h[T \ {Take(T)}] \in Nat
      <4>1. Take(T) \in Signatures /\ T \ {Take(T)} \in SUBSET Signatures
        BY <1>2, <3>1
      <4>2. f[Take(T)] \in Nat /\ h[T \ {Take(T)}] \in Nat
        BY <2>1, <4>1 DEF Spend
      <4>3. QED
        BY <4>2
    <3>2. QED
      BY <3>1
  <2>3. ASSUME NEW T \in SUBSET Signatures, Cardinality(T) <= n PROVE k[T] = h[T]
    BY <2>1, <2>3
  <2>4. ASSUME NEW T \in SUBSET Signatures, Cardinality(T) <= n + 1 PROVE Right(k, T)
    <3>1. CASE T = {}
      BY <3>1
    <3>2. CASE T # {}
      <4>1. Take(T) \in T /\ T \ {Take(T)} \in SUBSET Signatures
        BY <1>2, <3>2
      <4>2. Cardinality(T \ {Take(T)}) <= n
        BY <1>1, <2>4, <4>1, FS_RemoveElement
      <4>3. k[T \ {Take(T)}] = h[T \ {Take(T)}]
        BY <2>3, <4>1, <4>2
      <4>4. QED
        BY <3>2, <4>3
    <3>3. QED
      BY <3>1, <3>2
  <2>5. \A T \in SUBSET Signatures : Cardinality(T) <= n + 1 => Right(k, T)
    BY <2>4
  <2> HIDE DEF k
  <2>6. \E j \in [SUBSET Signatures -> Nat] :
            \A T \in SUBSET Signatures : Cardinality(T) <= n + 1 => Right(j, T)
    BY <2>2, <2>5, Zenon
  <2>7. n + 1 \in Nat
    OBVIOUS
  <2>8. QED
    BY <2>6, <2>7, Zenon
<1>5. Nat \subseteq Level
  <2> HIDE DEF Level
  <2> QED
    BY <1>3, <1>4, Stepwise
<1>6. Cardinality(Signatures) \in Level
  BY <1>1, <1>5
<1>7. PICK h \in [SUBSET Signatures -> Nat] :
          \A T \in SUBSET Signatures : Cardinality(T) <= Cardinality(Signatures) => Right(h, T)
  BY <1>6
<1>8. \A T \in SUBSET Signatures : Cardinality(T) <= Cardinality(Signatures)
  BY FS_Subset, PolicyAssumption
<1>9. QED
  BY <1>7, <1>8 DEF Sums

LEMMA SumUnfolds ==
    ASSUME NEW f \in Spend
    PROVE  \E h : Sums(h, f) /\ SumFunction(f) = h[Signatures]
<1> DEFINE Body(h) == [T \in SUBSET Signatures |->
                          IF T = {} THEN 0 ELSE f[Take(T)] + h[T \ {Take(T)}]]
           iter == CHOOSE h : h = Body(h)
<1>1. PICK h \in [SUBSET Signatures -> Nat] : Sums(h, f)
  BY SumsExist
<1>2. h = Body(h)
  BY <1>1 DEF Sums
<1>3. iter = Body(iter)
  <2> HIDE DEF Body
  <2> QED
    BY <1>2
<1>4. DOMAIN f = Signatures
  BY DEF Spend
<1>5. SumFunction(f) = iter[Signatures]
  BY <1>4, Zenon DEF SumFunction, SumFunctionOnSet, FoldFunctionOnSet, MapThenFoldSet, Take
<1>6. Sums(iter, f)
  <2> HIDE DEF iter
  <2> QED
    BY <1>3 DEF Sums
<1>7. QED
  BY <1>5, <1>6

\* An episode spent on a signature is one more in all (decideOnFailure).
LEMMA SumOfSpend ==
    ASSUME NEW f \in Spend, NEW g \in Signatures
    PROVE  /\ SumFunction(f) \in Nat
           /\ SumFunction(SpendOn(f, g)) = SumFunction(f) + 1
           /\ SpendOn(f, g) \in Spend
<1> DEFINE s == SpendOn(f, g)
<1>1. s \in Spend /\ \A x \in Signatures : s[x] = IF x = g THEN f[x] + 1 ELSE f[x]
  BY DEF SpendOn, Spend
<1>2. PICK h : Sums(h, f) /\ SumFunction(f) = h[Signatures]
  BY SumUnfolds
<1> HIDE DEF s
<1>3. PICK k : Sums(k, s) /\ SumFunction(s) = k[Signatures]
  BY <1>1, SumUnfolds
<1> DEFINE G == {T \in SUBSET Signatures :
                    h[T] \in Nat /\ k[T] = IF g \in T THEN h[T] + 1 ELSE h[T]}
<1>4. ASSUME NEW T \in SUBSET Signatures, \A x \in T : T \ {x} \in G PROVE T \in G
  <2>1. CASE T = {}
    <3>1. h[{}] = 0 /\ k[{}] = 0
      BY <1>2, <1>3, <2>1 DEF Sums
    <3>2. QED
      BY <2>1, <3>1
  <2>2. CASE T # {}
    <3> DEFINE x == Take(T)
    <3>1. x \in T
      BY <2>2 DEF Take
    <3>2. h[T] = f[x] + h[T \ {x}] /\ k[T] = s[x] + k[T \ {x}]
      BY <1>2, <1>3, <2>2 DEF Sums
    <3> HIDE DEF x
    <3>3. h[T \ {x}] \in Nat /\ k[T \ {x}] = IF g \in T \ {x} THEN h[T \ {x}] + 1 ELSE h[T \ {x}]
      BY <1>4, <3>1
    <3>4. f[x] \in Nat /\ s[x] = IF x = g THEN f[x] + 1 ELSE f[x]
      BY <1>1, <3>1 DEF Spend
    <3>5. CASE x = g
      BY <3>1, <3>2, <3>3, <3>4, <3>5
    <3>6. CASE x # g
      <4>1. g \in T \ {x} <=> g \in T
        BY <3>6
      <4>2. QED
        BY <3>2, <3>3, <3>4, <3>6, <4>1
    <3>7. QED
      BY <3>5, <3>6
  <2>3. QED
    BY <2>1, <2>2
<1>5. SUBSET Signatures \subseteq G
  <2> HIDE DEF G
  <2> QED
    BY <1>4, SubsetByOne, PolicyAssumption
<1>6. QED
  BY <1>1, <1>2, <1>3, <1>5 DEF s

\* Nothing spent sums to nothing.
LEMMA SumOfNoSpend == NoSpend \in Spend /\ SumFunction(NoSpend) = 0
<1>1. NoSpend \in Spend /\ \A x \in Signatures : NoSpend[x] = 0
  BY DEF NoSpend, Spend
<1>2. PICK h : Sums(h, NoSpend) /\ SumFunction(NoSpend) = h[Signatures]
  BY <1>1, SumUnfolds
<1> DEFINE G == {T \in SUBSET Signatures : h[T] = 0}
<1>3. ASSUME NEW T \in SUBSET Signatures, \A x \in T : T \ {x} \in G PROVE T \in G
  <2>1. CASE T = {}
    BY <1>2, <2>1 DEF Sums
  <2>2. CASE T # {}
    <3> DEFINE x == Take(T)
    <3>1. x \in T
      BY <2>2 DEF Take
    <3>2. h[T] = NoSpend[x] + h[T \ {x}]
      BY <1>2, <2>2 DEF Sums
    <3> HIDE DEF x
    <3>3. NoSpend[x] = 0 /\ h[T \ {x}] = 0
      BY <1>1, <1>3, <3>1
    <3>4. QED
      BY <3>2, <3>3
  <2>3. QED
    BY <2>1, <2>2
<1>4. SUBSET Signatures \subseteq G
  <2> HIDE DEF G
  <2> QED
    BY <1>3, SubsetByOne, PolicyAssumption
<1>5. QED
  BY <1>1, <1>2, <1>4

-------------------------------------------------------------------------------
(***************************************************************************)
(* Auto-Pilot: the inductive invariant                                     *)
(***************************************************************************)
AllTerminal(svcs) == \A s \in Services : svcs[s].phase \in Terminal

\* There is something to exercise, or nothing is left to bring up.
Ready(svcs) == AnyGreen(svcs) \/ AllTerminal(svcs)

\* The awaits at which one service is being worked on.
Serving == {"setup", "bringup", "start", "failure", "topup", "fix"}

\* The plan an await was entered by still describes the run.
PlanStands ==
    /\ pc \in Serving =>
          /\ discovered /\ action.service \in Services
          /\ \/ action.kind = "setup" /\ Current.phase = "needs-setup"
             \/ action.kind = "start" /\ Current.phase = "needs-start"
    /\ pc \in {"setup", "bringup"} => action.kind = "setup"
    /\ pc = "start" => action.kind = "start"
    /\ pc = "stage" =>
          /\ discovered /\ action.kind \in Stages
          /\ ledger[action.kind] = "pending"
          /\ action.kind = "exercise" => Ready(services)
    /\ pc = "discover" => ~discovered

\* A service that is to be set up has an attempt left, but while one is judged.
SetupRoom ==
    /\ budgets.setups > 0
    /\ \A s \in Services :
          services[s].phase = "needs-setup" =>
              \/ services[s].setups < budgets.setups
              \/ s = action.service /\ pc \in {"bringup", "failure", "topup"}

\* Exercise is done only where there was something to exercise, and the re-arm
\* then leaves probes skipped only where nothing is green.
ProbesFollow ==
    /\ ~discovered => ledger.exercise = "pending"
    /\ ledger.exercise = "done" => Ready(services)
    /\ ~probed => ledger.probes \in {"pending", "skipped"}
    /\ ledger.rearmed => ledger.exercise = "done"
    /\ ~probed /\ ledger.exercise = "done" =>
          ledger.probes = "pending" \/ (~AnyGreen(services) /\ AllTerminal(services))

\* A run that is done had nothing left to plan.
NothingPlanned ==
    pc = "done" =>
        /\ AllTerminal(services)
        /\ ledger.exercise # "pending" /\ ledger.probes # "pending"

PilotInv ==
    /\ PilotTypeOK
    /\ PlanStands
    /\ SetupRoom
    /\ WithinBudget
    /\ ProbesFollow
    /\ NothingPlanned

-------------------------------------------------------------------------------
(***************************************************************************)
(* Auto-Pilot: the operators                                               *)
(***************************************************************************)
LEMMA FirstIn ==
    ASSUME NEW S \in SUBSET Nat, S # {}
    PROVE  First(S) \in S
<1> DEFINE Less == {ss \in Nat \X Nat : ss[1] < ss[2]}
<1>1. IsWellFoundedOn(Less, Nat)
  BY NatLessThanWellFounded DEF OpToRel
<1>2. PICK n \in S : \A m \in S : ~(<<m, n>> \in Less)
  BY <1>1, WFMin
<1>3. ASSUME NEW m \in S PROVE n <= m
  <2>1. ~(<<m, n>> \in Less) /\ m \in Nat /\ n \in Nat
    BY <1>2
  <2>2. QED
    BY <2>1
<1>4. QED
  BY <1>3 DEF First

\* What each edit of a service leaves of it.
LEMMA ServiceEdits ==
    ASSUME NEW svc \in ServiceStates
    PROVE  /\ \A p \in Phases : With(svc, p) \in ServiceStates
           /\ \A p : /\ With(svc, p).phase = p
                     /\ With(svc, p).setups = svc.setups
                     /\ With(svc, p).fixes = svc.fixes
           /\ NoteSetupAttempt(svc) \in ServiceStates
           /\ NoteSetupAttempt(svc).phase = svc.phase
           /\ NoteSetupAttempt(svc).setups = svc.setups + 1
           /\ NoteSetupAttempt(svc).fixes = svc.fixes
  BY DEF ServiceStates, With, NoteSetupAttempt

LEMMA OutcomeEdits ==
    ASSUME NEW svc \in ServiceStates, NEW found \in Outcomes
    PROVE  LET out == ApplySetupOutcome(svc, found)
           IN  /\ out \in ServiceStates
               /\ out.setups = svc.setups /\ out.fixes = svc.fixes
               /\ out.phase = IF found = "verified" THEN "needs-start"
                              ELSE IF found = "library" THEN "library" ELSE "needs-setup"
<1>1. CASE found = "verified"
  BY <1>1, ServiceEdits DEF ApplySetupOutcome, Phases, Terminal
<1>2. CASE found = "library"
  BY <1>2, ServiceEdits DEF ApplySetupOutcome, Phases, Terminal
<1>3. CASE found \notin {"verified", "library"}
  <2>1. ApplySetupOutcome(svc, found) = With(svc, "needs-setup")
    BY <1>3 DEF ApplySetupOutcome
  <2>2. QED
    BY <1>3, <2>1, ServiceEdits DEF Phases
<1>4. QED
  BY <1>1, <1>2, <1>3

LEMMA GrantEdits ==
    ASSUME NEW svc \in ServiceStates
    PROVE  LET out == GrantMoreBudget(svc)
           IN  /\ out \in ServiceStates
               /\ out.setups = 0 /\ out.fixes = NoSpend
               /\ svc.phase # "gave-up" => out.phase = svc.phase
  BY SumOfNoSpend DEF ServiceStates, GrantMoreBudget, Phases

LEMMA SpendEdits ==
    ASSUME NEW svc \in ServiceStates, NEW g \in Signatures
    PROVE  LET out == [svc EXCEPT !.fixes = SpendOn(@, g)]
           IN  /\ out \in ServiceStates
               /\ out.phase = svc.phase /\ out.setups = svc.setups
               /\ out.fixes = SpendOn(svc.fixes, g)
<1>1. svc.fixes \in Spend
  BY DEF ServiceStates
<1>2. SpendOn(svc.fixes, g) \in Spend
  BY <1>1, SumOfSpend
<1>3. QED
  BY <1>2 DEF ServiceStates

\* A service that is new has spent nothing.
LEMMA NewServices ==
    ASSUME NEW svcs \in BuildServiceStates \cup {[s \in Services |-> NewService("needs-setup")]}
    PROVE  /\ svcs \in [Services -> ServiceStates]
           /\ \A s \in Services : svcs[s].setups = 0 /\ svcs[s].fixes = NoSpend
<1>1. \A p \in Phases : /\ NewService(p) \in ServiceStates
                        /\ NewService(p).setups = 0 /\ NewService(p).fixes = NoSpend
  BY SumOfNoSpend DEF NewService, ServiceStates
<1>2. \A o \in Outcomes, r \in BOOLEAN : \E p \in Phases : InitialServiceState(o, r) = NewService(p)
  BY DEF InitialServiceState, Outcomes, Phases, Terminal
<1>3. CASE svcs \in BuildServiceStates
  BY <1>1, <1>2, <1>3 DEF BuildServiceStates
<1>4. CASE svcs = [s \in Services |-> NewService("needs-setup")]
  BY <1>1, <1>4 DEF Phases
<1>5. QED
  BY <1>3, <1>4

\* What the scheduler answers (planNextAction, planPipelineAction).
LEMMA NextActionMeans ==
    ASSUME NEW svcs \in [Services -> ServiceStates], NEW d \in BOOLEAN
    PROVE  LET act == PlanNextAction(d, svcs)
           IN  /\ act \in Actions
               /\ \/ act.kind = "discover" /\ ~d
                  \/ d /\ act.kind = "setup" /\ act.service \in Services
                       /\ svcs[act.service].phase = "needs-setup"
                  \/ d /\ act.kind = "start" /\ act.service \in Services
                       /\ svcs[act.service].phase = "needs-start"
                  \/ d /\ act.kind = "done" /\ AllTerminal(svcs)
<1>1. \A p : In(svcs, p) \subseteq Services /\ In(svcs, p) \in SUBSET Nat
  BY PolicyAssumption DEF In
<1>2. \A p : In(svcs, p) # {} => /\ First(In(svcs, p)) \in Services
                                 /\ svcs[First(In(svcs, p))].phase = p
  <2>1. \A p : In(svcs, p) # {} => First(In(svcs, p)) \in In(svcs, p)
    BY <1>1, FirstIn
  <2>2. QED
    BY <2>1 DEF In
<1>3. \A k, s : Action(k, s).kind = k /\ Action(k, s).service = s
  BY DEF Action
<1>4. \A k \in {"discover", "setup", "start", "done"}, s \in Services \cup {NoService} :
          Action(k, s) \in Actions
  BY DEF Action, Actions
<1>5. CASE ~d
  BY <1>3, <1>4, <1>5 DEF PlanNextAction
<1>6. CASE d /\ In(svcs, "needs-setup") # {}
  BY <1>2, <1>3, <1>4, <1>6 DEF PlanNextAction
<1>7. CASE d /\ In(svcs, "needs-setup") = {} /\ In(svcs, "needs-start") # {}
  BY <1>2, <1>3, <1>4, <1>7 DEF PlanNextAction
<1>8. CASE d /\ In(svcs, "needs-setup") = {} /\ In(svcs, "needs-start") = {}
  <2>1. AllTerminal(svcs)
    BY <1>8 DEF AllTerminal, In, ServiceStates, Phases
  <2>2. QED
    BY <1>3, <1>4, <1>8, <2>1 DEF PlanNextAction
<1>9. QED
  BY <1>5, <1>6, <1>7, <1>8

LEMMA PipelineActionMeans ==
    ASSUME NEW svcs \in [Services -> ServiceStates], NEW d \in BOOLEAN, NEW l \in Ledgers
    PROVE  LET act == PlanPipelineAction(d, svcs, l)
           IN  /\ act \in Actions
               /\ \/ act.kind = "discover" /\ ~d
                  \/ d /\ act.kind = "setup" /\ act.service \in Services
                       /\ svcs[act.service].phase = "needs-setup"
                  \/ d /\ act.kind = "start" /\ act.service \in Services
                       /\ svcs[act.service].phase = "needs-start"
                  \/ d /\ act.kind = "probes" /\ l.probes = "pending"
                  \/ d /\ act.kind = "exercise" /\ l.exercise = "pending" /\ Ready(svcs)
                  \/ d /\ act.kind = "done" /\ AllTerminal(svcs) /\ l.exercise # "pending"
                       /\ ~(AnyGreen(svcs) /\ l.probes = "pending")
<1> DEFINE act == PlanNextAction(d, svcs)
<1>1. /\ act \in Actions
      /\ \/ act.kind = "discover" /\ ~d
         \/ d /\ act.kind = "setup" /\ act.service \in Services
              /\ svcs[act.service].phase = "needs-setup"
         \/ d /\ act.kind = "start" /\ act.service \in Services
              /\ svcs[act.service].phase = "needs-start"
         \/ d /\ act.kind = "done" /\ AllTerminal(svcs)
  BY NextActionMeans
<1>2. \A k \in Stages \cup {"done"} : /\ Action(k, NoService).kind = k
                                      /\ Action(k, NoService) \in Actions
  BY DEF Action, Actions
<1>3. PlanPipelineAction(d, svcs, l) =
        CASE ExercisesEarly(act, svcs, l) -> Action("exercise", NoService)
          [] ~ExercisesEarly(act, svcs, l) /\ act.kind # "done" -> act
          [] act.kind = "done" /\ AnyGreen(svcs) /\ l.probes = "pending" ->
                 Action("probes", NoService)
          [] act.kind = "done" /\ ~(AnyGreen(svcs) /\ l.probes = "pending")
                 /\ l.exercise = "pending" -> Action("exercise", NoService)
          [] OTHER -> Action("done", NoService)
  BY DEF PlanPipelineAction
<1>4. ExercisesEarly(act, svcs, l) => act.kind = "setup" /\ l.exercise = "pending" /\ Ready(svcs)
  BY DEF ExercisesEarly, Ready
<1> HIDE DEF act
<1>5. CASE ExercisesEarly(act, svcs, l)
  BY <1>1, <1>2, <1>3, <1>4, <1>5 DEF Stages
<1>6. CASE ~ExercisesEarly(act, svcs, l) /\ act.kind # "done"
  BY <1>1, <1>3, <1>6
<1>7. CASE act.kind = "done"
  <2>1. ~ExercisesEarly(act, svcs, l) /\ AllTerminal(svcs) /\ Ready(svcs) /\ d
    BY <1>1, <1>4, <1>7 DEF Ready
  <2>2. CASE AnyGreen(svcs) /\ l.probes = "pending"
    BY <1>2, <1>3, <1>7, <2>1, <2>2 DEF Stages
  <2>3. CASE ~(AnyGreen(svcs) /\ l.probes = "pending") /\ l.exercise = "pending"
    BY <1>2, <1>3, <1>7, <2>1, <2>3 DEF Stages
  <2>4. CASE ~(AnyGreen(svcs) /\ l.probes = "pending") /\ l.exercise # "pending"
    BY <1>2, <1>3, <1>7, <2>1, <2>4 DEF Stages
  <2>5. QED
    BY <2>2, <2>3, <2>4
<1>8. QED
  BY <1>5, <1>6, <1>7

-------------------------------------------------------------------------------
(***************************************************************************)
(* Auto-Pilot: one step on one service                                     *)
(***************************************************************************)
Serve ==
    \/ WaitCancelled \/ SetupBlocked \/ BeginSetup \/ ServiceDisappeared
    \/ BringupReturns \/ StartSettles \/ StartCancelled \/ StartFails
    \/ FailureBlocked \/ BudgetSpent \/ SpendFix \/ FixReturns
    \/ TopUp \/ DeclineTopUp

Affordable(svc, b) ==
    /\ svc.setups <= b.setups
    /\ \A g \in Signatures : svc.fixes[g] <= b.perSignature
    /\ SumFunction(svc.fixes) <= b.total

\* What such a step makes of the service it works on.
Served(svc) ==
    /\ svc \in ServiceStates
    /\ Affordable(svc, budgets')
    /\ Replace(svc)
    /\ pc' # "plan" =>
          /\ pc' \in {"bringup", "failure", "topup", "fix"}
          /\ pc' = "bringup" => pc = "setup"
          /\ svc.phase = Current.phase
    /\ svc.phase = "needs-setup" =>
          svc.setups < budgets'.setups \/ pc' \in {"bringup", "failure", "topup"}

LEMMA CurrentKnown ==
    ASSUME PilotTypeOK, PlanStands, WithinBudget, pc \in Serving
    PROVE  /\ action.service \in Services
           /\ Current \in ServiceStates /\ Current.fixes \in Spend
           /\ Current.phase \in {"needs-setup", "needs-start"}
           /\ Current.setups \in Nat
           /\ Affordable(Current, budgets)
           /\ Replace(Current) <=> services' = services
<1>1. action.service \in Services /\ services \in [Services -> ServiceStates]
      /\ Current.phase \in {"needs-setup", "needs-start"}
  BY DEF PilotTypeOK, PlanStands
<1>2. Current \in ServiceStates /\ (Replace(Current) <=> services' = services)
  BY <1>1 DEF Current, Replace
<1>3. Current.fixes \in Spend /\ Current.setups \in Nat
  BY <1>2 DEF ServiceStates
<1>4. Affordable(Current, budgets)
  BY <1>1 DEF WithinBudget, Affordable, Current
<1>5. QED
  BY <1>1, <1>2, <1>3, <1>4

LEMMA WithAffordable ==
    ASSUME NEW svc \in ServiceStates, NEW p \in Phases, NEW b, Affordable(svc, b)
    PROVE  With(svc, p) \in ServiceStates /\ Affordable(With(svc, p), b)
  BY ServiceEdits DEF Affordable

LEMMA ServeStep ==
    ASSUME PilotTypeOK, PlanStands, SetupRoom, WithinBudget, Serve
    PROVE  /\ pc \in Serving
           /\ UNCHANGED <<discovered, ledger, action, probed>>
           /\ signature' \in Signatures /\ cancelled' \in BOOLEAN /\ topUps' \in Nat
           /\ budgets' \in Budgets /\ budgets'.setups >= budgets.setups
           /\ budgets'.perSignature >= budgets.perSignature /\ budgets'.total >= budgets.total
           /\ \E svc : Served(svc)
<1> USE DEF Served
<1>1. pc \in Serving
  BY DEF Serve, Serving, WaitCancelled, SetupBlocked, BeginSetup, ServiceDisappeared,
         BringupReturns, StartSettles, StartCancelled, StartFails, FailureBlocked,
         BudgetSpent, SpendFix, FixReturns, TopUp, DeclineTopUp
<1>2. /\ action.service \in Services
      /\ Current \in ServiceStates /\ Current.fixes \in Spend
      /\ Current.phase \in {"needs-setup", "needs-start"}
      /\ Current.setups \in Nat
      /\ Affordable(Current, budgets)
      /\ Replace(Current) <=> services' = services
  BY <1>1, CurrentKnown
<1>3. budgets \in Budgets /\ signature \in Signatures /\ cancelled \in BOOLEAN /\ topUps \in Nat
  BY DEF PilotTypeOK
<1>4. /\ pc \in {"setup", "bringup"} => Current.phase = "needs-setup"
      /\ pc = "start" => Current.phase = "needs-start"
      /\ Current.phase = "needs-setup" <=> action.kind = "setup"
  BY <1>1 DEF PlanStands
<1>5. Current.phase = "needs-setup" =>
          Current.setups < budgets.setups \/ pc \in {"bringup", "failure", "topup"}
  BY <1>2 DEF SetupRoom, Current
<1>6. "gave-up" \in Phases /\ "green" \in Phases /\ "library" \in Phases
  BY DEF Phases, Terminal
\* Giving the service up, whatever the step.
<1>7. ASSUME Replace(With(Current, "gave-up")), pc' = "plan", budgets' = budgets
      PROVE  Served(With(Current, "gave-up"))
  BY <1>2, <1>6, <1>7, ServiceEdits, WithAffordable
\* Leaving it as it is.
<1>8. ASSUME services' = services, budgets' = budgets,
             pc' \in {"plan", "failure", "topup"},
             Current.phase = "needs-setup" =>
                Current.setups < budgets.setups \/ pc' \in {"failure", "topup"}
      PROVE  Served(Current)
  BY <1>2, <1>8
<1>9. QED
  <2> USE <1>1, <1>2, <1>3
  <2> DEFINE Rest ==
         /\ UNCHANGED <<discovered, ledger, action, probed>>
         /\ signature' \in Signatures /\ cancelled' \in BOOLEAN /\ topUps' \in Nat
         /\ budgets' = budgets
  <2>0. ASSUME Rest PROVE
           /\ UNCHANGED <<discovered, ledger, action, probed>>
           /\ signature' \in Signatures /\ cancelled' \in BOOLEAN /\ topUps' \in Nat
           /\ budgets' \in Budgets /\ budgets'.setups >= budgets.setups
           /\ budgets'.perSignature >= budgets.perSignature /\ budgets'.total >= budgets.total
    BY <2>0 DEF Budgets
  <2>1. CASE WaitCancelled
    <3>1. Rest /\ services' = services /\ pc' = "plan" /\ pc \in {"setup", "fix"}
      BY <2>1 DEF WaitCancelled
    <3>2. Served(Current)
      BY <1>5, <1>8, <3>1
    <3>3. QED
      BY <2>0, <3>1, <3>2
  <2>2. CASE SetupBlocked \/ ServiceDisappeared \/ FailureBlocked \/ DeclineTopUp
    <3>1. Rest /\ Replace(With(Current, "gave-up")) /\ pc' = "plan"
      BY <2>2 DEF SetupBlocked, ServiceDisappeared, FailureBlocked, DeclineTopUp
    <3>2. QED
      BY <1>7, <2>0, <3>1
  <2>3. CASE BeginSetup
    <3> DEFINE svc == NoteSetupAttempt(Current)
    <3>1. Rest /\ Replace(svc) /\ pc = "setup" /\ pc' = "bringup"
      BY <2>3 DEF BeginSetup
    <3>2. Current.setups < budgets.setups
      BY <1>4, <1>5, <3>1
    <3>3. /\ svc \in ServiceStates /\ svc.phase = Current.phase
          /\ svc.setups = Current.setups + 1 /\ svc.fixes = Current.fixes
      BY ServiceEdits
    <3>4. Affordable(svc, budgets)
      BY <3>2, <3>3 DEF Affordable, Budgets
    <3> HIDE DEF svc
    <3>5. Served(svc)
      BY <3>1, <3>3, <3>4
    <3>6. QED
      BY <2>0, <3>1, <3>5
  <2>4. CASE BringupReturns
    <3>1. PICK found \in Outcomes :
            /\ Replace(ApplySetupOutcome(Current, found))
            /\ IF found \in {"verified", "library"}
               THEN pc' = "plan" /\ UNCHANGED signature ELSE Fail
      BY <2>4 DEF BringupReturns
    <3>2. Rest /\ pc = "bringup"
      BY <2>4, <3>1 DEF BringupReturns, Fail
    <3> DEFINE svc == ApplySetupOutcome(Current, found)
    <3>3. /\ svc \in ServiceStates
          /\ svc.setups = Current.setups /\ svc.fixes = Current.fixes
          /\ svc.phase = IF found = "verified" THEN "needs-start"
                         ELSE IF found = "library" THEN "library" ELSE "needs-setup"
      BY OutcomeEdits
    <3>4. Replace(svc)
      BY <3>1
    <3> HIDE DEF svc
    <3>5. Affordable(svc, budgets)
      BY <3>3 DEF Affordable
    <3>6. CASE found \in {"verified", "library"}
      <4>1. pc' = "plan" /\ svc.phase # "needs-setup"
        BY <3>1, <3>3, <3>6
      <4>2. Served(svc)
        BY <3>2, <3>3, <3>4, <3>5, <4>1
      <4>3. QED
        BY <2>0, <3>2, <4>2
    <3>7. CASE found \notin {"verified", "library"}
      <4>1. pc' = "failure" /\ svc.phase = Current.phase
        BY <1>4, <3>1, <3>2, <3>3, <3>7 DEF Fail
      <4>2. Served(svc)
        BY <3>2, <3>3, <3>4, <3>5, <4>1
      <4>3. QED
        BY <2>0, <3>2, <4>2
    <3>8. QED
      BY <3>6, <3>7
  <2>5. CASE StartSettles
    <3>1. PICK phase \in {"green", "library"} : Replace(With(Current, phase))
      BY <2>5 DEF StartSettles
    <3>2. Rest /\ pc' = "plan"
      BY <2>5 DEF StartSettles
    <3>3. Served(With(Current, phase))
      BY <1>6, <3>1, <3>2, ServiceEdits, WithAffordable
    <3>4. QED
      BY <2>0, <3>2, <3>3
  <2>6. CASE StartCancelled \/ StartFails
    <3>1. Rest /\ services' = services /\ pc' \in {"plan", "failure"} /\ pc = "start"
      BY <2>6 DEF StartCancelled, StartFails, Fail
    <3>2. Served(Current)
      BY <1>4, <1>8, <3>1
    <3>3. QED
      BY <2>0, <3>1, <3>2
  <2>7. CASE BudgetSpent
    <3>1. Rest /\ services' = services /\ pc' = "topup"
      BY <2>7 DEF BudgetSpent
    <3>2. Served(Current)
      BY <1>8, <3>1
    <3>3. QED
      BY <2>0, <3>1, <3>2
  <2>8. CASE SpendFix
    <3> DEFINE svc == [Current EXCEPT !.fixes = SpendOn(@, signature)]
    <3>1. Rest /\ MayFix(Current, action.kind, signature, budgets)
      BY <2>8 DEF SpendFix
    <3>2. (Replace(svc) /\ pc' = "fix") \/ (Replace(With(svc, "gave-up")) /\ pc' = "plan")
      BY <2>8 DEF SpendFix
    <3>3. /\ svc \in ServiceStates
          /\ svc.phase = Current.phase /\ svc.setups = Current.setups
          /\ svc.fixes = SpendOn(Current.fixes, signature)
      BY SpendEdits
    <3> HIDE DEF svc
    <3>4. /\ SumFunction(Current.fixes) \in Nat
          /\ SumFunction(svc.fixes) = SumFunction(Current.fixes) + 1
      BY <3>3, SumOfSpend
    <3>5. /\ Current.fixes[signature] < budgets.perSignature
          /\ SumFunction(Current.fixes) < budgets.total
          /\ Current.phase = "needs-setup" => Current.setups < budgets.setups
      BY <1>4, <3>1 DEF MayFix, MaySpend
    <3>6. \A g \in Signatures : svc.fixes[g] <= budgets.perSignature
      BY <3>3, <3>5 DEF SpendOn, Spend, Affordable, Budgets
    <3>7. Affordable(svc, budgets)
      BY <3>3, <3>4, <3>5, <3>6 DEF Affordable, Budgets
    <3>8. CASE Replace(svc) /\ pc' = "fix"
      <4>1. Served(svc)
        BY <3>1, <3>3, <3>5, <3>7, <3>8
      <4>2. QED
        BY <2>0, <3>1, <4>1
    <3>9. CASE Replace(With(svc, "gave-up")) /\ pc' = "plan"
      <4>1. Served(With(svc, "gave-up"))
        BY <1>6, <3>1, <3>3, <3>7, <3>9, ServiceEdits, WithAffordable
      <4>2. QED
        BY <2>0, <3>1, <4>1
    <3>10. QED
      BY <3>2, <3>8, <3>9
  <2>9. CASE FixReturns
    <3>1. Rest /\ pc' = "plan" /\ pc = "fix"
      BY <2>9 DEF FixReturns
    <3>2. CASE Replace(Current)
      <4>1. Served(Current)
        BY <1>5, <1>8, <3>1, <3>2
      <4>2. QED
        BY <2>0, <3>1, <4>1
    <3>3. CASE Replace(With(Current, "gave-up"))
      BY <1>7, <2>0, <3>1, <3>3
    <3>4. QED
      BY <2>9, <3>2, <3>3 DEF FixReturns
  <2>10. CASE TopUp
    <3> DEFINE svc == GrantMoreBudget(Current)
    <3>1. PICK extra \in Extras : budgets' = Extended(extra)
      BY <2>10 DEF TopUp
    <3>2. extra \in Nat
      BY PilotAssumption
    <3>3. /\ budgets' \in Budgets /\ budgets'.setups > budgets.setups
          /\ budgets'.setups >= budgets.setups
          /\ budgets'.perSignature >= budgets.perSignature /\ budgets'.total >= budgets.total
      BY <3>1, <3>2 DEF Extended, Budgets
    <3>4. /\ svc \in ServiceStates /\ svc.setups = 0 /\ svc.fixes = NoSpend
      BY GrantEdits
    <3>5. Replace(svc) /\ pc' = "plan" /\ UNCHANGED <<discovered, ledger, action, probed>>
          /\ signature' \in Signatures /\ cancelled' \in BOOLEAN /\ topUps' \in Nat
      BY <2>10 DEF TopUp
    <3> HIDE DEF svc
    <3>6. Affordable(svc, budgets')
      BY <3>3, <3>4, SumOfNoSpend DEF Affordable, NoSpend, Budgets
    <3>7. svc.setups < budgets'.setups
      BY <3>3, <3>4 DEF Budgets
    <3>8. Served(svc)
      BY <3>4, <3>5, <3>6, <3>7
    <3>9. QED
      BY <3>3, <3>5, <3>8
  <2>11. QED
    BY <2>1, <2>2, <2>3, <2>4, <2>5, <2>6, <2>7, <2>8, <2>9, <2>10 DEF Serve

\* The service worked on is the only one that changes.
LEMMA ServedAlone ==
    ASSUME PilotTypeOK, action.service \in Services, NEW svc, Served(svc)
    PROVE  /\ services' \in [Services -> ServiceStates]
           /\ services'[action.service] = svc
           /\ \A s \in Services : s # action.service => services'[s] = services[s]
  BY DEF PilotTypeOK, Served, Replace

-------------------------------------------------------------------------------
(***************************************************************************)
(* Auto-Pilot: invariance                                                  *)
(***************************************************************************)
LEMMA PilotInitInv == PilotInit => PilotInv
<1> SUFFICES ASSUME PilotInit PROVE PilotInv
  OBVIOUS
<1> USE DEF PilotInit
<1>1. /\ services \in [Services -> ServiceStates]
      /\ \A s \in Services : services[s].setups = 0 /\ services[s].fixes = NoSpend
  BY NewServices
<1>2. /\ budgets \in Budgets /\ budgets.setups > 0
      /\ budgets.perSignature > 0 /\ budgets.total > 0
  BY PilotAssumption
<1>3. ledger \in Ledgers /\ ledger.fixes = NoSpend
  BY SumOfNoSpend DEF InitialLedger, Ledgers, StagePhases
<1>4. PilotTypeOK
  <2>1. action \in Actions
    BY DEF Action, Actions
  <2>2. QED
    BY <1>1, <1>2, <1>3, <2>1 DEF PilotTypeOK, PCs
<1>5. PlanStands
  BY DEF PlanStands, Serving
<1>6. SetupRoom
  BY <1>1, <1>2 DEF SetupRoom
<1>7. WithinBudget
  <2>1. \A g \in Signatures : NoSpend[g] <= budgets.perSignature
    BY <1>2 DEF NoSpend, Budgets
  <2>2. SumFunction(NoSpend) <= budgets.total /\ 0 <= budgets.setups
    BY <1>2, SumOfNoSpend DEF Budgets
  <2>3. QED
    BY <1>1, <1>3, <2>1, <2>2 DEF WithinBudget
<1>8. ProbesFollow
  BY DEF ProbesFollow, InitialLedger
<1>9. NothingPlanned
  BY DEF NothingPlanned
<1>10. QED
  BY <1>4, <1>5, <1>6, <1>7, <1>8, <1>9 DEF PilotInv

\* A step on a service keeps what the run has settled.
LEMMA ServeInv == PilotInv /\ Serve => PilotInv'
<1> SUFFICES ASSUME PilotInv, Serve PROVE PilotInv'
  OBVIOUS
<1>1. PilotTypeOK /\ PlanStands /\ SetupRoom /\ WithinBudget /\ ProbesFollow
  BY DEF PilotInv
<1>2. /\ pc \in Serving
      /\ UNCHANGED <<discovered, ledger, action, probed>>
      /\ signature' \in Signatures /\ cancelled' \in BOOLEAN /\ topUps' \in Nat
      /\ budgets' \in Budgets /\ budgets'.setups >= budgets.setups
      /\ budgets'.perSignature >= budgets.perSignature /\ budgets'.total >= budgets.total
      /\ \E svc : Served(svc)
  BY <1>1, ServeStep
<1>3. PICK svc : Served(svc)
  BY <1>2
<1>4. /\ action.service \in Services /\ Current \in ServiceStates
      /\ Current.phase \in {"needs-setup", "needs-start"}
  BY <1>1, <1>2, CurrentKnown
<1>5. /\ services' \in [Services -> ServiceStates]
      /\ services'[action.service] = svc
      /\ \A s \in Services : s # action.service => services'[s] = services[s]
  BY <1>1, <1>3, <1>4, ServedAlone
<1>6. /\ svc \in ServiceStates /\ Affordable(svc, budgets')
      /\ pc' # "plan" =>
            /\ pc' \in {"bringup", "failure", "topup", "fix"}
            /\ pc' = "bringup" => pc = "setup"
            /\ svc.phase = Current.phase
      /\ svc.phase = "needs-setup" =>
            svc.setups < budgets'.setups \/ pc' \in {"bringup", "failure", "topup"}
  BY <1>3 DEF Served
<1>7. PilotTypeOK'
  BY <1>1, <1>2, <1>5, <1>6 DEF PilotTypeOK, PCs
<1>8. PlanStands'
  <2>1. Current' = svc
    BY <1>2, <1>5 DEF Current
  <2>2. CASE pc' = "plan"
    BY <2>2 DEF PlanStands, Serving
  <2>3. CASE pc' # "plan"
    <3>1. pc' \in {"bringup", "failure", "topup", "fix"} /\ Current'.phase = Current.phase
          /\ (pc' = "bringup" => pc = "setup")
      BY <1>6, <2>1, <2>3
    <3>2. /\ discovered
          /\ \/ action.kind = "setup" /\ Current.phase = "needs-setup"
             \/ action.kind = "start" /\ Current.phase = "needs-start"
          /\ pc = "setup" => action.kind = "setup"
      BY <1>1, <1>2 DEF PlanStands
    <3>3. QED
      BY <1>2, <1>4, <3>1, <3>2 DEF PlanStands, Serving
  <2>4. QED
    BY <2>2, <2>3
<1>9. SetupRoom'
  <2>1. budgets'.setups > 0
    BY <1>1, <1>2 DEF SetupRoom, PilotTypeOK, Budgets
  <2>2. ASSUME NEW s \in Services, services'[s].phase = "needs-setup", s # action.service
        PROVE  services'[s].setups < budgets'.setups
    <3>1. services[s].setups < budgets.setups /\ services'[s] = services[s]
      BY <1>1, <1>5, <2>2 DEF SetupRoom
    <3>2. services[s].setups \in Nat /\ budgets.setups \in Nat /\ budgets'.setups \in Nat
      BY <1>1, <1>2 DEF PilotTypeOK, ServiceStates, Budgets
    <3>3. QED
      BY <1>2, <3>1, <3>2
  <2>3. QED
    BY <1>2, <1>5, <1>6, <2>1, <2>2 DEF SetupRoom
<1>10. WithinBudget'
  <2>1. ASSUME NEW s \in Services PROVE Affordable(services'[s], budgets')
    <3>1. CASE s = action.service
      BY <1>5, <1>6, <3>1
    <3>2. CASE s # action.service
      <4>1. services'[s] = services[s] /\ Affordable(services[s], budgets)
        BY <1>1, <1>5, <3>2 DEF WithinBudget, Affordable
      <4>2. services[s] \in ServiceStates /\ services[s].fixes \in Spend
            /\ services[s].setups \in Nat /\ budgets \in Budgets
        BY <1>1 DEF PilotTypeOK, ServiceStates
      <4>3. SumFunction(services[s].fixes) \in Nat /\ Signatures # {}
        BY <4>2, SumOfSpend, PolicyAssumption
      <4>4. \A g \in Signatures : services[s].fixes[g] \in Nat
        BY <4>2 DEF Spend
      <4>5. QED
        BY <1>2, <4>1, <4>2, <4>3, <4>4 DEF Affordable, Budgets
    <3>3. QED
      BY <3>1, <3>2
  <2>2. /\ \A g \in Signatures : ledger'.fixes[g] <= budgets'.perSignature
        /\ SumFunction(ledger'.fixes) <= budgets'.total
    <3>1. ledger.fixes \in Spend /\ budgets \in Budgets
      BY <1>1 DEF PilotTypeOK, Ledgers
    <3>2. SumFunction(ledger.fixes) \in Nat
      BY <3>1, SumOfSpend, PolicyAssumption
    <3>3. \A g \in Signatures : ledger.fixes[g] \in Nat
      BY <3>1 DEF Spend
    <3>4. QED
      BY <1>1, <1>2, <3>1, <3>2, <3>3 DEF WithinBudget, Budgets
  <2>3. QED
    BY <2>1, <2>2 DEF WithinBudget, Affordable
\* The service worked on was neither green nor given up, so exercise that is
\* done was done for another one, which is still green.
<1>11. ProbesFollow'
  <2>1. ~AllTerminal(services)
    BY <1>4 DEF AllTerminal, Terminal, Current
  <2>2. AnyGreen(services) => AnyGreen(services')
    BY <1>4, <1>5 DEF AnyGreen, Current
  <2>3. QED
    BY <1>1, <1>2, <2>1, <2>2 DEF ProbesFollow, Ready
<1>12. NothingPlanned'
  BY <1>6 DEF NothingPlanned
<1>13. QED
  BY <1>7, <1>8, <1>9, <1>10, <1>11, <1>12 DEF PilotInv

\* The rest of the run: planning, discovery and the end.
LEMMA SettledLedger ==
    ASSUME NEW svcs, NEW l \in Ledgers
    PROVE  LET out == SettleUnreachableStages(svcs, l)
           IN  /\ out \in Ledgers
               /\ out.exercise = l.exercise /\ out.fixes = l.fixes /\ out.rearmed = l.rearmed
               /\ out.probes = IF ~AnyGreen(svcs) /\ l.probes = "pending"
                               THEN "skipped" ELSE l.probes
  BY DEF SettleUnreachableStages, Ledgers, StagePhases

LEMMA KnownServices ==
    ASSUME PilotTypeOK
    PROVE  /\ Known \in [Services -> ServiceStates]
           /\ discovered => Known = services
  BY NewServices DEF PilotTypeOK, Known

LEMMA PlanInv == PilotInv /\ Plan => PilotInv'
<1> SUFFICES ASSUME PilotInv, Plan PROVE PilotInv'
  OBVIOUS
<1>1. PilotTypeOK /\ PlanStands /\ SetupRoom /\ WithinBudget /\ ProbesFollow
  BY DEF PilotInv
<1>2. /\ pc = "plan"
      /\ ledger' = SettleUnreachableStages(Known, ledger)
      /\ action' = PlanPipelineAction(discovered, Known, ledger')
      /\ pc' = AwaitOf(action'.kind)
      /\ UNCHANGED <<discovered, services, budgets, signature, cancelled, topUps, probed>>
  BY DEF Plan
<1>3. Known \in [Services -> ServiceStates] /\ (discovered => Known = services)
  BY <1>1, KnownServices
<1>4. /\ ledger' \in Ledgers
      /\ ledger'.exercise = ledger.exercise /\ ledger'.fixes = ledger.fixes
      /\ ledger'.rearmed = ledger.rearmed
      /\ ledger'.probes = IF ~AnyGreen(Known) /\ ledger.probes = "pending"
                          THEN "skipped" ELSE ledger.probes
  BY <1>1, <1>2, SettledLedger DEF PilotTypeOK
<1>5. /\ action' \in Actions
      /\ \/ action'.kind = "discover" /\ ~discovered
         \/ discovered /\ action'.kind = "setup" /\ action'.service \in Services
              /\ services[action'.service].phase = "needs-setup"
         \/ discovered /\ action'.kind = "start" /\ action'.service \in Services
              /\ services[action'.service].phase = "needs-start"
         \/ discovered /\ action'.kind = "probes" /\ ledger'.probes = "pending"
         \/ discovered /\ action'.kind = "exercise" /\ ledger'.exercise = "pending"
              /\ Ready(services)
         \/ discovered /\ action'.kind = "done" /\ AllTerminal(services)
              /\ ledger'.exercise # "pending"
              /\ ~(AnyGreen(services) /\ ledger'.probes = "pending")
  BY <1>1, <1>2, <1>3, <1>4, PipelineActionMeans DEF PilotTypeOK
<1>6. pc' = IF action'.kind \in Stages THEN "stage" ELSE action'.kind
  BY <1>2 DEF AwaitOf
<1>7. PilotTypeOK'
  BY <1>1, <1>2, <1>4, <1>5, <1>6 DEF PilotTypeOK, PCs, Stages
<1>8. PlanStands'
  BY <1>2, <1>5, <1>6 DEF PlanStands, Stages, Serving, Current
<1>9. SetupRoom'
  BY <1>1, <1>2 DEF SetupRoom
<1>10. WithinBudget'
  BY <1>1, <1>2, <1>4 DEF WithinBudget
<1>11. ProbesFollow'
  <2>1. /\ ledger.exercise = "done" => discovered /\ Ready(services)
        /\ ~probed /\ ledger.exercise = "done" =>
              ledger.probes = "pending" \/ (~AnyGreen(services) /\ AllTerminal(services))
    BY <1>1 DEF ProbesFollow
  <2>2. /\ ~probed' => ledger'.probes \in {"pending", "skipped"}
        /\ ledger'.rearmed => ledger'.exercise = "done"
        /\ ~discovered' => ledger'.exercise = "pending"
    BY <1>1, <1>2, <1>4 DEF ProbesFollow
  <2>3. ~probed /\ ledger'.exercise = "done" =>
              ledger'.probes = "pending" \/ (~AnyGreen(services) /\ AllTerminal(services))
    BY <1>3, <1>4, <2>1 DEF Ready
  <2>4. QED
    BY <1>2, <1>4, <2>1, <2>2, <2>3 DEF ProbesFollow
<1>12. NothingPlanned'
  <2>1. SUFFICES ASSUME pc' = "done" PROVE NothingPlanned'
    BY DEF NothingPlanned
  <2>2. discovered /\ AllTerminal(services) /\ ledger'.exercise # "pending"
        /\ ~(AnyGreen(services) /\ ledger'.probes = "pending")
    BY <1>5, <1>6, <2>1 DEF Stages
  <2>3. ledger'.probes # "pending"
    BY <1>3, <1>4, <2>2
  <2>4. QED
    BY <1>2, <2>2, <2>3 DEF NothingPlanned
<1>13. QED
  BY <1>7, <1>8, <1>9, <1>10, <1>11, <1>12 DEF PilotInv

LEMMA DiscoverInv == PilotInv /\ Discover => PilotInv'
<1> SUFFICES ASSUME PilotInv, Discover PROVE PilotInv'
  OBVIOUS
<1>1. PilotTypeOK /\ PlanStands /\ SetupRoom /\ WithinBudget /\ ProbesFollow
  BY DEF PilotInv
<1>2. /\ pc' \in {"plan", "stopped"} /\ discovered' \in BOOLEAN
      /\ discovered => discovered'
      /\ services' = services \/ services' \in BuildServiceStates
      /\ UNCHANGED <<ledger, budgets, action, signature, cancelled, topUps, probed>>
  BY <1>1 DEF Discover, PilotTypeOK
<1>3. ledger.exercise = "pending"
  BY <1>1 DEF Discover, PlanStands, ProbesFollow
<1>4. services' \in BuildServiceStates =>
        /\ services' \in [Services -> ServiceStates]
        /\ \A s \in Services : services'[s].setups = 0 /\ services'[s].fixes = NoSpend
  BY NewServices
<1>5. PilotTypeOK'
  BY <1>1, <1>2, <1>4 DEF PilotTypeOK, PCs
<1>6. PlanStands'
  BY <1>2 DEF PlanStands, Serving
<1>7. SetupRoom'
  BY <1>1, <1>2, <1>4 DEF SetupRoom, Discover
<1>8. WithinBudget'
  <2>1. budgets \in Budgets
    BY <1>1 DEF PilotTypeOK
  <2>2. \A g \in Signatures : NoSpend[g] <= budgets.perSignature
    BY <2>1 DEF NoSpend, Budgets
  <2>3. SumFunction(NoSpend) <= budgets.total /\ 0 <= budgets.setups
    BY <2>1, SumOfNoSpend DEF Budgets
  <2>4. QED
    BY <1>1, <1>2, <1>4, <2>2, <2>3 DEF WithinBudget
<1>9. ProbesFollow'
  BY <1>1, <1>2, <1>3 DEF ProbesFollow
<1>10. NothingPlanned'
  BY <1>2 DEF NothingPlanned
<1>11. QED
  BY <1>5, <1>6, <1>7, <1>8, <1>9, <1>10 DEF PilotInv

\* The ledger after a pass that settled: probes may be armed once more.
LEMMA StageSettlesLedger ==
    ASSUME NEW l \in Ledgers, NEW k \in Stages, NEW found \in {"done", "skipped"}
    PROVE  LET out == RearmProbesAfterExercise(ApplyStageOutcome(l, k, found))
           IN  /\ out \in Ledgers /\ out.fixes = l.fixes
               /\ out.exercise = IF k = "exercise" THEN found ELSE l.exercise
               /\ out.rearmed => l.rearmed \/ out.exercise = "done"
               /\ k = "exercise" =>
                     \/ out.probes = l.probes
                     \/ out.probes = "pending"
               /\ k = "exercise" /\ out.exercise = "done" /\ ~l.rearmed =>
                     out.probes # "skipped"
<1> DEFINE m == ApplyStageOutcome(l, k, found)
<1>1. /\ m \in Ledgers /\ m.fixes = l.fixes /\ m.rearmed = l.rearmed
      /\ m.exercise = IF k = "exercise" THEN found ELSE l.exercise
      /\ k = "exercise" => m.probes = l.probes
  <2>1. CASE k = "exercise"
    BY <2>1 DEF ApplyStageOutcome, Ledgers, StagePhases
  <2>2. CASE k = "probes"
    BY <2>2 DEF ApplyStageOutcome, Ledgers, StagePhases
  <2>3. QED
    BY <2>1, <2>2 DEF Stages
<1> HIDE DEF m
<1>2. RearmProbesAfterExercise(m) =
        IF ~m.rearmed /\ m.probes = "skipped" /\ m.exercise = "done"
        THEN [m EXCEPT !.probes = "pending", !.rearmed = TRUE] ELSE m
  BY DEF RearmProbesAfterExercise
<1>3. CASE ~m.rearmed /\ m.probes = "skipped" /\ m.exercise = "done"
  <2> DEFINE out == [m EXCEPT !.probes = "pending", !.rearmed = TRUE]
  <2>1. /\ out \in Ledgers /\ out.fixes = m.fixes /\ out.exercise = m.exercise
        /\ out.probes = "pending"
    BY <1>1 DEF Ledgers, StagePhases
  <2> HIDE DEF out
  <2>2. RearmProbesAfterExercise(m) = out
    BY <1>2, <1>3 DEF out
  <2>3. QED
    BY <1>1, <1>3, <2>1, <2>2 DEF m
<1>4. CASE ~(~m.rearmed /\ m.probes = "skipped" /\ m.exercise = "done")
  <2>1. RearmProbesAfterExercise(m) = m
    BY <1>2, <1>4
  <2>2. QED
    BY <1>1, <1>4, <2>1 DEF m
<1>5. QED
  BY <1>3, <1>4

\* ... and after one that failed.
LEMMA StageFailsLedger ==
    ASSUME NEW l \in Ledgers, NEW k \in Stages, NEW g \in Signatures, NEW b \in Budgets
    PROVE  LET out == AfterStageFailure(l, k, g, b)
           IN  /\ out \in Ledgers /\ out.rearmed = l.rearmed
               /\ k = "probes" => out.exercise = l.exercise
               /\ k = "exercise" => out.probes = l.probes /\ out.exercise \in {"pending", "failed"}
               /\ \/ out.fixes = l.fixes
                  \/ /\ MaySpend(l.fixes, g, b)
                     /\ out.fixes = SpendOn(l.fixes, g)
<1>1. SpendOn(l.fixes, g) \in Spend
  BY SumOfSpend DEF Ledgers
<1>2. CASE k = "probes"
  BY <1>1, <1>2 DEF AfterStageFailure, Ledgers, StagePhases
<1>3. CASE k = "exercise"
  BY <1>1, <1>3 DEF AfterStageFailure, Ledgers, StagePhases
<1>4. QED
  BY <1>2, <1>3 DEF Stages

LEMMA StageInv == PilotInv /\ (StageSettles \/ StageFails) => PilotInv'
<1> SUFFICES ASSUME PilotInv, StageSettles \/ StageFails PROVE PilotInv'
  OBVIOUS
<1>1. PilotTypeOK /\ PlanStands /\ SetupRoom /\ WithinBudget /\ ProbesFollow
  BY DEF PilotInv
<1>2. /\ pc = "stage" /\ pc' = "plan"
      /\ probed' = (probed \/ action.kind = "probes")
      /\ UNCHANGED <<discovered, services, budgets, action, signature, cancelled, topUps>>
  BY DEF StageSettles, StageFails
<1>3. /\ discovered /\ action.kind \in Stages
      /\ ledger[action.kind] = "pending"
      /\ action.kind = "exercise" => Ready(services)
  BY <1>1, <1>2 DEF PlanStands
<1>4. ledger \in Ledgers /\ budgets \in Budgets /\ ledger.fixes \in Spend /\ probed \in BOOLEAN
  BY <1>1 DEF PilotTypeOK, Ledgers
<1>5. /\ ledger' \in Ledgers
      /\ \/ ledger'.fixes = ledger.fixes
         \/ \E g \in Signatures :
               MaySpend(ledger.fixes, g, budgets) /\ ledger'.fixes = SpendOn(ledger.fixes, g)
      /\ action.kind = "probes" => ledger'.exercise = ledger.exercise
      /\ ledger'.rearmed => ledger.rearmed \/ ledger'.exercise = "done"
      /\ action.kind = "exercise" => ledger'.probes \in {ledger.probes, "pending"}
      /\ action.kind = "exercise" /\ ledger'.exercise = "done" /\ ~ledger.rearmed =>
            ledger'.probes # "skipped"
  <2>1. CASE StageSettles
    <3>1. PICK found \in {"done", "skipped"} :
            ledger' = RearmProbesAfterExercise(ApplyStageOutcome(ledger, action.kind, found))
      BY <2>1 DEF StageSettles
    <3>2. QED
      BY <1>3, <1>4, <3>1, StageSettlesLedger
  <2>2. CASE StageFails
    <3>1. PICK g \in Signatures : ledger' = AfterStageFailure(ledger, action.kind, g, budgets)
      BY <2>2 DEF StageFails
    <3>2. QED
      BY <1>3, <1>4, <3>1, StageFailsLedger
  <2>3. QED
    BY <2>1, <2>2
<1>6. PilotTypeOK'
  BY <1>1, <1>2, <1>5 DEF PilotTypeOK, PCs
<1>7. PlanStands'
  BY <1>2 DEF PlanStands, Serving
<1>8. SetupRoom'
  BY <1>1, <1>2 DEF SetupRoom
<1>9. WithinBudget'
  <2>1. CASE ledger'.fixes = ledger.fixes
    BY <1>1, <1>2, <2>1 DEF WithinBudget
  <2>2. ASSUME NEW g \in Signatures,
               MaySpend(ledger.fixes, g, budgets), ledger'.fixes = SpendOn(ledger.fixes, g)
        PROVE  WithinBudget'
    <3>1. /\ SumFunction(ledger.fixes) \in Nat
          /\ SumFunction(ledger'.fixes) = SumFunction(ledger.fixes) + 1
      BY <1>4, <2>2, SumOfSpend
    <3>2. SumFunction(ledger'.fixes) <= budgets.total
      BY <1>4, <2>2, <3>1 DEF MaySpend, Budgets
    <3>3. \A h \in Signatures : ledger.fixes[h] <= budgets.perSignature
      BY <1>1 DEF WithinBudget
    <3>4. \A h \in Signatures : ledger'.fixes[h] <= budgets.perSignature
      BY <1>4, <2>2, <3>3 DEF SpendOn, Spend, MaySpend, Budgets
    <3>5. QED
      BY <1>1, <1>2, <3>2, <3>4 DEF WithinBudget
  <2>3. QED
    BY <1>5, <2>1, <2>2
\* Exercise was pending, so nothing had been armed again.
<1>10. ProbesFollow'
  <2>1. CASE action.kind = "probes"
    BY <1>1, <1>2, <1>3, <1>4, <1>5, <2>1 DEF ProbesFollow
  <2>2. CASE action.kind = "exercise"
    <3>1. ledger.exercise = "pending" /\ ~ledger.rearmed /\ Ready(services)
      BY <1>1, <1>3, <2>2 DEF ProbesFollow
    <3>2. ~probed' => ~probed /\ ledger'.probes \in {"pending", "skipped"}
      BY <1>1, <1>2, <1>4, <1>5, <2>2 DEF ProbesFollow
    <3>3. QED
      BY <1>2, <1>3, <1>5, <2>2, <3>1, <3>2 DEF ProbesFollow
  <2>3. QED
    BY <1>3, <2>1, <2>2 DEF Stages
<1>11. NothingPlanned'
  BY <1>2 DEF NothingPlanned
<1>12. QED
  BY <1>6, <1>7, <1>8, <1>9, <1>10, <1>11 DEF PilotInv

\* A cancel, and the end it leads to, change nothing that has been decided.
LEMMA CancelInv == PilotInv /\ (StopCancelled \/ Cancel \/ UNCHANGED pilotVars) => PilotInv'
<1> SUFFICES ASSUME PilotInv, StopCancelled \/ Cancel \/ UNCHANGED pilotVars PROVE PilotInv'
  OBVIOUS
<1>1. /\ UNCHANGED <<discovered, services, ledger, budgets, action, signature, topUps, probed>>
      /\ pc' = pc \/ (pc = "plan" /\ pc' = "cancelled")
      /\ cancelled' = cancelled \/ cancelled' = TRUE
  BY DEF StopCancelled, Cancel, pilotVars
<1>2. PilotTypeOK'
  BY <1>1 DEF PilotInv, PilotTypeOK, PCs
<1>3. PlanStands'
  BY <1>1 DEF PilotInv, PlanStands, Current, Serving
<1>4. SetupRoom' /\ WithinBudget' /\ ProbesFollow' /\ NothingPlanned'
  BY <1>1 DEF PilotInv, SetupRoom, WithinBudget, ProbesFollow, NothingPlanned
<1>5. QED
  BY <1>2, <1>3, <1>4 DEF PilotInv

LEMMA PilotNextInv == PilotInv /\ [PilotNext]_pilotVars => PilotInv'
  BY ServeInv, PlanInv, DiscoverInv, StageInv, CancelInv
  DEF PilotNext, Drive, User, Finished, Serve

-------------------------------------------------------------------------------
(***************************************************************************)
(* Auto-Pilot: the theorems                                                *)
(***************************************************************************)
\* The invariant holds in every state of every run.
THEOREM PilotInvariance == PilotSpec => []PilotInv
  BY PilotInitInv, PilotNextInv, PTL DEF PilotSpec

\* Every variable of a run has its type (drive, PerServiceState, PipelineLedger).
THEOREM PilotTypeCorrect == PilotSpec => []PilotTypeOK
<1>1. PilotInv => PilotTypeOK
  BY DEF PilotInv
<1>2. QED
  BY <1>1, PilotInvariance, PTL

\* Whatever fails, in whatever order, and however its signature shifts, no service
\* and no stage spends more than the budgets in force (autoPilotMachine.ts,
\* decideOnFailure).
THEOREM BudgetsHold == PilotSpec => []WithinBudget
<1>1. PilotInv => WithinBudget
  BY DEF PilotInv
<1>2. QED
  BY <1>1, PilotInvariance, PTL

\* A run that says it is done left no service and no stage outstanding
\* (planPipelineAction).
THEOREM DoneIsSettled == PilotSpec => []DoneMeansSettled
<1>1. PilotInv => DoneMeansSettled
  BY DEF PilotInv, DoneMeansSettled, NothingPlanned, AllTerminal
<1>2. QED
  BY <1>1, PilotInvariance, PTL

\* Probes skipped for want of a live service are made up for once exercise has
\* run (rearmProbesAfterExercise).
THEOREM GreenServicesAreProbed == PilotSpec => []GreenIsProbed
<1>1. PilotInv => GreenIsProbed
  BY DEF PilotInv, GreenIsProbed, NothingPlanned, ProbesFollow, AnyGreen
<1>2. QED
  BY <1>1, PilotInvariance, PTL
===============================================================================
