-------------------------------- MODULE Session --------------------------------
(***************************************************************************)
(* The sessions of Ask Vinv (session.ts): one file each, and a pointer to  *)
(* the active one.  Work binds to a session by its id and writes to it by  *)
(* id while the operator moves on to another: episodes (episodeLoop.ts),   *)
(* answers (askVinv.ts) and disputes of verified episodes.                 *)
(*                                                                         *)
(* The extension is one thread: each of its operations is one step.  The   *)
(* MCP server is a process of its own and saves a session in three steps:  *)
(* read, write the file, write the pointer.                                *)
(*                                                                         *)
(* The episode budget is left out: it is compared in the continuation of a *)
(* trajectory only.  Legacy layouts and malformed files are left out.      *)
(***************************************************************************)
EXTENDS Integers, FiniteSets

CONSTANTS
    Sessions,       \* session ids
    Episodes,
    Questions,      \* questions put to Ask Vinv
    Disputes,       \* the disputes an operator may have open at once
    Goals,          \* standing goals
    NoGoal,
    MaxGoals,       \* bound: changes of a goal by the operator and by agents
    MaxSaves,       \* bound: saves of the MCP server
    None

Outcomes == {"verified", "failed", "retracted"}
SessionBodies ==
    [goal : Goals \cup {NoGoal}, used : 0..Cardinality(Episodes),
     history : [Episodes -> Outcomes \cup {"none"}], talk : SUBSET Questions]

ASSUME SessionAssumption ==
    /\ IsFiniteSet(Episodes) /\ Sessions # {}
    /\ None \notin Sessions \cup SessionBodies
    /\ NoGoal \notin Goals
    /\ MaxGoals \in Nat /\ MaxSaves \in Nat

VARIABLES
    files,      \* the stored sessions
    archive,    \* session-archive: what a deleted session held
    active,     \* the pointer
    born,       \* ids that were given out
    pc,         \* each episode: "idle", "opening", "running" or "done"
    bound,      \* the session a re-dispatched episode asks for
    owner,      \* owningSessionId
    busy,       \* episodeRunning
    asking,     \* the session of each question being answered
    dispute,    \* each dispute under way: its episode and the session that was active
    retracted,  \* episodes with a retraction in the event ledger
    mcp,        \* the MCP server between reading a session and writing it
    pointing,   \* the MCP server between writing a session and its pointer
    changes,    \* changes of a goal, and saves of the MCP server, so far
    saves,
    lost,       \* episodes that are not on the record of their session (history)
    overwritten \* sessions the MCP server wrote an old copy over (history)

store == <<files, active, born>>
work == <<pc, bound, owner, busy>>
server == <<mcp, pointing>>
bounds == <<changes, saves>>
past == <<lost, overwritten>>
vars == <<store, archive, work, asking, dispute, retracted, server, bounds, past>>

EmptySession == [goal |-> NoGoal, used |-> 0, history |-> [e \in Episodes |-> "none"], talk |-> {}]

HasContent(s) ==
    \/ s.goal # NoGoal \/ s.used > 0 \/ s.talk # {}
    \/ \E e \in Episodes : s.history[e] # "none"

(***************************************************************************)
(* Loading and saving                                                      *)
(***************************************************************************)
Stored(s) == s # None /\ files[s] # None

\* The sessions loadSession may return: the active one, or an empty one
\* under a new id.
Loaded == IF Stored(active) THEN {active} ELSE Sessions \ born

Body(s) == IF files[s] # None THEN files[s] ELSE EmptySession

WriteSessionFile(s, body) ==
    /\ files' = [files EXCEPT ![s] = body]
    /\ born' = born \cup {s}

SaveSession(s, body) == WriteSessionFile(s, body) /\ active' = s

\* The session a write bound to `id` lands in: `id` while it is stored.
Target(id) == IF Stored(id) THEN {id} ELSE Loaded

\* Mutant: every write moves the pointer.
UpdateAndShow(id, s, body) == SaveSession(s, body)

\* A write to `id` that landed in s: by id without the pointer, or by saveSession.
Update(id, s, body) ==
    /\ WriteSessionFile(s, body)
    /\ active' = IF s = id THEN active ELSE s

\* ensureSessionPersisted, for the session s that was loaded.
Persist(s) == IF Stored(active) THEN UNCHANGED store ELSE SaveSession(s, EmptySession)

-------------------------------------------------------------------------------
Init ==
    /\ files = [s \in Sessions |-> None] /\ active = None /\ born = {}
    /\ archive = [s \in Sessions |-> None]
    /\ pc = [e \in Episodes |-> "idle"]
    /\ bound = [e \in Episodes |-> None]
    /\ owner = [e \in Episodes |-> None]
    /\ busy = FALSE
    /\ asking = [q \in Questions |-> None]
    /\ dispute = [d \in Disputes |-> None]
    /\ retracted = {}
    /\ mcp = None /\ pointing = None
    /\ lost = {} /\ overwritten = {}
    /\ changes = 0 /\ saves = 0

(***************************************************************************)
(* The operator                                                            *)
(***************************************************************************)
\* setGoal on the active session: a changed goal starts a new count.
OperatorSetsGoal(g) ==
    /\ changes < MaxGoals /\ changes' = changes + 1
    /\ \E s \in Loaded :
        SaveSession(s, [Body(s) EXCEPT !.goal = g,
                                       !.used = IF Body(s).goal # g THEN 0 ELSE @])
    /\ UNCHANGED <<archive, work, asking, dispute, retracted, server, past, saves>>

\* The files once the empty session s is reaped and `new` is written.
Reaped(s) == IF Stored(s) /\ ~HasContent(files[s]) THEN [files EXCEPT ![s] = None] ELSE files

\* startFreshSession.
NewSession ==
    \E s \in Sessions \ born :
        /\ files' = [Reaped(active) EXCEPT ![s] = EmptySession]
        /\ active' = s /\ born' = born \cup {s}
        /\ UNCHANGED <<archive, work, asking, dispute, retracted, server, past, bounds>>

\* switchToSession, for a session the picker lists.
SwitchToSession(s) ==
    /\ s # active /\ Stored(s) /\ HasContent(files[s])
    /\ files' = Reaped(active)
    /\ active' = s
    /\ UNCHANGED <<born, archive, work, asking, dispute, retracted, server, past, bounds>>

DeleteParkedSession(s) ==
    /\ s # active /\ Stored(s) /\ HasContent(files[s])
    /\ archive' = [archive EXCEPT ![s] = files[s]]
    /\ files' = [files EXCEPT ![s] = None]
    /\ UNCHANGED <<active, born, work, asking, dispute, retracted, server, past, bounds>>

(***************************************************************************)
(* Answers                                                                 *)
(***************************************************************************)
Ask(q) ==
    /\ asking[q] = None
    /\ \E s \in Loaded : Persist(s) /\ asking' = [asking EXCEPT ![q] = s]
    /\ UNCHANGED <<archive, work, dispute, retracted, server, past, bounds>>

\* appendTranscriptEntry: an answer whose session is gone is dropped.
Answer(q) ==
    /\ asking[q] # None
    /\ asking' = [asking EXCEPT ![q] = None]
    /\ LET s == asking[q] IN
       IF Stored(s) THEN Update(s, s, [files[s] EXCEPT !.talk = @ \cup {q}])
       ELSE UNCHANGED store
    /\ UNCHANGED <<archive, work, dispute, retracted, server, past, bounds>>

(***************************************************************************)
(* Episodes                                                                *)
(***************************************************************************)
\* runEpisode, up to its first await.
Dispatch(e) ==
    /\ pc[e] = "idle" /\ ~busy
    /\ pc' = [pc EXCEPT ![e] = "opening"]
    /\ UNCHANGED <<store, archive, bound, owner, busy, asking, dispute, retracted, server, past, bounds>>

\* The harness cannot run: nothing was spent.
Refuse(e) ==
    /\ pc[e] = "opening"
    /\ pc' = [pc EXCEPT ![e] = "idle"]
    /\ bound' = [bound EXCEPT ![e] = None]
    /\ UNCHANGED <<store, archive, owner, busy, asking, dispute, retracted, server, past, bounds>>

\* The run is open and the episode binds to the session it asks for, or to
\* the one that is active by now.
Bind(e) ==
    /\ pc[e] = "opening"
    /\ pc' = [pc EXCEPT ![e] = "running"] /\ busy' = TRUE
    /\ bound' = [bound EXCEPT ![e] = None]
    /\ IF Stored(bound[e])
       THEN owner' = [owner EXCEPT ![e] = bound[e]] /\ UNCHANGED store
       ELSE \E s \in Loaded : Persist(s) /\ owner' = [owner EXCEPT ![e] = s]
    /\ UNCHANGED <<archive, asking, dispute, retracted, server, past, bounds>>

\* setGoal with resetCounter = false.
AgentGoal(s, g) == [Body(s) EXCEPT !.goal = g]

\* A directive of the agent, bound to the session of its episode.
AgentSetsGoal(e, g) ==
    /\ pc[e] = "running"
    /\ changes < MaxGoals /\ changes' = changes + 1
    /\ \E s \in Target(owner[e]) : Update(owner[e], s, AgentGoal(s, g))
    /\ UNCHANGED <<archive, work, asking, dispute, retracted, server, past, saves>>

\* Mutant: the outcome goes to the session the operator looks at.
RecordHomeActive(e) == None

\* The session recordEpisodeOutcome is called with.
RecordHome(e) == owner[e]

Ended(e) == [pc EXCEPT ![e] = "done"]

\* The end of runEpisode: recordEpisodeOutcome, for an episode whose session
\* is gone in the session that is active.
End(e, outcome) ==
    /\ pc[e] = "running"
    /\ pc' = Ended(e) /\ busy' = FALSE
    /\ \E s \in Target(RecordHome(e)) :
          Update(RecordHome(e), s, [Body(s) EXCEPT !.history[e] = outcome, !.used = @ + 1])
    /\ lost' = IF Stored(owner[e]) THEN lost ELSE lost \cup {e}
    /\ UNCHANGED <<archive, bound, owner, asking, dispute, retracted, server, overwritten, bounds>>

(***************************************************************************)
(* Disputes                                                                *)
(***************************************************************************)
\* disputeVerifiedEpisode, up to the request for a note.
OpenDispute(d, e) ==
    /\ dispute[d] = None /\ ~busy
    /\ Stored(active) /\ files[active].history[e] = "verified"
    /\ dispute' = [dispute EXCEPT ![d] = [episode |-> e, session |-> active]]
    /\ UNCHANGED <<store, archive, work, asking, retracted, server, past, bounds>>

\* No note, a test that does not fail as reported, no confirmation, or the
\* harness is busy again: the verdict stands.
DropDispute(d) ==
    /\ dispute[d] # None
    /\ dispute' = [dispute EXCEPT ![d] = None]
    /\ UNCHANGED <<store, archive, work, asking, retracted, server, past, bounds>>

\* Mutant: the amendment goes to the session the operator looks at.
AmendHomeActive(d) == None

\* The session amendEpisodeOutcome is called with.
AmendHome(d) == dispute[d].session

\* Confirmed while nothing runs: the retraction goes to the event ledger, the
\* outcome is amended where it is found, and the issue is dispatched again as
\* episode `next`, bound to the session of the dispute.
Retract(d, next) ==
    /\ dispute[d] # None /\ ~busy /\ pc[next] = "idle"
    /\ dispute' = [dispute EXCEPT ![d] = None]
    /\ LET e == dispute[d].episode IN
       /\ retracted' = retracted \cup {e}
       /\ \E s \in Target(AmendHome(d)) :
             IF Body(s).history[e] = "none" THEN UNCHANGED store
             ELSE Update(AmendHome(d), s, [Body(s) EXCEPT !.history[e] = "retracted"])
    /\ pc' = [pc EXCEPT ![next] = "opening"]
    /\ bound' = [bound EXCEPT ![next] = dispute[d].session]
    /\ UNCHANGED <<archive, owner, busy, asking, server, past, bounds>>

(***************************************************************************)
(* The MCP server                                                          *)
(***************************************************************************)
\* vinv_session set_goal, or set_budget (which leaves the goal).
McpReads(s, g) ==
    /\ mcp = None /\ pointing = None /\ s \in Loaded
    /\ saves < MaxSaves /\ saves' = saves + 1
    /\ mcp' = [session |-> s, read |-> files[s],
               write |-> [Body(s) EXCEPT !.goal = g]]
    /\ born' = born \cup {s}
    /\ UNCHANGED <<files, active, pointing, archive, work, asking, dispute, retracted, past, changes>>

\* What is kept of session s.
Kept(s) == IF Stored(s) THEN files[s] ELSE archive[s]

McpWrites ==
    /\ mcp # None
    /\ LET s == mcp.session IN
       /\ WriteSessionFile(s, mcp.write)
       /\ overwritten' = IF files[s] = mcp.read THEN overwritten ELSE overwritten \cup {s}
       /\ lost' = lost \cup {e \in Episodes :
                      /\ owner[e] = s /\ pc[e] = "done" /\ e \notin lost
                      /\ Kept(s).history[e] # mcp.write.history[e]}
    /\ mcp' = None /\ pointing' = mcp.session
    /\ UNCHANGED <<active, archive, work, asking, dispute, retracted, bounds>>

McpPoints ==
    /\ pointing # None
    /\ active' = pointing /\ pointing' = None
    /\ UNCHANGED <<files, born, mcp, archive, work, asking, dispute, retracted, past, bounds>>

Next ==
    \/ \E g \in Goals \cup {NoGoal} :
          \/ OperatorSetsGoal(g)
          \/ \E e \in Episodes : AgentSetsGoal(e, g)
          \/ \E s \in Sessions : McpReads(s, g)
    \/ NewSession
    \/ \E s \in Sessions : SwitchToSession(s) \/ DeleteParkedSession(s)
    \/ \E q \in Questions : Ask(q) \/ Answer(q)
    \/ \E e \in Episodes :
          \/ Dispatch(e) \/ Refuse(e) \/ Bind(e)
          \/ \E o \in {"verified", "failed"} : End(e, o)
    \/ \E d \in Disputes :
          \/ DropDispute(d)
          \/ \E e \in Episodes : OpenDispute(d, e) \/ Retract(d, e)
    \/ McpWrites \/ McpPoints

Spec == Init /\ [][Next]_vars

-------------------------------------------------------------------------------
(***************************************************************************)
(* Properties                                                              *)
(***************************************************************************)
\* Every variable has its type, and an episode has a session exactly from the
\* time it binds to one.
TypeOK ==
    /\ files \in [Sessions -> SessionBodies \cup {None}]
    /\ archive \in [Sessions -> SessionBodies \cup {None}]
    /\ active \in Sessions \cup {None} /\ born \subseteq Sessions
    /\ pc \in [Episodes -> {"idle", "opening", "running", "done"}]
    /\ bound \in [Episodes -> Sessions \cup {None}]
    /\ owner \in [Episodes -> Sessions \cup {None}]
    /\ \A e \in Episodes : owner[e] # None <=> pc[e] \in {"running", "done"}
    /\ busy \in BOOLEAN
    /\ asking \in [Questions -> Sessions \cup {None}]
    /\ dispute \in [Disputes -> [episode : Episodes, session : Sessions] \cup {None}]
    /\ retracted \subseteq Episodes
    /\ \/ mcp = None
       \/ mcp \in [session : Sessions, read : SessionBodies \cup {None}, write : SessionBodies]
    /\ pointing \in Sessions \cup {None}
    /\ changes \in 0..MaxGoals /\ saves \in 0..MaxSaves
    /\ lost \subseteq Episodes /\ overwritten \subseteq Sessions

\* What the record of its session tells of an episode.
Record(e) ==
    CASE owner[e] = None -> "none"
      [] e \in lost -> "lost"
      [] pc[e] = "running" -> "running"
      [] OTHER -> Kept(owner[e]).history[e]

T == INSTANCE Trajectory WITH home <- owner, record <- [e \in Episodes |-> Record(e)]

\* An episode's outcome goes on the record of the session it bound to, once,
\* whichever session is active by then, and stays there, in the archive once
\* the session is deleted; only a retraction of a verified outcome changes it.
\* An episode is lost if its session was gone when it ended, or if the MCP
\* server wrote back a copy from before the outcome.
PromiseKept == T!Spec

\* Work in the background never changes what the operator looks at: the end
\* of an episode, an answer and a retraction leave the pointer alone as long
\* as the session they belong to exists.
BackgroundKeepsView ==
    [][/\ \A e \in Episodes :
             pc[e] = "running" /\ pc'[e] = "done" /\ Stored(owner[e]) => active' = active
       /\ \A q \in Questions : asking[q] # None /\ asking'[q] = None => active' = active
       /\ \A d \in Disputes :
             dispute[d] # None /\ dispute'[d] = None /\ Stored(dispute[d].session)
                => active' = active]_vars

\* A verdict the event ledger retracts is not shown as verified in any stored
\* session, whichever session was active when the dispute was confirmed.
LedgerAgrees ==
    \A e \in retracted : \A s \in Sessions \ overwritten :
        Stored(s) => files[s].history[e] # "verified"
===============================================================================
