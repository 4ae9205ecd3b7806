----------------------------- MODULE Session_proofs -----------------------------
(***************************************************************************)
(* What the sessions of Ask Vinv promise for any number of sessions,       *)
(* episodes, questions, disputes and goals: the retractions of the event   *)
(* ledger show in every session, background work leaves the operator's     *)
(* view alone, and each episode has the record that Trajectory describes.  *)
(***************************************************************************)
EXTENDS Session, FiniteSetTheorems, TLAPS

-------------------------------------------------------------------------------
(***************************************************************************)
(* The inductive invariant                                                 *)
(***************************************************************************)
\* A copy of session s, stored, archived or held by the MCP server, has
\* outcome v of episode e.
Says(s, e, v) ==
    \/ files[s] # None /\ files[s].history[e] = v
    \/ archive[s] # None /\ archive[s].history[e] = v
    \/ mcp # None /\ mcp.session = s /\ mcp.write.history[e] = v

\* An episode has outcomes once it is done, in the copies of one session.
OneRecord ==
    \A e \in Episodes : \A s, t \in Sessions : \A v, w \in Outcomes :
        Says(s, e, v) => pc[e] = "done" /\ (Says(t, e, w) => s = t)

\* An episode that failed was never verified, nor retracted.
FailureFinal ==
    \A e \in Episodes : \A s \in Sessions :
        Says(s, e, "failed") => ~Says(s, e, "verified") /\ ~Says(s, e, "retracted")

\* A dispute is about an episode that its session recorded as verified.
DisputesKnow ==
    \A d \in Disputes : dispute[d] # None =>
        /\ pc[dispute[d].episode] = "done"
        /\ \A s \in Sessions : \A v \in Outcomes :
              Says(s, dispute[d].episode, v) => s = dispute[d].session /\ v # "failed"

\* Ids that are in use were given out.
UsedIds ==
    /\ \A s \in Sessions : files[s] # None \/ archive[s] # None => s \in born
    /\ \A e \in Episodes : owner[e] # None => owner[e] \in born
    /\ mcp # None => mcp.session \in born

\* The MCP server changes no outcome of the copy it read.
CopyIsFaithful ==
    mcp # None =>
        mcp.write.history = IF mcp.read # None THEN mcp.read.history ELSE EmptySession.history

\* An episode that is not lost has its outcome where the operator finds it.
Recorded ==
    \A e \in Episodes : pc[e] = "done" /\ e \notin lost =>
        Kept(owner[e]) # None /\ Kept(owner[e]).history[e] # "none"

PastIsDone == \A e \in lost \cup retracted : pc[e] = "done"

Done == {e \in Episodes : pc[e] = "done"}

\* A session has counted no more episodes than have ended.
CountsEnded ==
    /\ \A s \in Sessions :
          /\ files[s] # None => files[s].used <= Cardinality(Done)
          /\ archive[s] # None => archive[s].used <= Cardinality(Done)
    /\ mcp # None => mcp.write.used <= Cardinality(Done)

IInv ==
    /\ TypeOK
    /\ OneRecord
    /\ FailureFinal
    /\ DisputesKnow
    /\ UsedIds
    /\ CopyIsFaithful
    /\ Recorded
    /\ PastIsDone
    /\ CountsEnded
    /\ LedgerAgrees

-------------------------------------------------------------------------------
(***************************************************************************)
(* Sessions that are loaded, and what is written to them                   *)
(***************************************************************************)
NoOutcome == [e \in Episodes |-> "none"]

LEMMA EpisodesCounted == Cardinality(Episodes) \in Nat
  BY SessionAssumption, FS_CardinalityType

LEMMA EmptyBody == EmptySession \in SessionBodies /\ EmptySession.history = NoOutcome
<1>1. 0 \in 0..Cardinality(Episodes)
  BY EpisodesCounted
<1>2. QED
  BY <1>1 DEF EmptySession, SessionBodies, NoOutcome

\* A session that is read has the type of one, stored or empty.
LEMMA BodyTypes ==
    ASSUME TypeOK, NEW s \in Sessions
    PROVE  /\ Body(s) \in SessionBodies
           /\ files[s] # None => Body(s) = files[s]
           /\ files[s] = None => Body(s).history = NoOutcome /\ Body(s).used = 0
  BY EmptyBody DEF Body, TypeOK, EmptySession

\* What is loaded is stored, or has an id that was never given out.
LEMMA LoadedIds ==
    ASSUME TypeOK, NEW s \in Loaded
    PROVE  s \in Sessions /\ (files[s] # None \/ s \notin born)
  BY DEF Loaded, Stored, TypeOK

LEMMA TargetIds ==
    ASSUME TypeOK, NEW id \in Sessions, NEW s \in Target(id)
    PROVE  /\ s \in Sessions /\ (files[s] # None \/ s \notin born)
           /\ files[id] # None => s = id
  BY LoadedIds, SessionAssumption DEF Target, Stored

LEMMA StoredIds ==
    ASSUME TypeOK, NEW s \in Sessions \cup {None}
    PROVE  Stored(s) <=> s \in Sessions /\ files[s] # None
  BY SessionAssumption DEF Stored

\* Changes of a session that leave its outcomes and its count alone.
LEMMA GoalTypes ==
    ASSUME NEW body \in SessionBodies, NEW g \in Goals \cup {NoGoal}
    PROVE  /\ [body EXCEPT !.goal = g] \in SessionBodies
           /\ [body EXCEPT !.goal = g].history = body.history
           /\ [body EXCEPT !.goal = g].used = body.used
  BY DEF SessionBodies

LEMMA ResetTypes ==
    ASSUME NEW body \in SessionBodies, NEW g \in Goals \cup {NoGoal}
    PROVE  LET new == [body EXCEPT !.goal = g, !.used = IF body.goal # g THEN 0 ELSE @] IN
           new \in SessionBodies /\ new.history = body.history /\ new.used \in {0, body.used}
<1>1. 0 \in 0..Cardinality(Episodes)
  BY EpisodesCounted
<1>2. QED
  BY <1>1 DEF SessionBodies

LEMMA TalkTypes ==
    ASSUME NEW body \in SessionBodies, NEW q \in Questions
    PROVE  LET new == [body EXCEPT !.talk = @ \cup {q}] IN
           new \in SessionBodies /\ new.history = body.history /\ new.used = body.used
  BY DEF SessionBodies

LEMMA AmendTypes ==
    ASSUME NEW body \in SessionBodies, NEW e \in Episodes
    PROVE  LET new == [body EXCEPT !.history[e] = "retracted"] IN
           /\ new \in SessionBodies /\ new.used = body.used
           /\ new.history = [body.history EXCEPT ![e] = "retracted"]
  BY DEF SessionBodies, Outcomes

LEMMA OutcomeTypes ==
    ASSUME NEW body \in SessionBodies, NEW e \in Episodes, NEW o \in {"verified", "failed"},
           body.used < Cardinality(Episodes)
    PROVE  LET new == [body EXCEPT !.history[e] = o, !.used = @ + 1] IN
           /\ new \in SessionBodies /\ new.used = body.used + 1
           /\ new.history = [body.history EXCEPT ![e] = o]
<1> DEFINE new == [body EXCEPT !.history[e] = o, !.used = @ + 1]
<1>1. body.used + 1 \in 0..Cardinality(Episodes)
  BY EpisodesCounted DEF SessionBodies
<1>2. [body.history EXCEPT ![e] = o] \in [Episodes -> Outcomes \cup {"none"}]
  BY DEF SessionBodies, Outcomes
<1>3. /\ new.history = [body.history EXCEPT ![e] = o] /\ new.used = body.used + 1
      /\ new.goal = body.goal /\ new.talk = body.talk
  BY DEF SessionBodies
<1>4. new \in SessionBodies
  BY <1>1, <1>2 DEF SessionBodies
<1>5. QED
  BY <1>3, <1>4

\* Each way to store a session.
StoreTypes ==
    /\ files \in [Sessions -> SessionBodies \cup {None}]
    /\ active \in Sessions \cup {None} /\ born \subseteq Sessions

LEMMA WriteTypes ==
    ASSUME TypeOK, NEW s \in Sessions, NEW body \in SessionBodies, WriteSessionFile(s, body),
           active' \in {s, active}
    PROVE  StoreTypes'
  BY DEF WriteSessionFile, StoreTypes, TypeOK

LEMMA PersistTypes ==
    ASSUME TypeOK, NEW s \in Loaded, Persist(s)
    PROVE  StoreTypes'
<1>1. s \in Sessions
  BY LoadedIds
<1>2. QED
  BY <1>1, WriteTypes, EmptyBody DEF Persist, SaveSession, store, StoreTypes, TypeOK

LEMMA ReapedTypes ==
    ASSUME TypeOK, NEW s \in Sessions \cup {None}
    PROVE  Reaped(s) \in [Sessions -> SessionBodies \cup {None}]
  BY DEF Reaped, TypeOK

-------------------------------------------------------------------------------
(***************************************************************************)
(* Typing                                                                  *)
(***************************************************************************)
\* An episode that has not ended leaves room for one more in every count.
LEMMA RoomForOne ==
    ASSUME NEW e \in Episodes, pc[e] # "done"
    PROVE  Cardinality(Done) \in Nat /\ Cardinality(Done) < Cardinality(Episodes)
<1>1. Done \subseteq Episodes /\ Done # Episodes
  BY DEF Done
<1>2. QED
  BY <1>1, SessionAssumption, FS_Subset, FS_CardinalityType

LEMMA CountedBody ==
    ASSUME TypeOK, CountsEnded, NEW s \in Sessions
    PROVE  Body(s).used \in Nat /\ Body(s).used <= Cardinality(Done)
<1>1. Cardinality(Done) \in Nat
  <2>1. Done \subseteq Episodes
    BY DEF Done
  <2>2. QED
    BY <2>1, SessionAssumption, FS_Subset, FS_CardinalityType
<1>2. Body(s).used \in Nat
  BY BodyTypes, EpisodesCounted DEF SessionBodies
<1>3. QED
  BY <1>1, <1>2, BodyTypes DEF CountsEnded

LEMMA InitTypeOK == Init => TypeOK
<1> SUFFICES ASSUME Init PROVE TypeOK
  OBVIOUS
<1>1. changes \in 0..MaxGoals /\ saves \in 0..MaxSaves
  BY SessionAssumption DEF Init
<1>2. busy \in BOOLEAN
  BY DEF Init
<1>3. QED
  BY <1>1, <1>2 DEF Init, TypeOK

LEMMA NextTypeOK == TypeOK /\ CountsEnded /\ [Next]_vars => TypeOK'
<1> SUFFICES ASSUME TypeOK, CountsEnded, [Next]_vars PROVE TypeOK'
  OBVIOUS
<1> USE SessionAssumption DEF store, work, server, bounds, past
<1>1. ASSUME NEW g \in Goals \cup {NoGoal}, OperatorSetsGoal(g) PROVE TypeOK'
  <2>1. changes' \in 0..MaxGoals
    BY <1>1 DEF OperatorSetsGoal, TypeOK
  <2>2. PICK s \in Loaded :
            SaveSession(s, [Body(s) EXCEPT !.goal = g,
                                           !.used = IF Body(s).goal # g THEN 0 ELSE @])
    BY <1>1 DEF OperatorSetsGoal
  <2>3. StoreTypes'
    BY <2>2, LoadedIds, BodyTypes, ResetTypes, WriteTypes DEF SaveSession
  <2>4. QED
    BY <1>1, <2>1, <2>3 DEF OperatorSetsGoal, StoreTypes, TypeOK
<1>2. ASSUME NEW e \in Episodes, NEW g \in Goals \cup {NoGoal}, AgentSetsGoal(e, g)
      PROVE  TypeOK'
  <2>1. changes' \in 0..MaxGoals
    BY <1>2 DEF AgentSetsGoal, TypeOK
  <2>2. PICK s \in Target(owner[e]) : Update(owner[e], s, AgentGoal(s, g))
    BY <1>2 DEF AgentSetsGoal
  <2>3. owner[e] \in Sessions
    BY <1>2 DEF AgentSetsGoal, TypeOK
  <2>4. StoreTypes'
    BY <2>2, <2>3, TargetIds, BodyTypes, GoalTypes, WriteTypes DEF Update, AgentGoal
  <2>5. QED
    BY <1>2, <2>1, <2>4 DEF AgentSetsGoal, StoreTypes, TypeOK
<1>3. ASSUME NEW s \in Sessions, NEW g \in Goals \cup {NoGoal}, McpReads(s, g) PROVE TypeOK'
  <2>1. saves' \in 0..MaxSaves
    BY <1>3 DEF McpReads, TypeOK
  <2>2. mcp' \in [session : Sessions, read : SessionBodies \cup {None}, write : SessionBodies]
    BY <1>3, BodyTypes, GoalTypes DEF McpReads, TypeOK
  <2>3. QED
    BY <1>3, <2>1, <2>2 DEF McpReads, TypeOK
<1>4. CASE NewSession
  <2>1. PICK s \in Sessions \ born :
            /\ files' = [Reaped(active) EXCEPT ![s] = EmptySession]
            /\ active' = s /\ born' = born \cup {s}
            /\ UNCHANGED <<archive, work, asking, dispute, retracted, server, past, bounds>>
    BY <1>4 DEF NewSession
  <2>2. Reaped(active) \in [Sessions -> SessionBodies \cup {None}]
    BY ReapedTypes DEF TypeOK
  <2>3. StoreTypes'
    BY <2>1, <2>2, EmptyBody DEF StoreTypes, TypeOK
  <2>4. QED
    BY <2>1, <2>3 DEF StoreTypes, TypeOK
<1>5. ASSUME NEW s \in Sessions, SwitchToSession(s) PROVE TypeOK'
  BY <1>5, ReapedTypes DEF SwitchToSession, TypeOK
<1>6. ASSUME NEW s \in Sessions, DeleteParkedSession(s) PROVE TypeOK'
  BY <1>6 DEF DeleteParkedSession, TypeOK
<1>7. ASSUME NEW q \in Questions, Ask(q) PROVE TypeOK'
  <2>1. PICK s \in Loaded : Persist(s) /\ asking' = [asking EXCEPT ![q] = s]
    BY <1>7 DEF Ask
  <2>2. StoreTypes' /\ asking' \in [Questions -> Sessions \cup {None}]
    BY <2>1, PersistTypes, LoadedIds DEF TypeOK
  <2>3. QED
    BY <1>7, <2>2 DEF Ask, StoreTypes, TypeOK
<1>8. ASSUME NEW q \in Questions, Answer(q) PROVE TypeOK'
  <2>1. asking[q] \in Sessions /\ asking' \in [Questions -> Sessions \cup {None}]
    BY <1>8 DEF Answer, TypeOK
  <2>2. CASE Stored(asking[q])
    <3>1. files[asking[q]] \in SessionBodies
      BY <2>1, <2>2 DEF Stored, TypeOK
    <3>2. StoreTypes'
      BY <1>8, <2>1, <2>2, <3>1, TalkTypes, WriteTypes DEF Answer, Update
    <3>3. QED
      BY <1>8, <2>1, <3>2 DEF Answer, StoreTypes, TypeOK
  <2>3. CASE ~Stored(asking[q])
    BY <1>8, <2>1, <2>3 DEF Answer, TypeOK
  <2>4. QED
    BY <2>2, <2>3
<1>9. ASSUME NEW e \in Episodes, Dispatch(e) \/ Refuse(e) PROVE TypeOK'
  BY <1>9 DEF Dispatch, Refuse, TypeOK
<1>10. ASSUME NEW e \in Episodes, Bind(e) PROVE TypeOK'
  <2>1. PICK s \in Sessions : owner' = [owner EXCEPT ![e] = s] /\ StoreTypes'
    <3>1. CASE Stored(bound[e])
      BY <1>10, <3>1, StoredIds DEF Bind, StoreTypes, TypeOK
    <3>2. CASE ~Stored(bound[e])
      BY <1>10, <3>2, PersistTypes, LoadedIds DEF Bind
    <3>3. QED
      BY <3>1, <3>2
  <2>2. /\ pc' = [pc EXCEPT ![e] = "running"]
        /\ bound' = [bound EXCEPT ![e] = None]
        /\ UNCHANGED <<archive, asking, dispute, retracted, server, past, bounds>>
    BY <1>10 DEF Bind
  <2>3. busy' \in BOOLEAN
    BY <1>10 DEF Bind
  <2>4. \A f \in Episodes : owner'[f] # None <=> pc'[f] \in {"running", "done"}
    BY <2>1, <2>2 DEF TypeOK
  <2>5. QED
    BY <2>1, <2>2, <2>3, <2>4 DEF StoreTypes, TypeOK
<1>11. ASSUME NEW e \in Episodes, NEW o \in {"verified", "failed"}, End(e, o) PROVE TypeOK'
  <2>1. pc[e] = "running" /\ owner[e] \in Sessions
    BY <1>11 DEF End, TypeOK
  <2>2. PICK s \in Target(owner[e]) :
            Update(owner[e], s, [Body(s) EXCEPT !.history[e] = o, !.used = @ + 1])
    BY <1>11 DEF End, RecordHome
  <2>3. s \in Sessions /\ Body(s) \in SessionBodies
    BY <2>1, TargetIds, BodyTypes
  <2>4. Body(s).used < Cardinality(Episodes)
    BY <2>1, <2>3, RoomForOne, CountedBody, EpisodesCounted
  <2>5. StoreTypes'
    BY <2>2, <2>3, <2>4, OutcomeTypes, WriteTypes DEF Update
  <2>6. busy' \in BOOLEAN
    BY <1>11 DEF End
  <2>7. pc' \in [Episodes -> {"idle", "opening", "running", "done"}]
        /\ \A f \in Episodes : owner'[f] # None <=> pc'[f] \in {"running", "done"}
    BY <1>11 DEF End, Ended, TypeOK
  <2>8. lost' \subseteq Episodes
    BY <1>11 DEF End, TypeOK
  <2>9. QED
    BY <1>11, <2>5, <2>6, <2>7, <2>8 DEF End, StoreTypes, TypeOK
<1>12. ASSUME NEW d \in Disputes, DropDispute(d) PROVE TypeOK'
  BY <1>12 DEF DropDispute, TypeOK
<1>13. ASSUME NEW d \in Disputes, NEW e \in Episodes, OpenDispute(d, e) PROVE TypeOK'
  <2>1. active \in Sessions
    BY <1>13, StoredIds DEF OpenDispute, TypeOK
  <2>2. QED
    BY <1>13, <2>1 DEF OpenDispute, TypeOK
<1>14. ASSUME NEW d \in Disputes, NEW next \in Episodes, Retract(d, next) PROVE TypeOK'
  <2>1. dispute[d] \in [episode : Episodes, session : Sessions]
    BY <1>14 DEF Retract, TypeOK
  <2> DEFINE e == dispute[d].episode
             home == dispute[d].session
  <2>2. e \in Episodes /\ home \in Sessions
    BY <2>1
  <2> HIDE DEF e, home
  <2>3. PICK s \in Target(home) :
            IF Body(s).history[e] = "none" THEN UNCHANGED store
            ELSE Update(home, s, [Body(s) EXCEPT !.history[e] = "retracted"])
    BY <1>14 DEF Retract, AmendHome, e, home
  <2>4. StoreTypes'
    <3>1. CASE UNCHANGED store
      BY <3>1 DEF StoreTypes, TypeOK
    <3>2. CASE Update(home, s, [Body(s) EXCEPT !.history[e] = "retracted"])
      BY <2>2, <3>2, TargetIds, BodyTypes, AmendTypes, WriteTypes DEF Update
    <3>3. QED
      BY <2>3, <3>1, <3>2
  <2>5. /\ pc' = [pc EXCEPT ![next] = "opening"]
        /\ bound' = [bound EXCEPT ![next] = home]
        /\ dispute' = [dispute EXCEPT ![d] = None]
        /\ retracted' = retracted \cup {e}
        /\ pc[next] = "idle"
        /\ UNCHANGED <<archive, owner, busy, asking, server, past, bounds>>
    BY <1>14 DEF Retract, e, home
  <2>6. QED
    BY <2>2, <2>4, <2>5 DEF StoreTypes, TypeOK
<1>15. CASE McpWrites
  <2>1. /\ mcp \in [session : Sessions, read : SessionBodies \cup {None}, write : SessionBodies]
        /\ WriteSessionFile(mcp.session, mcp.write) /\ active' = active
    BY <1>15 DEF McpWrites, TypeOK
  <2>2. StoreTypes'
    BY <2>1, WriteTypes
  <2>3. lost' \subseteq Episodes /\ overwritten' \subseteq Sessions
    BY <1>15, <2>1 DEF McpWrites, TypeOK
  <2>4. pointing' \in Sessions /\ mcp' = None
    BY <1>15, <2>1 DEF McpWrites
  <2>5. QED
    BY <1>15, <2>2, <2>3, <2>4 DEF McpWrites, StoreTypes, TypeOK
<1>16. CASE McpPoints
  BY <1>16 DEF McpPoints, TypeOK
<1>17. CASE UNCHANGED vars
  BY <1>17 DEF vars, TypeOK
<1>18. QED
  BY <1>1, <1>2, <1>3, <1>4, <1>5, <1>6, <1>7, <1>8, <1>9, <1>10, <1>11, <1>12,
     <1>13, <1>14, <1>15, <1>16, <1>17 DEF Next

-------------------------------------------------------------------------------
(***************************************************************************)
(* What a step does to the outcomes a session holds                        *)
(***************************************************************************)
\* Session t keeps its outcomes: it stays, is created without any, is reaped
\* without any, or goes to the archive.
Quiet(t) ==
    /\ files'[t] # None =>
          /\ files[t] # None \/ t \notin born
          /\ t \in born'
          /\ files'[t].history = Body(t).history
          /\ files'[t].used \in {0, Body(t).used}
    /\ files'[t] = None =>
          files[t] = None \/ files[t].history = NoOutcome \/ archive'[t] = files[t]
    /\ \/ archive'[t] = archive[t]
       \/ files[t] # None /\ files'[t] = None /\ archive'[t] = files[t]

AllQuiet == \A t \in Sessions : Quiet(t)

\* Outcome v of episode e is recorded in session s, which counts n more.
Records(s, e, v, n) ==
    /\ s \in Sessions /\ (files[s] # None \/ s \notin born)
    /\ files'[s] # None /\ s \in born'
    /\ files'[s].history = [Body(s).history EXCEPT ![e] = v]
    /\ files'[s].used = Body(s).used + n
    /\ archive'[s] = archive[s]
    /\ \A t \in Sessions \ {s} : Quiet(t)

LEMMA UntouchedIsQuiet ==
    ASSUME TypeOK, UsedIds, NEW t \in Sessions, files'[t] = files[t], archive'[t] = archive[t],
           born \subseteq born'
    PROVE  Quiet(t)
  BY BodyTypes DEF Quiet, UsedIds

LEMMA UnchangedIsQuiet ==
    TypeOK /\ UsedIds /\ UNCHANGED <<files, born, archive>> => AllQuiet
  BY UntouchedIsQuiet DEF AllQuiet

\* A session is written and its outcomes are left as they were.
LEMMA WriteIsQuiet ==
    ASSUME TypeOK, UsedIds, NEW s \in Sessions, files[s] # None \/ s \notin born,
           NEW body \in SessionBodies, WriteSessionFile(s, body), UNCHANGED archive,
           body.history = Body(s).history, body.used \in {0, Body(s).used}
    PROVE  AllQuiet
<1>1. body # None
  BY SessionAssumption
<1>2. files' = [files EXCEPT ![s] = body] /\ born' = born \cup {s}
  BY DEF WriteSessionFile
<1>3. Quiet(s)
  BY <1>1, <1>2 DEF Quiet, TypeOK
<1>4. ASSUME NEW t \in Sessions, t # s PROVE Quiet(t)
  BY <1>2, <1>4, UntouchedIsQuiet DEF TypeOK
<1>5. QED
  BY <1>3, <1>4 DEF AllQuiet

LEMMA PersistIsQuiet ==
    ASSUME TypeOK, UsedIds, NEW s \in Loaded, Persist(s), UNCHANGED archive
    PROVE  AllQuiet
<1>1. CASE Stored(active)
  BY <1>1, UnchangedIsQuiet DEF Persist, store
<1>2. CASE ~Stored(active)
  <2>1. s \in Sessions \ born
    BY <1>2 DEF Loaded
  <2>2. Body(s).history = NoOutcome /\ Body(s).used = 0
    BY <2>1, BodyTypes DEF UsedIds
  <2>3. WriteSessionFile(s, EmptySession)
    BY <1>2 DEF Persist, SaveSession
  <2>4. EmptySession.used = 0
    BY DEF EmptySession
  <2>5. QED
    BY <2>1, <2>2, <2>3, <2>4, EmptyBody, WriteIsQuiet
<1>3. QED
  BY <1>1, <1>2

\* An empty session that is reaped holds no outcome.
LEMMA ReapIsQuiet ==
    ASSUME TypeOK, UsedIds, NEW t \in Sessions, files'[t] = Reaped(active)[t],
           archive'[t] = archive[t], born \subseteq born'
    PROVE  Quiet(t)
<1>1. CASE files'[t] = files[t]
  BY <1>1, UntouchedIsQuiet
<1>2. CASE files'[t] # files[t]
  <2>1. t = active /\ ~HasContent(files[t]) /\ files'[t] = None /\ files[t] # None
    BY <1>2, StoredIds DEF Reaped, TypeOK
  <2>2. files[t].history \in [Episodes -> Outcomes \cup {"none"}]
    BY <2>1 DEF TypeOK, SessionBodies
  <2>3. files[t].history = NoOutcome
    BY <2>1, <2>2 DEF HasContent, NoOutcome
  <2>4. QED
    BY <2>1, <2>3 DEF Quiet
<1>3. QED
  BY <1>1, <1>2

LEMMA BindIsQuiet == ASSUME TypeOK, UsedIds, NEW e \in Episodes, Bind(e) PROVE AllQuiet
  BY PersistIsQuiet, UnchangedIsQuiet DEF Bind, store

LEMMA QuietSteps ==
    ASSUME TypeOK, UsedIds, [Next]_vars
    PROVE  \/ AllQuiet
           \/ \E e \in Episodes, o \in {"verified", "failed"} : End(e, o)
           \/ \E d \in Disputes, next \in Episodes : Retract(d, next)
           \/ McpWrites
<1> USE DEF store, work, server, bounds, past
<1>1. ASSUME NEW g \in Goals \cup {NoGoal}, OperatorSetsGoal(g) PROVE AllQuiet
  <2> DEFINE New(s) == [Body(s) EXCEPT !.goal = g,
                                       !.used = IF Body(s).goal # g THEN 0 ELSE @]
  <2>1. PICK s \in Loaded : SaveSession(s, New(s)) /\ UNCHANGED archive
    BY <1>1 DEF OperatorSetsGoal
  <2>2. s \in Sessions /\ (files[s] # None \/ s \notin born) /\ Body(s) \in SessionBodies
    BY LoadedIds, BodyTypes
  <2>3. New(s) \in SessionBodies /\ New(s).history = Body(s).history
        /\ New(s).used \in {0, Body(s).used}
    BY <2>2, ResetTypes
  <2> HIDE DEF New
  <2>4. QED
    BY <2>1, <2>2, <2>3, WriteIsQuiet DEF SaveSession
<1>2. ASSUME NEW e \in Episodes, NEW g \in Goals \cup {NoGoal}, AgentSetsGoal(e, g)
      PROVE  AllQuiet
  <2>1. owner[e] \in Sessions
    BY <1>2 DEF AgentSetsGoal, TypeOK
  <2>2. PICK s \in Target(owner[e]) :
            WriteSessionFile(s, AgentGoal(s, g)) /\ UNCHANGED archive
    BY <1>2 DEF AgentSetsGoal, Update
  <2>3. s \in Sessions /\ (files[s] # None \/ s \notin born) /\ Body(s) \in SessionBodies
    BY <2>1, TargetIds, BodyTypes
  <2>4. AgentGoal(s, g) \in SessionBodies /\ AgentGoal(s, g).history = Body(s).history
        /\ AgentGoal(s, g).used = Body(s).used
    BY <2>3, GoalTypes DEF AgentGoal
  <2>5. QED
    BY <2>2, <2>3, <2>4, WriteIsQuiet
<1>3. ASSUME NEW s \in Sessions, NEW g \in Goals \cup {NoGoal}, McpReads(s, g) PROVE AllQuiet
  BY <1>3, UntouchedIsQuiet DEF McpReads, AllQuiet
<1>4. CASE NewSession
  <2>1. PICK s \in Sessions \ born :
            /\ files' = [Reaped(active) EXCEPT ![s] = EmptySession]
            /\ born' = born \cup {s} /\ UNCHANGED archive
    BY <1>4 DEF NewSession
  <2>2. Reaped(active) \in [Sessions -> SessionBodies \cup {None}]
    BY ReapedTypes DEF TypeOK
  <2>3. files'[s] = EmptySession /\ EmptySession # None /\ EmptySession.used = 0
    BY <2>1, <2>2, EmptyBody, SessionAssumption DEF EmptySession
  <2>4. Body(s).history = NoOutcome
    BY <2>1, BodyTypes DEF UsedIds
  <2>5. Quiet(s)
    BY <2>1, <2>3, <2>4, EmptyBody DEF Quiet
  <2>6. ASSUME NEW t \in Sessions, t # s PROVE Quiet(t)
    BY <2>1, <2>2, <2>6, ReapIsQuiet
  <2>7. QED
    BY <2>5, <2>6 DEF AllQuiet
<1>5. ASSUME NEW s \in Sessions, SwitchToSession(s) PROVE AllQuiet
  BY <1>5, ReapIsQuiet DEF SwitchToSession, AllQuiet
<1>6. ASSUME NEW s \in Sessions, DeleteParkedSession(s) PROVE AllQuiet
  <2>1. /\ files[s] # None /\ files'[s] = None /\ archive'[s] = files[s]
        /\ \A t \in Sessions \ {s} : files'[t] = files[t] /\ archive'[t] = archive[t]
        /\ born' = born
    BY <1>6, StoredIds DEF DeleteParkedSession, TypeOK
  <2>2. Quiet(s)
    BY <2>1 DEF Quiet
  <2>3. QED
    BY <2>1, <2>2, UntouchedIsQuiet DEF AllQuiet
<1>7. ASSUME NEW q \in Questions, Ask(q) PROVE AllQuiet
  BY <1>7, PersistIsQuiet DEF Ask
<1>8. ASSUME NEW q \in Questions, Answer(q) PROVE AllQuiet
  <2> DEFINE s == asking[q]
             new == [files[s] EXCEPT !.talk = @ \cup {q}]
  <2>1. s \in Sessions /\ UNCHANGED archive
    BY <1>8 DEF Answer, TypeOK
  <2>2. CASE Stored(s)
    <3>1. files[s] \in SessionBodies /\ files[s] # None /\ Body(s) = files[s]
      BY <2>1, <2>2, StoredIds, BodyTypes DEF TypeOK
    <3>2. WriteSessionFile(s, new)
      BY <1>8, <2>2 DEF Answer, Update
    <3>3. new \in SessionBodies /\ new.history = Body(s).history /\ new.used = Body(s).used
      BY <3>1, TalkTypes
    <3> HIDE DEF s, new
    <3>4. QED
      BY <2>1, <3>1, <3>2, <3>3, WriteIsQuiet
  <2>3. CASE ~Stored(s)
    BY <1>8, <2>1, <2>3, UnchangedIsQuiet DEF Answer
  <2>4. QED
    BY <2>2, <2>3
<1>9. ASSUME NEW e \in Episodes, Bind(e) PROVE AllQuiet
  BY <1>9, BindIsQuiet
<1>10. ASSUME NEW e \in Episodes, Dispatch(e) \/ Refuse(e) PROVE AllQuiet
  BY <1>10, UnchangedIsQuiet DEF Dispatch, Refuse
<1>11. ASSUME NEW d \in Disputes, DropDispute(d) \/ \E e \in Episodes : OpenDispute(d, e)
       PROVE  AllQuiet
  BY <1>11, UnchangedIsQuiet DEF DropDispute, OpenDispute
<1>12. CASE McpPoints \/ UNCHANGED vars
  BY <1>12, UnchangedIsQuiet DEF McpPoints, vars
<1>13. QED
  BY <1>1, <1>2, <1>3, <1>4, <1>5, <1>6, <1>7, <1>8, <1>9, <1>10, <1>11, <1>12 DEF Next

LEMMA WriteRecords ==
    ASSUME TypeOK, UsedIds, NEW s \in Sessions, files[s] # None \/ s \notin born,
           NEW body \in SessionBodies, WriteSessionFile(s, body), UNCHANGED archive,
           NEW e, NEW v, NEW n, body.history = [Body(s).history EXCEPT ![e] = v],
           body.used = Body(s).used + n
    PROVE  Records(s, e, v, n)
<1>1. body # None
  BY SessionAssumption
<1>2. files' = [files EXCEPT ![s] = body] /\ born' = born \cup {s}
  BY DEF WriteSessionFile
<1>3. ASSUME NEW t \in Sessions, t # s PROVE Quiet(t)
  BY <1>2, <1>3, UntouchedIsQuiet DEF TypeOK
<1>4. QED
  BY <1>1, <1>2, <1>3 DEF Records, TypeOK

LEMMA EndRecords ==
    ASSUME TypeOK, UsedIds, CountsEnded,
           NEW e \in Episodes, NEW o \in {"verified", "failed"}, End(e, o)
    PROVE  /\ pc[e] = "running" /\ pc' = [pc EXCEPT ![e] = "done"]
           /\ UNCHANGED <<owner, dispute, retracted, mcp, overwritten>>
           /\ owner[e] \in Sessions
           /\ \E s \in Sessions :
                 Records(s, e, o, 1) /\ (files[owner[e]] # None => s = owner[e])
<1>1. /\ pc[e] = "running" /\ pc' = [pc EXCEPT ![e] = "done"]
      /\ UNCHANGED <<owner, dispute, retracted, mcp, overwritten, archive>>
  BY DEF End, Ended, server
<1>2. owner[e] \in Sessions
  BY <1>1 DEF TypeOK
<1> DEFINE New(s) == [Body(s) EXCEPT !.history[e] = o, !.used = @ + 1]
<1>3. PICK s \in Target(owner[e]) : WriteSessionFile(s, New(s))
  BY DEF End, RecordHome, Update
<1>4. /\ s \in Sessions /\ (files[s] # None \/ s \notin born) /\ Body(s) \in SessionBodies
      /\ files[owner[e]] # None => s = owner[e]
  BY <1>2, TargetIds, BodyTypes
<1>5. Body(s).used < Cardinality(Episodes)
  BY <1>1, <1>4, RoomForOne, CountedBody, EpisodesCounted
<1>6. /\ New(s) \in SessionBodies /\ New(s).used = Body(s).used + 1
      /\ New(s).history = [Body(s).history EXCEPT ![e] = o]
  BY <1>4, <1>5, OutcomeTypes
<1> HIDE DEF New
<1>7. Records(s, e, o, 1)
  BY <1>1, <1>3, <1>4, <1>6, WriteRecords
<1>8. QED
  BY <1>1, <1>2, <1>4, <1>7

LEMMA RetractRecords ==
    ASSUME TypeOK, UsedIds, NEW d \in Disputes, NEW next \in Episodes, Retract(d, next),
           NEW e, e = dispute[d].episode, NEW home, home = dispute[d].session
    PROVE  /\ dispute[d] # None /\ dispute' = [dispute EXCEPT ![d] = None]
           /\ pc[next] = "idle" /\ pc' = [pc EXCEPT ![next] = "opening"]
           /\ retracted' = retracted \cup {e}
           /\ UNCHANGED <<owner, mcp, lost, overwritten>>
           /\ e \in Episodes /\ home \in Sessions
           /\ \/ /\ AllQuiet /\ UNCHANGED store
                 /\ files[home] # None => files[home].history[e] = "none"
              \/ \E s \in Sessions :
                    Records(s, e, "retracted", 0) /\ Body(s).history[e] # "none"
<1>1. /\ dispute[d] # None /\ dispute' = [dispute EXCEPT ![d] = None]
      /\ pc[next] = "idle" /\ pc' = [pc EXCEPT ![next] = "opening"]
      /\ retracted' = retracted \cup {e}
      /\ UNCHANGED <<owner, mcp, lost, overwritten, archive>>
  BY DEF Retract, server, past
<1>2. e \in Episodes /\ home \in Sessions
  BY <1>1 DEF TypeOK
<1> DEFINE New(s) == [Body(s) EXCEPT !.history[e] = "retracted"]
<1>3. PICK s \in Target(home) :
          IF Body(s).history[e] = "none" THEN UNCHANGED store
          ELSE WriteSessionFile(s, New(s))
  BY DEF Retract, AmendHome, Update
<1>4. /\ s \in Sessions /\ (files[s] # None \/ s \notin born) /\ Body(s) \in SessionBodies
      /\ files[home] # None => s = home
  BY <1>2, TargetIds, BodyTypes
<1>5. CASE Body(s).history[e] = "none"
  <2>1. AllQuiet /\ UNCHANGED store
    BY <1>1, <1>3, <1>5, UnchangedIsQuiet DEF store
  <2>2. files[home] # None => files[home].history[e] = "none"
    BY <1>4, <1>5, BodyTypes
  <2>3. QED
    BY <1>1, <1>2, <2>1, <2>2
<1>6. CASE Body(s).history[e] # "none"
  <2>1. /\ New(s) \in SessionBodies /\ New(s).used = Body(s).used
        /\ New(s).history = [Body(s).history EXCEPT ![e] = "retracted"]
    BY <1>2, <1>4, AmendTypes
  <2>2. New(s).used = Body(s).used + 0
    BY <1>4, <2>1, EpisodesCounted DEF SessionBodies
  <2>3. WriteSessionFile(s, New(s))
    BY <1>3, <1>6
  <2> HIDE DEF New
  <2>4. Records(s, e, "retracted", 0)
    BY <1>1, <1>4, <2>1, <2>2, <2>3, WriteRecords
  <2>5. QED
    BY <1>1, <1>2, <1>4, <1>6, <2>4
<1>7. QED
  BY <1>5, <1>6

LEMMA McpWritesCopy ==
    ASSUME TypeOK, McpWrites
    PROVE  /\ mcp # None /\ mcp' = None
           /\ mcp.session \in Sessions /\ mcp.write \in SessionBodies /\ mcp.write # None
           /\ files'[mcp.session] = mcp.write
           /\ \A t \in Sessions \ {mcp.session} : files'[t] = files[t]
           /\ born' = born \cup {mcp.session}
           /\ UNCHANGED <<archive, pc, owner, dispute, retracted>>
           /\ overwritten \subseteq overwritten'
           /\ mcp.session \notin overwritten' => files[mcp.session] = mcp.read
           /\ lost' = lost \cup {e \in Episodes :
                          /\ owner[e] = mcp.session /\ pc[e] = "done" /\ e \notin lost
                          /\ Kept(mcp.session).history[e] # mcp.write.history[e]}
<1>1. /\ mcp # None /\ mcp' = None /\ born' = born \cup {mcp.session}
      /\ files' = [files EXCEPT ![mcp.session] = mcp.write]
      /\ UNCHANGED <<archive, pc, owner, dispute, retracted>>
  BY DEF McpWrites, WriteSessionFile, work
<1>2. mcp.session \in Sessions /\ mcp.write \in SessionBodies
  BY <1>1 DEF TypeOK
<1>3. /\ overwritten' = IF files[mcp.session] = mcp.read THEN overwritten
                        ELSE overwritten \cup {mcp.session}
      /\ lost' = lost \cup {e \in Episodes :
                     /\ owner[e] = mcp.session /\ pc[e] = "done" /\ e \notin lost
                     /\ Kept(mcp.session).history[e] # mcp.write.history[e]}
  BY DEF McpWrites
<1>4. /\ overwritten \subseteq overwritten'
      /\ mcp.session \notin overwritten' => files[mcp.session] = mcp.read
  BY <1>3
<1>5. mcp.write # None
  BY <1>2, SessionAssumption
<1>6. files'[mcp.session] = mcp.write /\ \A t \in Sessions \ {mcp.session} : files'[t] = files[t]
  BY <1>1, <1>2 DEF TypeOK
<1>7. QED
  BY <1>1, <1>2, <1>3, <1>4, <1>5, <1>6

-------------------------------------------------------------------------------
(***************************************************************************)
(* What a step does to episodes, disputes and the MCP server's copy        *)
(***************************************************************************)
LEMMA EpisodeSteps ==
    ASSUME TypeOK, [Next]_vars, NEW e \in Episodes
    PROVE  /\ pc[e] = "done" => pc'[e] = "done" /\ owner'[e] = owner[e]
           /\ pc'[e] = "done" /\ pc[e] # "done" =>
                 \E o \in {"verified", "failed"} : End(e, o)
           /\ owner'[e] # owner[e] => pc[e] = "opening" /\ Bind(e)
<1> DEFINE Goal ==
      /\ pc[e] = "done" => pc'[e] = "done" /\ owner'[e] = owner[e]
      /\ pc'[e] = "done" /\ pc[e] # "done" => \E o \in {"verified", "failed"} : End(e, o)
      /\ owner'[e] # owner[e] => pc[e] = "opening" /\ Bind(e)
<1>1. ASSUME NEW f \in Episodes, Dispatch(f) \/ Refuse(f) PROVE Goal
  BY <1>1 DEF Dispatch, Refuse, TypeOK
<1>2. ASSUME NEW f \in Episodes, Bind(f) PROVE Goal
  <2>1. /\ pc[f] = "opening" /\ pc' = [pc EXCEPT ![f] = "running"]
        /\ \A h \in Episodes \ {f} : owner'[h] = owner[h]
    BY <1>2 DEF Bind, TypeOK
  <2>2. QED
    BY <1>2, <2>1 DEF TypeOK
<1>3. ASSUME NEW f \in Episodes, NEW o \in {"verified", "failed"}, End(f, o) PROVE Goal
  <2>1. pc[f] = "running" /\ pc' = [pc EXCEPT ![f] = "done"] /\ owner' = owner
    BY <1>3 DEF End, Ended
  <2>2. QED
    BY <1>3, <2>1 DEF TypeOK
<1>4. ASSUME NEW d \in Disputes, NEW next \in Episodes, Retract(d, next) PROVE Goal
  <2>1. pc[next] = "idle" /\ pc' = [pc EXCEPT ![next] = "opening"] /\ owner' = owner
    BY <1>4 DEF Retract
  <2>2. QED
    BY <2>1 DEF TypeOK
<1>5. ASSUME UNCHANGED <<pc, owner>> PROVE Goal
  BY <1>5
<1> HIDE DEF Goal
<1>6. ASSUME NEW g \in Goals \cup {NoGoal},
             \/ OperatorSetsGoal(g)
             \/ \E f \in Episodes : AgentSetsGoal(f, g)
             \/ \E s \in Sessions : McpReads(s, g)
      PROVE  Goal
  BY <1>5, <1>6 DEF OperatorSetsGoal, AgentSetsGoal, McpReads, work
<1>7. ASSUME NEW s \in Sessions, SwitchToSession(s) \/ DeleteParkedSession(s) PROVE Goal
  BY <1>5, <1>7 DEF SwitchToSession, DeleteParkedSession, work
<1>8. ASSUME NEW q \in Questions, Ask(q) \/ Answer(q) PROVE Goal
  BY <1>5, <1>8 DEF Ask, Answer, work
<1>9. ASSUME NEW d \in Disputes, DropDispute(d) \/ \E f \in Episodes : OpenDispute(d, f)
      PROVE  Goal
  BY <1>5, <1>9 DEF DropDispute, OpenDispute, work
<1>10. ASSUME NewSession \/ McpWrites \/ McpPoints \/ UNCHANGED vars PROVE Goal
  BY <1>5, <1>10 DEF NewSession, McpWrites, McpPoints, work, vars
<1>11. Goal
  BY <1>1, <1>2, <1>3, <1>4, <1>6, <1>7, <1>8, <1>9, <1>10 DEF Next
<1>12. QED
  BY <1>11 DEF Goal

LEMMA DisputeSteps ==
    ASSUME TypeOK, [Next]_vars, NEW d \in Disputes
    PROVE  \/ dispute'[d] \in {dispute[d], None}
           \/ \E e \in Episodes : OpenDispute(d, e)
<1>1. \/ \E c \in Disputes : DropDispute(c)
      \/ \E c \in Disputes, e \in Episodes : OpenDispute(c, e) \/ Retract(c, e)
      \/ UNCHANGED dispute
  BY DEF Next, vars, OperatorSetsGoal, AgentSetsGoal, McpReads, NewSession,
         SwitchToSession, DeleteParkedSession, Ask, Answer, Dispatch, Refuse, Bind, End,
         McpWrites, McpPoints
<1>2. ASSUME NEW c \in Disputes, dispute' = [dispute EXCEPT ![c] = None]
      PROVE  dispute'[d] \in {dispute[d], None}
  BY <1>2 DEF TypeOK
<1>3. ASSUME NEW c \in Disputes, NEW e \in Episodes, OpenDispute(c, e)
      PROVE  c = d \/ dispute'[d] = dispute[d]
  BY <1>3 DEF OpenDispute, TypeOK
<1>4. QED
  BY <1>1, <1>2, <1>3 DEF DropDispute, Retract

LEMMA CopySteps ==
    ASSUME TypeOK, [Next]_vars
    PROVE  \/ mcp' = mcp \/ mcp' = None
           \/ \E s \in Sessions, g \in Goals \cup {NoGoal} : McpReads(s, g)
  BY DEF Next, vars, server, OperatorSetsGoal, AgentSetsGoal, McpReads, NewSession,
         SwitchToSession, DeleteParkedSession, Ask, Answer, Dispatch, Refuse, Bind, End,
         DropDispute, OpenDispute, Retract, McpWrites, McpPoints

LEMMA ReadCopies ==
    ASSUME TypeOK, NEW s \in Sessions, NEW g \in Goals \cup {NoGoal}, McpReads(s, g)
    PROVE  /\ mcp'.session = s /\ mcp'.read = files[s]
           /\ mcp'.write.history = Body(s).history /\ mcp'.write.used = Body(s).used
           /\ s \in born' /\ UNCHANGED <<files, archive, pc, dispute, lost, retracted>>
<1>1. mcp' = [session |-> s, read |-> files[s], write |-> [Body(s) EXCEPT !.goal = g]]
  BY DEF McpReads
<1>2. /\ [Body(s) EXCEPT !.goal = g].history = Body(s).history
      /\ [Body(s) EXCEPT !.goal = g].used = Body(s).used
  BY BodyTypes, GoalTypes
<1>3. s \in born' /\ UNCHANGED <<files, archive, pc, dispute, lost, retracted>>
  BY DEF McpReads, work, past
<1>4. QED
  BY <1>1, <1>2, <1>3

\* Steps that concern the record of an episode, and the others.
LEMMA StepKinds ==
    ASSUME [Next]_vars
    PROVE  \/ \E e \in Episodes : Bind(e)
           \/ \E e \in Episodes, o \in {"verified", "failed"} : End(e, o)
           \/ \E d \in Disputes, next \in Episodes : Retract(d, next)
           \/ McpWrites
           \/ UNCHANGED <<retracted, past, owner>>
  BY DEF Next, vars, work, past, OperatorSetsGoal, AgentSetsGoal, McpReads, NewSession,
         SwitchToSession, DeleteParkedSession, Ask, Answer, Dispatch, Refuse,
         DropDispute, OpenDispute, McpPoints

\* Losses, retractions and overwritten sessions are never forgotten.
LEMMA PastSteps ==
    ASSUME TypeOK, [Next]_vars
    PROVE  /\ lost \subseteq lost' /\ retracted \subseteq retracted'
           /\ overwritten \subseteq overwritten' /\ born \subseteq born'
           /\ \A e \in lost' \ lost : pc[e] = "done" \/ pc'[e] = "done"
           /\ \A e \in retracted' \ retracted : \E d \in Disputes, next \in Episodes :
                 Retract(d, next) /\ e = dispute[d].episode
<1> USE DEF store, work, server, bounds, past
<1>1. born \subseteq born'
  BY DEF Next, vars, OperatorSetsGoal, AgentSetsGoal, McpReads, NewSession,
         SwitchToSession, DeleteParkedSession, Ask, Answer, Dispatch, Refuse, Bind, End,
         DropDispute, OpenDispute, Retract, McpWrites, McpPoints, SaveSession, Update,
         WriteSessionFile, Persist
<1>2. ASSUME NEW e \in Episodes, NEW o \in {"verified", "failed"}, End(e, o)
      PROVE  /\ lost' \in {lost, lost \cup {e}} /\ pc'[e] = "done"
             /\ UNCHANGED <<retracted, overwritten>>
  BY <1>2 DEF End, Ended, TypeOK
<1>3. ASSUME NEW d \in Disputes, NEW next \in Episodes, Retract(d, next)
      PROVE  /\ retracted' = retracted \cup {dispute[d].episode}
             /\ UNCHANGED <<lost, overwritten>>
  BY <1>3 DEF Retract
<1>4. ASSUME McpWrites
      PROVE  /\ lost \subseteq lost' /\ \A e \in lost' \ lost : pc[e] = "done"
             /\ overwritten \subseteq overwritten' /\ UNCHANGED retracted
  BY <1>4, McpWritesCopy
<1>5. \/ \E e \in Episodes, o \in {"verified", "failed"} : End(e, o)
      \/ \E d \in Disputes, next \in Episodes : Retract(d, next)
      \/ McpWrites
      \/ UNCHANGED <<retracted, past>>
  BY StepKinds DEF Bind
<1>6. CASE \E e \in Episodes, o \in {"verified", "failed"} : End(e, o)
  BY <1>1, <1>2, <1>6
<1>7. CASE \E d \in Disputes, next \in Episodes : Retract(d, next)
  BY <1>1, <1>3, <1>7
<1>8. CASE McpWrites
  BY <1>1, <1>4, <1>8
<1>9. CASE UNCHANGED <<retracted, past>>
  BY <1>1, <1>9
<1>10. QED
  BY <1>5, <1>6, <1>7, <1>8, <1>9

-------------------------------------------------------------------------------
(***************************************************************************)
(* Where outcomes come from                                                *)
(***************************************************************************)
Told(s, e) == \E v \in Outcomes : Says(s, e, v)

LEMMA QuietSays ==
    ASSUME TypeOK, UsedIds, NEW s \in Sessions, Quiet(s), NEW e \in Episodes,
           NEW v \in Outcomes, Says(s, e, v)'
    PROVE  Says(s, e, v) \/ (mcp' # None /\ mcp'.session = s /\ mcp'.write.history[e] = v)
<1>1. NoOutcome[e] # v
  BY DEF NoOutcome, Outcomes
<1>2. QED
  BY <1>1, BodyTypes DEF Quiet, Says

LEMMA RecordsSays ==
    ASSUME TypeOK, UsedIds, NEW s \in Sessions, NEW t, NEW f \in Episodes, NEW w, NEW n,
           Records(t, f, w, n), mcp' = mcp, NEW e \in Episodes, NEW v \in Outcomes,
           Says(s, e, v)'
    PROVE  Says(s, e, v) \/ (s = t /\ e = f /\ v = w)
<1>1. CASE s # t
  BY <1>1, QuietSays DEF Records, Says
<1>2. CASE s = t
  <2>1. Body(s).history \in [Episodes -> Outcomes \cup {"none"}]
    BY BodyTypes DEF SessionBodies
  <2>2. NoOutcome[e] # v
    BY DEF NoOutcome, Outcomes
  <2>3. QED
    BY <1>2, <2>1, <2>2, BodyTypes DEF Records, Says
<1>3. QED
  BY <1>1, <1>2

\* An outcome a session tells it told before, or the episode has just ended, or
\* it is the retraction of one it told.
LEMMA OutcomesComeFrom ==
    ASSUME TypeOK, UsedIds, CountsEnded, [Next]_vars, NEW s \in Sessions,
           NEW e \in Episodes, NEW v \in Outcomes, Says(s, e, v)'
    PROVE  \/ Says(s, e, v)
           \/ v \in {"verified", "failed"} /\ End(e, v) /\ Records(s, e, v, 1)
           \/ /\ v = "retracted" /\ Told(s, e)
              /\ \E d \in Disputes, next \in Episodes :
                    Retract(d, next) /\ dispute[d].episode = e
<1>1. CASE AllQuiet
  <2>1. Says(s, e, v) \/ (mcp' # None /\ mcp'.session = s /\ mcp'.write.history[e] = v)
    BY <1>1, QuietSays DEF AllQuiet
  <2>2. CASE mcp' = mcp \/ mcp' = None
    BY <2>1, <2>2 DEF Says
  <2>3. ASSUME NEW t \in Sessions, NEW g \in Goals \cup {NoGoal}, McpReads(t, g)
        PROVE  Says(s, e, v)
    <3>1. NoOutcome[e] # v
      BY DEF NoOutcome, Outcomes
    <3>2. QED
      BY <2>1, <2>3, <3>1, ReadCopies, BodyTypes DEF Says
  <2>4. QED
    BY <2>2, <2>3, CopySteps
<1>2. ASSUME NEW f \in Episodes, NEW o \in {"verified", "failed"}, End(f, o)
      PROVE  Says(s, e, v) \/ (e = f /\ v = o /\ Records(s, e, v, 1))
  BY <1>2, EndRecords, RecordsSays
<1>3. ASSUME NEW d \in Disputes, NEW next \in Episodes, Retract(d, next)
      PROVE  Says(s, e, v) \/ (v = "retracted" /\ Told(s, e) /\ dispute[d].episode = e)
  <2>1. CASE AllQuiet
    BY <1>3, <2>1, QuietSays, RetractRecords DEF AllQuiet, Says
  <2>2. ASSUME NEW t \in Sessions, Records(t, dispute[d].episode, "retracted", 0),
               Body(t).history[dispute[d].episode] # "none"
        PROVE  Says(s, e, v) \/ (v = "retracted" /\ Told(s, e) /\ dispute[d].episode = e)
    <3>1. Says(s, e, v) \/ (s = t /\ e = dispute[d].episode /\ v = "retracted")
      BY <1>3, <2>2, RetractRecords, RecordsSays
    <3>2. CASE s = t /\ e = dispute[d].episode
      <4>1. Body(s).history[e] \in Outcomes
        BY <2>2, <3>2, BodyTypes DEF SessionBodies
      <4>2. files[s] # None /\ Body(s) = files[s]
        BY <4>1, BodyTypes DEF NoOutcome, Outcomes
      <4>3. Told(s, e)
        BY <4>1, <4>2 DEF Told, Says
      <4>4. QED
        BY <3>1, <3>2, <4>3
    <3>3. QED
      BY <3>1, <3>2
  <2>3. QED
    BY <1>3, <2>1, <2>2, RetractRecords
<1>4. CASE McpWrites
  BY <1>4, McpWritesCopy DEF Says
<1>5. QED
  BY <1>1, <1>2, <1>3, <1>4, QuietSteps

-------------------------------------------------------------------------------
(***************************************************************************)
(* Preserving the invariant                                                *)
(***************************************************************************)
Types == TypeOK /\ UsedIds /\ CountsEnded

\* What an episode that ends now or is retracted now was told before.
LEMMA EndsUntold ==
    ASSUME Types, OneRecord, NEW e \in Episodes, NEW o \in {"verified", "failed"}, End(e, o),
           NEW s \in Sessions
    PROVE  ~Told(s, e)
  BY EndRecords DEF Types, OneRecord, Told

LEMMA NextOneRecord == Types /\ OneRecord /\ [Next]_vars => OneRecord'
<1> SUFFICES ASSUME Types, OneRecord, [Next]_vars, NEW e \in Episodes,
                    NEW s \in Sessions, NEW t \in Sessions,
                    NEW v \in Outcomes, NEW w \in Outcomes, Says(s, e, v)'
             PROVE  pc'[e] = "done" /\ (Says(t, e, w)' => s = t)
  BY DEF OneRecord
<1> USE DEF Types
<1>1. ASSUME NEW r \in Sessions, NEW u \in Outcomes, Says(r, e, u)'
      PROVE  Told(r, e) \/ (u \in {"verified", "failed"} /\ End(e, u) /\ Records(r, e, u, 1))
  BY <1>1, OutcomesComeFrom DEF Told
<1>2. CASE Told(s, e)
  <2>1. pc[e] = "done"
    BY <1>2 DEF Told, OneRecord
  <2>2. Says(t, e, w)' => Told(t, e)
    BY <1>1, <1>2, EndsUntold
  <2>3. QED
    BY <1>2, <2>1, <2>2, EpisodeSteps DEF Told, OneRecord
<1>3. CASE v \in {"verified", "failed"} /\ End(e, v) /\ Records(s, e, v, 1)
  <2>1. pc'[e] = "done"
    BY <1>3, EndRecords DEF TypeOK
  <2>2. ASSUME Says(t, e, w)', s # t PROVE FALSE
    <3>1. Records(t, e, w, 1)
      BY <1>1, <1>3, <2>2, EndsUntold
    <3>2. Body(t).history \in [Episodes -> Outcomes \cup {"none"}] /\ ~Told(t, e)
      BY <1>3, BodyTypes, EndsUntold DEF SessionBodies
    <3>3. Body(t).history[e] = "none"
      BY <3>2, BodyTypes DEF Told, Says, NoOutcome
    <3>4. files'[t] # None /\ files'[t].history[e] = w
      BY <3>1, <3>2 DEF Records
    <3>5. Quiet(t)
      BY <1>3, <2>2 DEF Records
    <3>6. QED
      BY <3>3, <3>4, <3>5 DEF Quiet, Outcomes
  <2>3. QED
    BY <2>1, <2>2
<1>4. QED
  BY <1>1, <1>2, <1>3

LEMMA NextFailureFinal ==
    Types /\ OneRecord /\ FailureFinal /\ DisputesKnow /\ [Next]_vars => FailureFinal'
<1> SUFFICES ASSUME Types, OneRecord, FailureFinal, DisputesKnow, [Next]_vars,
                    NEW e \in Episodes, NEW s \in Sessions, NEW v \in {"verified", "retracted"},
                    Says(s, e, "failed")', Says(s, e, v)'
             PROVE  FALSE
  BY DEF FailureFinal
<1> USE DEF Types
<1>0. "failed" \in Outcomes /\ v \in Outcomes
  BY DEF Outcomes
<1>1. Says(s, e, "failed") \/ (End(e, "failed") /\ Records(s, e, "failed", 1))
  BY <1>0, OutcomesComeFrom
<1>2. CASE Says(s, e, "failed")
  <2>1. Told(s, e) /\ ~Says(s, e, v)
    BY <1>0, <1>2 DEF Told, FailureFinal
  <2>2. \A d \in Disputes : dispute[d] # None => dispute[d].episode # e
    BY <1>0, <1>2 DEF DisputesKnow
  <2>3. \A d \in Disputes, next \in Episodes : Retract(d, next) => dispute[d].episode # e
    BY <2>2 DEF Retract
  <2>4. QED
    BY <1>0, <2>1, <2>3, EndsUntold, OutcomesComeFrom
<1>3. CASE End(e, "failed") /\ Records(s, e, "failed", 1)
  <2>1. ~Told(s, e) /\ ~Says(s, e, v)
    BY <1>0, <1>3, EndsUntold DEF Told
  <2>2. Records(s, e, v, 1)
    BY <1>0, <2>1, OutcomesComeFrom
  <2>3. Body(s).history \in [Episodes -> Outcomes \cup {"none"}]
    BY BodyTypes DEF SessionBodies
  <2>4. files'[s].history[e] = "failed" /\ files'[s].history[e] = v
    BY <1>3, <2>2, <2>3 DEF Records
  <2>5. QED
    BY <2>4
<1>4. QED
  BY <1>1, <1>2, <1>3

LEMMA NextDisputesKnow ==
    Types /\ OneRecord /\ FailureFinal /\ DisputesKnow /\ [Next]_vars => DisputesKnow'
<1> SUFFICES ASSUME Types, OneRecord, FailureFinal, DisputesKnow, [Next]_vars,
                    NEW d \in Disputes, dispute'[d] # None,
                    NEW e, e = dispute'[d].episode, NEW home, home = dispute'[d].session
             PROVE  /\ pc'[e] = "done"
                    /\ \A s \in Sessions : \A v \in Outcomes :
                          Says(s, e, v)' => s = home /\ v # "failed"
  BY DEF DisputesKnow
<1> USE DEF Types
<1>1. /\ e \in Episodes /\ pc[e] = "done"
      /\ \A s \in Sessions : \A v \in Outcomes : Says(s, e, v) => s = home /\ v # "failed"
  <2>1. CASE dispute'[d] = dispute[d]
    BY <2>1 DEF DisputesKnow, TypeOK
  <2>2. ASSUME NEW f \in Episodes, OpenDispute(d, f)
        PROVE  /\ e \in Episodes /\ pc[e] = "done"
               /\ \A s \in Sessions : \A v \in Outcomes :
                     Says(s, e, v) => s = home /\ v # "failed"
    <3>1. dispute'[d] = [episode |-> f, session |-> active]
      BY <2>2 DEF OpenDispute, TypeOK
    <3>2. e = f /\ home = active
      BY <3>1
    <3>3. /\ active \in Sessions /\ files[active] # None
          /\ files[active].history[f] = "verified"
      BY <2>2, StoredIds DEF OpenDispute, TypeOK
    <3>4. Says(active, f, "verified") /\ "verified" \in Outcomes
      BY <3>3 DEF Says, Outcomes
    <3>5. \A s \in Sessions : \A v \in Outcomes : Says(s, f, v) => pc[f] = "done" /\ s = active
      BY <3>3, <3>4 DEF OneRecord
    <3>6. ~Says(active, f, "failed")
      BY <3>3, <3>4 DEF FailureFinal
    <3>7. QED
      BY <3>2, <3>3, <3>4, <3>5, <3>6
  <2>3. QED
    BY <2>1, <2>2, DisputeSteps
<1>2. ASSUME NEW s \in Sessions, NEW v \in Outcomes, Says(s, e, v)'
      PROVE  s = home /\ v # "failed"
  <2>1. \A o \in {"verified", "failed"} : ~End(e, o)
    BY <1>1 DEF End
  <2>2. Says(s, e, v) \/ (v = "retracted" /\ Told(s, e))
    BY <1>1, <1>2, <2>1, OutcomesComeFrom
  <2>3. QED
    BY <1>1, <2>2 DEF Told
<1>3. QED
  BY <1>1, <1>2, EpisodeSteps

LEMMA NextUsedIds == Types /\ [Next]_vars => UsedIds'
<1> SUFFICES ASSUME Types, [Next]_vars PROVE UsedIds'
  OBVIOUS
<1> USE DEF Types
<1>1. born \subseteq born'
  BY PastSteps
<1>2. \A s \in Sessions : files'[s] # None \/ archive'[s] # None => s \in born'
  <2>1. CASE AllQuiet
    BY <1>1, <2>1 DEF AllQuiet, Quiet, UsedIds
  <2>2. ASSUME NEW t, NEW e, NEW v, NEW n, Records(t, e, v, n)
        PROVE  \A s \in Sessions : files'[s] # None \/ archive'[s] # None => s \in born'
    BY <1>1, <2>2 DEF Records, Quiet, UsedIds
  <2>3. CASE McpWrites
    BY <1>1, <2>3, McpWritesCopy DEF UsedIds
  <2>4. QED
    BY <2>1, <2>2, <2>3, QuietSteps, EndRecords, RetractRecords
<1>3. \A e \in Episodes : owner'[e] # None => owner'[e] \in born'
  <2> SUFFICES ASSUME NEW e \in Episodes, owner'[e] # None PROVE owner'[e] \in born'
    OBVIOUS
  <2>1. CASE owner'[e] = owner[e]
    BY <1>1, <2>1 DEF UsedIds
  <2>2. CASE Bind(e)
    <3>1. CASE Stored(bound[e])
      <4>1. owner'[e] = bound[e] /\ bound[e] \in Sessions /\ files[bound[e]] # None
        BY <2>2, <3>1, StoredIds DEF Bind, TypeOK
      <4>2. QED
        BY <1>1, <4>1 DEF UsedIds
    <3>2. CASE ~Stored(bound[e])
      <4>1. PICK s \in Loaded : Persist(s) /\ owner'[e] = s
        BY <2>2, <3>2 DEF Bind, TypeOK
      <4>2. s \in Sessions /\ (files[s] # None \/ s \in born')
        BY <4>1, LoadedIds, StoredIds DEF Persist, SaveSession, WriteSessionFile, Loaded, TypeOK
      <4>3. QED
        BY <1>1, <4>1, <4>2 DEF UsedIds
    <3>3. QED
      BY <3>1, <3>2
  <2>3. QED
    BY <2>1, <2>2, EpisodeSteps
<1>4. mcp' # None => mcp'.session \in born'
  BY <1>1, CopySteps, ReadCopies DEF UsedIds
<1>5. QED
  BY <1>2, <1>3, <1>4 DEF UsedIds

LEMMA NextCopyIsFaithful == Types /\ CopyIsFaithful /\ [Next]_vars => CopyIsFaithful'
<1> SUFFICES ASSUME Types, CopyIsFaithful, [Next]_vars, mcp' # None
             PROVE  mcp'.write.history =
                        IF mcp'.read # None THEN mcp'.read.history ELSE EmptySession.history
  BY DEF CopyIsFaithful, EmptySession
<1>1. CASE mcp' = mcp
  BY <1>1 DEF CopyIsFaithful
<1>2. ASSUME NEW s \in Sessions, NEW g \in Goals \cup {NoGoal}, McpReads(s, g)
      PROVE  mcp'.write.history =
                 IF mcp'.read # None THEN mcp'.read.history ELSE EmptySession.history
  BY <1>2, ReadCopies, BodyTypes, EmptyBody DEF Types
<1>3. QED
  BY <1>1, <1>2, CopySteps DEF Types

\* Where the outcome of an episode is found, and what a step does to it.
LEMMA KeptTypes ==
    ASSUME TypeOK, NEW s \in Sessions
    PROVE  Kept(s) = IF files[s] # None THEN files[s] ELSE archive[s]
  BY StoredIds DEF Kept

LEMMA KeptQuiet ==
    ASSUME Types, TypeOK', NEW s \in Sessions, Quiet(s), s \in born, NEW e \in Episodes,
           Kept(s) # None, Kept(s).history[e] # "none"
    PROVE  Kept(s)' # None /\ Kept(s)'.history[e] = Kept(s).history[e]
<1>1. Kept(s)' = IF files'[s] # None THEN files'[s] ELSE archive'[s]
  BY StoredIds, SessionAssumption DEF Kept, Stored
<1>2. NoOutcome[e] = "none"
  BY DEF NoOutcome
<1>3. QED
  BY <1>1, <1>2, KeptTypes, BodyTypes DEF Quiet, Types

LEMMA KeptRecords ==
    ASSUME Types, TypeOK', NEW s \in Sessions, s \in born,
           NEW t, NEW f \in Episodes, NEW v, NEW n, Records(t, f, v, n),
           NEW e \in Episodes, Kept(s) # None, Kept(s).history[e] # "none"
    PROVE  /\ Kept(s)' # None
           /\ Kept(s)'.history[e] = IF s = t /\ e = f THEN v ELSE Kept(s).history[e]
<1>1. CASE s # t
  BY <1>1, KeptQuiet DEF Records
<1>2. CASE s = t
  <2>1. Kept(s)' = files'[s]
    BY <1>2, SessionAssumption DEF Kept, Stored, Records
  <2>2. files[s] # None /\ Kept(s) = files[s] /\ Body(s) = files[s]
    BY <1>2, KeptTypes, BodyTypes DEF Records, Types
  <2>3. files[s].history \in [Episodes -> Outcomes \cup {"none"}]
    BY <2>2 DEF Types, TypeOK, SessionBodies
  <2>4. QED
    BY <1>2, <2>1, <2>2, <2>3 DEF Records
<1>3. QED
  BY <1>1, <1>2

LEMMA OwnerIds ==
    ASSUME Types, NEW e \in Episodes, pc[e] \in {"running", "done"}
    PROVE  owner[e] \in Sessions /\ owner[e] \in born
  BY DEF Types, TypeOK, UsedIds

LEMMA NextPastIsDone ==
    Types /\ DisputesKnow /\ PastIsDone /\ [Next]_vars => PastIsDone'
<1> SUFFICES ASSUME Types, DisputesKnow, PastIsDone, [Next]_vars,
                    NEW e \in lost' \cup retracted'
             PROVE  pc'[e] = "done"
  BY DEF PastIsDone
<1>1. e \in Episodes
  BY NextTypeOK DEF Types, TypeOK
<1>2. pc[e] = "done" \/ pc'[e] = "done"
  <2>1. CASE e \in lost \cup retracted
    BY <2>1 DEF PastIsDone
  <2>2. CASE e \in lost' \ lost
    BY <2>2, PastSteps DEF Types
  <2>3. CASE e \in retracted' \ retracted
    BY <2>3, PastSteps DEF Types, Retract, DisputesKnow
  <2>4. QED
    BY <2>1, <2>2, <2>3
<1>3. QED
  BY <1>1, <1>2, EpisodeSteps DEF Types

LEMMA NextRecorded == Types /\ Recorded /\ [Next]_vars => Recorded'
<1> SUFFICES ASSUME Types, Recorded, [Next]_vars, NEW e \in Episodes,
                    pc'[e] = "done", e \notin lost'
             PROVE  Kept(owner[e])' # None /\ Kept(owner[e])'.history[e] # "none"
  BY DEF Recorded
<1> DEFINE s == owner[e]
<1>0. TypeOK /\ TypeOK' /\ e \notin lost
  BY NextTypeOK, PastSteps DEF Types
<1>1. CASE pc[e] # "done"
  <2>1. PICK o \in {"verified", "failed"} : End(e, o)
    BY <1>0, <1>1, EpisodeSteps
  <2>2. Stored(s) /\ s \in Sessions /\ s' = s
    BY <1>0, <2>1, EndRecords DEF End, Types
  <2>3. Records(s, e, o, 1)
    BY <2>1, <2>2, EndRecords DEF Stored, Types
  <2>4. Kept(s)' = files'[s]
    BY <2>2, <2>3, SessionAssumption DEF Kept, Stored, Records
  <2>5. Body(s).history \in [Episodes -> Outcomes \cup {"none"}]
    BY <1>0, <2>2, BodyTypes DEF SessionBodies
  <2>6. files'[s] # None /\ files'[s].history[e] = o
    BY <2>3, <2>5 DEF Records
  <2>7. QED
    BY <2>4, <2>6
<1>2. CASE pc[e] = "done"
  <2>1. /\ s \in Sessions /\ s \in born /\ s' = s
        /\ Kept(s) # None /\ Kept(s).history[e] # "none"
    BY <1>0, <1>2, OwnerIds, EpisodeSteps DEF Recorded
  <2>2. CASE AllQuiet
    BY <1>0, <2>1, <2>2, KeptQuiet DEF AllQuiet
  <2>3. ASSUME NEW t, NEW f \in Episodes, NEW v \in Outcomes, NEW n, Records(t, f, v, n)
        PROVE  Kept(s)' # None /\ Kept(s)'.history[e] # "none"
    BY <1>0, <2>1, <2>3, KeptRecords DEF Outcomes
  <2>4. CASE McpWrites
    <3>1. CASE s = mcp.session
      <4>1. Kept(s)' = mcp.write
        BY <2>1, <2>4, <3>1, McpWritesCopy, SessionAssumption DEF Kept, Stored, Types
      <4>2. Kept(s).history[e] = mcp.write.history[e]
        BY <1>0, <1>2, <2>4, <3>1, McpWritesCopy
      <4>3. QED
        BY <2>1, <2>4, <4>1, <4>2, McpWritesCopy DEF Types
    <3>2. CASE s # mcp.session
      <4>1. Kept(s)' = Kept(s)
        BY <2>1, <2>4, <3>2, McpWritesCopy DEF Kept, Stored, Types
      <4>2. QED
        BY <2>1, <4>1
    <3>3. QED
      BY <3>1, <3>2
  <2>5. \A o \in {"verified", "failed"} : o \in Outcomes
    BY DEF Outcomes
  <2>6. "retracted" \in Outcomes
    BY DEF Outcomes
  <2>7. QED
    BY <2>1, <2>2, <2>3, <2>4, <2>5, <2>6, QuietSteps, EndRecords, RetractRecords DEF Types
<1>3. QED
  BY <1>1, <1>2

LEMMA DoneCounts ==
    ASSUME TypeOK, [Next]_vars
    PROVE  /\ Cardinality(Done) \in Nat /\ Cardinality(Done') \in Nat
           /\ Cardinality(Done) <= Cardinality(Done')
           /\ \A e \in Episodes, o \in {"verified", "failed"} :
                 End(e, o) => Cardinality(Done') = Cardinality(Done) + 1
<1>1. IsFiniteSet(Done) /\ IsFiniteSet(Done') /\ Done \subseteq Done'
  <2>1. Done \subseteq Episodes /\ Done' \subseteq Episodes
    BY DEF Done
  <2>2. Done \subseteq Done'
    BY EpisodeSteps DEF Done
  <2>3. QED
    BY <2>1, <2>2, SessionAssumption, FS_Subset
<1>2. ASSUME NEW e \in Episodes, NEW o \in {"verified", "failed"}, End(e, o)
      PROVE  Cardinality(Done') = Cardinality(Done) + 1
  <2>1. e \notin Done /\ Done' = Done \cup {e}
    BY <1>2 DEF End, Ended, Done, TypeOK
  <2>2. QED
    BY <1>1, <2>1, FS_AddElement
<1>3. QED
  BY <1>1, <1>2, FS_Subset, FS_CardinalityType

LEMMA NextCountsEnded == Types /\ [Next]_vars => CountsEnded'
<1> SUFFICES ASSUME Types, [Next]_vars PROVE CountsEnded'
  OBVIOUS
<1> USE DEF Types
<1> DEFINE n == Cardinality(Done)
<1>1. n \in Nat /\ n' \in Nat /\ n <= n'
  BY DoneCounts
<1>2. \A s \in Sessions : Body(s).used \in Nat /\ Body(s).used <= n
  BY CountedBody
<1>3. \A s \in Sessions : archive[s] # None => archive[s].used \in Nat /\ archive[s].used <= n
  BY EpisodesCounted DEF CountsEnded, TypeOK, SessionBodies
<1>4. mcp # None => mcp.write.used \in Nat /\ mcp.write.used <= n
  BY EpisodesCounted DEF CountsEnded, TypeOK, SessionBodies
<1> HIDE DEF n
<1>5. ASSUME NEW s \in Sessions, Quiet(s)
      PROVE  /\ files'[s] # None => files'[s].used <= n'
             /\ archive'[s] # None => archive'[s].used <= n'
  BY <1>1, <1>2, <1>3, <1>5, BodyTypes DEF Quiet
<1>6. \A s \in Sessions : /\ files'[s] # None => files'[s].used <= n'
                          /\ archive'[s] # None => archive'[s].used <= n'
  <2>1. CASE AllQuiet
    BY <1>5, <2>1 DEF AllQuiet
  <2>2. ASSUME NEW t, NEW e, NEW v, NEW k \in Nat, Records(t, e, v, k), n + k <= n'
        PROVE  \A s \in Sessions : /\ files'[s] # None => files'[s].used <= n'
                                   /\ archive'[s] # None => archive'[s].used <= n'
    <3>1. files'[t].used <= n' /\ (archive'[t] # None => archive'[t].used <= n')
      BY <1>1, <1>2, <1>3, <2>2 DEF Records
    <3>2. QED
      BY <1>5, <2>2, <3>1 DEF Records
  <2>3. ASSUME NEW e \in Episodes, NEW o \in {"verified", "failed"}, End(e, o)
        PROVE  n + 1 <= n'
    BY <1>1, <2>3, DoneCounts DEF n
  <2>4. n + 0 <= n'
    BY <1>1
  <2>5. CASE McpWrites
    BY <1>1, <1>2, <1>3, <1>4, <2>5, BodyTypes, McpWritesCopy
  <2>6. QED
    BY <2>1, <2>2, <2>3, <2>4, <2>5, QuietSteps, EndRecords, RetractRecords
<1>7. mcp' # None => mcp'.write.used <= n'
  BY <1>1, <1>2, <1>4, CopySteps, ReadCopies
<1>8. QED
  BY <1>6, <1>7 DEF CountsEnded, n

LEMMA NextLedgerAgrees ==
    ASSUME Types, OneRecord, DisputesKnow, CopyIsFaithful, PastIsDone, LedgerAgrees,
           [Next]_vars
    PROVE  LedgerAgrees'
<1> SUFFICES ASSUME NEW e \in retracted', NEW s \in Sessions, s \notin overwritten',
                    files'[s] # None
             PROVE  files'[s].history[e] # "verified"
  BY DEF LedgerAgrees, Stored
<1> USE DEF Types
<1>0. e \in Episodes /\ s \notin overwritten /\ NoOutcome[e] # "verified"
  BY NextTypeOK, PastSteps DEF TypeOK, NoOutcome
<1>1. CASE e \in retracted
  <2>1. Body(s).history[e] # "verified" /\ pc[e] = "done"
    BY <1>0, <1>1, StoredIds, BodyTypes DEF LedgerAgrees, PastIsDone
  <2>2. CASE Quiet(s)
    BY <2>1, <2>2 DEF Quiet
  <2>3. ASSUME NEW t, NEW f, NEW v, NEW n, Records(t, f, v, n), v # "verified" \/ f # e
        PROVE  files'[s].history[e] # "verified"
    <3>1. CASE s = t
      <4>1. Body(s).history \in [Episodes -> Outcomes \cup {"none"}]
        BY BodyTypes DEF SessionBodies
      <4>2. QED
        BY <1>0, <2>1, <2>3, <3>1, <4>1 DEF Records
    <3>2. CASE s # t
      BY <2>2, <2>3, <3>2 DEF Records
    <3>3. QED
      BY <3>1, <3>2
  <2>4. \A f \in Episodes, o \in {"verified", "failed"} : End(f, o) => f # e
    BY <2>1 DEF End
  <2>5. CASE McpWrites
    <3>1. CASE s = mcp.session
      BY <1>0, <2>1, <2>5, <3>1, McpWritesCopy, BodyTypes, EmptyBody DEF CopyIsFaithful
    <3>2. CASE s # mcp.session
      BY <2>1, <2>5, <3>2, McpWritesCopy, BodyTypes
    <3>3. QED
      BY <3>1, <3>2
  <2>6. QED
    BY <2>2, <2>3, <2>4, <2>5, QuietSteps, EndRecords, RetractRecords DEF AllQuiet
<1>2. CASE e \notin retracted
  <2>1. PICK d \in Disputes, next \in Episodes : Retract(d, next) /\ e = dispute[d].episode
    BY <1>2, PastSteps
  <2> DEFINE home == dispute[d].session
  <2>2. /\ dispute[d] # None /\ home \in Sessions
        /\ \/ /\ AllQuiet /\ UNCHANGED store
              /\ files[home] # None => files[home].history[e] = "none"
           \/ \E t \in Sessions :
                 Records(t, e, "retracted", 0) /\ Body(t).history[e] # "none"
    BY <2>1, RetractRecords
  <2>3. \A t \in Sessions : Told(t, e) => t = home
    BY <2>1, <2>2 DEF DisputesKnow, Told
  <2>4. \A t \in Sessions : Body(t).history[e] # "none" => t = home
    <3> SUFFICES ASSUME NEW t \in Sessions, Body(t).history[e] # "none" PROVE t = home
      OBVIOUS
    <3>1. Body(t).history[e] \in Outcomes /\ files[t] # None /\ Body(t) = files[t]
      BY <1>0, BodyTypes DEF SessionBodies, NoOutcome
    <3>2. QED
      BY <2>3, <3>1 DEF Told, Says
  <2>5. CASE AllQuiet /\ UNCHANGED store /\ (files[home] # None => files[home].history[e] = "none")
    <3>1. files' = files
      BY <2>5 DEF store
    <3>2. QED
      BY <2>4, <2>5, <3>1, BodyTypes
  <2>6. ASSUME NEW t \in Sessions, Records(t, e, "retracted", 0), Body(t).history[e] # "none"
        PROVE  files'[s].history[e] # "verified"
    <3>1. CASE s = t
      <4>1. Body(s).history \in [Episodes -> Outcomes \cup {"none"}]
        BY BodyTypes DEF SessionBodies
      <4>2. QED
        BY <1>0, <2>6, <3>1, <4>1 DEF Records
    <3>2. CASE s # t
      <4>1. files'[s].history[e] = "none"
        BY <2>4, <2>6, <3>2 DEF Records, Quiet
      <4>2. QED
        BY <4>1
    <3>3. QED
      BY <3>1, <3>2
  <2>7. QED
    BY <2>2, <2>5, <2>6
<1>3. QED
  BY <1>1, <1>2

LEMMA InitIInv == Init => IInv
<1> SUFFICES ASSUME Init PROVE IInv
  OBVIOUS
<1>1. \A s, e, v : s \in Sessions => ~Says(s, e, v)
  BY DEF Init, Says
<1>2. OneRecord /\ FailureFinal
  BY <1>1 DEF OneRecord, FailureFinal
<1>3. DisputesKnow /\ UsedIds /\ CopyIsFaithful /\ Recorded /\ PastIsDone /\ LedgerAgrees
  BY DEF Init, DisputesKnow, UsedIds, CopyIsFaithful, Recorded, PastIsDone, LedgerAgrees
<1>4. CountsEnded
  BY DEF Init, CountsEnded
<1>5. QED
  BY <1>2, <1>3, <1>4, InitTypeOK DEF IInv

LEMMA NextIInv == IInv /\ [Next]_vars => IInv'
  BY NextTypeOK, NextOneRecord, NextFailureFinal, NextDisputesKnow, NextUsedIds,
     NextCopyIsFaithful, NextRecorded, NextPastIsDone, NextCountsEnded, NextLedgerAgrees
     DEF IInv, Types

-------------------------------------------------------------------------------
(***************************************************************************)
(* The records of episodes                                                 *)
(***************************************************************************)
LEMMA RecordIs ==
    ASSUME TypeOK, PastIsDone, NEW e \in Episodes
    PROVE  /\ owner[e] = None <=> pc[e] \in {"idle", "opening"}
           /\ pc[e] \in {"idle", "opening"} => Record(e) = "none"
           /\ pc[e] = "running" => Record(e) = "running"
           /\ e \in lost => Record(e) = "lost"
           /\ pc[e] = "done" /\ e \notin lost => Record(e) = Kept(owner[e]).history[e]
<1>1. owner[e] = None <=> pc[e] \in {"idle", "opening"}
  BY DEF TypeOK
<1>2. e \in lost => pc[e] = "done"
  BY DEF PastIsDone
<1>3. QED
  BY <1>1, <1>2 DEF Record

\* An episode's record stays, unless it is bound, ends, is retracted or lost.
LEMMA RecordStays ==
    ASSUME IInv, IInv', NEW e \in Episodes, owner'[e] = owner[e],
           pc[e] = "done" <=> pc'[e] = "done", e \in lost <=> e \in lost',
           Kept(owner[e])'.history[e] = Kept(owner[e]).history[e]
               \/ pc[e] # "done" \/ e \in lost
    PROVE  Record(e)' = Record(e)
<1>1. /\ TypeOK /\ PastIsDone /\ TypeOK' /\ PastIsDone'
  BY DEF IInv
<1>2. owner'[e] = None <=> pc'[e] \in {"idle", "opening"}
  BY <1>1 DEF TypeOK
<1>3. /\ pc'[e] \in {"idle", "opening"} => Record(e)' = "none"
      /\ pc'[e] = "running" => Record(e)' = "running"
      /\ e \in lost' => Record(e)' = "lost"
      /\ pc'[e] = "done" /\ e \notin lost' => Record(e)' = Kept(owner[e])'.history[e]
  <2>1. e \in lost' => pc'[e] = "done"
    BY <1>1 DEF PastIsDone
  <2>2. QED
    BY <1>2, <2>1 DEF Record
<1>4. pc[e] \in {"idle", "opening", "running", "done"}
      /\ pc'[e] \in {"idle", "opening", "running", "done"}
  BY <1>1 DEF TypeOK
<1>5. QED
  BY <1>1, <1>2, <1>3, <1>4, RecordIs

\* The record of an episode that is done and not lost, after a step that
\* touches no outcome, or records outcome v of episode f in session t.
LEMMA DoneRecord ==
    ASSUME IInv, IInv', NEW e \in Episodes, pc[e] = "done", e \notin lost,
           owner'[e] = owner[e]
    PROVE  /\ AllQuiet => Kept(owner[e])'.history[e] = Kept(owner[e]).history[e]
           /\ \A t, v, n : \A f \in Episodes : Records(t, f, v, n) =>
                 Kept(owner[e])'.history[e] =
                     IF owner[e] = t /\ e = f THEN v ELSE Kept(owner[e]).history[e]
<1>1. Types /\ TypeOK'
  BY DEF IInv, Types
<1>2. owner[e] \in Sessions /\ owner[e] \in born
  BY <1>1, OwnerIds
<1>3. Kept(owner[e]) # None /\ Kept(owner[e]).history[e] # "none"
  BY DEF IInv, Recorded
<1> DEFINE s == owner[e]
<1>4. s \in Sessions /\ s \in born /\ s' = s /\ Kept(s) # None /\ Kept(s).history[e] # "none"
  BY <1>2, <1>3
<1>5. AllQuiet => Kept(s)'.history[e] = Kept(s).history[e]
  BY <1>1, <1>4, KeptQuiet DEF AllQuiet
<1>6. \A t, v, n : \A f \in Episodes : Records(t, f, v, n) =>
          Kept(s)'.history[e] = IF s = t /\ e = f THEN v ELSE Kept(s).history[e]
  BY <1>1, <1>4, KeptRecords
<1>7. QED
  BY <1>5, <1>6

LEMMA BindBegins ==
    ASSUME IInv, IInv', NEW e \in Episodes, Bind(e)
    PROVE  T!Begin(e)
<1>1. /\ TypeOK /\ TypeOK' /\ PastIsDone /\ PastIsDone'
      /\ Types
  BY DEF IInv, Types
<1>2. /\ pc[e] = "opening" /\ pc' = [pc EXCEPT ![e] = "running"] /\ UNCHANGED lost
  BY DEF Bind, past
<1>3. PICK s : owner' = [owner EXCEPT ![e] = s]
  BY DEF Bind
<1>4. owner[e] = None /\ pc'[e] = "running"
  BY <1>1, <1>2 DEF TypeOK
<1>5. owner'[e] = s /\ s \in Sessions
  BY <1>1, <1>3, <1>4 DEF TypeOK
<1>6. Record(e)' = "running"
  <2>1. e \notin lost'
    BY <1>1, <1>4 DEF PastIsDone
  <2>2. owner'[e] # None
    BY <1>5, SessionAssumption
  <2>3. QED
    BY <1>4, <2>1, <2>2 DEF Record
<1>7. ASSUME NEW f \in Episodes, f # e PROVE Record(f)' = Record(f)
  <2>1. owner'[f] = owner[f] /\ pc'[f] = pc[f]
    BY <1>1, <1>2, <1>3, <1>7 DEF TypeOK
  <2>2. AllQuiet
    BY <1>1, BindIsQuiet DEF Types
  <2>3. QED
    BY <1>2, <2>1, <2>2, DoneRecord, RecordStays
<1>8. QED
  BY <1>3, <1>4, <1>5, <1>6, <1>7 DEF T!Begin

LEMMA EndFinishes ==
    ASSUME IInv, IInv', [Next]_vars,
           NEW e \in Episodes, NEW o \in {"verified", "failed"}, End(e, o)
    PROVE  T!Finish(e) \/ T!Lose({e})
<1>1. TypeOK /\ TypeOK' /\ PastIsDone /\ PastIsDone' /\ Types
  BY DEF IInv, Types
<1>2. /\ pc[e] = "running" /\ pc' = [pc EXCEPT ![e] = "done"] /\ owner' = owner
      /\ owner[e] \in Sessions
  BY <1>1, EndRecords DEF Types
<1>3. PICK s \in Sessions : Records(s, e, o, 1) /\ (files[owner[e]] # None => s = owner[e])
  BY <1>1, EndRecords DEF Types
<1>4. lost' = IF files[owner[e]] # None THEN lost ELSE lost \cup {e}
  BY <1>1, <1>2, StoredIds DEF End
<1>5. Record(e) = "running" /\ e \notin lost
  BY <1>1, <1>2, RecordIs DEF PastIsDone
<1>6. ASSUME NEW f \in Episodes, f # e PROVE Record(f)' = Record(f)
  <2>1. owner'[f] = owner[f] /\ pc'[f] = pc[f] /\ (f \in lost' <=> f \in lost)
    BY <1>1, <1>2, <1>4, <1>6 DEF TypeOK
  <2>2. QED
    BY <1>3, <1>6, <2>1, DoneRecord, RecordStays
<1>7. pc'[e] = "done" /\ owner'[e] # None
  BY <1>1, <1>2, SessionAssumption DEF TypeOK
<1>8. CASE files[owner[e]] # None
  <2>1. Kept(owner[e])' = files'[owner[e]]
    BY <1>2, <1>3, <1>8, SessionAssumption DEF Kept, Stored, Records
  <2>2. Body(owner[e]).history \in [Episodes -> Outcomes \cup {"none"}]
    BY <1>1, <1>2, BodyTypes DEF SessionBodies
  <2>3. files'[owner[e]].history[e] = o
    BY <1>3, <1>8, <2>2 DEF Records
  <2>4. Record(e)' = o
    BY <1>4, <1>5, <1>7, <1>8, <2>1, <2>3 DEF Record
  <2>5. T!Finish(e)
    BY <1>2, <1>5, <1>6, <2>4 DEF T!Finish
  <2>6. QED
    BY <2>5
<1>9. CASE files[owner[e]] = None
  <2>1. Record(e)' = "lost"
    BY <1>4, <1>7, <1>9 DEF Record
  <2>2. T!Lose({e})
    BY <1>2, <1>6, <2>1, SessionAssumption DEF T!Lose
  <2>3. QED
    BY <2>2
<1>10. QED
  BY <1>8, <1>9

LEMMA RetractRetracts ==
    ASSUME IInv, IInv', [Next]_vars,
           NEW d \in Disputes, NEW next \in Episodes, Retract(d, next)
    PROVE  (\E e \in Episodes : T!Retract(e)) \/ UNCHANGED T!tvars
<1>0. PICK e : e = dispute[d].episode
  OBVIOUS
<1>1. TypeOK /\ TypeOK' /\ PastIsDone /\ PastIsDone' /\ Types
  BY DEF IInv, Types
<1>2. /\ dispute[d] # None /\ pc[next] = "idle" /\ pc' = [pc EXCEPT ![next] = "opening"]
      /\ UNCHANGED <<owner, lost>> /\ e \in Episodes
      /\ \/ AllQuiet
         \/ \E t \in Sessions : Records(t, e, "retracted", 0) /\ Body(t).history[e] # "none"
  BY <1>0, <1>1, RetractRecords DEF Types
<1>3. \A f \in Episodes : pc'[f] = "done" <=> pc[f] = "done"
  BY <1>1, <1>2 DEF TypeOK
<1>4. CASE AllQuiet
  <2>1. \A f \in Episodes : Record(f)' = Record(f)
    BY <1>2, <1>3, <1>4, DoneRecord, RecordStays
  <2>2. QED
    BY <1>2, <2>1 DEF T!tvars
<1>5. ASSUME NEW t \in Sessions, Records(t, e, "retracted", 0), Body(t).history[e] # "none"
      PROVE  T!Retract(e) \/ UNCHANGED T!tvars
  <2>1. ASSUME NEW f \in Episodes, f # e PROVE Record(f)' = Record(f)
    BY <1>2, <1>3, <1>5, <2>1, DoneRecord, RecordStays
  <2>2. CASE pc[e] = "done" /\ e \notin lost /\ owner[e] = t
    <3>1. owner[e] # None /\ pc'[e] = "done" /\ owner'[e] # None
      BY <1>1, <1>2, <1>3, <2>2, SessionAssumption
    <3>2. Record(e) = Kept(t).history[e] /\ Record(e)' = Kept(t)'.history[e]
      BY <1>2, <2>2, <3>1 DEF Record
    <3>3. Kept(t)'.history[e] = "retracted"
      BY <1>2, <1>5, <2>2, DoneRecord
    <3>4. Body(t).history[e] \in {"verified", "retracted"} /\ Kept(t) = Body(t)
      <4>1. Body(t).history[e] \in Outcomes /\ files[t] # None /\ Body(t) = files[t]
        BY <1>1, <1>2, <1>5, BodyTypes DEF SessionBodies, NoOutcome
      <4>2. Body(t).history[e] # "failed"
        BY <1>0, <1>2, <4>1 DEF IInv, DisputesKnow, Says
      <4>3. QED
        BY <1>1, <4>1, <4>2, KeptTypes DEF Outcomes
    <3>5. Record(e)' = "retracted" /\ Record(e) \in {"verified", "retracted"}
      BY <3>2, <3>3, <3>4
    <3>6. CASE Record(e) = "verified"
      <4>1. T!Retract(e)
        BY <1>2, <2>1, <3>5, <3>6 DEF T!Retract
      <4>2. QED
        BY <4>1
    <3>7. CASE Record(e) = "retracted"
      BY <1>2, <2>1, <3>5, <3>7 DEF T!tvars
    <3>8. QED
      BY <3>5, <3>6, <3>7
  <2>3. CASE ~(pc[e] = "done" /\ e \notin lost /\ owner[e] = t)
    <3>1. Record(e)' = Record(e)
      BY <1>2, <1>3, <1>5, <2>3, DoneRecord, RecordStays
    <3>2. QED
      BY <1>2, <2>1, <3>1 DEF T!tvars
  <2>4. QED
    BY <2>2, <2>3
<1>6. QED
  BY <1>2, <1>4, <1>5

LEMMA McpLoses ==
    ASSUME IInv, IInv', McpWrites
    PROVE  T!Lose(lost' \ lost)
<1>1. TypeOK /\ TypeOK' /\ PastIsDone /\ PastIsDone' /\ Types
  BY DEF IInv, Types
<1>2. UNCHANGED <<pc, owner>> /\ lost \subseteq lost'
  BY <1>1, McpWritesCopy
<1>3. ASSUME NEW e \in lost' \ lost PROVE owner[e] # None /\ Record(e)' = "lost"
  <2>1. e \in Episodes /\ pc[e] = "done" /\ owner[e] # None
    BY <1>1, <1>2, <1>3, McpWritesCopy DEF TypeOK
  <2>2. QED
    BY <1>2, <1>3, <2>1 DEF Record
<1>4. ASSUME NEW e \in Episodes, e \notin lost' \ lost PROVE Record(e)' = Record(e)
  <2>1. CASE pc[e] # "done" \/ e \in lost
    BY <1>2, <1>4, <2>1, RecordStays
  <2>2. CASE pc[e] = "done" /\ e \notin lost
    <3>1. owner[e] \in Sessions
      BY <1>1, <2>2, OwnerIds
    <3>2. CASE owner[e] = mcp.session
      <4>1. Kept(mcp.session).history[e] = mcp.write.history[e]
        BY <1>1, <1>4, <2>2, <3>2, McpWritesCopy
      <4>2. Kept(owner[e])' = mcp.write
        <5>1. /\ mcp.session \in Sessions /\ files'[mcp.session] = mcp.write
              /\ mcp.write # None
          BY <1>1, McpWritesCopy
        <5>2. owner'[e] = owner[e]
          BY <1>2
        <5>3. QED
          BY <3>2, <5>1, <5>2, SessionAssumption DEF Kept, Stored
      <4>3. QED
        BY <1>2, <1>4, <3>2, <4>1, <4>2, RecordStays
    <3>3. CASE owner[e] # mcp.session
      <4>1. Kept(owner[e])' = Kept(owner[e])
        BY <1>1, <1>2, <3>1, <3>3, McpWritesCopy DEF Kept, Stored
      <4>2. QED
        BY <1>2, <1>4, <4>1, RecordStays
    <3>4. QED
      BY <3>2, <3>3
  <2>3. QED
    BY <2>1, <2>2
<1>5. QED
  BY <1>2, <1>3, <1>4 DEF T!Lose

LEMMA InitRecords == Init => T!Init
  BY DEF Init, T!Init, Record

\* Each step of the sessions is a step of Trajectory, or leaves it alone.
LEMMA StepRecords == IInv /\ IInv' /\ [Next]_vars => [T!Next]_(T!tvars)
<1> SUFFICES ASSUME IInv, IInv', [Next]_vars PROVE T!Next \/ UNCHANGED T!tvars
  OBVIOUS
<1>1. TypeOK /\ TypeOK' /\ Types
  BY DEF IInv, Types
<1>2. ASSUME NEW e \in Episodes, Bind(e) PROVE T!Next
  BY <1>2, BindBegins DEF T!Next
<1>3. ASSUME NEW e \in Episodes, NEW o \in {"verified", "failed"}, End(e, o) PROVE T!Next
  BY <1>3, EndFinishes DEF T!Next
<1>4. ASSUME NEW d \in Disputes, NEW next \in Episodes, Retract(d, next)
      PROVE  T!Next \/ UNCHANGED T!tvars
  BY <1>4, RetractRetracts DEF T!Next
<1>5. CASE McpWrites
  <2>1. lost' \ lost \in SUBSET Episodes
    BY <1>1 DEF TypeOK
  <2>2. QED
    BY <1>5, <2>1, McpLoses DEF T!Next
<1>6. CASE /\ \A e \in Episodes, o \in {"verified", "failed"} : ~End(e, o)
           /\ \A d \in Disputes, next \in Episodes : ~Retract(d, next)
           /\ \A e \in Episodes : ~Bind(e)
           /\ ~McpWrites
  <2>1. UNCHANGED <<owner, lost>>
    BY <1>6, StepKinds DEF past
  <2>2. AllQuiet
    BY <1>1, <1>6, QuietSteps DEF Types
  <2>3. \A e \in Episodes : pc'[e] = "done" <=> pc[e] = "done"
    BY <1>1, <1>6, EpisodeSteps
  <2>4. \A e \in Episodes : Record(e)' = Record(e)
    BY <2>1, <2>2, <2>3, DoneRecord, RecordStays
  <2>5. QED
    BY <2>1, <2>4 DEF T!tvars
<1>7. QED
  BY <1>2, <1>3, <1>4, <1>5, <1>6

-------------------------------------------------------------------------------
(***************************************************************************)
(* The theorems                                                            *)
(***************************************************************************)
\* The invariant holds in every state of every behaviour.
THEOREM Invariance == Spec => []IInv
  BY InitIInv, NextIInv, PTL DEF Spec

\* Every variable of the sessions (session.ts) and of the work bound to them
\* has its type, and no session counts more episodes than there are.
THEOREM TypeCorrect == Spec => []TypeOK
<1>1. IInv => TypeOK
  BY DEF IInv
<1>2. QED
  BY <1>1, Invariance, PTL

\* A retraction of the event ledger (disputeVerifiedEpisode) shows in every
\* stored session, except where the MCP server wrote an old copy back.
THEOREM RetractionsShow == Spec => []LedgerAgrees
<1>1. IInv => LedgerAgrees
  BY DEF IInv
<1>2. QED
  BY <1>1, Invariance, PTL

\* Episodes, answers and disputes that end while the operator looks at another
\* session write to their own and leave the pointer alone
\* (updateSessionById in session.ts).
THEOREM ViewIsKept == Spec => BackgroundKeepsView
<1> DEFINE ViewKept ==
      /\ \A e \in Episodes :
            pc[e] = "running" /\ pc'[e] = "done" /\ Stored(owner[e]) => active' = active
      /\ \A q \in Questions : asking[q] # None /\ asking'[q] = None => active' = active
      /\ \A d \in Disputes :
            dispute[d] # None /\ dispute'[d] = None /\ Stored(dispute[d].session)
               => active' = active
<1>1. TypeOK /\ [Next]_vars => ViewKept
  <2> SUFFICES ASSUME TypeOK, [Next]_vars PROVE ViewKept
    OBVIOUS
  <2> USE DEF store, work
  <2>1. ASSUME NEW e \in Episodes, pc[e] = "running", pc'[e] = "done", Stored(owner[e])
        PROVE  active' = active
    <3>1. PICK o \in {"verified", "failed"} : End(e, o)
      BY <2>1, EpisodeSteps
    <3>2. QED
      BY <2>1, <3>1 DEF End, RecordHome, Target, Update
  <2>2. ASSUME NEW q \in Questions, asking[q] # None, asking'[q] = None
        PROVE  active' = active
    <3>1. ASSUME NEW p \in Questions, Ask(p) PROVE FALSE
      <4>1. PICK s \in Loaded : asking' = [asking EXCEPT ![p] = s]
        BY <3>1 DEF Ask
      <4>2. asking[p] = None /\ s # None
        BY <3>1, LoadedIds, SessionAssumption DEF Ask
      <4>3. QED
        BY <2>2, <4>1, <4>2 DEF TypeOK
    <3>2. ASSUME NEW p \in Questions, Answer(p) PROVE active' = active
      BY <3>2 DEF Answer, Update
    <3>3. asking' # asking
      BY <2>2
    <3>4. QED
      BY <3>1, <3>2, <3>3 DEF Next, vars, OperatorSetsGoal, AgentSetsGoal, McpReads,
         NewSession, SwitchToSession, DeleteParkedSession, Dispatch, Refuse, Bind, End,
         DropDispute, OpenDispute, Retract, McpWrites, McpPoints
  <2>3. ASSUME NEW d \in Disputes, dispute[d] # None, dispute'[d] = None,
               Stored(dispute[d].session)
        PROVE  active' = active
    <3>1. dispute' # dispute
      BY <2>3
    <3>2. ASSUME NEW c \in Disputes, NEW e \in Episodes, OpenDispute(c, e) PROVE FALSE
      <4>1. /\ dispute[c] = None
            /\ dispute' = [dispute EXCEPT ![c] = [episode |-> e, session |-> active]]
        BY <3>2 DEF OpenDispute
      <4>2. c # d
        BY <2>3, <4>1
      <4>3. QED
        BY <2>3, <4>1, <4>2 DEF TypeOK
    <3>3. ASSUME NEW c \in Disputes, NEW next \in Episodes, Retract(c, next)
          PROVE  active' = active
      <4>1. dispute' = [dispute EXCEPT ![c] = None]
        BY <3>3 DEF Retract
      <4>2. c = d
        BY <2>3, <4>1 DEF TypeOK
      <4>3. QED
        BY <2>3, <3>3, <4>2 DEF Retract, AmendHome, Target, Update
    <3>4. ASSUME NEW c \in Disputes, DropDispute(c) PROVE active' = active
      BY <3>4 DEF DropDispute
    <3>5. QED
      BY <3>1, <3>2, <3>3, <3>4 DEF Next, vars, OperatorSetsGoal, AgentSetsGoal, McpReads,
         NewSession, SwitchToSession, DeleteParkedSession, Ask, Answer, Dispatch, Refuse,
         Bind, End, McpWrites, McpPoints
  <2>4. QED
    BY <2>1, <2>2, <2>3
<1>2. QED
  BY <1>1, TypeCorrect, PTL DEF Spec, BackgroundKeepsView

\* The sessions implement Trajectory: each episode's outcome goes once on the
\* record of the session it was bound to, and only a retraction changes it.
THEOREM RecordsAreTrajectories == Spec => PromiseKept
  BY InitRecords, StepRecords, Invariance, PTL DEF Spec, PromiseKept, T!Spec
=================================================================================
