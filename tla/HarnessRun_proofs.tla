-------------------------- MODULE HarnessRun_proofs --------------------------
(***************************************************************************)
(* What HarnessRun promises for any number of calls: typing, the exact     *)
(* count of runs in flight, no child without a call or a kill on its way,  *)
(* a block that can lift, no refusal from an old one, and final results.   *)
(***************************************************************************)
EXTENDS HarnessRun, FiniteSetTheorems, TLAPS

-------------------------------------------------------------------------------
(***************************************************************************)
(* The inductive invariant                                                 *)
(***************************************************************************)
Under == {"probing", "fetching", "running"}

\* What a call has of a probe and of a process at its stage.
StageOfCall ==
    \A r \in Calls :
        /\ probe[r] # None => pc[r] = "probing"
        /\ pc[r] \in {"new", "probing", "fetching"} => child[r] = "none" /\ exit[r] = None
        /\ exit[r] # None => child[r] = "gone"
        /\ pc[r] = "fetching" => KindOf[r] = "task"

\* Whatever refuses a call saw the CLI signed out during the call.
FreshSightings ==
    \A r \in Calls :
        /\ pc[r] \in Under /\ ~signedIn => r \in outSeen
        /\ probe[r] = "out" => r \in outSeen
        /\ exit[r] = "refused" => r \in outSeen

IInv ==
    /\ TypeOK
    /\ StageOfCall
    /\ CounterExact
    /\ NoOrphan
    /\ BlockCanLift
    /\ FreshSightings
    /\ RefusalIsFresh

-------------------------------------------------------------------------------
(***************************************************************************)
(* Typing                                                                  *)
(***************************************************************************)
LEMMA InitTypeOK == Init => TypeOK
<1> SUFFICES ASSUME Init PROVE TypeOK
  OBVIOUS
<1>1. 0 \in 0..MaxSignOuts
  BY HarnessAssumption
<1>2. \A r \in Calls : result[r] = None /\ pc[r] = "new"
  BY DEF Init
<1>3. QED
  BY <1>1, <1>2 DEF Init, TypeOK

\* Past the preflight, whichever way the call goes on, its variables keep their
\* types.
LEMMA StartTypeOK ==
    ASSUME TypeOK, NEW r \in Calls, pc[r] \in {"new", "probing"}, Start(r)
    PROVE  /\ pc' \in [Calls -> {"new", "probing", "fetching", "running", "done"}]
           /\ result' \in [Calls -> {None, "ok", "failed", "refused", "cancelled", "hung", "timeout"}]
           /\ \A q \in Calls : result'[q] # None <=> pc'[q] = "done"
           /\ child' \in [Calls -> {"none", "alive", "hung", "gone"}]
           /\ exit' \in [Calls -> {None, "ok", "failed", "refused"}]
           /\ kill' \subseteq Calls
           /\ inFlight' \in Nat
  BY HarnessAssumption DEF TypeOK, Start, Spawn, Move, Return, process

\* Settling keeps the types, as long as the count covers the call.
LEMMA SettleTypeOK ==
    ASSUME TypeOK, NEW r \in Calls,
           NEW value \in {"ok", "failed", "refused", "cancelled", "hung", "timeout"},
           pc[r] = "running" /\ Counted(r) => inFlight > 0,
           Settle(r, value)
    PROVE  /\ pc' \in [Calls -> {"new", "probing", "fetching", "running", "done"}]
           /\ result' \in [Calls -> {None, "ok", "failed", "refused", "cancelled", "hung", "timeout"}]
           /\ \A q \in Calls : result'[q] # None <=> pc'[q] = "done"
           /\ inFlight' \in Nat
  BY HarnessAssumption DEF TypeOK, Settle, Move, Return

-------------------------------------------------------------------------------
(***************************************************************************)
(* The count                                                               *)
(***************************************************************************)
LEMMA InFlightFinite == IsFiniteSet(InFlightCalls) /\ Cardinality(InFlightCalls) \in Nat
<1>1. IsFiniteSet(Calls)
  BY HarnessAssumption
<1>2. IsFiniteSet(InFlightCalls)
  BY <1>1, FS_Subset DEF InFlightCalls
<1>3. QED
  BY <1>2, FS_CardinalityType

\* A call that is on the count keeps it above zero.
LEMMA CountCovers ==
    ASSUME TypeOK, CounterExact, NEW r \in Calls,
           Counted(r), pc[r] \in {"fetching", "running"}
    PROVE  inFlight > 0
<1>1. r \in InFlightCalls
  BY DEF InFlightCalls
<1>2. Cardinality(InFlightCalls) # 0
  BY <1>1, InFlightFinite, FS_EmptySet
<1>3. QED
  BY <1>2, InFlightFinite DEF CounterExact

\* A counted call that is put under way is added.
LEMMA CountEnters ==
    ASSUME TypeOK, CounterExact, NEW r \in Calls, NEW stage \in {"fetching", "running"},
           Counted(r), pc[r] \in {"new", "probing"},
           pc' = [pc EXCEPT ![r] = stage], inFlight' = inFlight + 1
    PROVE  CounterExact'
<1>1. InFlightCalls' = InFlightCalls \cup {r} /\ r \notin InFlightCalls
  BY DEF InFlightCalls, Counted, TypeOK
<1>2. Cardinality(InFlightCalls') = Cardinality(InFlightCalls) + 1
  BY <1>1, InFlightFinite, FS_AddElement
<1>3. QED
  BY <1>2 DEF CounterExact

\* A counted call that is done is taken off.
LEMMA CountLeaves ==
    ASSUME TypeOK, CounterExact, NEW r \in Calls,
           Counted(r), pc[r] \in {"fetching", "running"},
           pc' = [pc EXCEPT ![r] = "done"], inFlight' = inFlight - 1
    PROVE  CounterExact'
<1>1. InFlightCalls' = InFlightCalls \ {r} /\ r \in InFlightCalls
  BY DEF InFlightCalls, Counted, TypeOK
<1>2. Cardinality(InFlightCalls') = Cardinality(InFlightCalls) - 1
  BY <1>1, InFlightFinite, FS_RemoveElement
<1>3. QED
  BY <1>2 DEF CounterExact

\* The count stays when no counted call crosses its border.
LEMMA CountStays ==
    ASSUME CounterExact, inFlight' = inFlight,
           \A q \in Calls : Counted(q) =>
               (pc'[q] \in {"fetching", "running"} <=> pc[q] \in {"fetching", "running"})
    PROVE  CounterExact'
<1>1. InFlightCalls' = InFlightCalls
  BY DEF InFlightCalls, Counted
<1>2. QED
  BY <1>1 DEF CounterExact

\* Past the preflight the call is counted exactly if it goes on.
LEMMA StartCounts ==
    ASSUME TypeOK, CounterExact, NEW r \in Calls, pc[r] \in {"new", "probing"}, Start(r)
    PROVE  CounterExact'
<1>1. CASE KindOf[r] = "task"
  BY <1>1, CountEnters DEF Start, Move, Counted
<1>2. CASE KindOf[r] # "task" /\ Spawn(r) /\ Counted(r) /\ inFlight' = inFlight + 1
  BY <1>2, CountEnters DEF Spawn, Move
<1>3. CASE KindOf[r] # "task" /\ Spawn(r) /\ ~Counted(r) /\ inFlight' = inFlight
  <2>1. \A q \in Calls : Counted(q) => pc'[q] = pc[q]
    BY <1>3 DEF Spawn, Move, TypeOK
  <2>2. QED
    BY <1>3, <2>1, CountStays
<1>4. CASE KindOf[r] # "task" /\ Return(r, "failed") /\ inFlight' = inFlight
  <2>1. \A q \in Calls : pc'[q] \in {"fetching", "running"} <=> pc[q] \in {"fetching", "running"}
    BY <1>4 DEF Return, Move, TypeOK
  <2>2. QED
    BY <1>4, <2>1, CountStays
<1>5. QED
  BY <1>1, <1>2, <1>3, <1>4 DEF Start

\* A call that returns before it is under way was never counted.
LEMMA RefusalCounts ==
    ASSUME TypeOK, CounterExact, NEW r \in Calls, pc[r] \in {"new", "probing"},
           NEW stage \in {"done", "probing"}, Move(r, stage), inFlight' = inFlight
    PROVE  CounterExact'
<1>1. \A q \in Calls : pc'[q] \in {"fetching", "running"} <=> pc[q] \in {"fetching", "running"}
  BY DEF Move, TypeOK
<1>2. QED
  BY <1>1, CountStays

\* Whatever settles a call, and however often: it is taken off once.
LEMMA SettleCounts ==
    ASSUME TypeOK, CounterExact, NEW r \in Calls, NEW value, Settle(r, value)
    PROVE  CounterExact'
<1>1. CASE pc[r] = "running" /\ Counted(r)
  BY <1>1, CountLeaves DEF Settle, Return, Move
<1>2. CASE pc[r] = "running" /\ ~Counted(r)
  <2>1. \A q \in Calls : Counted(q) => pc'[q] = pc[q]
    BY <1>2 DEF Settle, Return, Move, TypeOK
  <2>2. QED
    BY <1>2, <2>1, CountStays DEF Settle
<1>3. CASE pc[r] # "running"
  BY <1>3, CountStays DEF Settle
<1>4. QED
  BY <1>1, <1>2, <1>3

LEMMA NextCounterExact ==
    TypeOK /\ StageOfCall /\ CounterExact /\ [Next]_vars => CounterExact'
<1> SUFFICES ASSUME TypeOK, StageOfCall, CounterExact, [Next]_vars PROVE CounterExact'
  OBVIOUS
<1>1. ASSUME NEW r \in Calls, Call(r) PROVE CounterExact'
  <2>1. pc[r] = "new"
    BY <1>1 DEF Call
  <2>2. \/ Start(r)
        \/ \E stage \in {"done", "probing"} : Move(r, stage) /\ inFlight' = inFlight
    BY <1>1, HarnessAssumption DEF Call, Return
  <2>3. QED
    BY <2>1, <2>2, StartCounts, RefusalCounts
<1>2. ASSUME NEW r \in Calls, ProbeReturns(r) PROVE CounterExact'
  <2>1. pc[r] = "probing"
    BY <1>2, HarnessAssumption DEF ProbeReturns, StageOfCall
  <2>2. Start(r) \/ (Move(r, "done") /\ inFlight' = inFlight)
    BY <1>2 DEF ProbeReturns, Return
  <2>3. QED
    BY <2>1, <2>2, StartCounts, RefusalCounts
<1>3. ASSUME NEW r \in Calls, Fetched(r) PROVE CounterExact'
  <2>1. \A q \in Calls : pc'[q] \in {"fetching", "running"} <=> pc[q] \in {"fetching", "running"}
    BY <1>3 DEF Fetched, Spawn, Move, TypeOK
  <2>2. QED
    BY <1>3, <2>1, CountStays DEF Fetched
<1>4. ASSUME NEW r \in Calls, FetchFails(r) PROVE CounterExact'
  BY <1>4, CountLeaves DEF FetchFails, Return, Move, StageOfCall, Counted
<1>5. ASSUME NEW r \in Calls,
             ExitHandled(r) \/ SilenceNoticed(r) \/ LoopNoticed(r) \/ AgentTimesOut(r)
      PROVE  CounterExact'
  BY <1>5, SettleCounts DEF ExitHandled, SilenceNoticed, LoopNoticed, AgentTimesOut, GiveUp
<1>6. CASE UNCHANGED <<pc, inFlight>>
  BY <1>6, CountStays
<1>7. QED
  BY <1>1, <1>2, <1>3, <1>4, <1>5, <1>6
     DEF Next, ProbeAnswers, ChildExits, ChildHangs, CancelledByOperator, Killed,
         SignOut, SignIn, vars

-------------------------------------------------------------------------------
(***************************************************************************)
(* Every step keeps the invariant                                          *)
(***************************************************************************)
LEMMA NextTypeOK ==
    TypeOK /\ StageOfCall /\ CounterExact /\ [Next]_vars => TypeOK'
<1> SUFFICES ASSUME TypeOK, StageOfCall, CounterExact, [Next]_vars PROVE TypeOK'
  OBVIOUS
<1> USE HarnessAssumption DEF registry, process, account
<1>1. ASSUME NEW r \in Calls, Call(r) PROVE TypeOK'
  <2>1. pc[r] = "new"
    BY <1>1 DEF Call
  <2>2. CASE Start(r) /\ UNCHANGED probe
    BY <1>1, <2>1, <2>2, StartTypeOK DEF Call, TypeOK
  <2>3. CASE Return(r, "refused") /\ UNCHANGED <<inFlight, process, probe>>
    BY <1>1, <2>3 DEF Call, TypeOK, Return, Move
  <2>4. CASE /\ Move(r, "probing") /\ probe' = [probe EXCEPT ![r] = "asking"]
             /\ UNCHANGED <<result, inFlight, process>>
    BY <1>1, <2>1, <2>4 DEF Call, TypeOK, Move
  <2>5. QED
    BY <1>1, <2>2, <2>3, <2>4 DEF Call
<1>2. ASSUME NEW r \in Calls, ProbeAnswers(r) PROVE TypeOK'
  BY <1>2 DEF ProbeAnswers, TypeOK
<1>3. ASSUME NEW r \in Calls, ProbeReturns(r) PROVE TypeOK'
  <2>1. pc[r] = "probing"
    BY <1>3 DEF ProbeReturns, StageOfCall
  <2>2. CASE Start(r)
    BY <1>3, <2>1, <2>2, StartTypeOK DEF ProbeReturns, TypeOK, MarkBlocked
  <2>3. CASE MarkBlocked /\ Return(r, "refused") /\ UNCHANGED <<inFlight, process>>
    BY <1>3, <2>3 DEF ProbeReturns, TypeOK, MarkBlocked, Return, Move
  <2>4. QED
    BY <1>3, <2>2, <2>3 DEF ProbeReturns
<1>4. ASSUME NEW r \in Calls, Fetched(r) PROVE TypeOK'
  BY <1>4 DEF Fetched, Spawn, Move, TypeOK
<1>5. ASSUME NEW r \in Calls, FetchFails(r) PROVE TypeOK'
  <2>1. inFlight > 0
    BY <1>5, CountCovers DEF FetchFails, StageOfCall, Counted
  <2>2. QED
    BY <1>5, <2>1 DEF FetchFails, Return, Move, TypeOK
<1>6. ASSUME NEW r \in Calls, ChildExits(r) \/ ChildHangs(r) \/ Killed(r) PROVE TypeOK'
  BY <1>6 DEF ChildExits, ChildHangs, Killed, TypeOK
<1>7. ASSUME NEW r \in Calls,
             ExitHandled(r) \/ SilenceNoticed(r) \/ LoopNoticed(r) \/ AgentTimesOut(r)
      PROVE  TypeOK'
  <2>1. PICK value \in {"ok", "failed", "refused", "cancelled", "hung", "timeout"} : Settle(r, value)
    BY <1>7 DEF ExitHandled, SilenceNoticed, LoopNoticed, AgentTimesOut, GiveUp, TypeOK
  <2>2. pc[r] = "running" /\ Counted(r) => inFlight > 0
    BY CountCovers
  <2>3. /\ pc' \in [Calls -> {"new", "probing", "fetching", "running", "done"}]
        /\ result' \in [Calls -> {None, "ok", "failed", "refused", "cancelled", "hung", "timeout"}]
        /\ \A q \in Calls : result'[q] # None <=> pc'[q] = "done"
        /\ inFlight' \in Nat
    BY <2>1, <2>2, SettleTypeOK
  <2>4. /\ child' \in [Calls -> {"none", "alive", "hung", "gone"}]
        /\ exit' \in [Calls -> {None, "ok", "failed", "refused"}]
        /\ kill' \subseteq Calls
        /\ UNCHANGED <<probe, token, outSeen, signedIn, signOuts>>
    BY <1>7 DEF ExitHandled, SilenceNoticed, LoopNoticed, AgentTimesOut, GiveUp, Terminate, TypeOK
  <2>5. \/ MarkBlocked \/ UNCHANGED registry
        \/ blocked' = FALSE /\ passed' = FALSE
    BY <1>7 DEF ExitHandled, SilenceNoticed, LoopNoticed, AgentTimesOut, GiveUp, ClearBlock
  <2>6. blocked' \in BOOLEAN /\ passed' \in BOOLEAN
    BY <2>5 DEF MarkBlocked, TypeOK
  <2>7. QED
    BY <2>3, <2>4, <2>6 DEF TypeOK
<1>8. ASSUME NEW r \in Calls, CancelledByOperator(r) PROVE TypeOK'
  BY <1>8 DEF CancelledByOperator, Terminate, TypeOK
<1>9. CASE SignOut
  <2>1. signOuts \in 0..MaxSignOuts /\ signOuts < MaxSignOuts /\ signOuts' = signOuts + 1
    BY <1>9 DEF SignOut, TypeOK
  <2>2. signOuts' \in 0..MaxSignOuts
    BY <2>1
  <2>3. outSeen' \subseteq Calls /\ signedIn' \in BOOLEAN
    BY <1>9 DEF SignOut, TypeOK
  <2>4. QED
    BY <1>9, <2>2, <2>3 DEF SignOut, TypeOK
<1>10. CASE SignIn
  BY <1>10 DEF SignIn, TypeOK
<1>11. CASE UNCHANGED vars
  BY <1>11 DEF vars, TypeOK
<1>12. QED
  BY <1>1, <1>2, <1>3, <1>4, <1>5, <1>6, <1>7, <1>8, <1>9, <1>10, <1>11 DEF Next

LEMMA NextStageOfCall == TypeOK /\ StageOfCall /\ [Next]_vars => StageOfCall'
<1> SUFFICES ASSUME TypeOK, StageOfCall, [Next]_vars PROVE StageOfCall'
  OBVIOUS
<1> USE HarnessAssumption DEF TypeOK, StageOfCall, process
<1>1. ASSUME NEW r \in Calls, Call(r) PROVE StageOfCall'
  <2>1. CASE Start(r) /\ UNCHANGED probe
    BY <1>1, <2>1 DEF Call, Start, Spawn, Return, Move
  <2>2. CASE Return(r, "refused") /\ UNCHANGED <<inFlight, process, probe>>
    BY <1>1, <2>2 DEF Call, Return, Move
  <2>3. CASE /\ Move(r, "probing") /\ probe' = [probe EXCEPT ![r] = "asking"]
             /\ UNCHANGED <<result, inFlight, process>>
    BY <1>1, <2>3 DEF Call, Move
  <2>4. QED
    BY <1>1, <2>1, <2>2, <2>3 DEF Call
<1>2. ASSUME NEW r \in Calls, ProbeReturns(r) PROVE StageOfCall'
  BY <1>2 DEF ProbeReturns, Start, Spawn, Return, Move
<1>3. ASSUME NEW r \in Calls, ProbeAnswers(r) \/ Fetched(r) \/ FetchFails(r) PROVE StageOfCall'
  BY <1>3 DEF ProbeAnswers, Fetched, FetchFails, Spawn, Return, Move
<1>4. ASSUME NEW r \in Calls, ChildExits(r) \/ ChildHangs(r) \/ Killed(r) PROVE StageOfCall'
  BY <1>4 DEF ChildExits, ChildHangs, Killed, Living
<1>5. ASSUME NEW r \in Calls,
             ExitHandled(r) \/ SilenceNoticed(r) \/ LoopNoticed(r) \/ AgentTimesOut(r)
      PROVE  StageOfCall'
  BY <1>5 DEF ExitHandled, SilenceNoticed, LoopNoticed, AgentTimesOut, GiveUp, Terminate,
     Settle, Return, Move, Living
<1>6. CASE UNCHANGED <<pc, probe, child, exit>>
  BY <1>6
<1>7. QED
  BY <1>1, <1>2, <1>3, <1>4, <1>5, <1>6
     DEF Next, CancelledByOperator, Terminate, SignOut, SignIn, vars

\* A child is left alive only by a step that also puts its kill on the timer.
LEMMA NextNoOrphan == TypeOK /\ StageOfCall /\ NoOrphan /\ [Next]_vars => NoOrphan'
<1> SUFFICES ASSUME TypeOK, StageOfCall, NoOrphan, [Next]_vars PROVE NoOrphan'
  OBVIOUS
<1> USE HarnessAssumption DEF TypeOK, StageOfCall, NoOrphan, Living, process
<1>1. ASSUME NEW r \in Calls, Call(r) PROVE NoOrphan'
  BY <1>1 DEF Call, Start, Spawn, Return, Move
<1>2. ASSUME NEW r \in Calls, ProbeReturns(r) PROVE NoOrphan'
  BY <1>2 DEF ProbeReturns, Start, Spawn, Return, Move
<1>3. ASSUME NEW r \in Calls, ProbeAnswers(r) \/ Fetched(r) \/ FetchFails(r) PROVE NoOrphan'
  BY <1>3 DEF ProbeAnswers, Fetched, FetchFails, Spawn, Return, Move
<1>4. ASSUME NEW r \in Calls, ChildExits(r) \/ ChildHangs(r) \/ Killed(r) PROVE NoOrphan'
  BY <1>4 DEF ChildExits, ChildHangs, Killed
<1>5. ASSUME NEW r \in Calls, ExitHandled(r) PROVE NoOrphan'
  BY <1>5 DEF ExitHandled, Settle, Return, Move
<1>6. ASSUME NEW r \in Calls, SilenceNoticed(r) \/ LoopNoticed(r) \/ AgentTimesOut(r)
      PROVE  NoOrphan'
  BY <1>6 DEF SilenceNoticed, LoopNoticed, AgentTimesOut, GiveUp, Terminate, Settle, Return, Move
<1>7. ASSUME NEW r \in Calls, CancelledByOperator(r) PROVE NoOrphan'
  BY <1>7 DEF CancelledByOperator, Terminate
<1>8. CASE UNCHANGED <<pc, process>>
  BY <1>8
<1>9. QED
  BY <1>1, <1>2, <1>3, <1>4, <1>5, <1>6, <1>7, <1>8 DEF Next, SignOut, SignIn, vars

LEMMA NextBlockCanLift == TypeOK /\ BlockCanLift /\ [Next]_vars => BlockCanLift'
  BY DEF BlockCanLift, registry, Next, Call, ProbeAnswers, ProbeReturns, Fetched, FetchFails,
     ChildExits, ChildHangs, ExitHandled, CancelledByOperator, SilenceNoticed, LoopNoticed,
     AgentTimesOut, GiveUp, Killed, SignOut, SignIn, MarkBlocked, ClearBlock, vars

\* A sighting is never forgotten, and an event that speaks of one comes after it.
LEMMA NextFreshSightings ==
    TypeOK /\ StageOfCall /\ FreshSightings /\ [Next]_vars => FreshSightings'
<1> SUFFICES ASSUME TypeOK, StageOfCall, FreshSightings, [Next]_vars PROVE FreshSightings'
  OBVIOUS
<1> USE HarnessAssumption DEF TypeOK, StageOfCall, FreshSightings, Under, process, account
<1>1. ASSUME NEW r \in Calls, Call(r) PROVE FreshSightings'
  <2>1. CASE Start(r) /\ UNCHANGED probe
    BY <1>1, <2>1 DEF Call, Start, Spawn, Return, Move
  <2>2. CASE Return(r, "refused") /\ UNCHANGED <<inFlight, process, probe>>
    BY <1>1, <2>2 DEF Call, Return, Move
  <2>3. CASE /\ Move(r, "probing") /\ probe' = [probe EXCEPT ![r] = "asking"]
             /\ UNCHANGED <<result, inFlight, process>>
    BY <1>1, <2>3 DEF Call, Move
  <2>4. QED
    BY <1>1, <2>1, <2>2, <2>3 DEF Call
<1>2. ASSUME NEW r \in Calls, ProbeReturns(r) PROVE FreshSightings'
  BY <1>2 DEF ProbeReturns, Start, Spawn, Return, Move
<1>3. ASSUME NEW r \in Calls, ProbeAnswers(r) \/ Fetched(r) \/ FetchFails(r)
      PROVE  FreshSightings'
  BY <1>3 DEF ProbeAnswers, Fetched, FetchFails, Spawn, Return, Move
<1>4. ASSUME NEW r \in Calls, ChildExits(r) \/ ChildHangs(r) \/ Killed(r) PROVE FreshSightings'
  BY <1>4 DEF ChildExits, ChildHangs, Killed
<1>5. ASSUME NEW r \in Calls,
             ExitHandled(r) \/ SilenceNoticed(r) \/ LoopNoticed(r) \/ AgentTimesOut(r)
      PROVE  FreshSightings'
  BY <1>5 DEF ExitHandled, SilenceNoticed, LoopNoticed, AgentTimesOut, GiveUp, Terminate,
     Settle, Return, Move
<1>6. CASE SignOut
  BY <1>6 DEF SignOut
<1>7. CASE SignIn
  BY <1>7 DEF SignIn
<1>8. CASE UNCHANGED <<pc, probe, exit, signedIn, outSeen>>
  BY <1>8
<1>9. QED
  BY <1>1, <1>2, <1>3, <1>4, <1>5, <1>6, <1>7, <1>8
     DEF Next, CancelledByOperator, Terminate, vars

\* A prompt is turned away by a block only after its own probe said so: with a
\* passed probe in the cache there is no block.
LEMMA NextRefusalIsFresh ==
    TypeOK /\ StageOfCall /\ BlockCanLift /\ FreshSightings /\ RefusalIsFresh /\ [Next]_vars
        => RefusalIsFresh'
<1> SUFFICES ASSUME TypeOK, StageOfCall, BlockCanLift, FreshSightings, RefusalIsFresh, [Next]_vars
             PROVE  RefusalIsFresh'
  OBVIOUS
<1> USE HarnessAssumption DEF TypeOK, RefusalIsFresh
<1>1. ASSUME NEW r \in Calls, Call(r) PROVE RefusalIsFresh'
  BY <1>1 DEF Call, BlockCanLift, Counted, Start, Spawn, Return, Move
<1>2. ASSUME NEW r \in Calls, ProbeReturns(r) PROVE RefusalIsFresh'
  BY <1>2 DEF ProbeReturns, FreshSightings, Start, Spawn, Return, Move
<1>3. ASSUME NEW r \in Calls, ExitHandled(r) PROVE RefusalIsFresh'
  BY <1>3 DEF ExitHandled, FreshSightings, Settle, Return, Move
<1>4. ASSUME NEW r \in Calls,
             \/ Fetched(r) \/ FetchFails(r)
             \/ SilenceNoticed(r) \/ LoopNoticed(r) \/ AgentTimesOut(r)
      PROVE  RefusalIsFresh'
  BY <1>4 DEF Fetched, FetchFails, SilenceNoticed, LoopNoticed, AgentTimesOut, GiveUp,
     Spawn, Settle, Return, Move
<1>5. CASE SignOut
  BY <1>5 DEF SignOut
<1>6. CASE UNCHANGED <<result, outSeen>>
  BY <1>6
<1>7. QED
  BY <1>1, <1>2, <1>3, <1>4, <1>5, <1>6
     DEF Next, ProbeAnswers, ChildExits, ChildHangs, CancelledByOperator, Killed, SignIn, vars

LEMMA InitIInv == Init => IInv
<1> SUFFICES ASSUME Init PROVE IInv
  OBVIOUS
<1>1. InFlightCalls = {} /\ inFlight = 0
  BY DEF Init, InFlightCalls
<1>2. CounterExact
  BY <1>1, FS_EmptySet DEF CounterExact
<1>3. StageOfCall /\ NoOrphan /\ BlockCanLift /\ FreshSightings /\ RefusalIsFresh
  BY HarnessAssumption
     DEF Init, StageOfCall, NoOrphan, Living, BlockCanLift, FreshSightings, Under, RefusalIsFresh
<1>4. QED
  BY <1>2, <1>3, InitTypeOK DEF IInv

LEMMA NextIInv == IInv /\ [Next]_vars => IInv'
  BY NextTypeOK, NextStageOfCall, NextCounterExact, NextNoOrphan, NextBlockCanLift,
     NextFreshSightings, NextRefusalIsFresh DEF IInv

-------------------------------------------------------------------------------
(***************************************************************************)
(* Theorems                                                                *)
(***************************************************************************)
\* The invariant holds of every reachable state, for any number of calls.
THEOREM Invariance == Spec => []IInv
  BY InitIInv, NextIInv, PTL DEF Spec

\* Every variable keeps its type: no path takes the count below zero.
THEOREM TypeCorrect == Spec => []TypeOK
<1>1. IInv => TypeOK
  BY DEF IInv
<1>2. QED
  BY <1>1, Invariance, PTL

\* isHarnessBusy reads the number of prompts and tasks that are under way,
\* whatever order spawns, exits, timers and cancels come in.
THEOREM CountIsExact == Spec => []CounterExact
<1>1. IInv => CounterExact
  BY DEF IInv
<1>2. QED
  BY <1>1, Invariance, PTL

\* No child lives on without a call or a SIGKILL on its timer.
THEOREM NoChildIsLeft == Spec => []NoOrphan
<1>1. IInv => NoOrphan
  BY DEF IInv
<1>2. QED
  BY <1>1, Invariance, PTL

\* No order of runs, probes and sign-ins leaves a block with a passed probe.
THEOREM BlocksLift == Spec => []BlockCanLift
<1>1. IInv => BlockCanLift
  BY DEF IInv
<1>2. QED
  BY <1>1, Invariance, PTL

\* No prompt or task is refused for a sign-in that was there all the time.
THEOREM RefusalsAreFresh == Spec => []RefusalIsFresh
<1>1. IInv => RefusalIsFresh
  BY DEF IInv
<1>2. QED
  BY <1>1, Invariance, PTL

\* A result is final, whatever the process of the call does later.
THEOREM ResultsAreFinal == Spec => ResultFinal
<1>1. IInv /\ [Next]_vars =>
          [\A r \in Calls : pc[r] = "done" => UNCHANGED <<pc[r], result[r]>>]_vars
  <2> SUFFICES ASSUME IInv, [Next]_vars, NEW q \in Calls, pc[q] = "done"
               PROVE  UNCHANGED <<pc[q], result[q]>>
    OBVIOUS
  <2> USE HarnessAssumption DEF IInv, TypeOK, StageOfCall
  <2>1. ASSUME NEW r \in Calls, Call(r) PROVE UNCHANGED <<pc[q], result[q]>>
    BY <2>1 DEF Call, Start, Spawn, Return, Move
  <2>2. ASSUME NEW r \in Calls, ProbeReturns(r) PROVE UNCHANGED <<pc[q], result[q]>>
    BY <2>2 DEF ProbeReturns, Start, Spawn, Return, Move
  <2>3. ASSUME NEW r \in Calls, Fetched(r) \/ FetchFails(r)
        PROVE  UNCHANGED <<pc[q], result[q]>>
    BY <2>3 DEF Fetched, FetchFails, Spawn, Return, Move
  <2>4. ASSUME NEW r \in Calls,
               ExitHandled(r) \/ SilenceNoticed(r) \/ LoopNoticed(r) \/ AgentTimesOut(r)
        PROVE  UNCHANGED <<pc[q], result[q]>>
    BY <2>4 DEF ExitHandled, SilenceNoticed, LoopNoticed, AgentTimesOut, GiveUp,
       Settle, Return, Move
  <2>5. CASE UNCHANGED <<pc, result>>
    BY <2>5
  <2>6. QED
    BY <2>1, <2>2, <2>3, <2>4, <2>5
       DEF Next, ProbeAnswers, ChildExits, ChildHangs, CancelledByOperator, Killed,
           SignOut, SignIn, vars
<1>2. QED
  BY <1>1, Invariance, PTL DEF Spec, ResultFinal
===============================================================================
