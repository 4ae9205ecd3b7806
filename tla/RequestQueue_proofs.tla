-------------------------- MODULE RequestQueue_proofs --------------------------
(***************************************************************************)
(* What the request queue promises for any number of requests, sweeps and  *)
(* windows.  Two windows on one folder can both drain a request, so that a *)
(* request runs once, and that it is kept until it is settled, is proved   *)
(* of one window, whose sweeps overlap as they like.                       *)
(***************************************************************************)
EXTENDS RequestQueue, WellFoundedInduction, TLAPS

-------------------------------------------------------------------------------
(***************************************************************************)
(* The inductive invariants                                                *)
(***************************************************************************)
\* A sweep that awaits something holds the request it awaits it for, and only an
\* optimization is measured.
Awaiting == {"offering", "opening", "running", "measuring"}

AwaitsForRequest ==
    \A s \in Sweeps :
        /\ pc[s] \in Awaiting => held[s] # {}
        /\ pc[s] = "measuring" => Kind[Current(s)] = "optimize"

\* For any number of windows.
IInv == TypeOK /\ AwaitsForRequest

\* One extension host on the folder.
OneWindow == \A s, t \in Sweeps : WindowOf[s] = WindowOf[t]

\* Sweeps of one event loop take turns between their awaits.
TakeTurns == \A s, t \in Sweeps : InSync(s) /\ InSync(t) => s = t

\* A drain lists what is on disk and holds what it reads; a request that is both
\* held and on disk is the one that is just being drained.
DrainsOne(s) ==
    /\ names[s] # {} => pc[s] \in {"draining", "deleting"}
    /\ at[s] # {} => pc[s] = "deleting"
    /\ names[s] \subseteq files
    /\ held[s] \cap files = at[s]
    /\ at[s] \subseteq held[s]
    /\ at[s] \cap names[s] = {}
    /\ pc[s] = "idle" => held[s] = {}

Drains == \A s \in Sweeps : DrainsOne(s)

\* No request is held by two sweeps.
Exclusive ==
    \A s, t \in Sweeps : s # t => held[s] \cap held[t] = {}

PendingAsked == \A r \in Requests : Pending(r) => r \in asked

\* A request whose episode has begun is on its way out of the queue.
RunningLeaves ==
    \A r \in Requests : ran[r] > 0 =>
        /\ r \in asked /\ r \notin files
        /\ \A s \in Sweeps : r \in held[s] => pc[s] \in Awaiting /\ r = Current(s)

\* A sweep has counted the episodes of the request at hand, the one it is about
\* to begin among them, and counts no further than it may.
Owed(s) == IF pc[s] \in {"offering", "opening"} THEN 1 ELSE 0

CountedOne(s) ==
    pc[s] \in Awaiting =>
        /\ ran[Current(s)] + Owed(s) <= tries[s]
        /\ tries[s] <= MayRun(Current(s))

Counted == (\A s \in Sweeps : CountedOne(s)) /\ RunsWithinTries

\* What a sweep awaits something for is a fix, or was offered.
AwaitsKnown ==
    \A s \in Sweeps :
        pc[s] \in Awaiting => Kind[Current(s)] = "fix" \/ Current(s) \in offered

\* Nothing that was lost is pending again, and nothing that was asked vanishes.
LostIsGone == \A r \in lost : r \in asked /\ ~Pending(r)
NothingVanishes ==
    \A r \in asked : Pending(r) \/ r \in lost \/ ledger[r] \in Terminal \/ r \in offered

OneInv ==
    /\ IInv
    /\ TakeTurns
    /\ Drains
    /\ Exclusive
    /\ PendingAsked
    /\ RunningLeaves
    /\ Counted
    /\ AwaitsKnown
    /\ LostIsGone
    /\ NothingVanishes

-------------------------------------------------------------------------------
(***************************************************************************)
(* The oldest request, and types                                           *)
(***************************************************************************)
\* Requests are ordered, so there is an oldest among those a sweep holds.
LEMMA OldestIn ==
    ASSUME NEW R \in SUBSET Requests, R # {}
    PROVE  Oldest(R) \in R
<1>1. R \subseteq Nat
  BY QueueAssumption
<1> DEFINE Less == {ss \in Nat \X Nat : ss[1] < ss[2]}
<1>2. IsWellFoundedOn(Less, Nat)
  BY NatLessThanWellFounded DEF OpToRel
<1>3. PICK x \in R : \A y \in R : ~(<<y, x>> \in Less)
  BY <1>1, <1>2, WFMin
<1>4. ASSUME NEW y \in R PROVE x <= y
  <2>1. x \in Nat /\ y \in Nat /\ ~(<<y, x>> \in Less)
    BY <1>1, <1>3
  <2>2. ~(y < x)
    BY <2>1
  <2>3. QED
    BY <2>1, <2>2
<1>5. QED
  BY <1>4 DEF Oldest

LEMMA CurrentIn ==
    ASSUME TypeOK, NEW s \in Sweeps, held[s] # {}
    PROVE  Current(s) \in held[s] /\ Current(s) \in Requests
<1>1. held[s] \in SUBSET Requests
  BY DEF TypeOK
<1>2. QED
  BY <1>1, OldestIn DEF Current

LEMMA CurrentStays ==
    ASSUME NEW s \in Sweeps, held'[s] = held[s]
    PROVE  Current(s)' = Current(s)
  BY DEF Current

LEMMA InitTypeOK == Init => TypeOK
  BY DEF Init, TypeOK, PCs, Outcomes

LEMMA NextTypeOK == IInv /\ [Next]_vars => TypeOK'
<1> SUFFICES ASSUME IInv, [Next]_vars PROVE TypeOK'
  OBVIOUS
<1>0. TypeOK /\ AwaitsForRequest
  BY DEF IInv
<1> USE DEF TypeOK, PCs, Outcomes, Goto, Record, DoneWith, RecordIfFix, SetTries, GoOn,
            ToEngine, host, drain, holding, history, people, bounds
<1>1. ASSUME NEW r \in Requests, Enqueue(r) PROVE TypeOK'
  BY <1>0, <1>1 DEF Enqueue
<1>2. ASSUME NEW s \in Sweeps, SweepStep(s) PROVE TypeOK'
  <2>1. CASE StartSweep(s)
    BY <1>0, <2>1 DEF StartSweep
  <2>2. CASE ReadFile(s)
    BY <1>0, <2>2 DEF ReadFile
  <2>3. CASE DeleteFile(s)
    BY <1>0, <2>3 DEF DeleteFile
  <2>4. CASE SweepDone(s)
    BY <1>0, <2>4 DEF SweepDone
  <2>5. CASE Restore(s)
    BY <1>0, <2>5 DEF Restore, ToRestore, WokenByRestore
  <2>6. CASE RejectEmpty(s)
    BY <1>0, <2>6 DEF RejectEmpty
  <2>7. CASE NoPlan(s)
    BY <1>0, <2>7 DEF NoPlan
  <2>8. CASE Offer(s) \/ Optimize(s)
    <3>1. Current(s) \in Requests
      BY <1>0, <2>8, CurrentIn DEF Offer, Optimize, MayDispatch
    <3>2. QED
      BY <1>0, <2>8, <3>1 DEF Offer, Optimize
  <2>9. CASE OfferDropped(s)
    BY <1>0, <2>9 DEF OfferDropped
  <2>10. CASE OfferTaken(s) \/ OfferMoot(s)
    BY <1>0, <2>10 DEF OfferTaken, OfferMoot
  <2>11. CASE Refused(s)
    BY <1>0, <2>11 DEF Refused
  <2>12. CASE Dispatch(s)
    BY <1>0, <2>12 DEF Dispatch
  <2>13. CASE PreflightFails(s)
    BY <1>0, <2>13 DEF PreflightFails
  <2>14. CASE BeginEpisode(s)
    <3>1. WindowOf[s] \in Windows
      BY QueueAssumption
    <3>2. Current(s) \in Requests
      BY <1>0, <2>14, CurrentIn DEF BeginEpisode, AwaitsForRequest, Awaiting
    <3>3. ran[Current(s)] + 1 \in Nat
      BY <1>0, <3>2
    <3>4. QED
      BY <1>0, <2>14, <3>1, <3>2, <3>3 DEF BeginEpisode
  <2>15. CASE FinishEpisode(s)
    BY <1>0, <2>15 DEF FinishEpisode
  <2>16. CASE Attempt(s)
    BY <1>0, <2>16 DEF Attempt
  <2>17. CASE EndOptimization(s)
    BY <1>0, <2>17 DEF EndOptimization
  <2>18. QED
    BY <1>2, <2>1, <2>2, <2>3, <2>4, <2>5, <2>6, <2>7, <2>8, <2>9, <2>10, <2>11, <2>12,
       <2>13, <2>14, <2>15, <2>16, <2>17 DEF SweepStep, HostStep, OperatorStep
<1>3. ASSUME NEW s \in Sweeps, SweepThrows(s) PROVE TypeOK'
  BY <1>0, <1>3 DEF SweepThrows
<1>4. ASSUME NEW w \in Windows,
             HarnessTaken(w) \/ HarnessFreed(w) \/ Activate(w) \/ Close(w)
      PROVE  TypeOK'
  BY <1>0, <1>4 DEF HarnessTaken, HarnessFreed, Activate, Close
<1>5. ASSUME NEW w \in Windows, Crash(w) PROVE TypeOK'
  BY <1>0, <1>5 DEF Crash, In
<1>6. ASSUME NEW s \in Sweeps, Ignore(s) PROVE TypeOK'
  BY <1>0, <1>6 DEF Ignore
<1>7. CASE UNCHANGED vars
  BY <1>0, <1>7 DEF vars
<1>8. QED
  BY <1>1, <1>2, <1>3, <1>4, <1>5, <1>6, <1>7 DEF Next, Quiescent

-------------------------------------------------------------------------------
(***************************************************************************)
(* The steps, by what they do to the requests                              *)
(***************************************************************************)
requests == <<asked, files, ledger, pc, names, at, held, tries, ran, offered, lost>>

\* A sweep takes the requests off the disk, or finds that it has none left.
Drain(s) == StartSweep(s) \/ ReadFile(s) \/ DeleteFile(s) \/ SweepDone(s)

\* A sweep is through with the request at hand, which has its outcome.
Leaves(s) ==
    /\ held[s] # {} /\ pc[s] \in {"sweeping"} \cup Awaiting
    /\ pc[s] # "sweeping" => HasTurn(s)
    /\ pc' = [pc EXCEPT ![s] = "sweeping"]
    /\ held' = [held EXCEPT ![s] = @ \ {Current(s)}]
    /\ \A t \in Sweeps \ {s} : tries'[t] = tries[t]
    /\ \A r \in Requests \ {Current(s)} : ledger'[r] = ledger[r]
    /\ \/ ledger'[Current(s)] \in Terminal
       \/ pc[s] # "sweeping" /\ Kind[Current(s)] # "fix" /\ UNCHANGED ledger
    /\ UNCHANGED <<asked, files, names, at, ran, offered, lost>>

\* A sweep comes to await the engine, the offer flow, the opening or the episode
\* itself: with the request at hand new, or one await after another.
Takes(s, where) ==
    /\ pc[s] = "sweeping" /\ where # "running"
    /\ tries' = [tries EXCEPT ![s] = IF where = "measuring" THEN 0 ELSE 1]
    /\ \/ Kind[Current(s)] = "fix" /\ offered' = offered
       \/ offered' = offered \cup {Current(s)}

Continues(s, where) ==
    /\ pc[s] \in Awaiting /\ offered' = offered
    /\ \/ pc[s] = "measuring" /\ where = "offering"
          /\ tries[s] < MayRun(Current(s)) /\ tries' = [tries EXCEPT ![s] = @ + 1]
       \/ pc[s] = "offering" /\ where = "opening" /\ tries' = tries
       \/ pc[s] = "opening" /\ where = "running" /\ tries' = tries
       \/ where = "measuring" /\ tries' = tries

Awaits(s, where) ==
    /\ held[s] # {} /\ pc' = [pc EXCEPT ![s] = where]
    /\ where = "measuring" => Kind[Current(s)] = "optimize"
    /\ Takes(s, where) \/ Continues(s, where)
    /\ ran' = IF where = "running" THEN [ran EXCEPT ![Current(s)] = @ + 1] ELSE ran
    /\ UNCHANGED <<asked, files, ledger, names, at, held, lost>>

LEMMA RecordsTerminal ==
    ASSUME TypeOK, NEW r \in Requests, NEW outcome \in Terminal, Record(r, outcome)
    PROVE  /\ ledger'[r] \in Terminal
           /\ \A q \in Requests \ {r} : ledger'[q] = ledger[q]
  BY DEF TypeOK, Record, Terminal

LEMMA StepsThatLeave ==
    ASSUME IInv, NEW s \in Sweeps,
           \/ RejectEmpty(s) \/ NoPlan(s) \/ Refused(s)
           \/ OfferDropped(s) \/ EndOptimization(s)
           \/ PreflightFails(s) /\ GoOn(s)
           \/ FinishEpisode(s) /\ GoOn(s)
    PROVE  Leaves(s)
<1>1. TypeOK /\ AwaitsForRequest
  BY DEF IInv
<1>2. held[s] # {}
  BY <1>1 DEF AwaitsForRequest, Awaiting, RejectEmpty, NoPlan, Refused, OfferDropped,
     EndOptimization, PreflightFails, FinishEpisode, MayDispatch
<1>3. Current(s) \in Requests
  BY <1>1, <1>2, CurrentIn
<1> USE DEF Goto, DoneWith, SetTries, drain, history, Awaiting, Terminal
<1>4. CASE RejectEmpty(s) \/ NoPlan(s) \/ Refused(s)
  <2>1. /\ ledger'[Current(s)] \in Terminal
        /\ \A q \in Requests \ {Current(s)} : ledger'[q] = ledger[q]
    BY <1>1, <1>3, <1>4, RecordsTerminal DEF RejectEmpty, NoPlan, Refused
  <2>2. pc[s] = "sweeping" /\ pc' = [pc EXCEPT ![s] = "sweeping"]
    BY <1>1, <1>4 DEF RejectEmpty, NoPlan, Refused, MayDispatch, TypeOK
  <2>3. QED
    BY <1>2, <1>4, <2>1, <2>2 DEF RejectEmpty, NoPlan, Refused, Leaves
<1>5. CASE ~(RejectEmpty(s) \/ NoPlan(s) \/ Refused(s))
  <2>1. /\ GoOn(s) /\ pc[s] \in Awaiting /\ HasTurn(s)
        /\ UNCHANGED <<asked, files, names, at, ran, offered, lost>>
    BY <1>5 DEF OfferDropped, EndOptimization, PreflightFails, FinishEpisode
  <2>2. \A t \in Sweeps \ {s} : tries'[t] = tries[t]
    BY <1>1, <2>1 DEF GoOn, TypeOK
  <2>3. CASE Kind[Current(s)] = "fix"
    <3>1. /\ ledger'[Current(s)] \in Terminal
          /\ \A q \in Requests \ {Current(s)} : ledger'[q] = ledger[q]
      BY <1>1, <1>3, <2>1, <2>3, RecordsTerminal DEF RecordIfFix, GoOn
    <3>2. QED
      BY <1>2, <2>1, <2>2, <3>1 DEF GoOn, Leaves
  <2>4. CASE Kind[Current(s)] # "fix"
    BY <1>2, <2>1, <2>2, <2>4 DEF RecordIfFix, GoOn, Leaves
  <2>5. QED
    BY <2>3, <2>4
<1>6. QED
  BY <1>4, <1>5

LEMMA StepsThatAwait ==
    ASSUME IInv, NEW s \in Sweeps
    PROVE  /\ Offer(s) \/ Attempt(s) => Awaits(s, "offering")
           /\ OfferTaken(s) \/ Dispatch(s) => Awaits(s, "opening")
           /\ BeginEpisode(s) => Awaits(s, "running")
           /\ Optimize(s) => Awaits(s, "measuring")
           /\ OfferMoot(s) => Awaits(s, "measuring")
           /\ PreflightFails(s) /\ ~GoOn(s) => Awaits(s, "measuring")
           /\ FinishEpisode(s) /\ ~GoOn(s) => Awaits(s, "measuring")
<1> USE DEF IInv, AwaitsForRequest, Awaiting, Awaits, Takes, Continues, Goto, SetTries,
            ToEngine, drain, holding, history, MayDispatch
<1>1. Offer(s) => Awaits(s, "offering")
  BY DEF Offer
<1>2. Attempt(s) => Awaits(s, "offering")
  <2> SUFFICES ASSUME Attempt(s) PROVE Awaits(s, "offering")
    OBVIOUS
  <2>1. tries[s] < MayRun(Current(s))
    BY DEF Attempt, MayRun
  <2>2. QED
    BY <2>1 DEF Attempt
<1>3. OfferTaken(s) \/ Dispatch(s) => Awaits(s, "opening")
  BY DEF OfferTaken, Dispatch
<1>4. BeginEpisode(s) => Awaits(s, "running")
  BY DEF BeginEpisode
<1>5. Optimize(s) => Awaits(s, "measuring")
  BY DEF Optimize
<1>6. OfferMoot(s) => Awaits(s, "measuring")
  BY DEF OfferMoot
<1>7. /\ PreflightFails(s) /\ ~GoOn(s) => Awaits(s, "measuring")
      /\ FinishEpisode(s) /\ ~GoOn(s) => Awaits(s, "measuring")
  BY DEF PreflightFails, FinishEpisode
<1>8. QED
  BY <1>1, <1>2, <1>3, <1>4, <1>5, <1>6, <1>7

LEMMA StepKinds ==
    ASSUME IInv, [Next]_vars
    PROVE  \/ UNCHANGED requests
           \/ \E r \in Requests : Enqueue(r)
           \/ \E s \in Sweeps :
                 \/ Drain(s) \/ Restore(s) \/ SweepThrows(s)
                 \/ Leaves(s) \/ \E where \in Awaiting : Awaits(s, where)
           \/ \E w \in Windows : Crash(w)
<1>1. ASSUME NEW s \in Sweeps, SweepStep(s)
      PROVE  \/ Drain(s) \/ Restore(s) \/ Leaves(s) \/ \E where \in Awaiting : Awaits(s, where)
  <2> USE DEF Drain, Awaiting
  <2>1. CASE HostStep(s)
    BY <2>1, StepsThatLeave, StepsThatAwait DEF HostStep
  <2>2. CASE OperatorStep(s)
    BY <2>2, StepsThatLeave, StepsThatAwait DEF OperatorStep
  <2>3. QED
    BY <1>1, <2>1, <2>2 DEF SweepStep
<1>2. ASSUME NEW w \in Windows,
             HarnessTaken(w) \/ HarnessFreed(w) \/ Activate(w) \/ Close(w)
      PROVE  UNCHANGED requests
  BY <1>2 DEF requests, HarnessTaken, HarnessFreed, Activate, Close, drain, holding, history
<1>3. ASSUME NEW s \in Sweeps, Ignore(s) PROVE UNCHANGED requests
  BY <1>3 DEF requests, Ignore, drain, holding, history
<1>4. ASSUME Quiescent \/ UNCHANGED vars PROVE UNCHANGED requests
  BY <1>4 DEF requests, vars, Quiescent
<1>5. QED
  BY <1>1, <1>2, <1>3, <1>4 DEF Next

LEMMA NextAwaits == IInv /\ [Next]_vars => AwaitsForRequest'
<1> SUFFICES ASSUME IInv, [Next]_vars, NEW s \in Sweeps, pc'[s] \in Awaiting
             PROVE  held'[s] # {} /\ (pc'[s] = "measuring" => Kind[Current(s)'] = "optimize")
  BY DEF AwaitsForRequest, Awaiting
<1> DEFINE Kept(t) == held'[t] # {} /\ (pc'[t] = "measuring" => Kind[Current(t)'] = "optimize")
<1>0. TypeOK /\ AwaitsForRequest
  BY DEF IInv
<1>1. ASSUME pc'[s] = pc[s], held'[s] = held[s] PROVE Kept(s)
  <2>1. Current(s)' = Current(s)
    BY <1>1, CurrentStays
  <2>2. QED
    BY <1>0, <1>1, <2>1 DEF AwaitsForRequest
<1> USE DEF Goto, drain, holding, history
<1>2. CASE UNCHANGED requests
  BY <1>1, <1>2 DEF requests
<1>3. ASSUME NEW r \in Requests, Enqueue(r) PROVE pc'[s] = pc[s] /\ held'[s] = held[s]
  BY <1>3 DEF Enqueue
<1>4. ASSUME NEW t \in Sweeps,
             \/ Drain(t) \/ Restore(t) \/ SweepThrows(t) \/ Leaves(t)
      PROVE  pc'[s] = pc[s] /\ held'[s] = held[s]
  <2>1. s # t
    BY <1>0, <1>4 DEF Drain, StartSweep, ReadFile, DeleteFile, SweepDone, Restore,
       SweepThrows, Leaves, TypeOK, Awaiting
  <2>2. QED
    BY <1>0, <1>4, <2>1 DEF Drain, StartSweep, ReadFile, DeleteFile, SweepDone, Restore,
       SweepThrows, Leaves, TypeOK
<1>5. ASSUME NEW t \in Sweeps, NEW where \in Awaiting, Awaits(t, where)
      PROVE  Kept(s)
  <2>1. CASE s = t
    <3>1. pc'[s] = where /\ held'[s] = held[s] /\ held[s] # {}
      BY <1>0, <1>5, <2>1 DEF Awaits, TypeOK
    <3>2. Current(s)' = Current(s)
      BY <3>1, CurrentStays
    <3>3. QED
      BY <1>5, <2>1, <3>1, <3>2 DEF Awaits
  <2>2. CASE s # t
    BY <1>0, <1>1, <1>5, <2>2 DEF Awaits, TypeOK
  <2>3. QED
    BY <2>1, <2>2
<1>6. ASSUME NEW w \in Windows, Crash(w) PROVE pc'[s] = pc[s] /\ held'[s] = held[s]
  BY <1>6 DEF Crash, In, Awaiting
<1>7. QED
  BY <1>1, <1>2, <1>3, <1>4, <1>5, <1>6, StepKinds

-------------------------------------------------------------------------------
(***************************************************************************)
(* One window: what each step keeps                                        *)
(***************************************************************************)
\* A sweep that takes its turn has the window to itself.
LEMMA Alone ==
    ASSUME OneWindow, OneInv, NEW s \in Sweeps, InSync(s) \/ HasTurn(s),
           NEW t \in Sweeps, t # s
    PROVE  pc[t] \notin {"draining", "deleting", "sweeping"}
  BY DEF OneWindow, OneInv, TakeTurns, HasTurn, InSync

Held == UNION {held[s] : s \in Sweeps}

\* The one extension host dies with all its sweeps, or another does.
Dies ==
    /\ pc' = [s \in Sweeps |-> "idle"]
    /\ names' = [s \in Sweeps |-> {}]
    /\ at' = [s \in Sweeps |-> {}]
    /\ held' = [s \in Sweeps |-> {}]
    /\ tries' = [s \in Sweeps |-> 0]
    /\ lost' = lost \cup (Held \ files)
    /\ UNCHANGED <<asked, files, ledger, ran, offered>>

LEMMA CrashKinds ==
    ASSUME OneWindow, TypeOK, NEW w \in Windows, Crash(w)
    PROVE  Dies \/ UNCHANGED requests
<1>1. CASE \A s \in Sweeps : WindowOf[s] = w
  <2>1. {t \in Sweeps : WindowOf[t] = w} = Sweeps
    BY <1>1
  <2>2. QED
    BY <1>1, <2>1 DEF Crash, In, Dies, Held
<1>2. CASE \A s \in Sweeps : WindowOf[s] # w
  <2>1. /\ pc' = pc /\ names' = names /\ at' = at /\ held' = held /\ tries' = tries
    BY <1>2 DEF Crash, In, TypeOK
  <2>2. UNION {held[s] : s \in {t \in Sweeps : WindowOf[t] = w}} = {}
    BY <1>2
  <2>3. lost' = lost
    BY <2>2 DEF Crash
  <2>4. QED
    BY <2>1, <2>3 DEF Crash, requests
<1>3. QED
  BY <1>1, <1>2 DEF OneWindow

LEMMA OneKinds ==
    ASSUME OneWindow, OneInv, [Next]_vars
    PROVE  \/ UNCHANGED requests
           \/ \E r \in Requests : Enqueue(r)
           \/ \E s \in Sweeps :
                 \/ Drain(s) \/ Restore(s) \/ SweepThrows(s)
                 \/ Leaves(s) \/ \E where \in Awaiting : Awaits(s, where)
           \/ Dies
  BY StepKinds, CrashKinds DEF OneInv, IInv

LEMMA NextTakeTurns ==
    ASSUME OneWindow, OneInv, [Next]_vars
    PROVE  TakeTurns'
<1> USE DEF Goto, SetTries, drain, holding, history, Awaiting
<1>0. TypeOK /\ TakeTurns
  BY DEF OneInv, IInv
<1>1. ASSUME UNCHANGED pc PROVE TakeTurns'
  BY <1>0, <1>1 DEF TakeTurns, InSync
<1>2. ASSUME NEW s \in Sweeps,
             \/ Drain(s) \/ Restore(s) \/ SweepThrows(s)
             \/ Leaves(s) \/ \E where \in Awaiting : Awaits(s, where)
      PROVE  TakeTurns'
  <2>1. \A t \in Sweeps \ {s} : pc'[t] = pc[t]
    BY <1>0, <1>2 DEF Drain, StartSweep, ReadFile, DeleteFile, SweepDone, Restore,
       SweepThrows, Leaves, Awaits, TypeOK
  <2>2. CASE \E where \in Awaiting : Awaits(s, where)
    <3>1. ~InSync(s)'
      BY <1>0, <2>2 DEF Awaits, InSync, TypeOK
    <3>2. QED
      BY <1>0, <2>1, <3>1 DEF TakeTurns, InSync
  <2>3. CASE InSync(s) \/ HasTurn(s)
    <3>1. \A t \in Sweeps \ {s} : ~InSync(t)
      BY <2>3, Alone DEF InSync
    <3>2. QED
      BY <2>1, <3>1 DEF TakeTurns, InSync
  <2>4. QED
    BY <1>2, <2>2, <2>3 DEF Drain, StartSweep, ReadFile, DeleteFile, SweepDone, Restore,
       SweepThrows, Leaves, InSync
<1>3. CASE Dies
  BY <1>3 DEF Dies, TakeTurns, InSync
<1>4. ASSUME NEW r \in Requests, Enqueue(r) PROVE TakeTurns'
  BY <1>1, <1>4 DEF Enqueue
<1>5. CASE UNCHANGED requests
  BY <1>1, <1>5 DEF requests
<1>6. QED
  BY <1>2, <1>3, <1>4, <1>5, OneKinds

\* What a sweep's step does to the other sweeps' lists, and to the disk.
LEMMA OthersKeep ==
    ASSUME TypeOK, NEW s \in Sweeps, NEW t \in Sweeps, t # s,
           \/ Drain(s) \/ Restore(s) \/ SweepThrows(s)
           \/ Leaves(s) \/ \E where \in Awaiting : Awaits(s, where)
    PROVE  /\ pc'[t] = pc[t] /\ names'[t] = names[t] /\ at'[t] = at[t]
           /\ held'[t] = held[t] /\ tries'[t] = tries[t] /\ Current(t)' = Current(t)
<1>1. /\ pc'[t] = pc[t] /\ names'[t] = names[t] /\ at'[t] = at[t] /\ held'[t] = held[t]
      /\ tries'[t] = tries[t]
  BY DEF Drain, StartSweep, ReadFile, DeleteFile, SweepDone, Restore, SweepThrows, Leaves,
     Awaits, Takes, Continues, TypeOK, Goto, SetTries, drain, holding, history
<1>2. QED
  BY <1>1, CurrentStays

LEMMA NextDrains ==
    ASSUME OneWindow, OneInv, [Next]_vars
    PROVE  Drains'
<1> USE DEF Goto, SetTries, drain, holding, history, Awaiting
<1>0. TypeOK /\ Drains /\ Exclusive /\ PendingAsked
  BY DEF OneInv, IInv
<1>00. \A s \in Sweeps : DrainsOne(s)
  BY <1>0 DEF Drains
<1> SUFFICES ASSUME NEW s \in Sweeps PROVE DrainsOne(s)'
  BY DEF Drains
<1>1. ASSUME NEW t \in Sweeps, t # s,
             \/ Drain(t) \/ Restore(t) \/ SweepThrows(t)
             \/ Leaves(t) \/ \E where \in Awaiting : Awaits(t, where)
      PROVE  DrainsOne(s)'
  <2>1. pc'[s] = pc[s] /\ names'[s] = names[s] /\ at'[s] = at[s] /\ held'[s] = held[s]
    BY <1>0, <1>1, OthersKeep
  <2>2. CASE UNCHANGED files
    BY <1>00, <2>1, <2>2 DEF DrainsOne
  <2>3. CASE DeleteFile(t)
    <3>1. names[s] = {} /\ at[s] = {}
      BY <1>00, <1>1, <2>3, Alone DEF DeleteFile, InSync, DrainsOne
    <3>2. files' \subseteq files
      BY <2>3 DEF DeleteFile
    <3>3. QED
      BY <1>00, <2>1, <3>1, <3>2 DEF DrainsOne
  <2>4. CASE Restore(t)
    <3>1. held[s] \cap held[t] = {} /\ files' = files \cup held[t]
      BY <1>0, <1>1, <2>4 DEF Exclusive, Restore, ToRestore
    <3>2. QED
      BY <1>00, <2>1, <3>1 DEF DrainsOne
  <2>5. QED
    BY <1>1, <2>2, <2>3, <2>4 DEF Drain, StartSweep, ReadFile, SweepDone, SweepThrows, Leaves, Awaits
<1>2. CASE StartSweep(s)
  BY <1>0, <1>00, <1>2 DEF Drain, StartSweep, TypeOK, DrainsOne
<1>3. CASE ReadFile(s)
  <2>1. PICK r \in names[s] :
           /\ names' = [names EXCEPT ![s] = @ \ {r}]
           /\ at' = [at EXCEPT ![s] = {r}]
           /\ held' = [held EXCEPT ![s] = @ \cup ({r} \cap files)]
    BY <1>3 DEF ReadFile
  <2>2. r \in files /\ at[s] = {}
    BY <1>00, <1>3 DEF ReadFile, DrainsOne
  <2>3. /\ names'[s] = names[s] \ {r} /\ at'[s] = {r} /\ held'[s] = held[s] \cup {r}
        /\ pc'[s] = "deleting" /\ files' = files
    BY <1>0, <1>3, <2>1, <2>2 DEF ReadFile, TypeOK
  <2>4. QED
    BY <1>00, <2>2, <2>3 DEF DrainsOne
<1>4. CASE DeleteFile(s)
  <2>1. /\ names'[s] = names[s] /\ at'[s] = {} /\ held'[s] = held[s]
        /\ pc'[s] = IF names[s] = {} THEN "sweeping" ELSE "draining"
        /\ files' = files \ at[s]
    BY <1>0, <1>4 DEF DeleteFile, TypeOK
  <2>2. QED
    BY <1>00, <2>1 DEF DrainsOne
<1>5. CASE SweepDone(s)
  BY <1>0, <1>00, <1>5 DEF SweepDone, TypeOK, DrainsOne
<1>6. CASE Restore(s)
  <2>1. /\ names'[s] = names[s] /\ at'[s] = at[s] /\ held'[s] = {} /\ pc'[s] = "idle"
        /\ pc[s] = "sweeping"
    BY <1>0, <1>6 DEF Restore, TypeOK
  <2>2. QED
    BY <1>00, <2>1 DEF DrainsOne
<1>7. CASE SweepThrows(s)
  BY <1>0, <1>00, <1>7 DEF SweepThrows, TypeOK, DrainsOne
<1>8. CASE Leaves(s)
  BY <1>0, <1>00, <1>8 DEF Leaves, TypeOK, DrainsOne
<1>9. ASSUME NEW where \in Awaiting, Awaits(s, where) PROVE DrainsOne(s)'
  BY <1>0, <1>00, <1>9 DEF Awaits, Takes, Continues, TypeOK, DrainsOne
<1>10. CASE Dies
  BY <1>10 DEF Dies, DrainsOne
<1>11. ASSUME NEW r \in Requests, Enqueue(r) PROVE DrainsOne(s)'
  <2>1. r \notin held[s] /\ files' = files \cup {r} /\ UNCHANGED <<pc, names, at, held>>
    BY <1>0, <1>11 DEF Enqueue, PendingAsked, Pending
  <2>2. QED
    BY <1>00, <2>1 DEF DrainsOne
<1>12. CASE UNCHANGED requests
  BY <1>00, <1>12 DEF requests, DrainsOne
<1>13. QED
  BY <1>1, <1>2, <1>3, <1>4, <1>5, <1>6, <1>7, <1>8, <1>9, <1>10, <1>11, <1>12, OneKinds DEF Drain

\* Only asking makes a request pending; only an outcome, an exception or a crash
\* ends that.
LEMMA PendingSteps ==
    ASSUME OneWindow, OneInv, [Next]_vars, NEW r \in Requests
    PROVE  /\ \A q \in Requests :
                 Enqueue(q) => (Pending(r)' <=> Pending(r) \/ r = q)
           /\ \A s \in Sweeps :
                 /\ Drain(s) \/ Restore(s) => (Pending(r)' <=> Pending(r))
                 /\ \A where \in Awaiting : Awaits(s, where) => (Pending(r)' <=> Pending(r))
                 /\ Leaves(s) => (Pending(r)' <=> Pending(r) /\ r # Current(s))
                 /\ SweepThrows(s) => (Pending(r)' <=> Pending(r) /\ r \notin held[s])
           /\ Dies => (Pending(r)' <=> r \in files)
<1>0. TypeOK /\ Exclusive /\ \A s \in Sweeps : DrainsOne(s)
  BY DEF OneInv, IInv, Drains
<1> USE DEF Goto, SetTries, drain, holding, history, Awaiting, Pending
<1>1. ASSUME NEW q \in Requests, Enqueue(q) PROVE Pending(r)' <=> Pending(r) \/ r = q
  BY <1>1 DEF Enqueue
<1>2. ASSUME NEW s \in Sweeps PROVE
           /\ Drain(s) \/ Restore(s) => (Pending(r)' <=> Pending(r))
           /\ \A where \in Awaiting : Awaits(s, where) => (Pending(r)' <=> Pending(r))
           /\ Leaves(s) => (Pending(r)' <=> Pending(r) /\ r # Current(s))
           /\ SweepThrows(s) => (Pending(r)' <=> Pending(r) /\ r \notin held[s])
  <2>1. ASSUME StartSweep(s) \/ SweepDone(s) \/ \E where \in Awaiting : Awaits(s, where)
        PROVE  Pending(r)' <=> Pending(r)
    <3>1. UNCHANGED <<files, held>>
      BY <2>1 DEF StartSweep, SweepDone, Awaits
    <3>2. QED
      BY <3>1
  <2>2. ASSUME ReadFile(s) PROVE Pending(r)' <=> Pending(r)
    <3>1. PICK q \in names[s] : held' = [held EXCEPT ![s] = @ \cup ({q} \cap files)]
      BY <2>2 DEF ReadFile
    <3>2. QED
      BY <1>0, <2>2, <3>1 DEF ReadFile, TypeOK
  <2>3. ASSUME DeleteFile(s) PROVE Pending(r)' <=> Pending(r)
    BY <1>0, <2>3 DEF DeleteFile, DrainsOne
  <2>4. ASSUME Restore(s) PROVE Pending(r)' <=> Pending(r)
    BY <1>0, <2>4 DEF Restore, ToRestore, TypeOK
  <2>5. ASSUME Leaves(s) PROVE Pending(r)' <=> Pending(r) /\ r # Current(s)
    <3>1. Current(s) \in held[s]
      BY <1>0, <2>5, CurrentIn DEF Leaves
    <3>2. at[s] = {}
      BY <1>0, <2>5 DEF Leaves, DrainsOne
    <3>3. Current(s) \notin files /\ \A t \in Sweeps \ {s} : Current(s) \notin held[t]
      BY <1>0, <3>1, <3>2 DEF DrainsOne, Exclusive
    <3>4. /\ files' = files /\ held'[s] = held[s] \ {Current(s)}
          /\ \A t \in Sweeps \ {s} : held'[t] = held[t]
      BY <1>0, <2>5 DEF Leaves, TypeOK
    <3>5. QED
      BY <3>1, <3>3, <3>4
  <2>6. ASSUME SweepThrows(s) PROVE Pending(r)' <=> Pending(r) /\ r \notin held[s]
    <3>1. at[s] = {}
      BY <1>0, <2>6 DEF SweepThrows, DrainsOne
    <3>2. /\ files' = files /\ held'[s] = {}
          /\ \A t \in Sweeps \ {s} : held'[t] = held[t]
      BY <1>0, <2>6 DEF SweepThrows, TypeOK
    <3>3. QED
      BY <1>0, <3>1, <3>2 DEF DrainsOne, Exclusive
  <2>7. QED
    BY <2>1, <2>2, <2>3, <2>4, <2>5, <2>6 DEF Drain
<1>3. ASSUME Dies PROVE Pending(r)' <=> r \in files
  BY <1>3 DEF Dies
<1>4. QED
  BY <1>1, <1>2, <1>3

LEMMA NextExclusive ==
    ASSUME OneWindow, OneInv, [Next]_vars
    PROVE  Exclusive'
<1> USE DEF Goto, SetTries, drain, holding, history, Awaiting
<1>0. TypeOK /\ Exclusive /\ \A s \in Sweeps : DrainsOne(s)
  BY DEF OneInv, IInv, Drains
<1>1. ASSUME \A s \in Sweeps : held'[s] \subseteq held[s] PROVE Exclusive'
  BY <1>0, <1>1 DEF Exclusive
<1>2. ASSUME NEW s \in Sweeps, ReadFile(s) PROVE Exclusive'
  <2>1. PICK r \in names[s] : held' = [held EXCEPT ![s] = @ \cup ({r} \cap files)]
    BY <1>2 DEF ReadFile
  <2>2. r \in files
    BY <1>0 DEF DrainsOne
  <2>3. ASSUME NEW t \in Sweeps, t # s PROVE r \notin held[t]
    <3>1. at[t] = {}
      BY <1>0, <1>2, <2>3, Alone DEF ReadFile, InSync, DrainsOne
    <3>2. QED
      BY <1>0, <2>2, <3>1 DEF DrainsOne
  <2>4. QED
    BY <1>0, <2>1, <2>3 DEF Exclusive, TypeOK
<1>3. ASSUME NEW s \in Sweeps,
             \/ StartSweep(s) \/ DeleteFile(s) \/ SweepDone(s)
             \/ Restore(s) \/ SweepThrows(s)
             \/ Leaves(s) \/ \E where \in Awaiting : Awaits(s, where)
      PROVE  \A t \in Sweeps : held'[t] \subseteq held[t]
  BY <1>0, <1>3 DEF Drain, StartSweep, DeleteFile, SweepDone, Restore, SweepThrows, Leaves,
     Awaits, TypeOK
<1>4. ASSUME Dies PROVE \A t \in Sweeps : held'[t] \subseteq held[t]
  BY <1>4 DEF Dies
<1>5. ASSUME NEW r \in Requests, Enqueue(r) PROVE \A t \in Sweeps : held'[t] \subseteq held[t]
  BY <1>5 DEF Enqueue
<1>6. ASSUME UNCHANGED requests PROVE \A t \in Sweeps : held'[t] \subseteq held[t]
  BY <1>6 DEF requests
<1>7. QED
  BY <1>1, <1>2, <1>3, <1>4, <1>5, <1>6, OneKinds DEF Drain

\* What the steps do to the histories.
LEMMA HistorySteps ==
    ASSUME OneWindow, OneInv, [Next]_vars
    PROVE  /\ \A r \in Requests : Enqueue(r) =>
                 asked' = asked \cup {r} /\ UNCHANGED <<ledger, ran, offered, lost>>
           /\ \A s \in Sweeps :
                 /\ Drain(s) => UNCHANGED <<asked, ledger, ran, offered, lost>>
                 /\ Restore(s) => UNCHANGED <<asked, ran, offered, lost>>
                 /\ SweepThrows(s) =>
                       UNCHANGED <<asked, ledger, ran, offered>> /\ lost' = lost \cup held[s]
  BY DEF Enqueue, Drain, StartSweep, ReadFile, DeleteFile, SweepDone, Restore, SweepThrows, holding, history

LEMMA NextPendingAsked ==
    ASSUME OneWindow, OneInv, [Next]_vars
    PROVE  PendingAsked' /\ LostIsGone'
<1>0. TypeOK /\ PendingAsked /\ LostIsGone /\ \A s \in Sweeps : DrainsOne(s)
  BY DEF OneInv, IInv, Drains
<1> SUFFICES ASSUME NEW r \in Requests
             PROVE  /\ Pending(r)' => r \in asked'
                    /\ r \in lost' => r \in asked' /\ ~Pending(r)'
  BY <1>0, NextTypeOK DEF OneInv, TypeOK, PendingAsked, LostIsGone
<1>1. Pending(r) => r \in asked
  BY <1>0 DEF PendingAsked
<1>2. r \in lost => r \in asked /\ ~Pending(r)
  BY <1>0 DEF LostIsGone
<1>3. ASSUME Pending(r)' => Pending(r), UNCHANGED <<asked, lost>>
      PROVE  (Pending(r)' => r \in asked') /\ (r \in lost' => r \in asked' /\ ~Pending(r)')
  BY <1>1, <1>2, <1>3
<1>4. ASSUME NEW q \in Requests, Enqueue(q)
      PROVE  (Pending(r)' => r \in asked') /\ (r \in lost' => r \in asked' /\ ~Pending(r)')
  <2>1. (Pending(r)' <=> Pending(r) \/ r = q) /\ asked' = asked \cup {q} /\ lost' = lost
    BY <1>4, PendingSteps, HistorySteps
  <2>2. q \notin asked
    BY <1>4 DEF Enqueue
  <2>3. QED
    BY <1>1, <1>2, <2>1, <2>2
<1>5. ASSUME NEW s \in Sweeps, SweepThrows(s)
      PROVE  (Pending(r)' => r \in asked') /\ (r \in lost' => r \in asked' /\ ~Pending(r)')
  <2>1. (Pending(r)' <=> Pending(r) /\ r \notin held[s]) /\ asked' = asked
        /\ lost' = lost \cup held[s]
    BY <1>5, PendingSteps, HistorySteps
  <2>2. r \in held[s] => Pending(r)
    BY DEF Pending
  <2>3. QED
    BY <1>1, <1>2, <2>1, <2>2
<1>6. CASE Dies
  <2>1. (Pending(r)' <=> r \in files) /\ asked' = asked
        /\ lost' = lost \cup (Held \ files)
    BY <1>6, PendingSteps DEF Dies
  <2>2. r \in files => Pending(r)
    BY DEF Pending
  <2>3. r \in Held => Pending(r)
    BY DEF Pending, Held
  <2>4. r \in lost' => r \in lost \/ (Pending(r) /\ r \notin files)
    BY <2>1, <2>3
  <2>5. r \in lost' => r \notin files
    BY <1>2, <2>2, <2>4
  <2>6. QED
    BY <1>1, <1>2, <2>1, <2>2, <2>4, <2>5
<1>7. ASSUME NEW s \in Sweeps,
             \/ Drain(s) \/ Restore(s) \/ Leaves(s) \/ \E where \in Awaiting : Awaits(s, where)
      PROVE  (Pending(r)' => Pending(r)) /\ UNCHANGED <<asked, lost>>
  <2>1. Pending(r)' => Pending(r)
    <3>1. CASE Leaves(s)
      BY <3>1, PendingSteps
    <3>2. CASE ~Leaves(s)
      BY <1>7, <3>2, PendingSteps
    <3>3. QED
      BY <3>1, <3>2
  <2>2. UNCHANGED <<asked, lost>>
    BY <1>7, HistorySteps DEF Leaves, Awaits
  <2>3. QED
    BY <2>1, <2>2
<1>8. ASSUME UNCHANGED requests
      PROVE  (Pending(r)' => Pending(r)) /\ UNCHANGED <<asked, lost>>
  BY <1>8 DEF requests, Pending
<1>9. QED
  BY <1>3, <1>4, <1>5, <1>6, <1>7, <1>8, OneKinds

LEMMA NextRunningLeaves ==
    ASSUME OneWindow, OneInv, [Next]_vars
    PROVE  RunningLeaves'
<1> USE DEF Goto, SetTries, drain, holding, history
<1>0. TypeOK /\ RunningLeaves /\ Exclusive /\ PendingAsked /\ \A s \in Sweeps : DrainsOne(s)
  BY DEF OneInv, IInv, Drains
<1> DEFINE Leaving(r) ==
      /\ r \in asked /\ r \notin files
      /\ \A s \in Sweeps : r \in held[s] => pc[s] \in Awaiting /\ r = Current(s)
<1>00. \A r \in Requests : ran[r] > 0 => Leaving(r)
  BY <1>0 DEF RunningLeaves
<1> SUFFICES ASSUME NEW r \in Requests, ran'[r] > 0
             PROVE  /\ r \in asked' /\ r \notin files'
                    /\ \A s \in Sweeps : r \in held'[s] => pc'[s] \in Awaiting /\ r = Current(s)'
  BY DEF RunningLeaves
<1> DEFINE Goal == /\ r \in asked' /\ r \notin files'
                   /\ \A s \in Sweeps : r \in held'[s] => pc'[s] \in Awaiting /\ r = Current(s)'
<1> HIDE DEF Leaving
<1>1. ASSUME NEW s \in Sweeps, NEW where \in Awaiting, Awaits(s, where) PROVE Goal
  <2>1. Current(s) \in held[s] /\ Current(s) \in Requests /\ at[s] = {}
    BY <1>0, <1>1, CurrentIn DEF Awaits, Takes, Continues, Awaiting, DrainsOne
  <2>2. UNCHANGED <<asked, files, held>> /\ \A t \in Sweeps : Current(t)' = Current(t)
    BY <1>1, CurrentStays DEF Awaits
  <2>3. pc'[s] \in Awaiting /\ \A t \in Sweeps \ {s} : pc'[t] = pc[t]
    BY <1>0, <1>1 DEF Awaits, TypeOK
  <2>4. CASE r = Current(s)
    <3>1. r \in asked /\ r \notin files
      BY <1>0, <2>1, <2>4 DEF PendingAsked, Pending, DrainsOne
    <3>2. \A t \in Sweeps : r \in held[t] => t = s
      BY <1>0, <2>1, <2>4 DEF Exclusive
    <3>3. QED
      BY <2>2, <2>3, <2>4, <3>1, <3>2
  <2>5. CASE r # Current(s)
    <3>1. ran'[r] = ran[r]
      BY <1>0, <1>1, <2>1, <2>5 DEF Awaits, TypeOK
    <3>2. Leaving(r)
      BY <1>00, <3>1
    <3>3. \A t \in Sweeps : r \in held[t] => t # s /\ pc[t] \in Awaiting /\ r = Current(t)
      BY <2>5, <3>2 DEF Leaving
    <3>4. QED
      BY <2>2, <2>3, <3>2, <3>3 DEF Leaving
  <2>6. QED
    BY <2>4, <2>5
<1>2. ASSUME UNCHANGED ran PROVE Leaving(r)
  BY <1>00, <1>2
\* A step that leaves ran alone keeps r away from the disk and from new hands.
<1>3. ASSUME ran' = ran, asked \subseteq asked', Leaving(r) => r \notin files',
             Leaving(r) => \A s \in Sweeps : r \in held'[s] =>
                r \in held[s] /\ pc'[s] = pc[s] /\ Current(s)' = Current(s)
      PROVE  Goal
  BY <1>2, <1>3 DEF Leaving
<1>4. ASSUME NEW q \in Requests, Enqueue(q) PROVE Goal
  <2>1. ran' = ran /\ asked \subseteq asked' /\ UNCHANGED <<held, pc>> /\ files' = files \cup {q}
    BY <1>4 DEF Enqueue
  <2>2. Leaving(r) => r # q
    BY <1>4 DEF Enqueue, Leaving
  <2>3. Leaving(r) => r \notin files'
    BY <2>1, <2>2 DEF Leaving
  <2>4. \A s \in Sweeps : Current(s)' = Current(s)
    BY <2>1, CurrentStays
  <2>5. QED
    BY <1>3, <2>1, <2>3, <2>4
<1>5. ASSUME NEW s \in Sweeps,
             \/ Drain(s) \/ Restore(s) \/ SweepThrows(s) \/ Leaves(s)
      PROVE  Goal
  <2>1. ran' = ran /\ asked' = asked
    <3>1. CASE Leaves(s)
      BY <3>1 DEF Leaves
    <3>2. CASE Drain(s) \/ Restore(s) \/ SweepThrows(s)
      BY <3>2, HistorySteps
    <3>3. QED
      BY <1>5, <3>1, <3>2
  <2>2. \A t \in Sweeps \ {s} :
           pc'[t] = pc[t] /\ held'[t] = held[t] /\ Current(t)' = Current(t)
    BY <1>0, <1>5, OthersKeep
  <2>3. ASSUME Leaving(r) PROVE r \notin files'
    <3>1. CASE Restore(s)
      <4>1. r \notin held[s]
        BY <2>3, <3>1 DEF Leaving, Restore, Awaiting
      <4>2. QED
        BY <2>3, <3>1, <4>1 DEF Leaving, Restore, ToRestore
    <3>2. CASE ~Restore(s)
      BY <1>5, <2>3, <3>2 DEF Leaving, Drain, StartSweep, ReadFile, DeleteFile, SweepDone,
         SweepThrows, Leaves
    <3>3. QED
      BY <3>1, <3>2
  <2>4. ASSUME Leaving(r) PROVE r \notin held'[s]
    <3>1. CASE SweepThrows(s) \/ Restore(s)
      BY <1>0, <3>1 DEF SweepThrows, Restore, TypeOK
    <3>2. CASE Leaves(s)
      <4>1. held'[s] = held[s] \ {Current(s)}
        BY <1>0, <3>2 DEF Leaves, TypeOK
      <4>2. QED
        BY <2>4, <4>1 DEF Leaving
    <3>3. CASE ReadFile(s)
      <4>1. PICK q \in names[s] : held' = [held EXCEPT ![s] = @ \cup ({q} \cap files)]
        BY <3>3 DEF ReadFile
      <4>2. pc[s] \notin Awaiting /\ held'[s] \subseteq held[s] \cup files
        BY <1>0, <3>3, <4>1 DEF ReadFile, TypeOK, Awaiting
      <4>3. QED
        BY <2>4, <4>2 DEF Leaving
    <3>4. CASE StartSweep(s) \/ DeleteFile(s) \/ SweepDone(s)
      <4>1. pc[s] \notin Awaiting /\ held' = held
        BY <3>4 DEF StartSweep, DeleteFile, SweepDone, Awaiting
      <4>2. QED
        BY <2>4, <4>1 DEF Leaving
    <3>5. QED
      BY <1>5, <3>1, <3>2, <3>3, <3>4 DEF Drain
  <2>5. QED
    BY <1>3, <2>1, <2>2, <2>3, <2>4
<1>6. CASE Dies
  <2>1. ran' = ran /\ asked' = asked /\ files' = files /\ \A s \in Sweeps : held'[s] = {}
    BY <1>6 DEF Dies
  <2>2. Leaving(r) => r \notin files'
    BY <2>1 DEF Leaving
  <2>3. QED
    BY <1>3, <2>1, <2>2
<1>7. CASE UNCHANGED requests
  <2>1. UNCHANGED <<ran, asked, files, held, pc>>
    BY <1>7 DEF requests
  <2>2. \A s \in Sweeps : Current(s)' = Current(s)
    BY <2>1, CurrentStays
  <2>3. Leaving(r) => r \notin files'
    BY <2>1 DEF Leaving
  <2>4. QED
    BY <1>3, <2>1, <2>2, <2>3
<1>8. QED
  BY <1>1, <1>4, <1>5, <1>6, <1>7, OneKinds

\* What a sweep awaits keeps its count while the sweep and the request stay.
LEMMA NextCounted ==
    ASSUME OneWindow, OneInv, [Next]_vars
    PROVE  Counted'
<1> USE DEF Goto, SetTries, drain, holding, history
<1>0. TypeOK /\ RunningLeaves /\ Exclusive /\ RunsWithinTries /\ AwaitsForRequest
      /\ \A s \in Sweeps : CountedOne(s)
  BY DEF OneInv, IInv, Counted
<1>00. Tries \in Nat /\ Tries >= 1 /\ \A r \in Requests : MayRun(r) \in Nat /\ MayRun(r) >= 1
  BY QueueAssumption DEF MayRun
<1>1. ASSUME UNCHANGED ran,
             \A s \in Sweeps : pc'[s] \in Awaiting =>
                pc'[s] = pc[s] /\ tries'[s] = tries[s] /\ Current(s)' = Current(s)
      PROVE  Counted'
  <2>1. RunsWithinTries'
    BY <1>0, <1>1 DEF RunsWithinTries, MayRun
  <2>2. ASSUME NEW s \in Sweeps, pc'[s] \in Awaiting PROVE CountedOne(s)'
    BY <1>0, <1>1, <2>2 DEF CountedOne, Owed, MayRun
  <2>3. \A s \in Sweeps : CountedOne(s)'
    BY <2>2 DEF CountedOne
  <2>4. QED
    BY <2>1, <2>3 DEF Counted
<1>2. ASSUME NEW s \in Sweeps, NEW where \in Awaiting, Awaits(s, where)
      PROVE  Counted'
  <2>1. Current(s) \in held[s] /\ Current(s) \in Requests
    BY <1>0, <1>2, CurrentIn DEF Awaits
  <2>2. held' = held /\ \A t \in Sweeps : Current(t)' = Current(t)
    BY <1>2, CurrentStays DEF Awaits
  <2>3. pc'[s] = where
    BY <1>0, <1>2 DEF Awaits, TypeOK
  <2> DEFINE n == ran[Current(s)]
             m == IF where = "running" THEN n + 1 ELSE n
             own == IF where \in {"offering", "opening"} THEN 1 ELSE 0
  <2>4. n \in Nat /\ ran'[Current(s)] = m
    BY <1>0, <1>2, <2>1 DEF Awaits, TypeOK
  <2>5. \A r \in Requests \ {Current(s)} : ran'[r] = ran[r]
    BY <1>0, <1>2, <2>1 DEF Awaits, TypeOK
  <2>6. m + own <= tries'[s] /\ tries'[s] <= MayRun(Current(s)) /\ tries'[s] \in Nat
    <3>1. CASE Takes(s, where)
      <4>1. n = 0
        BY <1>0, <2>1, <2>4, <3>1 DEF RunningLeaves, Takes, Awaiting
      <4>2. tries'[s] = IF where = "measuring" THEN 0 ELSE 1
        BY <1>0, <3>1 DEF Takes, TypeOK
      <4>3. where # "running"
        BY <3>1 DEF Takes
      <4>4. QED
        BY <1>00, <2>1, <4>1, <4>2, <4>3 DEF Awaiting
    <3>2. CASE Continues(s, where)
      <4>1. /\ n + Owed(s) <= tries[s] /\ tries[s] <= MayRun(Current(s))
            /\ tries[s] \in Nat
        BY <1>0, <3>2 DEF Continues, CountedOne, TypeOK
      <4>2. CASE pc[s] = "measuring" /\ where = "offering"
        <5>1. tries[s] < MayRun(Current(s)) /\ tries'[s] = tries[s] + 1
          BY <1>0, <3>2, <4>2 DEF Continues, TypeOK, Awaiting
        <5>2. QED
          BY <1>00, <2>1, <2>4, <4>1, <4>2, <5>1 DEF Owed
      <4>3. CASE ~(pc[s] = "measuring" /\ where = "offering")
        <5>1. /\ tries' = tries
              /\ \/ pc[s] = "offering" /\ where = "opening"
                 \/ pc[s] = "opening" /\ where = "running"
                 \/ where = "measuring"
          BY <3>2, <4>3 DEF Continues
        <5>2. QED
          BY <1>00, <2>1, <2>4, <4>1, <5>1 DEF Owed
      <4>4. QED
        BY <4>2, <4>3
    <3>3. QED
      BY <1>2, <3>1, <3>2 DEF Awaits
  <2>7. CountedOne(s)'
    BY <2>2, <2>3, <2>4, <2>6 DEF CountedOne, Owed, MayRun
  <2>8. ASSUME NEW t \in Sweeps, t # s, pc'[t] \in Awaiting PROVE CountedOne(t)'
    <3>1. pc'[t] = pc[t] /\ tries'[t] = tries[t]
      BY <1>0, <1>2, <2>8, OthersKeep
    <3>2. held[t] # {} /\ Current(t) \in held[t] /\ Current(t) \in Requests
      BY <1>0, <2>8, <3>1, CurrentIn DEF AwaitsForRequest
    <3>3. Current(t) # Current(s)
      BY <1>0, <2>1, <2>8, <3>2 DEF Exclusive
    <3>4. ran'[Current(t)] = ran[Current(t)]
      BY <2>5, <3>2, <3>3
    <3>5. CountedOne(t)
      BY <1>0
    <3>6. QED
      BY <2>2, <2>8, <3>1, <3>4, <3>5 DEF CountedOne, Owed, MayRun
  <2>9. \A t \in Sweeps : CountedOne(t)'
    BY <2>7, <2>8 DEF CountedOne
  <2>10. RunsWithinTries'
    <3>1. m <= MayRun(Current(s))
      BY <1>00, <2>1, <2>4, <2>6
    <3>2. QED
      BY <1>0, <2>4, <2>5, <3>1 DEF RunsWithinTries, MayRun
  <2>11. QED
    BY <2>9, <2>10 DEF Counted
<1>3. ASSUME NEW s \in Sweeps,
             \/ Drain(s) \/ Restore(s) \/ SweepThrows(s) \/ Leaves(s)
      PROVE  Counted'
  <2>1. ran' = ran
    <3>1. CASE Leaves(s)
      BY <3>1 DEF Leaves
    <3>2. CASE ~Leaves(s)
      BY <1>3, <3>2, HistorySteps
    <3>3. QED
      BY <3>1, <3>2
  <2>2. pc'[s] \notin Awaiting
    BY <1>0, <1>3 DEF Drain, StartSweep, ReadFile, DeleteFile, SweepDone, Restore, SweepThrows,
       Leaves, TypeOK, Awaiting
  <2>3. ASSUME NEW t \in Sweeps, pc'[t] \in Awaiting
        PROVE  pc'[t] = pc[t] /\ tries'[t] = tries[t] /\ Current(t)' = Current(t)
    BY <1>0, <1>3, <2>2, <2>3, OthersKeep
  <2>4. QED
    BY <1>1, <2>1, <2>3
<1>4. CASE Dies
  BY <1>1, <1>4 DEF Dies, Awaiting
<1>5. ASSUME NEW r \in Requests, Enqueue(r) PROVE Counted'
  <2>1. UNCHANGED <<ran, pc, held, tries>>
    BY <1>5 DEF Enqueue
  <2>2. QED
    BY <1>1, <2>1, CurrentStays
<1>6. CASE UNCHANGED requests
  <2>1. UNCHANGED <<ran, pc, held, tries>>
    BY <1>6 DEF requests
  <2>2. QED
    BY <1>1, <2>1, CurrentStays
<1>7. QED
  BY <1>2, <1>3, <1>4, <1>5, <1>6, OneKinds

LEMMA NextAwaitsKnown ==
    ASSUME OneWindow, OneInv, [Next]_vars
    PROVE  AwaitsKnown'
<1> USE DEF Goto, SetTries, drain, holding, history
<1>0. TypeOK /\ AwaitsKnown
  BY DEF OneInv, IInv
<1> SUFFICES ASSUME NEW s \in Sweeps, pc'[s] \in Awaiting
             PROVE  Kind[Current(s)'] = "fix" \/ Current(s)' \in offered'
  BY DEF AwaitsKnown
<1>1. ASSUME pc'[s] = pc[s], held'[s] = held[s], offered \subseteq offered'
      PROVE  Kind[Current(s)'] = "fix" \/ Current(s)' \in offered'
  BY <1>0, <1>1, CurrentStays DEF AwaitsKnown
<1>2. ASSUME NEW t \in Sweeps, t # s,
             \/ Drain(t) \/ Restore(t) \/ SweepThrows(t)
             \/ Leaves(t) \/ \E where \in Awaiting : Awaits(t, where)
      PROVE  (pc'[s] = pc[s] /\ held'[s] = held[s]) /\ offered \subseteq offered'
  <2>1. offered \subseteq offered'
    BY <1>2 DEF Drain, StartSweep, ReadFile, DeleteFile, SweepDone, Restore, SweepThrows,
       Leaves, Awaits, Takes, Continues
  <2>2. QED
    BY <1>0, <1>2, <2>1, OthersKeep
<1>3. ASSUME Drain(s) \/ Restore(s) \/ SweepThrows(s) \/ Leaves(s)
      PROVE  FALSE
  BY <1>0, <1>3 DEF Drain, StartSweep, ReadFile, DeleteFile, SweepDone, Restore, SweepThrows,
     Leaves, Awaiting, TypeOK
<1>4. ASSUME NEW where \in Awaiting, Awaits(s, where)
      PROVE  Kind[Current(s)'] = "fix" \/ Current(s)' \in offered'
  <2>1. Current(s)' = Current(s)
    BY <1>4, CurrentStays DEF Awaits
  <2>2. CASE Takes(s, where)
    BY <2>1, <2>2 DEF Takes
  <2>3. CASE Continues(s, where)
    BY <1>0, <2>1, <2>3 DEF Continues, AwaitsKnown
  <2>4. QED
    BY <1>4, <2>2, <2>3 DEF Awaits
<1>5. ASSUME Dies PROVE FALSE
  BY <1>5 DEF Dies, Awaiting
<1>6. ASSUME NEW r \in Requests, Enqueue(r) PROVE UNCHANGED <<pc, held, offered>>
  BY <1>6 DEF Enqueue
<1>7. ASSUME UNCHANGED requests PROVE UNCHANGED <<pc, held, offered>>
  BY <1>7 DEF requests
<1>8. QED
  BY <1>1, <1>2, <1>3, <1>4, <1>5, <1>6, <1>7, OneKinds

\* What is known of a request that is no longer pending stays known; only the
\* restoring of a request can write over its outcome.
Known(r) == r \in lost \/ ledger[r] \in Terminal \/ r \in offered

LEMMA KnownStays ==
    ASSUME OneWindow, OneInv, [Next]_vars, NEW r \in Requests
    PROVE  Known(r) => Known(r)' \/ Pending(r)'
<1>0. TypeOK
  BY DEF OneInv, IInv
<1> SUFFICES ASSUME Known(r) PROVE Known(r)' \/ Pending(r)'
  OBVIOUS
<1> USE DEF Known
<1>1. ASSUME UNCHANGED ledger, offered \subseteq offered', lost \subseteq lost'
      PROVE  Known(r)'
  BY <1>1
<1>2. ASSUME NEW q \in Requests, Enqueue(q) PROVE Known(r)'
  BY <1>1, <1>2, HistorySteps
<1>3. ASSUME NEW s \in Sweeps, Drain(s) \/ SweepThrows(s) PROVE Known(r)'
  BY <1>1, <1>3, HistorySteps
<1>4. ASSUME NEW s \in Sweeps, Restore(s) PROVE Known(r)' \/ Pending(r)'
  <2>1. CASE r \in held[s]
    <3>1. Pending(r)
      BY <2>1 DEF Pending
    <3>2. QED
      BY <1>4, <3>1, PendingSteps
  <2>2. CASE r \notin held[s]
    <3>1. ledger'[r] = ledger[r] /\ UNCHANGED <<offered, lost>>
      BY <1>4, <2>2, HistorySteps DEF Restore
    <3>2. QED
      BY <3>1
  <2>3. QED
    BY <2>1, <2>2
<1>5. ASSUME NEW s \in Sweeps, Leaves(s) PROVE Known(r)'
  <2>1. UNCHANGED <<offered, lost>>
    BY <1>5 DEF Leaves
  <2>2. ledger'[r] = ledger[r] \/ ledger'[r] \in Terminal
    BY <1>5 DEF Leaves
  <2>3. QED
    BY <2>1, <2>2
<1>6. ASSUME NEW s \in Sweeps, NEW where \in Awaiting, Awaits(s, where) PROVE Known(r)'
  <2>1. UNCHANGED <<ledger, lost>> /\ offered \subseteq offered'
    BY <1>6 DEF Awaits, Takes, Continues
  <2>2. QED
    BY <1>1, <2>1
<1>7. ASSUME Dies PROVE Known(r)'
  BY <1>7 DEF Dies
<1>8. ASSUME UNCHANGED requests PROVE Known(r)'
  BY <1>8 DEF requests
<1>9. QED
  BY <1>2, <1>3, <1>4, <1>5, <1>6, <1>7, <1>8, OneKinds

\* A request that leaves has its outcome, or was offered before.
LEMMA LeavesKnown ==
    ASSUME OneInv, NEW s \in Sweeps, Leaves(s)
    PROVE  ledger'[Current(s)] \in Terminal \/ Current(s) \in offered'
  BY DEF Leaves, OneInv, AwaitsKnown

LEMMA NextNothingVanishes ==
    ASSUME OneWindow, OneInv, [Next]_vars
    PROVE  NothingVanishes'
<1>0. TypeOK /\ TypeOK' /\ NothingVanishes
  BY NextTypeOK DEF OneInv, IInv
<1> SUFFICES ASSUME NEW r \in Requests, r \in asked' PROVE Pending(r)' \/ Known(r)'
  BY <1>0 DEF NothingVanishes, Known, TypeOK
<1>1. r \in asked => Pending(r) \/ Known(r)
  BY <1>0 DEF NothingVanishes, Known
<1>2. ASSUME asked' = asked, Pending(r)' <=> Pending(r) PROVE Pending(r)' \/ Known(r)'
  BY <1>1, <1>2, KnownStays
<1>3. ASSUME NEW q \in Requests, Enqueue(q) PROVE Pending(r)' \/ Known(r)'
  <2>1. asked' = asked \cup {q} /\ (Pending(r)' <=> Pending(r) \/ r = q)
    BY <1>3, PendingSteps, HistorySteps
  <2>2. QED
    BY <1>1, <2>1, KnownStays
<1>4. ASSUME NEW s \in Sweeps, Drain(s) \/ Restore(s)
      PROVE  asked' = asked /\ (Pending(r)' <=> Pending(r))
  BY <1>4, PendingSteps, HistorySteps
<1>5. ASSUME NEW s \in Sweeps, NEW where \in Awaiting, Awaits(s, where)
      PROVE  asked' = asked /\ (Pending(r)' <=> Pending(r))
  BY <1>5, PendingSteps DEF Awaits
<1>6. ASSUME NEW s \in Sweeps, Leaves(s) PROVE Pending(r)' \/ Known(r)'
  <2>1. asked' = asked /\ (Pending(r)' <=> Pending(r) /\ r # Current(s))
    BY <1>6, PendingSteps DEF Leaves
  <2>2. r = Current(s) => Known(r)'
    BY <1>6, LeavesKnown DEF Known
  <2>3. QED
    BY <1>1, <2>1, <2>2, KnownStays
<1>7. ASSUME NEW s \in Sweeps, SweepThrows(s) PROVE Pending(r)' \/ Known(r)'
  <2>1. asked' = asked /\ (Pending(r)' <=> Pending(r) /\ r \notin held[s])
    BY <1>7, PendingSteps, HistorySteps
  <2>2. r \in held[s] => Known(r)'
    BY <1>7 DEF SweepThrows, Known
  <2>3. QED
    BY <1>1, <2>1, <2>2, KnownStays
<1>8. CASE Dies
  <2>1. asked' = asked /\ (Pending(r)' <=> r \in files) /\ lost' = lost \cup (Held \ files)
    BY <1>8, PendingSteps DEF Dies
  <2>2. Pending(r) => r \in files \/ r \in Held
    BY DEF Pending, Held
  <2>3. r \in Held \ files => Known(r)'
    BY <2>1 DEF Known
  <2>4. QED
    BY <1>1, <2>1, <2>2, <2>3, KnownStays
<1>9. ASSUME UNCHANGED requests PROVE asked' = asked /\ (Pending(r)' <=> Pending(r))
  BY <1>9 DEF requests, Pending
<1>10. QED
  BY <1>2, <1>3, <1>4, <1>5, <1>6, <1>7, <1>8, <1>9, OneKinds

-------------------------------------------------------------------------------
(***************************************************************************)
(* The invariants are inductive                                            *)
(***************************************************************************)
LEMMA InitIInv == Init => IInv
  BY InitTypeOK DEF Init, IInv, AwaitsForRequest, Awaiting

LEMMA NextIInv == IInv /\ [Next]_vars => IInv'
  BY NextTypeOK, NextAwaits DEF IInv

LEMMA InitOneInv == Init => OneInv
<1> SUFFICES ASSUME Init PROVE OneInv
  OBVIOUS
<1>1. IInv
  BY InitIInv
<1> USE DEF Init, InSync, Pending
<1>2. TakeTurns /\ Exclusive /\ PendingAsked /\ AwaitsKnown /\ LostIsGone /\ NothingVanishes
  BY DEF TakeTurns, Exclusive, PendingAsked, AwaitsKnown, Awaiting, LostIsGone,
     NothingVanishes
<1>3. Drains
  BY DEF Drains, DrainsOne
<1>4. RunningLeaves
  BY DEF RunningLeaves
<1>5. Counted
  BY QueueAssumption DEF Counted, CountedOne, Awaiting, RunsWithinTries, MayRun
<1>6. QED
  BY <1>1, <1>2, <1>3, <1>4, <1>5 DEF OneInv

LEMMA NextOneInv ==
    ASSUME OneWindow, OneInv, [Next]_vars
    PROVE  OneInv'
<1>1. IInv'
  BY NextIInv DEF OneInv
<1>2. QED
  BY <1>1, NextTakeTurns, NextDrains, NextExclusive, NextPendingAsked, NextRunningLeaves,
     NextCounted, NextAwaitsKnown, NextNothingVanishes DEF OneInv

-------------------------------------------------------------------------------
(***************************************************************************)
(* The promise to the chat side                                            *)
(***************************************************************************)
\* What the promise says of a request, from what the queue knows of it.
StatusOk(r) ==
    /\ r \notin asked => StatusOf(r) = "absent"
    /\ Pending(r) => StatusOf(r) = "pending"
    /\ r \in lost => StatusOf(r) = "lost"
    /\ r \in asked /\ ~Pending(r) /\ r \notin lost => StatusOf(r) = "settled"

LEMMA StatusIs == OneInv => \A r \in Requests : StatusOk(r)
<1> SUFFICES ASSUME OneInv, NEW r \in Requests PROVE StatusOk(r)
  OBVIOUS
<1>1. /\ Pending(r) => r \in asked
      /\ r \in lost => r \in asked /\ ~Pending(r)
      /\ r \in asked /\ ~Pending(r) /\ r \notin lost => Settled(r)
  BY DEF OneInv, PendingAsked, LostIsGone, NothingVanishes, Settled
<1>2. QED
  BY <1>1 DEF StatusOf, StatusOk

LEMMA StatusIsThen == OneInv' => (\A r \in Requests : StatusOk(r))'
  BY StatusIs, PTL

\* A move of the promise, from the status of each request.
LEMMA MoveIs ==
    ASSUME NEW R \in SUBSET Requests, NEW from, NEW to,
           \A r \in R : StatusOf(r) = from /\ StatusOf(r)' = to,
           \A r \in Requests \ R : StatusOf(r)' = StatusOf(r)
    PROVE  Promise!Moves(R, from, to)
  BY DEF Promise!Moves

\* The status of a request stays while nothing that it depends on changes.
LEMMA StatusStays ==
    ASSUME OneInv, OneInv', NEW r \in Requests,
           r \in asked' <=> r \in asked, r \in lost' <=> r \in lost,
           Pending(r)' <=> Pending(r)
    PROVE  StatusOf(r)' = StatusOf(r)
<1>1. StatusOk(r) /\ StatusOk(r)'
  BY StatusIs, StatusIsThen
<1>2. QED
  BY <1>1 DEF StatusOk

\* The promise's variable.
status == [r \in Requests |-> StatusOf(r)]

LEMMA NothingMoves ==
    ASSUME \A r \in Requests : StatusOf(r)' = StatusOf(r)
    PROVE  UNCHANGED status
  BY DEF status

LEMMA AskAsks ==
    ASSUME OneWindow, OneInv, OneInv', [Next]_vars, NEW q \in Requests, Enqueue(q)
    PROVE  Promise!Moves({q}, "absent", "pending")
<1>1. /\ q \notin asked /\ asked' = asked \cup {q} /\ UNCHANGED lost
      /\ \A r \in Requests : Pending(r)' <=> Pending(r) \/ r = q
  BY PendingSteps, HistorySteps DEF Enqueue
<1>2. StatusOf(q) = "absent" /\ StatusOf(q)' = "pending"
  BY <1>1, StatusIs, StatusIsThen DEF StatusOk
<1>3. \A r \in Requests \ {q} : StatusOf(r)' = StatusOf(r)
  BY <1>1, StatusStays
<1>4. QED
  BY <1>2, <1>3, MoveIs

LEMMA LeavingSettles ==
    ASSUME OneWindow, OneInv, OneInv', [Next]_vars, NEW s \in Sweeps, Leaves(s)
    PROVE  Current(s) \in Requests /\ Promise!Moves({Current(s)}, "pending", "settled")
<1>1. Current(s) \in held[s] /\ Current(s) \in Requests
  BY CurrentIn DEF Leaves, OneInv, IInv
<1>2. /\ UNCHANGED <<asked, lost>>
      /\ \A r \in Requests : Pending(r)' <=> Pending(r) /\ r # Current(s)
  BY PendingSteps DEF Leaves
<1>3. Pending(Current(s)) /\ Current(s) \in asked /\ Current(s) \notin lost
  <2>1. Pending(Current(s))
    BY <1>1 DEF Pending
  <2>2. QED
    BY <1>1, <2>1 DEF OneInv, PendingAsked, LostIsGone
<1>4. PICK c \in Requests : c = Current(s)
  BY <1>1
<1>5. StatusOf(c) = "pending" /\ StatusOf(c)' = "settled"
  <2>1. StatusOk(c) /\ StatusOk(c)'
    BY StatusIs, StatusIsThen
  <2>2. QED
    BY <1>2, <1>3, <1>4, <2>1 DEF StatusOk
<1>6. \A r \in Requests \ {c} : StatusOf(r)' = StatusOf(r)
  BY <1>2, <1>4, StatusStays
<1>7. Promise!Moves({c}, "pending", "settled")
  BY <1>5, <1>6, MoveIs
<1>8. QED
  BY <1>4, <1>7

\* What is lost is what was pending and no longer is.
LEMMA LosingLoses ==
    ASSUME OneWindow, OneInv, OneInv', [Next]_vars, NEW R \in SUBSET Requests,
           UNCHANGED asked, lost' = lost \cup R,
           \A r \in R : Pending(r),
           \A r \in Requests : Pending(r)' <=> Pending(r) /\ r \notin R
    PROVE  Promise!Moves(R, "pending", "lost")
<1>1. \A r \in R : StatusOf(r) = "pending" /\ StatusOf(r)' = "lost"
  BY StatusIs, StatusIsThen DEF StatusOk
<1>2. \A r \in Requests \ R : StatusOf(r)' = StatusOf(r)
  BY StatusStays
<1>3. QED
  BY <1>1, <1>2, MoveIs

LEMMA StepKeepsPromise ==
    ASSUME OneWindow
    PROVE  OneInv /\ OneInv' /\ [Next]_vars => [Promise!Next]_status
<1> SUFFICES ASSUME OneInv, OneInv', [Next]_vars PROVE Promise!Next \/ UNCHANGED status
  OBVIOUS
<1>0. TypeOK
  BY DEF OneInv, IInv
<1>1. ASSUME NEW q \in Requests, Enqueue(q) PROVE Promise!Next
  BY <1>1, AskAsks DEF Promise!Next, Promise!Ask
<1>2. ASSUME NEW s \in Sweeps, Leaves(s) PROVE Promise!Next
  <2>1. Current(s) \in Requests /\ Promise!Moves({Current(s)}, "pending", "settled")
    BY <1>2, LeavingSettles
  <2>2. QED
    BY <2>1 DEF Promise!Next, Promise!Settle
<1>3. ASSUME NEW s \in Sweeps, SweepThrows(s) PROVE Promise!Next
  <2>1. /\ UNCHANGED asked /\ lost' = lost \cup held[s] /\ held[s] \in SUBSET Requests
        /\ \A r \in Requests : Pending(r)' <=> Pending(r) /\ r \notin held[s]
    BY <1>0, <1>3, PendingSteps, HistorySteps DEF TypeOK
  <2>2. \A r \in held[s] : Pending(r)
    BY DEF Pending
  <2>3. PICK R \in SUBSET Requests : R = held[s]
    BY <2>1
  <2>4. Promise!Moves(R, "pending", "lost")
    BY <2>1, <2>2, <2>3, LosingLoses
  <2>5. QED
    BY <2>4 DEF Promise!Next, Promise!Lose
<1>4. CASE Dies
  <2>1. PICK R : R = Held \ files
    OBVIOUS
  <2>2. R \in SUBSET Requests
    BY <1>0, <2>1 DEF Held, TypeOK
  <2>3. /\ UNCHANGED asked /\ lost' = lost \cup R
        /\ \A r \in Requests : Pending(r)' <=> r \in files
    BY <1>4, <2>1, PendingSteps DEF Dies
  <2>4. \A r \in Requests : Pending(r) <=> r \in files \/ r \in Held
    BY DEF Pending, Held
  <2>5. /\ \A r \in R : Pending(r)
        /\ \A r \in Requests : Pending(r)' <=> Pending(r) /\ r \notin R
    BY <2>1, <2>2, <2>3, <2>4
  <2>6. Promise!Moves(R, "pending", "lost")
    BY <2>2, <2>3, <2>5, LosingLoses
  <2>7. QED
    BY <2>2, <2>6 DEF Promise!Next, Promise!Lose
<1>5. ASSUME UNCHANGED <<asked, lost>>, \A r \in Requests : Pending(r)' <=> Pending(r)
      PROVE  UNCHANGED status
  BY <1>5, StatusStays, NothingMoves
<1>6. ASSUME NEW s \in Sweeps, Drain(s) \/ Restore(s)
      PROVE  UNCHANGED <<asked, lost>> /\ \A r \in Requests : Pending(r)' <=> Pending(r)
  BY <1>6, PendingSteps, HistorySteps
<1>7. ASSUME NEW s \in Sweeps, NEW where \in Awaiting, Awaits(s, where)
      PROVE  UNCHANGED <<asked, lost>> /\ \A r \in Requests : Pending(r)' <=> Pending(r)
  BY <1>7, PendingSteps DEF Awaits
<1>8. ASSUME UNCHANGED requests
      PROVE  UNCHANGED <<asked, lost>> /\ \A r \in Requests : Pending(r)' <=> Pending(r)
  BY <1>8 DEF requests, Pending
<1>9. QED
  BY <1>1, <1>2, <1>3, <1>4, <1>5, <1>6, <1>7, <1>8, OneKinds

LEMMA InitKeepsPromise == Init => Promise!Init
  BY DEF Init, Promise!Init, StatusOf

-------------------------------------------------------------------------------
(***************************************************************************)
(* The theorems                                                            *)
(***************************************************************************)
\* For any number of windows, the queue's variables keep their types, and a
\* sweep that awaits something holds the request it awaits it for.
THEOREM Invariance == Spec => []IInv
  BY InitIInv, NextIInv, PTL DEF Spec

\* For any number of windows, the variables of the queue (requestQueue.ts) keep
\* their types.
THEOREM TypeCorrect == Spec => []TypeOK
<1>1. IInv => TypeOK
  BY DEF IInv
<1>2. QED
  BY <1>1, Invariance, PTL

\* One window: the invariant behind the next two theorems.
THEOREM InvarianceInOneWindow ==
    ASSUME OneWindow PROVE Spec => []OneInv
<1>1. OneInv /\ [Next]_vars => OneInv'
  BY NextOneInv
<1>2. QED
  BY <1>1, InitOneInv, PTL DEF Spec

\* In one window a request runs within its tries, once or as often as the engine
\* may try, however many sweeps drain, restore, crash and start over meanwhile.
THEOREM RunsWithin ==
    ASSUME OneWindow PROVE Spec => []RunsWithinTries
<1>1. OneInv => RunsWithinTries
  BY DEF OneInv, Counted
<1>2. QED
  BY <1>1, InvarianceInOneWindow, PTL

\* In one window the queue implements RequestPromise: a request stays pending
\* until it has an outcome or dies with the sweep that holds it.
THEOREM QueueKeepsPromise ==
    ASSUME OneWindow PROVE Spec => KeepsPromise
<1>1. OneInv /\ OneInv' /\ [Next]_vars => [Promise!Next]_status
  BY StepKeepsPromise
<1>2. QED
  BY <1>1, InitKeepsPromise, InvarianceInOneWindow, PTL
     DEF Spec, KeepsPromise, Promise!Spec, status
=================================================================================
