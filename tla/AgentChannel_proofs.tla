-------------------------- MODULE AgentChannel_proofs --------------------------
(***************************************************************************)
(* What AgentChannel promises for any number of questions and windows: an  *)
(* answer is kept, and no answered question is put to a harness again,     *)
(* except where an unlocked write went over somebody else's.               *)
(***************************************************************************)
EXTENDS AgentChannel, TLAPS

-------------------------------------------------------------------------------
(***************************************************************************)
(* The inductive invariant                                                 *)
(***************************************************************************)
\* The copy of a window under way differs from the file in what others wrote
\* since it was read, and in the answers of its own drain.
CopyIsFile(w) ==
    \A k \in Keys : k \notin since[w] =>
        /\ pc[w] \in {"engine", "rerun", "asking"} => copy[w][k] = file[k]
        /\ pc[w] = "writing" =>
              IF k \in batch[w] THEN file[k] = "pending" /\ copy[w][k] = "guess"
              ELSE copy[w][k] = file[k]

CopiesAreFiles == \A w \in Windows : CopyIsFile(w)

\* What AnswersKept says of a file that parses holds of one that is truncated
\* too: its writer either completes it or makes every question an exempt one.
FileIsTruth == \A k \in Keys : k \in raced \/ file[k] = truth[k]

IInv ==
    /\ TypeOK
    /\ CopiesAreFiles
    /\ FileIsTruth

-------------------------------------------------------------------------------
(***************************************************************************)
(* Typing                                                                  *)
(***************************************************************************)
LEMMA EmptyChannel == Empty \in Channel /\ Keys \in SUBSET Keys /\ {} \in SUBSET Keys
  BY DEF Empty, Channel, Entry

\* What is read is a channel, and exempts the questions it may be stale about.
LEMMA ReadTypes ==
    ASSUME TypeOK, NEW w \in Windows, Read(w)
    PROVE  copy' \in [Windows -> Channel] /\ since' \in [Windows -> SUBSET Keys]
<1>1. Contents \in Channel
  BY EmptyChannel DEF Contents, TypeOK
<1>2. QED
  BY <1>1 DEF Read, TypeOK

LEMMA WriteTypes ==
    ASSUME TypeOK, NEW channel \in Channel, NEW w, Write(channel, w)
    PROVE  /\ file' \in Channel /\ torn' \in BOOLEAN
           /\ since' \in [Windows -> SUBSET Keys] /\ raced' \subseteq Keys
<1>1. file' \in Channel /\ torn' \in BOOLEAN
  BY DEF Write
<1>2. \A v \in Windows : since[v] \subseteq Keys
  BY DEF TypeOK
<1>3. since' \in [Windows -> SUBSET Keys]
  BY <1>2 DEF Write
<1>4. raced' \subseteq Keys
  BY <1>2 DEF Write, TypeOK
<1>5. QED
  BY <1>1, <1>3, <1>4

LEMMA MoveTypes ==
    ASSUME TypeOK, NEW w \in Windows,
           NEW stage \in {"idle", "engine", "saved", "asking", "writing", "again", "rerun"},
           Move(w, stage)
    PROVE  pc' \in [Windows -> {"idle", "engine", "saved", "asking", "writing", "again", "rerun"}]
  BY DEF Move, TypeOK

LEMMA InitTypeOK == Init => TypeOK
<1> SUFFICES ASSUME Init PROVE TypeOK
  OBVIOUS
<1>1. /\ pc \in [Windows -> {"idle", "engine", "saved", "asking", "writing", "again", "rerun"}]
      /\ copy \in [Windows -> Channel] /\ batch \in [Windows -> SUBSET Keys]
  BY EmptyChannel DEF Init
<1>2. passes \in 0..MaxPasses /\ edits \in 0..MaxEdits /\ stops \in 0..MaxStops
  BY ChannelAssumption DEF Init
<1>3. file \in Channel /\ torn \in BOOLEAN /\ truth \in Channel
  BY EmptyChannel DEF Init
<1>4. since \in [Windows -> SUBSET Keys] /\ raced \subseteq Keys
  BY DEF Init
<1>5. QED
  BY <1>1, <1>2, <1>3, <1>4 DEF TypeOK

LEMMA NextTypeOK == TypeOK /\ [Next]_vars => TypeOK'
<1> SUFFICES ASSUME TypeOK, [Next]_vars PROVE TypeOK'
  OBVIOUS
<1> USE ChannelAssumption DEF disk, window, bounds, history
<1>1. ASSUME NEW w \in Windows, EngineReads(w) PROVE TypeOK'
  BY <1>1, ReadTypes, MoveTypes DEF EngineReads, TypeOK
<1>2. ASSUME NEW w \in Windows, EngineReadsAgain(w) PROVE TypeOK'
  BY <1>2, ReadTypes, MoveTypes DEF EngineReadsAgain, TypeOK
<1>3. ASSUME NEW w \in Windows, NEW asked \in Askable(w), EngineSaves(w, asked)
      PROVE  TypeOK'
  <2>1. copy'[w] \in Channel /\ copy' \in [Windows -> Channel]
    BY <1>3 DEF EngineSaves, TypeOK, Channel, Entry
  <2>2. truth' \in Channel
    BY <1>3 DEF EngineSaves, TypeOK, Channel, Entry
  <2>3. AfterSave(w) \in {"saved", "idle"}
    BY DEF AfterSave
  <2>4. /\ file' \in Channel /\ torn' \in BOOLEAN
        /\ since' \in [Windows -> SUBSET Keys] /\ raced' \subseteq Keys
    BY <1>3, <2>1, WriteTypes DEF EngineSaves
  <2>5. QED
    BY <1>3, <2>1, <2>2, <2>3, <2>4, MoveTypes DEF EngineSaves, TypeOK
<1>4. ASSUME NEW w \in Windows, EngineFails(w) \/ NotDrained(w) PROVE TypeOK'
  BY <1>4, MoveTypes DEF EngineFails, NotDrained, TypeOK
<1>5. ASSUME NEW w \in Windows, NEW questions \in SUBSET Keys, DrainReads(w, questions)
      PROVE  TypeOK'
  <2>1. batch' \in [Windows -> SUBSET Keys]
    BY <1>5 DEF DrainReads, TypeOK
  <2>2. QED
    BY <1>5, <2>1, ReadTypes, MoveTypes DEF DrainReads, Drained, TypeOK
<1>6. ASSUME NEW w \in Windows, NothingUsable(w) PROVE TypeOK'
  BY <1>6, MoveTypes DEF NothingUsable, Drained, TypeOK
<1>7. ASSUME NEW w \in Windows, NEW answered \in SUBSET Keys, DrainAnswers(w, answered)
      PROVE  TypeOK'
  <2>1. copy' \in [Windows -> Channel]
    BY <1>7 DEF DrainAnswers, Apply, TypeOK, Channel, Entry
  <2>2. batch' \in [Windows -> SUBSET Keys]
    BY <1>7 DEF DrainAnswers, TypeOK
  <2>3. QED
    BY <1>7, <2>1, <2>2, MoveTypes DEF DrainAnswers, Drained, TypeOK
<1>8. ASSUME NEW w \in Windows, DrainWrites(w) PROVE TypeOK'
  <2>1. CASE torn
    <3>1. truth' \in Channel
      BY <1>8, <2>1 DEF DrainWrites, TypeOK, Channel, Entry
    <3>2. copy[w] \in Channel /\ Write(copy[w], w)
      BY <1>8, <2>1 DEF DrainWrites, TypeOK
    <3>3. QED
      BY <1>8, <3>1, <3>2, WriteTypes, MoveTypes DEF DrainWrites, TypeOK
  <2>2. CASE ~torn
    BY <1>8, <2>2, MoveTypes DEF DrainWrites, TypeOK
  <2>3. QED
    BY <2>1, <2>2
<1>9. ASSUME NEW w \in Windows, DrainStops(w) PROVE TypeOK'
  BY <1>9, MoveTypes DEF DrainStops, TypeOK
<1>10. ASSUME NEW k \in Keys, PersonAnswers(k) PROVE TypeOK'
  <2>1. [file EXCEPT ![k] = "human"] \in Channel /\ truth' \in Channel
    BY <1>10 DEF PersonAnswers, TypeOK, Channel, Entry
  <2>2. QED
    BY <1>10, <2>1, WriteTypes DEF PersonAnswers, TypeOK
<1>11. CASE UNCHANGED vars
  BY <1>11 DEF vars, TypeOK
<1>12. QED
  BY <1>1, <1>2, <1>3, <1>4, <1>5, <1>6, <1>7, <1>8, <1>9, <1>10, <1>11 DEF Next

-------------------------------------------------------------------------------
(***************************************************************************)
(* Copies and the file                                                     *)
(***************************************************************************)
\* Whoever writes the file tells every window that is under way what changed.
LEMMA WriteKeepsCopies ==
    ASSUME TypeOK, CopiesAreFiles, NEW channel \in Channel, NEW w, Write(channel, w),
           NEW v \in Windows, v # w,
           pc'[v] = pc[v], copy'[v] = copy[v], batch'[v] = batch[v]
    PROVE  CopyIsFile(v)'
<1>1. since'[v] = since[v] \cup {k \in Keys : channel[k] # file[k]} /\ file' = channel
  BY DEF Write
<1>2. CopyIsFile(v)
  BY DEF CopiesAreFiles
<1>3. QED
  BY <1>1, <1>2 DEF CopyIsFile

\* A copy that was just read is the file, as far as it parsed.
LEMMA ReadIsFile ==
    ASSUME TypeOK, NEW w \in Windows, Read(w), file' = file, pc'[w] # "writing"
    PROVE  CopyIsFile(w)'
<1>1. copy'[w] = Contents /\ since'[w] = IF torn THEN Keys ELSE {}
  BY DEF Read, TypeOK
<1>2. QED
  BY <1>1 DEF Contents, CopyIsFile

\* A step that writes nothing disturbs no other window.
LEMMA OtherWindow ==
    ASSUME CopiesAreFiles, NEW v \in Windows, file' = file,
           pc'[v] = pc[v], copy'[v] = copy[v], batch'[v] = batch[v], since'[v] = since[v]
    PROVE  CopyIsFile(v)'
  BY DEF CopiesAreFiles, CopyIsFile

LEMMA NextCopiesAreFiles == TypeOK /\ CopiesAreFiles /\ [Next]_vars => CopiesAreFiles'
<1> SUFFICES ASSUME TypeOK, CopiesAreFiles, [Next]_vars, NEW v \in Windows
             PROVE  CopyIsFile(v)'
  BY DEF CopiesAreFiles
<1> USE DEF disk, window, bounds, history
<1>1. ASSUME NEW w \in Windows, EngineReads(w) \/ EngineReadsAgain(w)
      PROVE  CopyIsFile(v)'
  <2>1. /\ Read(w) /\ file' = file /\ batch' = batch
        /\ Move(w, "engine") \/ Move(w, "rerun")
    BY <1>1 DEF EngineReads, EngineReadsAgain
  <2>2. CASE v = w
    BY <2>1, <2>2, ReadIsFile DEF Move, TypeOK
  <2>3. CASE v # w
    BY <2>1, <2>3, OtherWindow DEF Move, Read, TypeOK
  <2>4. QED
    BY <2>2, <2>3
<1>2. ASSUME NEW w \in Windows, NEW asked \in Askable(w), EngineSaves(w, asked)
      PROVE  CopyIsFile(v)'
  <2>1. copy'[w] \in Channel
    BY <1>2, NextTypeOK DEF TypeOK
  <2>2. CASE v = w
    BY <1>2, <2>2 DEF EngineSaves, AfterSave, Move, CopyIsFile, TypeOK
  <2>3. CASE v # w
    BY <1>2, <2>1, <2>3, WriteKeepsCopies DEF EngineSaves, Move, TypeOK
  <2>4. QED
    BY <2>2, <2>3
<1>3. ASSUME NEW w \in Windows,
             EngineFails(w) \/ NotDrained(w) \/ NothingUsable(w) \/ DrainStops(w)
      PROVE  CopyIsFile(v)'
  <2>1. Drained(w) /\ UNCHANGED <<file, copy, batch, since>>
    BY <1>3 DEF EngineFails, NotDrained, NothingUsable, DrainStops, Drained
  <2>2. CASE v = w
    BY <2>1, <2>2 DEF Drained, Move, CopyIsFile, TypeOK
  <2>3. CASE v # w
    BY <2>1, <2>3, OtherWindow DEF Drained, Move, TypeOK
  <2>4. QED
    BY <2>2, <2>3
<1>4. ASSUME NEW w \in Windows, NEW questions \in SUBSET Keys, DrainReads(w, questions)
      PROVE  CopyIsFile(v)'
  <2>1. Read(w) /\ file' = file /\ (Drained(w) \/ Move(w, "asking"))
    BY <1>4 DEF DrainReads
  <2>2. CASE v = w
    BY <2>1, <2>2, ReadIsFile DEF Drained, Move, TypeOK
  <2>3. CASE v # w
    BY <1>4, <2>1, <2>3, OtherWindow DEF DrainReads, Drained, Move, Read, TypeOK
  <2>4. QED
    BY <2>2, <2>3
<1>5. ASSUME NEW w \in Windows, NEW answered \in SUBSET Keys, DrainAnswers(w, answered)
      PROVE  CopyIsFile(v)'
  <2>1. /\ pc[w] = "asking" /\ UNCHANGED <<file, since>>
        /\ copy' = [copy EXCEPT ![w] = Apply(@, answered)]
        /\ batch' = [batch EXCEPT ![w] = {k \in Keys : copy'[w][k] # copy[w][k]}]
        /\ Drained(w) \/ Move(w, "writing")
    BY <1>5 DEF DrainAnswers
  <2>2. CASE v = w
    <3>1. CopyIsFile(w)
      BY DEF CopiesAreFiles
    <3>2. \A k \in Keys : k \notin since[w] => copy[w][k] = file[k]
      BY <2>1, <3>1 DEF CopyIsFile
    <3>3. batch'[w] = {k \in Keys : copy'[w][k] # copy[w][k]}
      BY <2>1 DEF TypeOK
    <3>4. \A k \in Keys :
             IF k \in batch'[w] THEN copy[w][k] = "pending" /\ copy'[w][k] = "guess"
             ELSE copy'[w][k] = copy[w][k]
      BY <2>1, <3>3 DEF Apply, TypeOK
    <3>5. pc'[w] \in {"idle", "again", "writing"}
      BY <2>1 DEF Drained, Move, TypeOK
    <3>6. QED
      BY <2>1, <2>2, <3>2, <3>4, <3>5 DEF CopyIsFile
  <2>3. CASE v # w
    BY <2>1, <2>3, OtherWindow DEF Drained, Move, TypeOK
  <2>4. QED
    BY <2>2, <2>3
<1>6. ASSUME NEW w \in Windows, DrainWrites(w) PROVE CopyIsFile(v)'
  <2>1. Move(w, "again") /\ UNCHANGED <<copy, batch>>
    BY <1>6 DEF DrainWrites
  <2>2. CASE v = w
    BY <2>1, <2>2 DEF Move, CopyIsFile, TypeOK
  <2>3. CASE v # w /\ torn
    <3>1. copy[w] \in Channel /\ Write(copy[w], w)
      BY <1>6, <2>3 DEF DrainWrites, TypeOK
    <3>2. QED
      BY <2>1, <2>3, <3>1, WriteKeepsCopies DEF Move, TypeOK
  <2>4. CASE v # w /\ ~torn
    BY <1>6, <2>1, <2>4, OtherWindow DEF DrainWrites, Move, TypeOK
  <2>5. QED
    BY <2>2, <2>3, <2>4
<1>7. ASSUME NEW k \in Keys, PersonAnswers(k) PROVE CopyIsFile(v)'
  <2>1. v # Person
    BY ChannelAssumption DEF Person
  <2>2. [file EXCEPT ![k] = "human"] \in Channel
    BY DEF TypeOK, Channel, Entry
  <2>3. QED
    BY <1>7, <2>1, <2>2, WriteKeepsCopies DEF PersonAnswers
<1>8. CASE UNCHANGED vars
  BY <1>8, OtherWindow DEF vars
<1>9. QED
  BY <1>1, <1>2, <1>3, <1>4, <1>5, <1>6, <1>7, <1>8 DEF Next

-------------------------------------------------------------------------------
(***************************************************************************)
(* The file and what was said                                              *)
(***************************************************************************)
LEMMA NextFileIsTruth ==
    TypeOK /\ CopiesAreFiles /\ FileIsTruth /\ [Next]_vars => FileIsTruth'
<1> SUFFICES ASSUME TypeOK, CopiesAreFiles, FileIsTruth, [Next]_vars, NEW k \in Keys
             PROVE  k \in raced' \/ file'[k] = truth'[k]
  BY DEF FileIsTruth
<1>0. k \in raced \/ file[k] = truth[k]
  BY DEF FileIsTruth
<1> DEFINE Kept == k \in raced' \/ file'[k] = truth'[k]
<1> USE DEF disk, window, bounds, history
<1>1. ASSUME NEW w \in Windows,
             \/ EngineReads(w) \/ EngineReadsAgain(w) \/ EngineFails(w)
             \/ NotDrained(w) \/ NothingUsable(w)
      PROVE  Kept
  BY <1>0, <1>1 DEF EngineReads, EngineReadsAgain, EngineFails, NotDrained, NothingUsable
<1>2. ASSUME NEW w \in Windows, NEW asked \in Askable(w), EngineSaves(w, asked)
      PROVE  Kept
  <2>1. raced' = raced \cup since[w] /\ file' = copy'[w]
    BY <1>2 DEF EngineSaves, Write
  <2>2. k \notin since[w] => copy[w][k] = file[k]
    BY <1>2 DEF EngineSaves, CopiesAreFiles, CopyIsFile
  <2>3. file'[k] = IF k \in asked THEN "pending" ELSE copy[w][k]
    BY <1>2, <2>1 DEF EngineSaves, TypeOK
  <2>4. k \in asked => copy[w][k] = "absent"
    BY DEF Askable
  <2>5. truth'[k] = IF k \in asked /\ truth[k] = "absent" THEN "pending" ELSE truth[k]
    BY <1>2 DEF EngineSaves
  <2>6. QED
    BY <1>0, <2>1, <2>2, <2>3, <2>4, <2>5
<1>3. ASSUME NEW w \in Windows, NEW questions \in SUBSET Keys, DrainReads(w, questions)
      PROVE  Kept
  BY <1>0, <1>3 DEF DrainReads
<1>4. ASSUME NEW w \in Windows, NEW answered \in SUBSET Keys, DrainAnswers(w, answered)
      PROVE  Kept
  BY <1>0, <1>4 DEF DrainAnswers
<1>5. ASSUME NEW w \in Windows, DrainWrites(w) PROVE Kept
  <2>1. CASE torn
    <3>1. raced' = raced \cup since[w] /\ file' = copy[w]
      BY <1>5, <2>1 DEF DrainWrites, Write
    <3>2. k \notin since[w] =>
              IF k \in batch[w] THEN file[k] = "pending" /\ copy[w][k] = "guess"
              ELSE copy[w][k] = file[k]
      BY <1>5 DEF DrainWrites, CopiesAreFiles, CopyIsFile
    <3>3. truth'[k] = IF k \in batch[w] /\ truth[k] = "pending" THEN "guess" ELSE truth[k]
      BY <1>5, <2>1 DEF DrainWrites
    <3>4. QED
      BY <1>0, <3>1, <3>2, <3>3
  <2>2. CASE ~torn
    BY <1>0, <1>5, <2>2 DEF DrainWrites
  <2>3. QED
    BY <2>1, <2>2
<1>6. ASSUME NEW w \in Windows, DrainStops(w) PROVE Kept
  BY <1>0, <1>6 DEF DrainStops
<1>7. ASSUME NEW j \in Keys, PersonAnswers(j) PROVE Kept
  <2>1. raced' = raced /\ file' = [file EXCEPT ![j] = "human"]
    BY <1>7, ChannelAssumption DEF PersonAnswers, Person, Write
  <2>2. truth' = [truth EXCEPT ![j] = "human"]
    BY <1>7 DEF PersonAnswers
  <2>3. QED
    BY <1>0, <2>1, <2>2 DEF TypeOK, Channel
<1>8. CASE UNCHANGED vars
  BY <1>0, <1>8 DEF vars
<1>9. QED
  BY <1>1, <1>2, <1>3, <1>4, <1>5, <1>6, <1>7, <1>8 DEF Next

-------------------------------------------------------------------------------
(***************************************************************************)
(* The theorems                                                            *)
(***************************************************************************)
LEMMA InitIInv == Init => IInv
<1> SUFFICES ASSUME Init PROVE IInv
  OBVIOUS
<1>1. CopiesAreFiles /\ FileIsTruth
  BY DEF Init, CopiesAreFiles, CopyIsFile, FileIsTruth
<1>2. QED
  BY <1>1, InitTypeOK DEF IInv

LEMMA NextIInv == IInv /\ [Next]_vars => IInv'
  BY NextTypeOK, NextCopiesAreFiles, NextFileIsTruth DEF IInv

\* The invariant holds in every state of every behaviour.
THEOREM Invariance == Spec => []IInv
  BY InitIInv, NextIInv, PTL DEF Spec

\* Every variable of the agent channel (agentChannel.ts) has its type.
THEOREM TypeCorrect == Spec => []TypeOK
<1>1. IInv => TypeOK
  BY DEF IInv
<1>2. QED
  BY <1>1, Invariance, PTL

\* Any number of windows, engine runs, drains and persons may work on the
\* channel file: it says of each question what was last said about it, except
\* for questions that an unlocked write went over.
THEOREM AnswersAreKept == Spec => []AnswersKept
<1>1. IInv => AnswersKept
  BY DEF IInv, FileIsTruth, AnswersKept
<1>2. QED
  BY <1>1, Invariance, PTL

\* A drain pays the harness for unanswered questions only.
THEOREM NoAnswerIsPaidTwice == Spec => NeverAskedAgain
<1> DEFINE Paid ==
      \A w \in Windows : pc[w] = "saved" /\ pc'[w] = "asking" =>
          \A k \in batch'[w] : k \in raced \/ truth[k] \notin Answers
<1>1. IInv /\ [Next]_vars => Paid
  <2> SUFFICES ASSUME IInv, [Next]_vars, NEW w \in Windows,
                      pc[w] = "saved", pc'[w] = "asking", NEW k \in batch'[w]
               PROVE  k \in raced \/ truth[k] \notin Answers
    OBVIOUS
  <2>1. TypeOK /\ FileIsTruth
    BY DEF IInv
  <2>2. PICK questions \in SUBSET Keys : DrainReads(w, questions)
    <3>1. ASSUME NEW u \in Windows, NEW to, Move(u, to), pc[u] # "saved" \/ to # "asking"
          PROVE  FALSE
      BY <2>1, <3>1 DEF Move, TypeOK
    <3>2. ASSUME NEW u \in Windows, NEW questions \in SUBSET Keys, DrainReads(u, questions)
          PROVE  u = w
      BY <2>1, <3>2 DEF DrainReads, Drained, Move, TypeOK
    <3>3. ASSUME NEW u \in Windows,
                 \/ EngineReads(u) \/ EngineReadsAgain(u) \/ EngineFails(u)
                 \/ NotDrained(u) \/ NothingUsable(u) \/ DrainWrites(u) \/ DrainStops(u)
          PROVE  FALSE
      BY <3>1, <3>3 DEF EngineReads, EngineReadsAgain, EngineFails, NotDrained,
         NothingUsable, Drained, DrainWrites, DrainStops
    <3>4. ASSUME NEW u \in Windows, NEW asked, EngineSaves(u, asked) PROVE FALSE
      BY <3>1, <3>4 DEF EngineSaves, AfterSave
    <3>5. ASSUME NEW u \in Windows, NEW answered, DrainAnswers(u, answered) PROVE FALSE
      BY <3>1, <3>5 DEF DrainAnswers, Drained
    <3>6. pc' # pc
      BY <2>1 DEF TypeOK
    <3>7. ASSUME NEW q \in Keys, PersonAnswers(q) PROVE FALSE
      BY <3>6, <3>7 DEF PersonAnswers, window
    <3>8. QED
      BY <3>2, <3>3, <3>4, <3>5, <3>6, <3>7 DEF Next, vars, window
  <2>3. k \in Pending(Contents) /\ k \in Keys
    BY <2>1, <2>2 DEF DrainReads, TypeOK
  <2>4. Contents[k] = "pending"
    BY <2>3 DEF Pending
  <2>5. file[k] = "pending"
    BY <2>3, <2>4 DEF Contents, Empty
  <2>6. QED
    BY <2>1, <2>3, <2>5 DEF FileIsTruth, Answers
<1>2. QED
  BY <1>1, Invariance, PTL DEF Spec, NeverAskedAgain
================================================================================
