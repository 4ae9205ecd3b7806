---------------------------- MODULE Judgment_proofs ----------------------------
(***************************************************************************)
(* What the escalation of an episode promises for any number of judgments  *)
(* and chat sessions: a judgment that waits can be answered, on one        *)
(* surface, by a verdict about itself, and keeps its first verdict.        *)
(***************************************************************************)
EXTENDS Judgment, FiniteSetTheorems, TLAPS

-------------------------------------------------------------------------------
(***************************************************************************)
(* The inductive invariant                                                 *)
(***************************************************************************)
Packed(j) == \E o \in opening : o.judgment = j

\* Episodes run one at a time.
OneWaiting == \A i, j \in Judgments : life[i] = "waiting" /\ life[j] = "waiting" => i = j

\* Nothing shows a judgment that no episode has asked for yet.
NewIsUnknown ==
    \A j \in Judgments : life[j] = "new" =>
        /\ j \notin cards /\ pending # j /\ dialogs[j] = "none" /\ parked # j
        /\ ~Packed(j)

\* A judgment on a surface is on no other one.
Apart(j) ==
    /\ pending = j => dialogs[j] = "none" /\ parked # j /\ ~Packed(j)
    /\ dialogs[j] # "none" => parked # j /\ ~Packed(j)
    /\ parked = j => ~Packed(j)

SurfacesApart == \A j \in Judgments : Apart(j)

\* A verdict source answers a judgment if it is about it, or a leftover card.
Answering(source, j) ==
    source.of = j \/ (source.surface = "card" /\ life[source.of] = "settled")

\* A pack is opened for the verdict of a card, which may answer its judgment
\* unless the judgment is settled meanwhile and the retry comes to nothing.
PacksAnswer ==
    \A o \in opening : life[o.judgment] = "settled" \/ Answering(o.source, o.judgment)

\* The transcript waits for a verdict only in an open panel, and for one whose
\* card is there unless the panel lost it as it came up.
CardKnown ==
    pending # None => panel # "closed" /\ (pending \in cards \/ dropped)

IInv ==
    /\ TypeOK
    /\ OneWaiting
    /\ CardKnown
    /\ NewIsUnknown
    /\ SurfacesApart
    /\ PacksAnswer
    /\ Reachable
    /\ OwnAnswer

-------------------------------------------------------------------------------
(***************************************************************************)
(* Typing                                                                  *)
(***************************************************************************)
FateTypes ==
    /\ life \in [Judgments -> {"new", "waiting", "settled"}]
    /\ answer \in [Judgments -> Answers \cup {None}]
    /\ \A j \in Judgments : answer[j] # None <=> life[j] = "settled"

TranscriptTypes ==
    /\ pending \in Judgments \cup {None} /\ cards \subseteq Judgments
    /\ dropped \in BOOLEAN
    /\ dialogs \in [Judgments -> {"none", "open", "retrying"}]

LEMMA SourceTypes ==
    \A j \in Judgments, surface \in {"token", "card", "dialog", "toast"} :
        Source(surface, j) \in Sources
  BY DEF Source, Sources

LEMMA SettleTypes ==
    ASSUME TypeOK, NEW j \in Judgments, NEW verdict \in Verdicts, NEW source \in Sources,
           Settle(j, verdict, source)
    PROVE  FateTypes'
<1>1. [verdict |-> verdict, source |-> source] \in Answers
  BY DEF Answers
<1>2. QED
  BY <1>1, JudgmentAssumption DEF Settle, fate, TypeOK, FateTypes

LEMMA ResolveTypes ==
    ASSUME TypeOK, NEW j \in Judgments, NEW verdict \in Verdicts, NEW source \in Sources,
           Resolve(j, verdict, source)
    PROVE  FateTypes' /\ parked' \in Judgments \cup {None} /\ evicted' \subseteq Judgments
<1>1. FateTypes'
  BY SettleTypes DEF Resolve
<1>2. QED
  BY <1>1 DEF Resolve, TypeOK

LEMMA PresentTypes ==
    ASSUME TypeOK, NEW j \in Judgments, NEW session, Present(j, session)
    PROVE  TranscriptTypes'
  BY DEF Present, OpenDialogs, transcript, TypeOK, TranscriptTypes

LEMMA ForgetTypes == TypeOK /\ ForgetTranscript => TranscriptTypes'
  BY DEF ForgetTranscript, OpenDialogs, TypeOK, TranscriptTypes

LEMMA InitTypeOK == Init => TypeOK
  BY JudgmentAssumption DEF Init, TypeOK

LEMMA NextTypeOK == TypeOK /\ [Next]_vars => TypeOK'
<1> SUFFICES ASSUME TypeOK, [Next]_vars PROVE TypeOK'
  OBVIOUS
<1> USE JudgmentAssumption DEF fate, slot, screen, transcript
<1> USE DEF Verdicts
<1>1. ASSUME NEW j \in Judgments, Escalate(j) PROVE TypeOK'
  <2>1. TranscriptTypes'
    BY <1>1, PresentTypes DEF Escalate
  <2>2. FateTypes'
    BY <1>1 DEF Escalate, TypeOK, FateTypes
  <2>3. QED
    BY <1>1, <2>1, <2>2 DEF Escalate, TypeOK, TranscriptTypes, FateTypes
<1>2. ASSUME NEW j \in Judgments, EscalateCancelled(j) PROVE TypeOK'
  <2>1. [verdict |-> "abort", source |-> Source("token", j)] \in Answers
    BY SourceTypes DEF Answers
  <2>2. FateTypes'
    BY <1>2, <2>1 DEF EscalateCancelled, TypeOK, FateTypes
  <2>3. QED
    BY <1>2, <2>2 DEF EscalateCancelled, TypeOK, FateTypes
<1>3. ASSUME NEW j \in Judgments, Cancel(j) PROVE TypeOK'
  BY <1>3, SourceTypes, ResolveTypes DEF Cancel, TypeOK, FateTypes
<1>4. ASSUME NEW c \in Judgments, NEW v \in Verdicts, ClickCard(c, v) PROVE TypeOK'
  <2>1. Source("card", c) \in Sources
    BY SourceTypes
  <2>2. TranscriptTypes' /\ UNCHANGED <<owner, toasts, screen, dialogs>>
    BY <1>4 DEF ClickCard, TypeOK, TranscriptTypes
  <2>3. CASE UNCHANGED <<fate, slot>>
    <3>1. opening' \subseteq [judgment : Judgments, source : Sources]
      BY <1>4, <2>1, <2>3 DEF ClickCard, TypeOK
    <3>2. QED
      BY <2>2, <2>3, <3>1 DEF TypeOK, TranscriptTypes
  <2>4. CASE pending # None /\ Resolve(pending, v, Source("card", c)) /\ UNCHANGED opening
    <3>1. FateTypes' /\ parked' \in Judgments \cup {None} /\ evicted' \subseteq Judgments
      <4>1. pending \in Judgments
        BY <2>4 DEF TypeOK
      <4>2. QED
        BY <2>1, <2>4, <4>1, ResolveTypes
    <3>2. QED
      BY <2>2, <2>4, <3>1 DEF TypeOK, TranscriptTypes, FateTypes
  <2>5. QED
    BY <1>4, <2>3, <2>4 DEF ClickCard
<1>5. ASSUME NEW j \in Judgments, NEW v \in Verdicts, ClickDialog(j, v) PROVE TypeOK'
  <2>1. FateTypes' /\ parked' \in Judgments \cup {None} /\ evicted' \subseteq Judgments
    BY <1>5, SourceTypes, ResolveTypes DEF ClickDialog
  <2>2. QED
    BY <1>5, <2>1 DEF ClickDialog, TypeOK, FateTypes
<1>6. ASSUME NEW j \in Judgments, RetryInDialog(j) PROVE TypeOK'
  BY <1>6 DEF RetryInDialog, TypeOK
<1>7. ASSUME NEW j \in Judgments, DialogPackOpened(j) PROVE TypeOK'
  <2>1. FateTypes' /\ parked' \in Judgments \cup {None} /\ evicted' \subseteq Judgments
    BY <1>7, SourceTypes, ResolveTypes DEF DialogPackOpened
  <2>2. QED
    BY <1>7, <2>1 DEF DialogPackOpened, TypeOK, FateTypes
<1>8. ASSUME NEW j \in Judgments, CloseDialog(j) PROVE TypeOK'
  BY <1>8 DEF CloseDialog, TypeOK
<1>9. ASSUME NEW j \in Judgments, ToastResume(j) PROVE TypeOK'
  <2>1. TranscriptTypes'
    BY <1>9, PresentTypes DEF ToastResume, TypeOK, TranscriptTypes
  <2>2. QED
    BY <1>9, <2>1 DEF ToastResume, ClearParked, TypeOK, TranscriptTypes
<1>10. ASSUME NEW j \in Judgments, ToastAbort(j) PROVE TypeOK'
  <2>1. FateTypes'
    BY <1>10, SourceTypes, SettleTypes DEF ToastAbort, TypeOK, FateTypes
  <2>2. QED
    BY <1>10, <2>1 DEF ToastAbort, ClearParked, TypeOK, FateTypes
<1>11. ASSUME NEW j \in Judgments, ToastDismissed(j) PROVE TypeOK'
  BY <1>11 DEF ToastDismissed, TypeOK
<1>12. CASE EpisodeEnds
  BY <1>12 DEF EpisodeEnds, TypeOK
<1>13. ASSUME NEW o \in opening, PackOpened(o) PROVE TypeOK'
  <2>1. o.judgment \in Judgments /\ o.source \in Sources
    BY DEF TypeOK
  <2>2. FateTypes' /\ parked' \in Judgments \cup {None} /\ evicted' \subseteq Judgments
    BY <1>13, <2>1, ResolveTypes DEF PackOpened
  <2>3. QED
    BY <1>13, <2>2 DEF PackOpened, TypeOK, FateTypes
<1>14. CASE CloseChat
  BY <1>14, ForgetTypes DEF CloseChat, TypeOK, TranscriptTypes
<1>15. ASSUME NEW s \in Sessions, SwitchSession(s) PROVE TypeOK'
  BY <1>15, ForgetTypes DEF SwitchSession, TypeOK, TranscriptTypes
<1>16. CASE Resume
  <2>1. TranscriptTypes'
    BY <1>16, PresentTypes DEF Resume, TypeOK
  <2>2. QED
    BY <1>16, <2>1 DEF Resume, ClearParked, TypeOK, TranscriptTypes
<1>17. CASE OpenChat \/ WebviewListens
  BY <1>17 DEF OpenChat, WebviewListens, TypeOK
<1>18. ASSUME NEW s \in Sessions, NEW stored \in BOOLEAN, Ready(s, stored) PROVE TypeOK'
  BY <1>18 DEF Ready, TypeOK
<1>19. CASE UNCHANGED vars
  BY <1>19 DEF vars, TypeOK
<1>20. QED
  BY <1>1, <1>2, <1>3, <1>4, <1>5, <1>6, <1>7, <1>8, <1>9, <1>10, <1>11, <1>12,
     <1>13, <1>14, <1>15, <1>16, <1>17, <1>18, <1>19 DEF Next

-------------------------------------------------------------------------------
(***************************************************************************)
(* Lives                                                                   *)
(***************************************************************************)
\* A verdict settles what waits, and is lost on anything else.
LEMMA SettleLives ==
    ASSUME TypeOK, NEW j \in Judgments, NEW verdict, NEW source, Settle(j, verdict, source)
    PROVE  \A i \in Judgments :
              IF i = j /\ life[j] = "waiting" THEN life'[i] = "settled"
              ELSE life'[i] = life[i] /\ answer'[i] = answer[i]
  BY DEF Settle, fate, TypeOK

\* A judgment is new, then it waits, then it is settled; it waits from the
\* time it is escalated, and settled it stays, with the answer it got.
LifeMoves(i) ==
    \/ life'[i] = life[i] /\ answer'[i] = answer[i]
    \/ life[i] = "new" /\ Escalate(i)
    \/ life[i] \in {"new", "waiting"} /\ life'[i] = "settled"

LEMMA LivesMoveOn ==
    ASSUME TypeOK, [Next]_vars, NEW i \in Judgments
    PROVE  LifeMoves(i)
<1> USE DEF fate, slot, transcript
<1>1. ASSUME NEW j \in Judgments, Escalate(j) PROVE LifeMoves(i)
  BY <1>1 DEF Escalate, LifeMoves, TypeOK
<1>2. ASSUME NEW j \in Judgments, EscalateCancelled(j) PROVE LifeMoves(i)
  BY <1>2 DEF EscalateCancelled, LifeMoves, TypeOK
<1>3. ASSUME NEW j \in Judgments, NEW v, NEW source, Settle(j, v, source)
      PROVE  LifeMoves(i)
  BY <1>3, SettleLives DEF LifeMoves
<1>4. ASSUME NEW j \in Judgments,
             \/ Cancel(j) \/ DialogPackOpened(j) \/ ToastAbort(j)
             \/ \E v \in Verdicts : ClickDialog(j, v)
      PROVE  LifeMoves(i)
  BY <1>3, <1>4 DEF Cancel, ClickDialog, DialogPackOpened, ToastAbort, Resolve, LifeMoves
<1>5. ASSUME NEW c \in Judgments, NEW v \in Verdicts, ClickCard(c, v) PROVE LifeMoves(i)
  <2>1. CASE UNCHANGED fate
    BY <2>1 DEF LifeMoves
  <2>2. CASE pending # None /\ Settle(pending, v, Source("card", c))
    BY <1>3, <2>2 DEF TypeOK
  <2>3. QED
    BY <1>5, <2>1, <2>2 DEF ClickCard, Resolve
<1>6. ASSUME NEW o \in opening, PackOpened(o) PROVE LifeMoves(i)
  <2>1. o.judgment \in Judgments
    BY DEF TypeOK
  <2>2. QED
    BY <1>3, <1>6, <2>1 DEF PackOpened, Resolve
<1>7. ASSUME NEW j \in Judgments,
             RetryInDialog(j) \/ CloseDialog(j) \/ ToastResume(j) \/ ToastDismissed(j)
      PROVE  LifeMoves(i)
  BY <1>7 DEF RetryInDialog, CloseDialog, ToastResume, ToastDismissed, LifeMoves
<1>8. CASE EpisodeEnds \/ OpenChat \/ WebviewListens \/ CloseChat \/ Resume
  BY <1>8 DEF EpisodeEnds, OpenChat, WebviewListens, CloseChat, Resume, LifeMoves
<1>9. ASSUME NEW s \in Sessions, SwitchSession(s) \/ \E stored \in BOOLEAN : Ready(s, stored)
      PROVE  LifeMoves(i)
  BY <1>9 DEF SwitchSession, Ready, LifeMoves
<1>10. CASE UNCHANGED vars
  BY <1>10 DEF vars, LifeMoves
<1>11. QED
  BY <1>1, <1>2, <1>4, <1>5, <1>6, <1>7, <1>8, <1>9, <1>10 DEF Next

LEMMA NextOneWaiting == TypeOK /\ OneWaiting /\ [Next]_vars => OneWaiting'
<1> SUFFICES ASSUME TypeOK, OneWaiting, [Next]_vars,
                    NEW i \in Judgments, NEW j \in Judgments,
                    life'[i] = "waiting", life'[j] = "waiting"
             PROVE  i = j
  BY DEF OneWaiting
<1>1. \A k \in {i, j} : life[k] = "waiting" \/ Escalate(k)
  BY LivesMoveOn DEF LifeMoves
<1>2. ASSUME NEW k \in {i, j}, Escalate(k) PROVE i = j
  <2>1. \A m \in Judgments : life[m] # "waiting" /\ life' = [life EXCEPT ![k] = "waiting"]
    BY <1>2 DEF Escalate, Waiting
  <2>2. QED
    BY <2>1 DEF TypeOK
<1>3. QED
  BY <1>1, <1>2 DEF OneWaiting

-------------------------------------------------------------------------------
(***************************************************************************)
(* Surfaces                                                                *)
(***************************************************************************)
\* A judgment somebody can answer, or is answering with a retry.
InReach(i) == pending = i \/ dialogs[i] # "none" \/ parked = i \/ Packed(i)

Alone(i) == InReach(i) /\ Apart(i)

\* A judgment comes to no new surface, and leaves its surface with a verdict
\* or to make way for another one in the slot.
Stays(i) ==
    /\ pending' = i => pending = i
    /\ dialogs'[i] # "none" => dialogs[i] # "none"
    /\ parked' = i => parked = i
    /\ Packed(i)' => Packed(i)
    /\ InReach(i) => InReach(i)' \/ life'[i] = "settled" \/ i \in evicted'

\* It is presented for the first time, or moves from one surface to another.
Moves(i) == (Escalate(i) \/ InReach(i)) /\ Alone(i)'

\* The episode, or the slot, hands a judgment to the transcript or a dialog,
\* and the transcript hands the one it was waiting for to a dialog.
LEMMA PresentPlaces ==
    ASSUME TypeOK, NEW j \in Judgments, NEW session, Present(j, session),
           NEW i \in Judgments
    PROVE  /\ i # j /\ pending # i => pending' # i /\ dialogs'[i] = dialogs[i]
           /\ i # j /\ pending = i =>
                \/ pending' = i /\ dialogs'[i] = dialogs[i]
                \/ pending' # i /\ dialogs'[i] = "open"
           /\ i = j /\ pending # j =>
                \/ pending' = j /\ dialogs'[j] = dialogs[j]
                \/ pending' # j /\ dialogs'[j] = "open"
  BY JudgmentAssumption DEF Present, OpenDialogs, transcript, TypeOK

LEMMA ForgetPlaces ==
    ASSUME TypeOK, ForgetTranscript, NEW i \in Judgments
    PROVE  /\ pending' # i
           /\ dialogs'[i] = IF pending = i THEN "open" ELSE dialogs[i]
  BY JudgmentAssumption DEF ForgetTranscript, OpenDialogs, TypeOK

\* Settling takes a judgment from the slot and from no other surface.
LEMMA ResolvePlaces ==
    ASSUME TypeOK, NEW j \in Judgments, NEW verdict, NEW source,
           Resolve(j, verdict, source), NEW i \in Judgments
    PROVE  /\ parked' = i => parked = i
           /\ parked = i /\ parked' # i => life'[i] = "settled"
           /\ evicted' = evicted
  BY JudgmentAssumption DEF Resolve, Settle, TypeOK

\* A verdict in the dialog of j, or a retry that started there.
LEMMA DialogAnswers ==
    ASSUME TypeOK, NewIsUnknown, SurfacesApart, NEW j \in Judgments, NEW v, NEW source,
           dialogs[j] # "none", dialogs' = [dialogs EXCEPT ![j] = "none"],
           Resolve(j, v, source), UNCHANGED <<pending, opening>>, NEW i \in Judgments
    PROVE  Stays(i)
<1>1. i = j => life'[i] = "settled"
  <2>1. life[j] \in {"waiting", "settled"}
    BY DEF TypeOK, NewIsUnknown
  <2>2. QED
    BY <2>1, SettleLives DEF Resolve
<1>2. Packed(i)' <=> Packed(i)
  BY DEF Packed
<1>3. dialogs'[i] = IF i = j THEN "none" ELSE dialogs[i]
  BY DEF TypeOK
<1>4. QED
  BY <1>1, <1>2, <1>3, ResolvePlaces DEF Stays, InReach

LEMMA SurfaceMoves ==
    ASSUME TypeOK, NewIsUnknown, SurfacesApart, [Next]_vars, NEW i \in Judgments
    PROVE  Stays(i) \/ Moves(i)
<1> DEFINE Goal == Stays(i) \/ Moves(i)
<1>0. Apart(i) /\ (life[i] = "new" => ~InReach(i))
  BY DEF SurfacesApart, NewIsUnknown, InReach
<1> USE <1>0 DEF fate, slot, transcript, Stays, Moves, Alone, InReach, Apart, Packed
<1>1. ASSUME NEW j \in Judgments, Escalate(j) PROVE Goal
  <2>1. Present(j, SessionOf[j]) /\ life[j] = "new" /\ UNCHANGED <<parked, opening>>
    BY <1>1 DEF Escalate
  <2>2. QED
    BY <1>1, <2>1, PresentPlaces
<1>2. ASSUME NEW j \in Judgments, EscalateCancelled(j) PROVE Goal
  BY <1>2 DEF EscalateCancelled
<1>3. ASSUME NEW j \in Judgments, Cancel(j) PROVE Goal
  BY <1>3, ResolvePlaces DEF Cancel
<1>4. ASSUME NEW c \in Judgments, NEW v \in Verdicts, ClickCard(c, v) PROVE Goal
  <2>1. pending' = None /\ UNCHANGED dialogs
    BY <1>4 DEF ClickCard
  <2>2. CASE pending = None
    <3>1. UNCHANGED <<opening, parked, pending>>
      BY <1>4, <2>1, <2>2 DEF ClickCard
    <3>2. QED
      BY <2>1, <3>1
  <2>3. CASE UNCHANGED parked /\ pending # None
             /\ opening' = opening \cup {[judgment |-> pending, source |-> Source("card", c)]}
    <3> DEFINE pack == [judgment |-> pending, source |-> Source("card", c)]
    <3>0. pack.judgment = pending
      OBVIOUS
    <3> HIDE DEF pack
    <3>1. Packed(i)' <=> Packed(i) \/ i = pending
      BY <2>3, <3>0 DEF pack
    <3>2. QED
      BY <2>1, <2>3, <3>1, JudgmentAssumption
  <2>4. CASE pending # None /\ UNCHANGED opening /\ Resolve(pending, v, Source("card", c))
    <3>1. pending \in Judgments
      BY <2>4 DEF TypeOK
    <3>2. i = pending => life'[i] = "settled"
      BY <2>4, <3>1, SettleLives DEF Resolve, TypeOK
    <3>3. QED
      BY <2>1, <2>4, <3>1, <3>2, ResolvePlaces, JudgmentAssumption
  <2>5. QED
    BY <1>4, <2>2, <2>3, <2>4 DEF ClickCard
<1>5. ASSUME NEW j \in Judgments, NEW v \in Verdicts, ClickDialog(j, v) PROVE Goal
  <2>1. /\ dialogs[j] # "none" /\ dialogs' = [dialogs EXCEPT ![j] = "none"]
        /\ Resolve(j, v, Source("dialog", j)) /\ UNCHANGED <<pending, opening>>
    BY <1>5 DEF ClickDialog
  <2>2. QED
    BY <2>1, DialogAnswers
<1>6. ASSUME NEW j \in Judgments, RetryInDialog(j) PROVE Goal
  BY <1>6 DEF RetryInDialog, TypeOK
<1>7. ASSUME NEW j \in Judgments, DialogPackOpened(j) PROVE Goal
  <2>1. /\ dialogs[j] # "none" /\ dialogs' = [dialogs EXCEPT ![j] = "none"]
        /\ Resolve(j, "retry", Source("dialog", j)) /\ UNCHANGED <<pending, opening>>
    BY <1>7 DEF DialogPackOpened
  <2>2. QED
    BY <2>1, DialogAnswers
<1>8. ASSUME NEW j \in Judgments, CloseDialog(j) PROVE Goal
  <2>1. /\ dialogs[j] # "none" /\ parked' = j /\ UNCHANGED <<pending, opening>>
        /\ dialogs'[i] = IF i = j THEN "none" ELSE dialogs[i]
        /\ i # j /\ parked = i => i \in evicted'
    BY <1>8, JudgmentAssumption DEF CloseDialog, TypeOK
  <2>2. QED
    BY <2>1
<1>9. ASSUME NEW j \in Judgments, ToastResume(j) PROVE Goal
  <2>1. CASE parked = j
    <3>1. parked' = None /\ Present(j, owner) /\ UNCHANGED opening
      BY <1>9, <2>1 DEF ToastResume, ClearParked
    <3>2. QED
      BY <2>1, <3>1, PresentPlaces, JudgmentAssumption
  <2>2. CASE parked # j
    BY <1>9, <2>2 DEF ToastResume
  <2>3. QED
    BY <2>1, <2>2
<1>10. ASSUME NEW j \in Judgments, ToastAbort(j) PROVE Goal
  <2>1. CASE parked = j
    <3>1. parked' = None /\ Settle(j, "abort", Source("toast", j))
          /\ UNCHANGED <<pending, dialogs, opening>>
      BY <1>10, <2>1 DEF ToastAbort, ClearParked
    <3>2. i = j => life'[i] = "settled"
      BY <2>1, <3>1, SettleLives DEF TypeOK
    <3>3. QED
      BY <2>1, <3>1, <3>2, JudgmentAssumption
  <2>2. CASE parked # j
    BY <1>10, <2>2 DEF ToastAbort
  <2>3. QED
    BY <2>1, <2>2
<1>11. ASSUME NEW j \in Judgments, ToastDismissed(j) PROVE Goal
  BY <1>11 DEF ToastDismissed
<1>12. CASE EpisodeEnds
  BY <1>12 DEF EpisodeEnds
<1>13. ASSUME NEW o \in opening, PackOpened(o) PROVE Goal
  <2>1. /\ o.judgment \in Judgments
        /\ Resolve(o.judgment, "retry", o.source)
        /\ opening' = opening \ {o} /\ UNCHANGED <<pending, dialogs>>
    BY <1>13 DEF PackOpened, TypeOK
  <2>2. CASE i = o.judgment
    <3>1. life[i] # "new" /\ life[i] \in {"new", "waiting", "settled"}
      BY <2>2 DEF TypeOK
    <3>2. life'[i] = "settled"
      BY <2>1, <2>2, <3>1, SettleLives DEF Resolve
    <3>3. QED
      BY <2>1, <3>2, ResolvePlaces
  <2>3. CASE i # o.judgment
    <3>1. Packed(i)' <=> Packed(i)
      BY <2>1, <2>3
    <3>2. parked' = parked \/ (parked' = None /\ parked = o.judgment)
      BY <2>1 DEF Resolve
    <3>3. QED
      BY <2>1, <2>3, <3>1, <3>2, ResolvePlaces
  <2>4. QED
    BY <2>2, <2>3
<1>14. CASE CloseChat
  BY <1>14, ForgetPlaces DEF CloseChat
<1>15. ASSUME NEW s \in Sessions, SwitchSession(s) PROVE Goal
  BY <1>15, ForgetPlaces DEF SwitchSession
<1>16. CASE Resume
  <2>1. parked \in Judgments /\ Present(parked, owner)
        /\ parked' = None /\ UNCHANGED <<opening, life>>
    BY <1>16 DEF Resume, ClearParked, TypeOK
  <2>2. QED
    BY <2>1, PresentPlaces, JudgmentAssumption
<1>17. CASE OpenChat \/ WebviewListens
  BY <1>17 DEF OpenChat, WebviewListens
<1>18. ASSUME NEW s \in Sessions, NEW stored \in BOOLEAN, Ready(s, stored) PROVE Goal
  BY <1>18 DEF Ready
<1>19. CASE UNCHANGED vars
  BY <1>19 DEF vars
<1>20. QED
  BY <1>1, <1>2, <1>3, <1>4, <1>5, <1>6, <1>7, <1>8, <1>9, <1>10, <1>11, <1>12,
     <1>13, <1>14, <1>15, <1>16, <1>17, <1>18, <1>19 DEF Next

LEMMA NextNewIsUnknown ==
    TypeOK /\ NewIsUnknown /\ SurfacesApart /\ [Next]_vars => NewIsUnknown'
<1> SUFFICES ASSUME TypeOK, NewIsUnknown, SurfacesApart, [Next]_vars,
                    NEW i \in Judgments, life'[i] = "new"
             PROVE  i \notin cards' /\ ~InReach(i)'
  BY DEF NewIsUnknown, InReach, Packed
<1>1. ~Escalate(i)
  BY DEF Escalate, TypeOK
<1>2. life[i] = "new"
  BY <1>1, LivesMoveOn DEF LifeMoves
<1>3. i \notin cards /\ ~InReach(i)
  BY <1>2 DEF NewIsUnknown, InReach
<1>4. ~InReach(i)'
  BY <1>1, <1>3, SurfaceMoves DEF Stays, Moves, InReach
<1>5. i \in cards' => i \in cards \/ pending' = i
  <2>1. ASSUME NEW j, NEW session, Present(j, session)
        PROVE  i \in cards' => i \in cards \/ pending' = i
    BY <2>1 DEF Present, transcript
  <2>2. CASE cards' \subseteq cards
    BY <2>2
  <2>3. QED
    BY <2>1, <2>2 DEF Next, vars, transcript, Escalate, EscalateCancelled, Cancel, ClickCard,
         ClickDialog, RetryInDialog, DialogPackOpened, CloseDialog, ToastResume, ToastAbort,
         ToastDismissed, EpisodeEnds, PackOpened, CloseChat, OpenChat,
         WebviewListens, Ready, SwitchSession,
         ForgetTranscript, Resume
<1>6. QED
  BY <1>3, <1>4, <1>5 DEF InReach

LEMMA NextSurfacesApart ==
    TypeOK /\ NewIsUnknown /\ SurfacesApart /\ [Next]_vars => SurfacesApart'
<1> SUFFICES ASSUME TypeOK, NewIsUnknown, SurfacesApart, [Next]_vars, NEW i \in Judgments
             PROVE  Apart(i)'
  BY DEF SurfacesApart
<1>1. Apart(i)
  BY DEF SurfacesApart
<1>2. QED
  BY <1>1, SurfaceMoves DEF Stays, Moves, Alone, Apart

LEMMA SurfacesInReach ==
    ASSUME CardKnown, NEW i \in Judgments
    PROVE  Surfaces(i) # {} \/ CardLost(i) <=> InReach(i)
  BY JudgmentAssumption DEF CardKnown, CardLost, Surfaces, InReach, Packed

LEMMA NextCardKnown == TypeOK /\ CardKnown /\ [Next]_vars => CardKnown'
<1> SUFFICES ASSUME TypeOK, CardKnown, [Next]_vars PROVE CardKnown'
  OBVIOUS
<1> USE DEF CardKnown, screen, transcript
<1>1. CASE UNCHANGED <<screen, transcript>>
  BY <1>1
<1>2. ASSUME NEW j, NEW session, Present(j, session), UNCHANGED screen PROVE CardKnown'
  <2>1. CASE Inline(session) /\ panel = "loading"
    <3>1. panel' # "closed" /\ dropped'
      BY <1>2, <2>1 DEF Present, Inline
    <3>2. QED
      BY <3>1
  <2>2. CASE Inline(session) /\ panel # "loading"
    <3>1. panel' # "closed" /\ pending' \in cards'
      BY <1>2, <2>2 DEF Present, Inline
    <3>2. QED
      BY <3>1
  <2>3. CASE ~Inline(session)
    BY <1>2, <2>3 DEF Present
  <2>4. QED
    BY <2>1, <2>2, <2>3
<1>3. ASSUME NEW c, NEW v, ClickCard(c, v) PROVE CardKnown'
  BY <1>3 DEF ClickCard
<1>4. CASE ForgetTranscript
  BY <1>4 DEF ForgetTranscript
<1>5. CASE OpenChat \/ WebviewListens
  BY <1>5 DEF OpenChat, WebviewListens
<1>6. ASSUME NEW s, NEW stored \in BOOLEAN, Ready(s, stored) PROVE CardKnown'
  BY <1>6 DEF Ready
<1>7. QED
  BY <1>1, <1>2, <1>3, <1>4, <1>5, <1>6 DEF Next, vars, Escalate, EscalateCancelled, Cancel,
     ClickDialog, RetryInDialog, DialogPackOpened, CloseDialog, ToastResume, ToastAbort,
     ToastDismissed, EpisodeEnds, PackOpened, CloseChat, SwitchSession, Resume

LEMMA EvictedStay == [Next]_vars => evicted \subseteq evicted'
  BY DEF Next, vars, slot, Escalate, EscalateCancelled, Cancel, ClickCard, Resolve,
         ClickDialog, RetryInDialog, DialogPackOpened, CloseDialog, ToastResume, ToastAbort,
         ToastDismissed, EpisodeEnds, PackOpened, CloseChat, OpenChat,
         WebviewListens, Ready, SwitchSession,
         ClearParked, Resume

LEMMA NextReachable ==
    TypeOK /\ NewIsUnknown /\ SurfacesApart /\ CardKnown /\ Reachable /\ [Next]_vars
        => Reachable'
<1> SUFFICES ASSUME TypeOK, NewIsUnknown, SurfacesApart, CardKnown, Reachable, [Next]_vars,
                    NEW i \in Judgments, life'[i] = "waiting", i \notin evicted'
             PROVE  InReach(i)'
  <2>1. ASSUME TypeOK, CardKnown, [Next]_vars, NEW i \in Judgments, InReach(i)'
        PROVE  (Surfaces(i) # {} \/ CardLost(i))'
    <3>1. CardKnown'
      BY <2>1, NextCardKnown
    <3>2. QED
      BY <2>1, <3>1, JudgmentAssumption DEF CardKnown, CardLost, Surfaces, InReach, Packed
  <2>2. QED
    BY <2>1 DEF Reachable, Waiting
<1>1. CASE life[i] = "waiting"
  <2>1. InReach(i)
    BY <1>1, EvictedStay, SurfacesInReach DEF Reachable, Waiting
  <2>2. QED
    BY <2>1, SurfaceMoves DEF Stays, Moves, Alone
<1>2. CASE life[i] # "waiting"
  <2>1. Escalate(i)
    BY <1>2, LivesMoveOn DEF LifeMoves
  <2>2. Present(i, SessionOf[i]) /\ pending # i
    BY <2>1 DEF Escalate, NewIsUnknown
  <2>3. QED
    BY <2>2, PresentPlaces DEF InReach
<1>3. QED
  BY <1>1, <1>2

-------------------------------------------------------------------------------
(***************************************************************************)
(* Answers                                                                 *)
(***************************************************************************)
\* A card left over in the transcript shows a judgment that is settled: only
\* one judgment waits, and the transcript waits for that one.
LEMMA LeftoverCards ==
    ASSUME TypeOK, OneWaiting, NewIsUnknown, NEW c \in cards, pending # None
    PROVE  life[pending] = "settled" \/ Answering(Source("card", c), pending)
<1>1. c \in Judgments /\ pending \in Judgments
  BY DEF TypeOK
<1>2. life[c] \in {"waiting", "settled"} /\ life[pending] \in {"waiting", "settled"}
  BY <1>1 DEF TypeOK, NewIsUnknown
<1>3. life[c] = "settled" \/ life[pending] = "settled" \/ c = pending
  BY <1>1, <1>2 DEF OneWaiting
<1>4. QED
  BY <1>3 DEF Answering, Source

LEMMA AnsweringLasts ==
    ASSUME TypeOK, [Next]_vars, NEW source \in Sources, NEW j, Answering(source, j)
    PROVE  Answering(source, j)'
<1>1. source.of \in Judgments
  BY DEF Sources
<1>2. QED
  BY <1>1, LivesMoveOn DEF Answering, LifeMoves, Escalate

LEMMA NextPacksAnswer ==
    TypeOK /\ OneWaiting /\ NewIsUnknown /\ PacksAnswer /\ [Next]_vars => PacksAnswer'
<1> SUFFICES ASSUME TypeOK, OneWaiting, NewIsUnknown, PacksAnswer, [Next]_vars,
                    NEW o \in opening'
             PROVE  life'[o.judgment] = "settled" \/ Answering(o.source, o.judgment)'
  BY DEF PacksAnswer
<1>1. CASE o \in opening
  <2>1. o.judgment \in Judgments /\ o.source \in Sources
    BY <1>1 DEF TypeOK
  <2>2. life[o.judgment] = "settled" => life'[o.judgment] = "settled"
    BY <2>1, LivesMoveOn DEF LifeMoves, Escalate
  <2>3. QED
    BY <1>1, <2>1, <2>2, AnsweringLasts DEF PacksAnswer
<1>2. CASE o \notin opening
  <2>1. PICK c \in cards : /\ pending # None /\ UNCHANGED life
                           /\ o = [judgment |-> pending, source |-> Source("card", c)]
    BY <1>2 DEF Next, vars, fate, Escalate, EscalateCancelled, Cancel, ClickCard,
         ClickDialog, RetryInDialog, DialogPackOpened, CloseDialog, ToastResume, ToastAbort,
         ToastDismissed, EpisodeEnds, PackOpened, CloseChat, OpenChat,
         WebviewListens, Ready, SwitchSession, Resume
  <2>2. o.judgment = pending /\ o.source = Source("card", c)
    BY <2>1
  <2>3. QED
    BY <2>1, <2>2, LeftoverCards DEF Answering
<1>3. QED
  BY <1>1, <1>2

LEMMA SettledByAnswer ==
    ASSUME TypeOK, OneWaiting, NewIsUnknown, PacksAnswer, [Next]_vars,
           NEW i \in Judgments, life[i] # "settled", life'[i] = "settled"
    PROVE  Answering(answer'[i].source, i)
<1> DEFINE Goal == Answering(answer'[i].source, i)
<1> USE DEF fate, slot, transcript
<1>1. ASSUME NEW j \in Judgments, NEW v, NEW source, Settle(j, v, source),
             life[j] = "settled" \/ Answering(source, j)
      PROVE  Goal
  BY <1>1 DEF Settle, TypeOK
<1>2. \A j \in Judgments : \A surface : Answering(Source(surface, j), j)
  BY DEF Answering, Source
<1>3. ASSUME NEW j \in Judgments, Escalate(j) PROVE Goal
  BY <1>3 DEF Escalate, TypeOK
<1>4. ASSUME NEW j \in Judgments, EscalateCancelled(j) PROVE Goal
  BY <1>2, <1>4 DEF EscalateCancelled, TypeOK
<1>5. ASSUME NEW j \in Judgments,
             \/ Cancel(j) \/ DialogPackOpened(j) \/ ToastAbort(j)
             \/ \E v \in Verdicts : ClickDialog(j, v)
      PROVE  Goal
  BY <1>1, <1>2, <1>5 DEF Cancel, ClickDialog, DialogPackOpened, ToastAbort, Resolve
<1>6. ASSUME NEW c \in Judgments, NEW v \in Verdicts, ClickCard(c, v) PROVE Goal
  <2>1. c \in cards /\ pending \in Judgments /\ Settle(pending, v, Source("card", c))
    BY <1>6 DEF ClickCard, Resolve, TypeOK
  <2>2. pending # None
    BY <2>1, JudgmentAssumption
  <2>3. QED
    BY <1>1, <2>1, <2>2, LeftoverCards
<1>7. ASSUME NEW o \in opening, PackOpened(o) PROVE Goal
  <2>1. o.judgment \in Judgments
    BY DEF TypeOK
  <2>2. QED
    BY <1>1, <1>7, <2>1 DEF PackOpened, Resolve, PacksAnswer
<1>8. QED
  BY <1>3, <1>4, <1>5, <1>6, <1>7 DEF Next, vars, RetryInDialog, CloseDialog, ToastResume,
     ToastDismissed, EpisodeEnds, CloseChat, OpenChat, WebviewListens, Ready, SwitchSession, Resume

LEMMA NextOwnAnswer ==
    TypeOK /\ OneWaiting /\ NewIsUnknown /\ PacksAnswer /\ OwnAnswer /\ [Next]_vars
        => OwnAnswer'
<1> SUFFICES ASSUME TypeOK, OneWaiting, NewIsUnknown, PacksAnswer, OwnAnswer, [Next]_vars,
                    NEW i \in Judgments, life'[i] = "settled"
             PROVE  Answering(answer[i].source, i)'
  BY DEF OwnAnswer, Answering
<1>1. Answering(answer'[i].source, i)
  <2>1. CASE life[i] = "settled"
    BY <2>1, LivesMoveOn DEF LifeMoves, Escalate, OwnAnswer, Answering
  <2>2. CASE life[i] # "settled"
    BY <2>2, SettledByAnswer
  <2>3. QED
    BY <2>1, <2>2
<1>2. answer'[i].source \in Sources
  <2>1. TypeOK'
    BY NextTypeOK
  <2>2. answer'[i] \in Answers
    BY <2>1 DEF TypeOK
  <2>3. QED
    BY <2>2 DEF Answers
<1>3. \A source \in Sources :
          Answering(source, i) =>
              source.of = i \/ (source.surface = "card" /\ life'[source.of] = "settled")
  BY AnsweringLasts DEF Answering
<1>4. QED
  BY <1>1, <1>2, <1>3 DEF Answering

-------------------------------------------------------------------------------
(***************************************************************************)
(* The theorems                                                            *)
(***************************************************************************)
LEMMA InitIInv == Init => IInv
<1> SUFFICES ASSUME Init PROVE IInv
  OBVIOUS
<1>1. OneWaiting /\ CardKnown /\ Reachable /\ OwnAnswer
  BY DEF Init, OneWaiting, CardKnown, Reachable, Waiting, OwnAnswer
<1>2. NewIsUnknown /\ SurfacesApart /\ PacksAnswer
  BY JudgmentAssumption DEF Init, NewIsUnknown, SurfacesApart, Apart, Packed, PacksAnswer
<1>3. QED
  BY <1>1, <1>2, InitTypeOK DEF IInv

LEMMA NextIInv == IInv /\ [Next]_vars => IInv'
  BY NextTypeOK, NextOneWaiting, NextNewIsUnknown, NextSurfacesApart, NextPacksAnswer,
     NextCardKnown, NextReachable, NextOwnAnswer DEF IInv

\* The invariant holds in every state of every behaviour.
THEOREM Invariance == Spec => []IInv
  BY InitIInv, NextIInv, PTL DEF Spec

\* Every variable of the escalation (escalate and presentJudgment in
\* episodeLoop.ts, the transcript in askVinv.ts) has its type.
THEOREM TypeCorrect == Spec => []TypeOK
<1>1. IInv => TypeOK
  BY DEF IInv
<1>2. QED
  BY <1>1, Invariance, PTL

\* However cards, dialogs, the parked slot, toasts, closed chats and switched
\* sessions interleave, a judgment an episode waits for is on some surface,
\* unless another one took its place in the slot (park in episodeLoop.ts) or
\* its card was lost while the panel came up (case 'ready' in askVinv.ts), and
\* then the panel is still open and hands it on when it closes.
THEOREM WaitingIsReachable == Spec => []Reachable
<1>1. IInv => Reachable
  BY DEF IInv
<1>2. QED
  BY <1>1, Invariance, PTL

\* No judgment is on two surfaces at a time (presentJudgment, resumeJudgment).
THEOREM OnOneSurface == Spec => []OneSurface
<1>1. IInv => OneSurface
  <2> SUFFICES ASSUME IInv, NEW i \in Judgments PROVE Cardinality(Surfaces(i)) <= 1
    BY DEF OneSurface
  <2>1. Apart(i)
    BY DEF IInv, SurfacesApart
  <2>2. CASE Surfaces(i) = {}
    BY <2>2, FS_EmptySet
  <2>3. CASE Surfaces(i) # {}
    <3>1. PICK s \in Surfaces(i) : TRUE
      BY <2>3
    <3>2. \A t \in Surfaces(i) : t = s
      BY <2>1, <3>1 DEF Surfaces, Apart, Packed
    <3>3. Surfaces(i) = {s}
      BY <3>1, <3>2
    <3>4. QED
      BY <3>3, FS_Singleton
  <2>4. QED
    BY <2>2, <2>3
<1>2. QED
  BY <1>1, Invariance, PTL

\* A judgment is settled by a verdict about itself, or by the leftover card of
\* one that was settled before (case 'episodeVerdict' in askVinv.ts).
THEOREM AnsweredByItsOwn == Spec => []OwnAnswer
<1>1. IInv => OwnAnswer
  BY DEF IInv
<1>2. QED
  BY <1>1, Invariance, PTL

\* The first verdict stands, on whichever surfaces later ones are given (the
\* settled flag of escalate).
THEOREM FirstVerdictStands == Spec => AnswerFinal
<1> DEFINE Final ==
      \A j \in Judgments : life[j] = "settled" => life'[j] = "settled" /\ answer'[j] = answer[j]
<1>1. TypeOK /\ [Next]_vars => Final
  BY LivesMoveOn DEF LifeMoves, Escalate
<1>2. QED
  BY <1>1, TypeCorrect, PTL DEF Spec, AnswerFinal
===============================================================================
