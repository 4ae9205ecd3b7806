------------------------------- MODULE Judgment -------------------------------
(***************************************************************************)
(* The judgments an episode asks of the operator (episodeLoop.ts), and the *)
(* surfaces that carry them: a card in the Ask Vinv transcript             *)
(* (askVinv.ts), a dialog, the status bar item of the one parked judgment  *)
(* and the toast that announces it.                                        *)
(*                                                                         *)
(* An episode waits in escalate until its judgment is settled; episodes    *)
(* run one at a time, so one judgment waits at a time.  Nothing takes a    *)
(* surface away when the episode is cancelled under it: a settled judgment *)
(* may still have a card, a dialog or the parked slot.                     *)
(*                                                                         *)
(* A card posts its verdict without saying which judgment it shows; it     *)
(* reaches the judgment the transcript was asked for last.  "approve"      *)
(* stands for approve, abort and revert, which take the same way; a retry  *)
(* opens the context pack first.                                           *)
(*                                                                         *)
(* The panel counts as open from the moment it is created.  What is posted *)
(* before its webview listens is lost, and the stored transcript that      *)
(* answers its "ready" replaces what it shows, cards included; neither     *)
(* touches pendingVerdict.                                                 *)
(***************************************************************************)
EXTENDS Integers, FiniteSets

CONSTANTS
    Judgments,      \* the judgments episodes ask for, one after the other
    Questions,      \* those about an answer instead of an attempted fix
    Sessions,       \* chat sessions
    SessionOf,      \* the session each judgment's episode is bound to
    None

Verdicts == {"approve", "retry", "abort"}
Sources == [surface : {"token", "card", "dialog", "toast"}, of : Judgments]
Answers == [verdict : Verdicts, source : Sources]

ASSUME JudgmentAssumption ==
    /\ Questions \subseteq Judgments
    /\ SessionOf \in [Judgments -> Sessions]
    /\ None \notin Judgments \cup Sessions \cup Answers

VARIABLES
    life,       \* each judgment: "new", "waiting" or "settled"
    answer,     \* what settled it: the verdict and the surface it came from
    owner,      \* currentEpisodeSessionId
    parked,     \* the parked judgment
    evicted,    \* judgments whose place there another one took (history)
    toasts,     \* judgments announced by a toast that is still up
    panel,      \* "closed", "loading", "live" (listens) or "ready" (heard)
    chat,       \* activeSessionId, which outlives the panel
    pending,    \* pendingVerdict: the judgment the next verdict settles
    cards,      \* judgments with an unanswered card in the transcript
    dropped,    \* the pending one's card was lost as the panel came up (history)
    opening,    \* retries from a card whose context pack is being opened
    dialogs     \* the dialog of each judgment

vars == <<life, answer, owner, parked, evicted, toasts, panel, chat, pending, cards, dropped,
          opening, dialogs>>
fate == <<life, answer>>
slot == <<parked, evicted>>
screen == <<panel, chat>>
transcript == <<pending, cards, dropped>>

Source(surface, j) == [surface |-> surface, of |-> j]
Waiting == {j \in Judgments : life[j] = "waiting"}

(***************************************************************************)
(* Settling                                                                *)
(***************************************************************************)
\* Mutant: a second verdict replaces the first.
SettleAgain(j, verdict, source) ==
    /\ life' = [life EXCEPT ![j] = "settled"]
    /\ answer' = [answer EXCEPT ![j] = [verdict |-> verdict, source |-> source]]

\* The promise of the episode: the first verdict is the one it gets.
Settle(j, verdict, source) ==
    IF life[j] = "waiting"
    THEN /\ life' = [life EXCEPT ![j] = "settled"]
         /\ answer' = [answer EXCEPT ![j] = [verdict |-> verdict, source |-> source]]
    ELSE UNCHANGED fate

\* ParkedJudgment.resolve: a judgment that settles leaves the slot.
Resolve(j, verdict, source) ==
    /\ Settle(j, verdict, source)
    /\ parked' = IF parked = j /\ life[j] = "waiting" THEN None ELSE parked
    /\ evicted' = evicted

(***************************************************************************)
(* Presenting                                                              *)
(***************************************************************************)
\* openJudgmentDialog for the judgments of a set.
OpenDialogs(js) == dialogs' = [j \in Judgments |-> IF j \in js THEN "open" ELSE dialogs[j]]

\* requestEpisodeVerdict carries the judgment when the panel exists and shows,
\* as far as is known, the session of the running episode.
Inline(session) == panel # "closed" /\ (None \in {session, chat} \/ session = chat)

\* presentJudgment.  A judgment the transcript was waiting for gives way: the
\* request for it returns 'unavailable' and it goes to a dialog.
Present(j, session) ==
    IF Inline(session)
    THEN /\ OpenDialogs({pending} \ {None})
         /\ pending' = j
         /\ dropped' = (panel = "loading")
         /\ cards' = IF panel = "loading" THEN cards ELSE cards \cup {j}
    ELSE OpenDialogs({j}) /\ UNCHANGED transcript

\* Mutant: the request is dropped without an answer.
ForgetTranscriptQuietly ==
    /\ pending' = None
    /\ cards' = {} /\ dropped' = FALSE
    /\ UNCHANGED dialogs

\* The panel was closed, or shows another conversation: clearPanelSessionState.
ForgetTranscript ==
    /\ OpenDialogs({pending} \ {None})
    /\ pending' = None
    /\ cards' = {} /\ dropped' = FALSE

-------------------------------------------------------------------------------
Init ==
    /\ life = [j \in Judgments |-> "new"]
    /\ answer = [j \in Judgments |-> None]
    /\ owner = None /\ parked = None /\ evicted = {} /\ toasts = {}
    /\ panel = "closed" /\ chat = None
    /\ pending = None /\ cards = {} /\ dropped = FALSE /\ opening = {}
    /\ dialogs = [j \in Judgments |-> "none"]

\* escalate.
Escalate(j) ==
    /\ life[j] = "new" /\ Waiting = {} /\ owner \in {None, SessionOf[j]}
    /\ life' = [life EXCEPT ![j] = "waiting"]
    /\ owner' = SessionOf[j]
    /\ Present(j, SessionOf[j])
    /\ UNCHANGED <<answer, slot, toasts, screen, opening>>

\* escalate under a token that has been cancelled already.
EscalateCancelled(j) ==
    /\ life[j] = "new" /\ Waiting = {} /\ owner \in {None, SessionOf[j]}
    /\ life' = [life EXCEPT ![j] = "settled"]
    /\ answer' = [answer EXCEPT ![j] = [verdict |-> "abort", source |-> Source("token", j)]]
    /\ owner' = SessionOf[j]
    /\ UNCHANGED <<slot, toasts, screen, transcript, opening, dialogs>>

\* The episode is cancelled: its token settles the judgment it waits for.
Cancel(j) ==
    /\ life[j] = "waiting"
    /\ Resolve(j, "abort", Source("token", j))
    /\ UNCHANGED <<owner, toasts, screen, transcript, opening, dialogs>>

EpisodeEnds ==
    /\ owner # None /\ Waiting = {}
    /\ owner' = None
    /\ UNCHANGED <<fate, slot, toasts, screen, transcript, opening, dialogs>>

(***************************************************************************)
(* The card in the transcript                                              *)
(***************************************************************************)
\* A click on card c settles the pending judgment, whose card need not be c.
ClickCard(c, verdict) ==
    /\ c \in cards
    /\ cards' = cards \ {c}
    /\ pending' = None /\ dropped' = dropped
    /\ IF pending = None THEN UNCHANGED <<fate, slot, opening>>
       ELSE IF verdict = "retry" /\ pending \notin Questions
       THEN /\ opening' = opening \cup {[judgment |-> pending, source |-> Source("card", c)]}
            /\ UNCHANGED <<fate, slot>>
       ELSE Resolve(pending, verdict, Source("card", c)) /\ UNCHANGED opening
    /\ UNCHANGED <<owner, toasts, screen, dialogs>>

\* The context pack is open, or could not be opened: the retry counts.
PackOpened(o) ==
    /\ o \in opening
    /\ opening' = opening \ {o}
    /\ Resolve(o.judgment, "retry", o.source)
    /\ UNCHANGED <<owner, toasts, screen, transcript, dialogs>>

\* openAskVinv creates the panel and gives it its page.
OpenChat ==
    /\ panel = "closed" /\ panel' = "loading"
    /\ UNCHANGED <<fate, owner, slot, toasts, chat, transcript, opening, dialogs>>

\* The page has come up: its listener hears what is posted from now on.
WebviewListens ==
    /\ panel = "loading" /\ panel' = "live"
    /\ UNCHANGED <<fate, owner, slot, toasts, chat, transcript, opening, dialogs>>

\* case 'ready', with s the active session on disk.  Its transcript is
\* restored, if it has one, over the cards that are up.
Ready(s, stored) ==
    /\ panel = "live" /\ panel' = "ready"
    /\ chat' = s
    /\ cards' = IF stored THEN {} ELSE cards
    /\ dropped' = (dropped \/ (stored /\ pending # None))
    /\ UNCHANGED <<fate, owner, slot, toasts, pending, opening, dialogs>>

CloseChat ==
    /\ panel # "closed" /\ panel' = "closed"
    /\ ForgetTranscript
    /\ UNCHANGED <<fate, owner, slot, toasts, chat, opening>>

\* A session picker may outlive the panel it was asked from, so that the panel
\* may be a new one that is coming up.
SwitchSession(s) ==
    /\ panel # "closed" /\ chat \notin {None, s} /\ chat' = s
    /\ ForgetTranscript
    /\ UNCHANGED <<fate, owner, slot, toasts, panel, opening>>

(***************************************************************************)
(* The dialog                                                              *)
(***************************************************************************)
ClickDialog(j, verdict) ==
    /\ dialogs[j] # "none" /\ verdict # "retry"
    /\ dialogs' = [dialogs EXCEPT ![j] = "none"]
    /\ Resolve(j, verdict, Source("dialog", j))
    /\ UNCHANGED <<owner, toasts, screen, transcript, opening>>

RetryInDialog(j) ==
    /\ dialogs[j] = "open"
    /\ dialogs' = [dialogs EXCEPT ![j] = "retrying"]
    /\ UNCHANGED <<fate, owner, slot, toasts, screen, transcript, opening>>

DialogPackOpened(j) ==
    /\ dialogs[j] = "retrying"
    /\ dialogs' = [dialogs EXCEPT ![j] = "none"]
    /\ Resolve(j, "retry", Source("dialog", j))
    /\ UNCHANGED <<owner, toasts, screen, transcript, opening>>

\* Closing the panel parks its judgment, whatever has become of it meanwhile.
CloseDialog(j) ==
    /\ dialogs[j] # "none"
    /\ dialogs' = [dialogs EXCEPT ![j] = "none"]
    /\ parked' = j
    /\ evicted' = evicted \cup ({parked} \ {None, j})
    /\ toasts' = toasts \cup {j}
    /\ UNCHANGED <<fate, owner, screen, transcript, opening>>

(***************************************************************************)
(* The parked judgment                                                     *)
(***************************************************************************)
\* Mutant: the slot is left as it is.
ClearParkedLate == UNCHANGED slot

ClearParked == parked' = None /\ evicted' = evicted

\* resumeJudgment, from the status bar or the command palette.
Resume ==
    /\ parked # None
    /\ ClearParked
    /\ Present(parked, owner)
    /\ UNCHANGED <<fate, owner, toasts, screen, opening>>

\* The toast acts on its own judgment, and only while that is the parked one.
ToastResume(j) ==
    /\ j \in toasts /\ toasts' = toasts \ {j}
    /\ IF parked = j THEN ClearParked /\ Present(j, owner)
       ELSE UNCHANGED <<slot, transcript, dialogs>>
    /\ UNCHANGED <<fate, owner, screen, opening>>

\* Mutant: the toast acts on whatever is parked.
ToastAbortParked(j) ==
    /\ j \in toasts /\ toasts' = toasts \ {j}
    /\ IF parked # None
       THEN ClearParked /\ Settle(parked, "abort", Source("toast", j))
       ELSE UNCHANGED <<fate, slot>>
    /\ UNCHANGED <<owner, screen, transcript, opening, dialogs>>

ToastAbort(j) ==
    /\ j \in toasts /\ toasts' = toasts \ {j}
    /\ IF parked = j
       THEN ClearParked /\ Settle(j, "abort", Source("toast", j))
       ELSE UNCHANGED <<fate, slot>>
    /\ UNCHANGED <<owner, screen, transcript, opening, dialogs>>

ToastDismissed(j) ==
    /\ j \in toasts /\ toasts' = toasts \ {j}
    /\ UNCHANGED <<fate, owner, slot, screen, transcript, opening, dialogs>>

Next ==
    \/ \E j \in Judgments :
          \/ Escalate(j) \/ EscalateCancelled(j) \/ Cancel(j)
          \/ \E v \in Verdicts : ClickCard(j, v) \/ ClickDialog(j, v)
          \/ RetryInDialog(j) \/ DialogPackOpened(j) \/ CloseDialog(j)
          \/ ToastResume(j) \/ ToastAbort(j) \/ ToastDismissed(j)
    \/ EpisodeEnds
    \/ \E o \in opening : PackOpened(o)
    \/ OpenChat \/ WebviewListens \/ CloseChat
    \/ \E s \in Sessions : SwitchSession(s) \/ \E stored \in BOOLEAN : Ready(s, stored)
    \/ Resume

Spec == Init /\ [][Next]_vars

-------------------------------------------------------------------------------
(***************************************************************************)
(* Properties                                                              *)
(***************************************************************************)
\* Every variable has its type, and a judgment has an answer exactly when it is
\* settled.
TypeOK ==
    /\ life \in [Judgments -> {"new", "waiting", "settled"}]
    /\ answer \in [Judgments -> Answers \cup {None}]
    /\ \A j \in Judgments : answer[j] # None <=> life[j] = "settled"
    /\ owner \in Sessions \cup {None}
    /\ parked \in Judgments \cup {None}
    /\ evicted \subseteq Judgments /\ toasts \subseteq Judgments
    /\ panel \in {"closed", "loading", "live", "ready"}
    /\ chat \in Sessions \cup {None}
    /\ pending \in Judgments \cup {None} /\ cards \subseteq Judgments
    /\ dropped \in BOOLEAN
    /\ opening \subseteq [judgment : Judgments, source : Sources]
    /\ dialogs \in [Judgments -> {"none", "open", "retrying"}]

Surfaces(j) ==
    {s \in {"card", "pack", "dialog", "slot"} :
        \/ s = "card" /\ pending = j /\ j \in cards
        \/ s = "pack" /\ \E o \in opening : o.judgment = j
        \/ s = "dialog" /\ dialogs[j] # "none"
        \/ s = "slot" /\ parked = j}

\* The transcript waits for the verdict of a card that is not there, and the
\* panel is still open: closing it is what brings the judgment back.
CardLost(j) == pending = j /\ dropped /\ panel # "closed"

\* An episode that waits for a judgment can be answered: the judgment is on
\* one surface (a verdict whose context pack is being opened counts).  Closing
\* the chat, changing its session, closing the dialog and resuming move the
\* judgment and do not lose it, not even one whose card was lost.  Two kinds
\* are out of reach: a judgment whose card was lost as the panel came up, until
\* the panel is closed or shows another session, and a parked one whose place
\* a later closed dialog took (park keeps one).
Reachable == \A j \in Waiting \ evicted : Surfaces(j) # {} \/ CardLost(j)

\* A judgment has one surface at a time: it is never parked and on screen, or
\* on screen twice, so that two verdicts would race for it.
OneSurface == \A j \in Judgments : Cardinality(Surfaces(j)) <= 1

\* A judgment is settled by a verdict about itself.  The exception is a card:
\* a card left over from a judgment that is settled already answers for the
\* one the transcript waits for (case 'episodeVerdict' takes no id).
OwnAnswer ==
    \A j \in Judgments :
        (life[j] = "settled" /\ answer[j].source.of # j)
            => answer[j].source.surface = "card" /\ life[answer[j].source.of] = "settled"

\* The first verdict stands: whatever is clicked later on another surface, a
\* judgment that is settled keeps its answer.
AnswerFinal ==
    [][\A j \in Judgments : life[j] = "settled" => life'[j] = "settled" /\ answer'[j] = answer[j]]_vars
===============================================================================
