---------------------------- MODULE SessionSpeech ----------------------------
(***************************************************************************)
(* What a live voice session says on its own account: answers it owes the  *)
(* user (deferred answers), state changes of watched agents (externals),   *)
(* the end of background work (notices) and progress lines.  All of them   *)
(* leave through one flush, guarded by a latch, when the conversation is   *)
(* idle; a deadline watch forces the flush when they have waited too long. *)
(* A flush runs over many awaits, so more than one may be under way when   *)
(* the latch lets it: each is a member of Flushes.                         *)
(*                                                                         *)
(* A notice is durable: the supervisor leases it to one session, and its   *)
(* announcement is recorded after the client confirmed that it was played  *)
(* (protocol v11; before that, after the provider accepted it).            *)
(***************************************************************************)
EXTENDS Naturals, FiniteSets

CONSTANTS
  Flushes,       \* calls of flushNotifications that may be under way
  Answers,       \* deferred answers
  Externals,     \* a watched agent and a category of its announcements
  Tasks,         \* background tasks of the owner
  MaxTries,      \* MAX_NOTIFICATION_DELIVERY_ATTEMPTS
  MaxEvents,     \* things that happen to the session in a behaviour
  Nobody

ASSUME SpeechAssumption == MaxTries \in Nat \ {0} /\ MaxEvents \in Nat

VARIABLES
  up,            \* ~closing
  muted,         \* voiceDemoted
  v11,           \* the client confirms playback
  user,          \* userSpeaking
  resp,          \* providerResponseActive, and the scope of the response
  expected,      \* providerTurnResponseExpected
  awaiting,      \* notificationResponsePending
  dog,           \* notificationResponseTimer is armed
  latch,         \* notificationFlushRunning
  micro,         \* a flush is scheduled as a microtask
  retry,         \* notificationRetryTimer is armed
  answers,       \* deferredAnswers
  pend,          \* pendingNotifications
  ext,           \* pendingExternalAnnouncements
  prog,          \* pendingProgressAnnouncements, by task
  tries,         \* notificationDeliveryAttempts, externalDeliveryAttempts
  fl,            \* the flushes under way
  current,       \* the flush that activeNotificationId belongs to
  task,          \* durable state of the owner's tasks
  lease,         \* notificationAnnouncementClaims of the supervisor
  heard,         \* tasks whose end was said, and confirmed by a v11 client
  events         \* the counter of that bound

flags    == <<up, muted, v11>>
talk     == <<user, resp, expected>>
gates    == <<awaiting, dog, latch, micro, retry>>
items    == <<answers, pend, ext, prog, tries>>
durable  == <<task, lease, heard>>
speechVars == <<flags, talk, gates, items, fl, current, durable, events>>

Off == [at |-> "off", says |-> "none", todo |-> {}, left |-> {}, got |-> {}, play |-> "none"]

ReadyAnswers == {a \in Answers : answers[a] = "ready"}
Quiet == ~user /\ resp = "no" /\ ~expected

\* scheduleNotificationFlush, in the state a step leaves.
Due == /\ up /\ ~muted /\ ~latch /\ ~awaiting /\ Quiet /\ ~retry
       /\ pend # {} \/ ReadyAnswers # {} \/ ext # {} \/ prog # {}
Schedules == micro' = (micro \/ Due')

SpeechInit ==
  /\ up = TRUE /\ muted = FALSE /\ v11 \in BOOLEAN
  /\ user = FALSE /\ resp = "no" /\ expected = FALSE
  /\ awaiting = FALSE /\ dog = FALSE /\ latch = FALSE /\ micro = FALSE /\ retry = FALSE
  /\ answers = [a \in Answers |-> "none"] /\ pend = {} /\ ext = {} /\ prog = {}
  /\ tries = [i \in Tasks \cup Externals |-> 0]
  /\ fl = [f \in Flushes |-> Off] /\ current = Nobody
  /\ task = [t \in Tasks |-> "running"] /\ lease = [t \in Tasks |-> "none"] /\ heard = {}
  /\ events = 0

(***************************************************************************)
(* The conversation.                                                       *)
(***************************************************************************)

\* One more of the MaxEvents.
Happens == events < MaxEvents /\ events' = events + 1

UserStarts ==
  /\ up /\ Happens /\ ~user
  /\ user' = TRUE
  /\ UNCHANGED <<flags, resp, expected, gates, items, fl, current, durable>>

\* The gate, the provider or the client itself ends the user's speech: the
\* turn is dropped, the provider will answer, or it was committed.
UserStops ==
  /\ up /\ user /\ user' = FALSE
  /\ \/ UNCHANGED <<resp, expected>>
     \/ expected' = TRUE /\ UNCHANGED resp
     \/ resp = "no" /\ resp' = "conversation" /\ UNCHANGED expected
  /\ UNCHANGED <<flags, awaiting, dog, latch, retry, items, fl, current, durable, events>>
  /\ Schedules

\* A typed turn makes the provider answer.
UserTypes ==
  /\ up /\ Happens /\ resp = "no"
  /\ user' = FALSE /\ resp' = "conversation"
  /\ UNCHANGED <<flags, expected, gates, items, fl, current, durable>>

ResponseStarts(scope) ==
  /\ up /\ resp = "no"
  /\ IF scope = "conversation" THEN expected /\ expected' = FALSE ELSE awaiting /\ UNCHANGED expected
  /\ resp' = scope
  /\ UNCHANGED <<flags, user, gates, items, fl, current, durable, events>>

ResponseEnds ==
  /\ up /\ resp # "no"
  /\ resp' = "no"
  /\ IF resp = "conversation" THEN UNCHANGED <<awaiting, dog>> ELSE awaiting' = FALSE /\ dog' = FALSE
  /\ UNCHANGED <<flags, user, expected, latch, retry, items, fl, current, durable, events>>
  /\ Schedules

\* The provider never said that it answered the notification.
WatchdogFires ==
  /\ up /\ dog
  /\ dog' = FALSE /\ awaiting' = FALSE
  /\ UNCHANGED <<flags, talk, latch, retry, items, fl, current, durable, events>>
  /\ Schedules

RetryFires ==
  /\ up /\ retry
  /\ retry' = latch
  /\ UNCHANGED <<flags, talk, awaiting, dog, latch, items, fl, current, durable, events>>
  /\ Schedules

(***************************************************************************)
(* What there is to say.                                                   *)
(***************************************************************************)

\* A slow Hermes turn is promised to the user, and is answered.
AnswerStarts(a) ==
  /\ up /\ Happens /\ ~muted /\ answers[a] = "none"
  /\ answers' = [answers EXCEPT ![a] = "computing"]
  /\ UNCHANGED <<flags, talk, gates, pend, ext, prog, tries, fl, current, durable>>

AnswerReady(a) ==
  /\ up /\ answers[a] = "computing"
  /\ answers' = [answers EXCEPT ![a] = "ready"]
  /\ UNCHANGED <<flags, talk, awaiting, dog, latch, retry, pend, ext, prog, tries,
                 fl, current, durable, events>>
  /\ Schedules

\* handleExternalMonitorEvent: newer news of a category replace older ones.
AgentNews(x) ==
  /\ up /\ Happens /\ ~muted
  /\ ext' = ext \cup {x}
  /\ UNCHANGED <<flags, talk, awaiting, dog, latch, retry, answers, pend, prog, tries,
                 fl, current, durable>>
  /\ Schedules

TaskProgresses(t) ==
  /\ up /\ Happens /\ task[t] = "running"
  /\ prog' = prog \cup {t}
  /\ UNCHANGED <<flags, talk, awaiting, dog, latch, retry, answers, pend, ext, tries,
                 fl, current, durable>>
  /\ Schedules

\* dispatchTaskRecord of a record with an unread, unannounced end.
TaskEnds(t) ==
  /\ up /\ Happens /\ task[t] = "running"
  /\ task' = [task EXCEPT ![t] = "unread"]
  /\ pend' = pend \cup {t} /\ prog' = prog \ {t}
  /\ UNCHANGED <<flags, talk, awaiting, dog, latch, retry, answers, ext, tries,
                 fl, current, lease, heard>>
  /\ Schedules

\* dispatchTaskRecord of a record that needs no announcement any more.
Settled(t) == pend' = pend \ {t} /\ tries' = [tries EXCEPT ![t] = 0]

TaskRead(t) ==
  /\ up /\ Happens /\ task[t] \in {"unread", "announced"}
  /\ task' = [task EXCEPT ![t] = "read"] /\ Settled(t)
  /\ UNCHANGED <<flags, talk, gates, answers, ext, prog, fl, current, lease, heard>>

\* Another live session of the owner announces, or gives up.
OtherClaims(t) ==
  /\ up /\ Happens /\ task[t] = "unread" /\ lease[t] = "none"
  /\ lease' = [lease EXCEPT ![t] = "other"]
  /\ UNCHANGED <<flags, talk, gates, items, fl, current, task, heard>>

OtherEnds(t) ==
  /\ up /\ lease[t] = "other"
  /\ lease' = [lease EXCEPT ![t] = "none"]
  /\ \/ UNCHANGED <<task, pend, tries, heard>>
     \/ /\ task[t] = "unread" /\ task' = [task EXCEPT ![t] = "announced"]
        /\ heard' = heard \cup {t} /\ Settled(t)
  /\ UNCHANGED <<flags, talk, gates, answers, ext, prog, fl, current, events>>

(***************************************************************************)
(* The flush.  Each operator below is what a call does from there to its   *)
(* next await, for the flush f.                                            *)
(***************************************************************************)

\* speakNotification, up to the provider's answer.
Says(f, what, got) ==
  /\ fl' = [fl EXCEPT ![f] = [Off EXCEPT !.at = "hand", !.says = what, !.got = got,
                                         !.play = IF v11 THEN "waiting" ELSE "none"]]
  /\ awaiting' = TRUE /\ current' = f /\ latch' = TRUE

\* The notices, and progress lines when there is none.
Notices(f, todo) ==
  /\ UNCHANGED awaiting /\ UNCHANGED current
  /\ prog' = prog
  /\ IF todo # {}
       THEN /\ fl' = [fl EXCEPT ![f] = [Off EXCEPT !.at = "claim", !.says = "notices", !.left = todo]]
            /\ latch' = TRUE
       ELSE fl' = [fl EXCEPT ![f] = Off] /\ latch' = FALSE

Progress(f) ==
  /\ prog' = {}
  /\ IF \E t \in prog : task[t] = "running"
       THEN Says(f, "progress", {})
       ELSE fl' = [fl EXCEPT ![f] = Off] /\ latch' = FALSE /\ UNCHANGED <<awaiting, current>>

\* The announcements of agents, with the latch as the caller left it.
Goes(f, todo, latched) ==
  IF ext # {}
    THEN /\ fl' = [fl EXCEPT ![f] = [Off EXCEPT !.at = "claim", !.says = "externals",
                                                !.left = ext, !.todo = todo]]
         /\ ext' = {} /\ latch' = latched /\ UNCHANGED <<prog, awaiting, current>>
    ELSE /\ UNCHANGED ext
         /\ IF todo = {} /\ prog # {} THEN Progress(f) ELSE Notices(f, todo)

\* flushNotifications with its guard passed; a ready answer goes first,
\* through the speech sidecar if that is healthy.
Flush(f) ==
  IF ReadyAnswers # {}
    THEN \E a \in ReadyAnswers, sidecar \in BOOLEAN :
           /\ fl' = [fl EXCEPT ![f] = [Off EXCEPT !.at = IF sidecar THEN "mux" ELSE "answer",
                                                  !.says = "answer", !.got = {a}, !.todo = pend]]
           /\ latch' = TRUE /\ awaiting' = ~sidecar /\ UNCHANGED <<ext, prog, current>>
    ELSE Goes(f, pend, TRUE)

Something == pend # {} \/ ReadyAnswers # {} \/ ext # {} \/ prog # {}

FlushStarts(f) ==
  /\ up /\ micro /\ fl[f].at = "off" /\ micro' = FALSE
  /\ IF ~muted /\ ~latch /\ ~awaiting /\ Quiet /\ Something
       THEN Flush(f)
       ELSE UNCHANGED <<fl, latch, awaiting, ext, prog, current>>
  /\ UNCHANGED <<flags, talk, dog, retry, answers, pend, tries, durable, events>>

\* armAnnouncementDeadlineWatch: an answer or a notice has waited too long.
\* An answer is spoken into the user's own speech, a notice is not.
WatchFires(f) ==
  /\ up /\ fl[f].at = "off"
  /\ ReadyAnswers # {} \/ pend # {}
  /\ resp = "no" /\ ~awaiting /\ ~latch /\ (ReadyAnswers # {} \/ ~user)
  /\ retry' = FALSE
  /\ ~muted /\ Flush(f)
  /\ UNCHANGED <<flags, talk, dog, micro, answers, pend, tries, durable, events>>

AnswerGone(f) == answers' = [a \in Answers |-> IF a \in fl[f].got THEN "gone" ELSE answers[a]]

\* The sidecar spoke the answer.  The latch is still set when the next
\* flush is asked for, so none is scheduled.
MuxSpoke(f) ==
  /\ up /\ fl[f].at = "mux"
  /\ AnswerGone(f) /\ fl' = [fl EXCEPT ![f] = Off] /\ latch' = FALSE
  /\ UNCHANGED <<flags, talk, awaiting, dog, micro, retry, pend, ext, prog, tries,
                 current, durable, events>>

\* The user (or a response) silenced the sidecar: the flush goes on.
MuxAborted(f) ==
  /\ up /\ fl[f].at = "mux"
  /\ Goes(f, fl[f].todo, FALSE)
  /\ UNCHANGED <<flags, talk, dog, micro, retry, answers, pend, tries, durable, events>>

\* The sidecar cannot: the provider says the answer.
MuxFails(f) ==
  /\ up /\ fl[f].at = "mux"
  /\ fl' = [fl EXCEPT ![f].at = "answer"] /\ awaiting' = TRUE
  /\ UNCHANGED <<flags, talk, dog, latch, micro, retry, items, current, durable, events>>

AnswerHanded(f) ==
  /\ up /\ fl[f].at = "answer"
  /\ AnswerGone(f) /\ dog' = awaiting
  /\ fl' = [fl EXCEPT ![f] = Off] /\ latch' = FALSE
  /\ UNCHANGED <<flags, talk, awaiting, micro, retry, pend, ext, prog, tries, current, durable, events>>

AnswerRefused(f) ==
  /\ up /\ fl[f].at = "answer"
  /\ IF ext # {}
       THEN /\ fl' = [fl EXCEPT ![f] = [Off EXCEPT !.at = "claim", !.says = "externals",
                                                   !.left = ext, !.todo = fl[f].todo]]
            /\ ext' = {} /\ latch' = FALSE /\ awaiting' = FALSE /\ UNCHANGED <<prog, current>>
       ELSE /\ UNCHANGED ext
            /\ IF fl[f].todo = {} /\ \E t \in prog : task[t] = "running"
                 THEN prog' = {} /\ Says(f, "progress", {})
                 ELSE /\ awaiting' = FALSE /\ UNCHANGED current
                      /\ prog' = IF fl[f].todo = {} THEN {} ELSE prog
                      /\ latch' = (fl[f].todo # {})
                      /\ fl' = [fl EXCEPT ![f] = IF fl[f].todo = {} THEN Off ELSE
                                 [Off EXCEPT !.at = "claim", !.says = "notices", !.left = fl[f].todo]]
  /\ UNCHANGED <<flags, talk, dog, micro, retry, answers, pend, tries, durable, events>>

\* retryNotification, requeueExternalAnnouncement: within the budget the
\* items wait for the retry timer; after it they are dropped here.
Again(lost) == {i \in lost : tries[i] + 1 < MaxTries}
Tried(lost) == [i \in DOMAIN tries |-> IF i \in Again(lost) THEN tries[i] + 1
                                       ELSE IF i \in lost THEN 0 ELSE tries[i]]

\* Mutant: the latch stays set.
FlushEndsLatched(f) ==
  /\ fl' = [g \in Flushes |->
              IF g = f THEN Off
              ELSE IF g = current /\ fl[g].play \in {"waiting", "playing"}
                THEN [fl[g] EXCEPT !.play = "lost"] ELSE fl[g]]
  /\ current' = Nobody /\ UNCHANGED latch

\* The finally of a delivery: whatever playback is current is given up.
FlushEnds(f) ==
  /\ fl' = [g \in Flushes |->
              IF g = f THEN Off
              ELSE IF g = current /\ fl[g].play \in {"waiting", "playing"}
                THEN [fl[g] EXCEPT !.play = "lost"] ELSE fl[g]]
  /\ current' = Nobody /\ latch' = FALSE

\* claimAnnouncement of the monitor: leased, spoken already, or an error.
ClaimsExternal(f, x, outcome) ==
  /\ up /\ fl[f].at = "claim" /\ fl[f].says = "externals" /\ x \in fl[f].left
  /\ LET got  == IF outcome = "claimed" THEN fl[f].got \cup {x} ELSE fl[f].got
         left == fl[f].left \ {x}
         lost == IF outcome = "error" THEN {x} ELSE {}
     IN  /\ tries' = Tried(lost)
         /\ retry' = (retry \/ Again(lost) # {})
         /\ ext' = ext \cup Again(lost)
         /\ IF left # {}
              THEN /\ fl' = [fl EXCEPT ![f].left = left, ![f].got = got]
                   /\ UNCHANGED <<latch, awaiting, prog, current>>
              ELSE IF got # {}
                THEN /\ fl' = [fl EXCEPT ![f] = [Off EXCEPT !.at = "hand", !.says = "externals", !.got = got,
                                                            !.play = IF v11 THEN "waiting" ELSE "none"]]
                     /\ awaiting' = TRUE /\ current' = f /\ UNCHANGED <<latch, prog>>
                ELSE IF fl[f].todo = {} /\ prog # {} THEN Progress(f) ELSE Notices(f, fl[f].todo)
  /\ UNCHANGED <<flags, talk, dog, micro, answers, pend, durable, events>>

\* claimNotificationAnnouncement of the supervisor, for one candidate.
ClaimsNotice(f, t, fails) ==
  /\ up /\ fl[f].at = "claim" /\ fl[f].says = "notices" /\ t \in fl[f].left
  /\ LET free    == task[t] = "unread" /\ lease[t] = "none"
         claimed == free /\ ~fails
         lost    == IF fails THEN {t} ELSE {}
     IN  /\ lease' = [lease EXCEPT ![t] = IF claimed THEN "self" ELSE @]
         /\ tries' = Tried(lost)
         /\ retry' = (retry \/ Again(lost) # {} \/ (~fails /\ task[t] = "unread" /\ ~free))
         /\ pend' = IF fails THEN (pend \ lost) \cup Again(lost)
                    ELSE IF claimed \/ task[t] # "unread" THEN pend \ {t} ELSE pend
         /\ fl' = [fl EXCEPT ![f].left = @ \ {t}, ![f].got = IF claimed THEN @ \cup {t} ELSE @]
  /\ UNCHANGED <<flags, talk, awaiting, dog, latch, micro, answers, ext, prog, current,
                 task, heard, events>>

\* With the claims in hand the conversation is looked at again.
Rechecked == Quiet /\ ~awaiting

\* Mutant: claims that are not used are kept.
ReleasedNever(got) == lease

\* releaseNotificationAnnouncement: the claims are given back.
Released(got) == [t \in Tasks |-> IF t \in got /\ lease[t] = "self" THEN "none" ELSE lease[t]]

Announces(f) ==
  /\ up /\ fl[f].at = "claim" /\ fl[f].says = "notices" /\ fl[f].left = {}
  /\ IF fl[f].got # {} /\ Rechecked
       THEN /\ Says(f, "notices", fl[f].got) /\ UNCHANGED <<lease, pend>>
       ELSE /\ FlushEnds(f) /\ UNCHANGED awaiting
            /\ lease' = Released(fl[f].got)
            /\ pend' = pend \cup fl[f].got
  /\ UNCHANGED <<flags, talk, dog, micro, retry, answers, ext, prog, tries, task, heard, events>>

\* What was said of the ends of tasks, once the user heard it.
HeardOf(f) == heard' = heard \cup (IF fl[f].says = "notices" THEN fl[f].got ELSE {})

\* The client plays what it was sent, and says so.
ClientPlays(f, status) ==
  /\ up /\ fl[f].at \in {"hand", "hear"}
  /\ \/ fl[f].play = "waiting" /\ status \in {"playing", "lost"}
     \/ fl[f].play = "playing" /\ status \in {"delivered", "lost"}
  /\ fl' = [fl EXCEPT ![f].play = status]
  /\ IF status = "delivered" THEN HeardOf(f) ELSE UNCHANGED heard
  /\ UNCHANGED <<flags, talk, gates, items, current, task, lease, events>>

Handed(f) ==
  /\ up /\ fl[f].at = "hand"
  /\ fl' = [fl EXCEPT ![f].at = "hear"]
  /\ IF v11 THEN UNCHANGED heard ELSE HeardOf(f)
  /\ UNCHANGED <<flags, talk, gates, items, current, task, lease, events>>

\* announcementDelivered: a v11 client reported the end of the playback.
HasPlayed(f) == fl[f].play \in {"none", "delivered"}

\* The announcement was heard: notices are recorded one by one below.
Confirmed(f) ==
  /\ up /\ fl[f].at = "hear" /\ HasPlayed(f)
  /\ IF fl[f].says = "notices"
       THEN /\ fl' = [fl EXCEPT ![f].at = "record"]
            /\ UNCHANGED <<dog, tries, current, latch>>
       ELSE /\ FlushEnds(f) /\ dog' = awaiting
            /\ tries' = [i \in DOMAIN tries |-> IF i \in fl[f].got THEN 0 ELSE tries[i]]
  /\ UNCHANGED <<flags, talk, awaiting, micro, retry, answers, pend, ext, prog, durable, events>>

\* Neither the provider nor the player confirmed it.
Unheard(f) ==
  LET lost == fl[f].got
  IN  /\ up
      /\ \/ fl[f].at = "hand"
         \/ fl[f].at = "hear" /\ fl[f].play = "lost"
      /\ awaiting' = FALSE /\ FlushEnds(f)
      /\ lease' = Released(lost)
      /\ tries' = Tried(lost) /\ retry' = (retry \/ Again(lost) # {})
      /\ pend' = IF fl[f].says = "notices" THEN (pend \ lost) \cup Again(lost) ELSE pend
      /\ ext' = IF fl[f].says = "externals" THEN ext \cup Again(lost) ELSE ext
      /\ UNCHANGED <<flags, talk, dog, micro, answers, prog, task, heard, events>>

\* completeNotificationAnnouncement; the write may fail.
Records(f, t, fails) ==
  /\ up /\ fl[f].at = "record" /\ t \in fl[f].got
  /\ lease' = [lease EXCEPT ![t] = "none"]
  /\ IF fails
       THEN /\ UNCHANGED task
            /\ tries' = Tried({t}) /\ retry' = (retry \/ Again({t}) # {})
            /\ pend' = (pend \ {t}) \cup Again({t})
       ELSE /\ task' = [task EXCEPT ![t] = IF @ = "unread" THEN "announced" ELSE @]
            /\ tries' = [tries EXCEPT ![t] = 0] /\ pend' = pend \ {t} /\ UNCHANGED retry
  /\ fl' = [fl EXCEPT ![f].got = @ \ {t}]
  /\ UNCHANGED <<flags, talk, awaiting, dog, latch, micro, answers, ext, prog, current, heard, events>>

Recorded(f) ==
  /\ up /\ fl[f].at = "record" /\ fl[f].got = {}
  /\ dog' = (dog \/ awaiting) /\ FlushEnds(f)
  /\ UNCHANGED <<flags, talk, awaiting, micro, retry, items, durable, events>>

\* A newer session owns the voice: what it owes is dropped, what is being
\* claimed or spoken is not.
Muted ==
  /\ up /\ Happens /\ ~muted
  /\ muted' = TRUE /\ answers' = [a \in Answers |-> "gone"]
  /\ UNCHANGED <<up, v11, talk, gates, pend, ext, prog, tries, fl, current, durable>>

\* performClose: claims are released; the rest of the session is forgotten.
Hangs ==
  /\ up /\ up' = FALSE /\ UNCHANGED <<muted, v11>>
  /\ user' = FALSE /\ resp' = "no" /\ expected' = FALSE
  /\ awaiting' = FALSE /\ dog' = FALSE /\ latch' = FALSE /\ micro' = FALSE /\ retry' = FALSE
  /\ answers' = [a \in Answers |-> "gone"] /\ pend' = {} /\ ext' = {} /\ prog' = {}
  /\ tries' = [i \in DOMAIN tries |-> 0]
  /\ fl' = [f \in Flushes |-> Off] /\ current' = Nobody
  /\ lease' = Released(Tasks)
  /\ UNCHANGED <<task, heard, events>>

Talks == UserStarts \/ UserTypes \/ \E s \in {"conversation", "task_notification"} : ResponseStarts(s)
Settles == UserStops \/ ResponseEnds
Timers == WatchdogFires \/ RetryFires
Watches == \E f \in Flushes : WatchFires(f)
Flushing(f) ==
  \/ FlushStarts(f) \/ MuxSpoke(f) \/ MuxAborted(f) \/ MuxFails(f)
  \/ AnswerHanded(f) \/ AnswerRefused(f)
  \/ \E x \in Externals, o \in {"claimed", "refused", "error"} : ClaimsExternal(f, x, o)
  \/ \E t \in Tasks, fails \in BOOLEAN : ClaimsNotice(f, t, fails) \/ Records(f, t, fails)
  \/ Announces(f) \/ Handed(f) \/ Confirmed(f) \/ Unheard(f) \/ Recorded(f)
Playing(f) == \E status \in {"playing", "delivered", "lost"} : ClientPlays(f, status)
World ==
  \/ \E a \in Answers : AnswerStarts(a) \/ AnswerReady(a)
  \/ \E x \in Externals : AgentNews(x)
  \/ \E t \in Tasks : TaskProgresses(t) \/ TaskEnds(t) \/ TaskRead(t) \/ OtherClaims(t)

SpeechNext ==
  \/ Talks \/ Settles \/ Timers \/ Watches \/ World
  \/ \E t \in Tasks : OtherEnds(t)
  \/ \E f \in Flushes : Flushing(f) \/ Playing(f)
  \/ Muted \/ Hangs

SpeechSpec == SpeechInit /\ [][SpeechNext]_speechVars

\* Promises, timers and clients make progress; the user and the world need not.
SpeechFair ==
  /\ WF_speechVars(Settles) /\ WF_speechVars(Timers) /\ WF_speechVars(Watches)
  /\ \A f \in Flushes : WF_speechVars(Flushing(f)) /\ WF_speechVars(Playing(f))
  /\ \A t \in Tasks : WF_speechVars(OtherEnds(t))

-----------------------------------------------------------------------------
\* Flushes, notices, claims and what was heard.
SpeechTypeOK ==
  /\ up \in BOOLEAN /\ muted \in BOOLEAN /\ v11 \in BOOLEAN
  /\ user \in BOOLEAN /\ expected \in BOOLEAN
  /\ resp \in {"no", "conversation", "task_notification"}
  /\ {awaiting, dog, latch, micro, retry} \subseteq BOOLEAN
  /\ answers \in [Answers -> {"none", "computing", "ready", "gone"}]
  /\ pend \subseteq Tasks /\ ext \subseteq Externals /\ prog \subseteq Tasks
  /\ tries \in [Tasks \cup Externals -> 0..(MaxTries - 1)]
  /\ fl \in [Flushes -> [at : {"off", "mux", "answer", "claim", "hand", "hear", "record"},
                         says : {"none", "answer", "externals", "notices", "progress"},
                         todo : SUBSET Tasks, left : SUBSET (Tasks \cup Externals),
                         got : SUBSET (Answers \cup Tasks \cup Externals),
                         play : {"none", "waiting", "playing", "delivered", "lost"}]]
  /\ current \in Flushes \cup {Nobody}
  /\ task \in [Tasks -> {"running", "unread", "announced", "read"}]
  /\ lease \in [Tasks -> {"none", "self", "other"}] /\ heard \subseteq Tasks
  /\ events \in 0..MaxEvents

Speaks(f) == fl[f].at \in {"answer", "hand", "hear"}

\* A task's end is recorded as announced only after its user heard it said,
\* to the end, whatever interrupts, retries or claims from elsewhere do
\* (the confirmation of the playback before completeNotification).
HeardBeforeRecorded == \A t \in Tasks : task[t] = "announced" => t \in heard
\* A claim this session holds on an announcement is one that a flush will
\* complete or release: no path leaves it behind, where it would keep every
\* other session of the owner silent.
ClaimsWorkedOff == \A t \in Tasks : lease[t] = "self" => \E f \in Flushes : t \in fl[f].got

\* What is recorded was heard, and what is claimed is settled.
AnnouncementsKept == SpeechTypeOK /\ HeardBeforeRecorded /\ ClaimsWorkedOff

\* No run checks this: it fails.  Between the checks of a flush and the notice
\* it hands over lies the claim, and another flush or the user may speak by
\* then (live-gateway-session.ts:2836-2880).
NoticesSpeakAlone ==
  [][\A f \in Flushes : fl'[f].says = "notices" /\ fl'[f].at = "hand" /\ fl[f].at = "claim"
        => Quiet /\ \A g \in Flushes \ {f} : ~Speaks(g)]_speechVars
\* No run checks this: it fails.  The single-flight latch is released by a
\* finally while another flush still awaits its claim
\* (live-gateway-session.ts:2800-2820).
OneVoice == Cardinality({f \in Flushes : Speaks(f)}) <= 1
\* No run checks this: it fails.  A flush that was under way when the session
\* was demoted goes on to speak (live-gateway-session.ts:2223-2237).
MutedIsSilent ==
  [][muted => \A f \in Flushes : Speaks(f)' => fl[f].at # "off" /\ (Speaks(f) \/ fl[f].at = "mux")]_speechVars
\* No run checks this: it fails.  The user may start to speak while a claim is
\* awaited, and the re-check after it only asks for the task
\* (live-gateway-session.ts:2864-2880).
NeverOverTheUser ==
  [][user => \A f \in Flushes : fl'[f].at = "hand" => fl[f].at = "hand"]_speechVars
\* The end of a task that waits to be announced does not wait forever: it is
\* said, read elsewhere or given up, unless the session is muted.
NoticeSettles == \A t \in Tasks : t \in pend ~> t \notin pend \/ muted
\* No run checks this: it fails.  The deadline watch looks at notices only;
\* an external update may wait behind one quiet check after the other
\* (live-gateway-session.ts:3172-3196).
ExternalSettles == \A x \in Externals : x \in ext ~> x \notin ext \/ muted
=============================================================================
