---------------------------- MODULE VoicePresence ----------------------------
(***************************************************************************)
(* What the voice page shows and what it does with the microphone          *)
(* (clients/browser/voice.js and the AgentStateController of               *)
(* entity-state.js): the status headline, the presence mode, the mute      *)
(* button, deferred answers and the row of the transcript being written.   *)
(* The handlers of one event run to their end; the microphone starts and   *)
(* stops in steps of its own.  Springs are the flags they settle to, and   *)
(* the flash of toolActivity is left out.                                  *)
(***************************************************************************)
EXTENDS Naturals

CONSTANTS
  MaxPageEvents, \* bounds: events of the gateway, the user and the audio,
  MaxLines,      \* pieces of transcript,
  MaxDrops,      \* connections lost or replaced by the user,
  MaxText        \* the length of an utterance's text

ASSUME PresenceAssumption == MaxText \in Nat

VARIABLES
  face,   \* the variables of the page
  world,  \* external: deferred answers and tasks of the session, playback
  line,   \* the current transcript row, and how much of it the agent line shows
  seen    \* events, pieces of transcript and drops so far

presenceVars == <<face, world, line, seen>>

NoRow == [speaker |-> "none", final |-> FALSE, length |-> 0, revealed |-> 0]

PresenceInit ==
  /\ face =
       [link |-> "connecting", sup |-> "connecting", ever |-> FALSE, gateway |-> "unknown",
        probes |-> 0, speaking |-> FALSE, listening |-> FALSE, thinking |-> FALSE,
        waiting |-> FALSE, paused |-> FALSE, error |-> FALSE, work |-> FALSE, deferred |-> 0,
        mic |-> "idle", resume |-> FALSE, requested |-> FALSE, arming |-> FALSE,
        button |-> FALSE, clicking |-> FALSE, headline |-> "connecting",
        shown |-> <<"dormant", FALSE>>]
  /\ world = [pending |-> 0, active |-> 0, playing |-> FALSE]
  /\ line = NoRow
  /\ seen = [events |-> 0, lines |-> 0, drops |-> 0]

Ready(v) == v.link = "ready"
Outage == {"reconnecting", "gateway-down"}

(* The headline and the microphone *)

ShowsError(v) ==
  [v EXCEPT !.headline = "error", !.error = TRUE, !.thinking = FALSE, !.speaking = FALSE]

StartFails(v) ==
  LET w == [v EXCEPT !.requested = @ /\ ~v.arming, !.arming = FALSE, !.clicking = FALSE]
  IN  IF v.clicking THEN [ShowsError(w) EXCEPT !.button = Ready(v)] ELSE w

StartMic(v) ==
  CASE v.mic \in {"active", "starting"} -> v
    [] v.mic = "stopping" -> [v EXCEPT !.resume = TRUE]
    [] OTHER -> IF Ready(v) THEN [v EXCEPT !.mic = "starting", !.listening = FALSE]
                ELSE StartFails(v)

StopMic(v) == [v EXCEPT !.mic = "stopping", !.listening = FALSE]

\* The "idle" event of the microphone.
MicIsIdle(v) ==
  [v EXCEPT !.mic = "idle", !.headline = IF v.paused THEN "paused" ELSE "muted"]

ReconnectCopy(v) ==
  CASE v.sup = "reconnecting" /\ v.ever /\ v.gateway = "unknown" -> "gateway-down"
    [] v.sup = "reconnecting" /\ v.gateway = "provider_down" -> "reconnecting"
    [] OTHER -> IF v.ever THEN "reconnecting" ELSE "connecting"

RendersReconnectStatus(v) ==
  IF v.sup = "connected"
  THEN StartMic([v EXCEPT !.button = TRUE, !.arming = @ \/ ~v.requested, !.requested = TRUE,
                          !.headline = IF @ \notin Outage THEN @
                                       ELSE IF v.mic = "active" THEN "armed" ELSE "muted"])
  ELSE [v EXCEPT !.headline = ReconnectCopy(v)]

LinkDown(v) ==
  [v EXCEPT !.link = "down", !.speaking = FALSE, !.listening = FALSE, !.thinking = FALSE]

SchedulesReconnect(v) ==
  RendersReconnectStatus([v EXCEPT !.sup = "reconnecting", !.probes = @ + 1])

BeginsAttempt(v) ==
  [RendersReconnectStatus([v EXCEPT !.sup = "connecting"]) EXCEPT !.link = "connecting"]

Writes == seen.lines < MaxLines /\ seen' = [seen EXCEPT !.lines = @ + 1]
Occurs == seen.events < MaxPageEvents /\ seen' = [seen EXCEPT !.events = @ + 1]
Shows(v) == face' = v /\ UNCHANGED <<world, line>>

(* The connection *)

\* session.ready: an error more than 1.2 seconds of frames ago is over.
LinkReady ==
  /\ face.sup = "connecting"
  /\ \E over \in BOOLEAN, tasks \in {0, world.active} :
       /\ over => face.headline # "error"
       /\ face' = RendersReconnectStatus(
            [face EXCEPT !.link = "ready", !.sup = "connected", !.ever = TRUE,
                         !.gateway = "unknown", !.error = @ /\ ~over,
                         !.waiting = tasks > 0, !.work = tasks > 0])
       /\ world' = [world EXCEPT !.active = tasks]
  /\ UNCHANGED <<line, seen>>

RetryFails ==
  /\ face.sup = "connecting" /\ face.probes < MaxDrops
  /\ Shows(SchedulesReconnect(LinkDown(face))) /\ UNCHANGED seen

RetryDue ==
  /\ face.sup = "reconnecting"
  /\ Shows(BeginsAttempt(face)) /\ UNCHANGED seen

Drops == seen.drops < MaxDrops /\ seen' = [seen EXCEPT !.drops = @ + 1]
LosesSession == world' = [world EXCEPT !.pending = 0] /\ UNCHANGED line

ConnectionLost ==
  /\ face.sup = "connected" /\ Ready(face) /\ Drops
  /\ face' = SchedulesReconnect([LinkDown(face) EXCEPT !.button = FALSE])
  /\ LosesSession

\* "Reconnect now" or "take over": the old socket is closed first.
ReconnectClicked ==
  /\ face.sup = "connected" /\ Ready(face) /\ Drops
  /\ face' = [LinkDown(face) EXCEPT !.button = FALSE]
  /\ LosesSession

OldSocketClosed ==
  /\ face.sup = "connected" /\ ~Ready(face)
  /\ Shows(BeginsAttempt(face)) /\ UNCHANGED seen

ProbeAnswers ==
  /\ face.probes > 0
  /\ \E answer \in {"unknown", "up", "provider_down"} :
       Shows(RendersReconnectStatus([face EXCEPT !.probes = @ - 1, !.gateway = answer]))
  /\ UNCHANGED seen

(* The microphone *)

MicStarts ==
  /\ face.mic = "starting"
  /\ Shows([face EXCEPT !.mic = "active", !.paused = FALSE, !.headline = "armed",
                        !.arming = FALSE, !.clicking = FALSE,
                        !.button = IF face.clicking THEN Ready(face) ELSE @])
  /\ UNCHANGED seen

MicFails ==
  /\ face.mic = "starting" /\ Occurs
  /\ Shows(StartFails(MicIsIdle(face)))

MicStopped ==
  /\ face.mic = "stopping"
  /\ LET v == [MicIsIdle(face) EXCEPT !.resume = FALSE]
     IN  Shows(IF face.resume THEN StartMic(v)
               ELSE [v EXCEPT !.arming = FALSE, !.clicking = FALSE,
                              !.button = IF face.clicking THEN Ready(face) ELSE @])
  /\ UNCHANGED seen

MuteClicked ==
  /\ face.button /\ Occurs
  /\ LET v == [face EXCEPT !.button = FALSE]
     IN  IF face.mic = "active"
         THEN Shows(StopMic([v EXCEPT !.requested = FALSE, !.clicking = TRUE]))
         ELSE \E primed \in BOOLEAN :
                LET w == [v EXCEPT !.requested = TRUE, !.clicking = TRUE]
                IN  IF primed THEN Shows(StartMic(w))
                    ELSE Shows([ShowsError(v) EXCEPT !.button = Ready(face)])

PauseRequested ==
  /\ Ready(face) /\ Occurs
  /\ Shows(StopMic([face EXCEPT !.paused = TRUE]))

Demoted ==
  /\ Ready(face) /\ Occurs
  /\ Shows(StopMic([face EXCEPT !.headline = "muted"]))

VoiceUnmutes == Ready(face) /\ Occurs /\ Shows(StartMic(face))

(* Speech and answers *)

\* Of the page's own detector while the microphone is open, or reported by
\* the gateway.
CanHear == face.mic = "active" \/ Ready(face)

UserSpeechStarted ==
  /\ CanHear /\ Occurs
  /\ Shows([face EXCEPT !.listening = TRUE, !.thinking = FALSE, !.paused = FALSE])

UserSpeechEnded ==
  /\ CanHear /\ Occurs
  /\ Shows([face EXCEPT !.listening = FALSE, !.thinking = @ \/ ~face.speaking])

ResponseStarted == Ready(face) /\ Occurs /\ Shows([face EXCEPT !.thinking = TRUE])
ResponseEnded == Ready(face) /\ Occurs /\ Shows([face EXCEPT !.thinking = FALSE])

AudioArrives ==
  /\ Ready(face) /\ Occurs
  /\ face' = [face EXCEPT !.speaking = TRUE, !.thinking = @ /\ face.speaking]
  /\ world' = [world EXCEPT !.playing = TRUE]
  /\ UNCHANGED line

PlaybackEnds ==
  /\ world.playing /\ world' = [world EXCEPT !.playing = FALSE]
  /\ UNCHANGED <<face, line, seen>>

ErrorReported ==
  /\ Occurs
  /\ \/ Ready(face)
     \/ face.mic = "active" \* an error of the audio, not of sending
  /\ Shows(ShowsError(face))

DeferredPending ==
  /\ Ready(face) /\ Occurs
  /\ face' = [face EXCEPT !.deferred = @ + 1, !.thinking = TRUE]
  /\ world' = [world EXCEPT !.pending = @ + 1]
  /\ UNCHANGED line

DeferredDelivered ==
  /\ Ready(face) /\ world.pending > 0 /\ Occurs
  /\ face' = [face EXCEPT !.deferred = IF @ = 0 THEN 0 ELSE @ - 1]
  /\ world' = [world EXCEPT !.pending = @ - 1]
  /\ UNCHANGED line

(* Tasks: the list changes before the event is shown *)

TasksChanged(v, active) == [v EXCEPT !.waiting = active > 0, !.work = active > 0]

TaskStarts ==
  /\ Ready(face) /\ Occurs
  /\ \E active \in {world.active, world.active + 1} \ {0} :
       /\ face' = [TasksChanged(face, active) EXCEPT !.work = TRUE, !.thinking = FALSE]
       /\ world' = [world EXCEPT !.active = active]
  /\ UNCHANGED line

TaskProgresses ==
  /\ Ready(face) /\ world.active > 0 /\ Occurs
  /\ Shows([TasksChanged(face, world.active) EXCEPT !.thinking = TRUE])

TaskEnds ==
  /\ Ready(face) /\ world.active > 0 /\ Occurs
  /\ face' = TasksChanged(face, world.active - 1)
  /\ world' = [world EXCEPT !.active = @ - 1]
  /\ UNCHANGED line

(* The transcript *)

Continues(speaker) == line.speaker = speaker /\ ~line.final

\* An interim text is added to the row, a final one replaces it.
TranscriptArrives ==
  /\ Ready(face) /\ Writes
  /\ \E speaker \in {"user", "assistant"}, final \in BOOLEAN, length \in 1..MaxText :
       /\ final \/ length = 1
       /\ line' = [speaker |-> speaker, final |-> final,
                   length |-> IF final \/ ~Continues(speaker) THEN length
                              ELSE IF line.length < MaxText THEN line.length + 1 ELSE MaxText,
                   revealed |-> IF Continues(speaker) THEN line.revealed ELSE 0]
       /\ face' = IF speaker = "user" THEN [face EXCEPT !.thinking = @ /\ face.speaking] ELSE face
  /\ UNCHANGED world

\* updateAgentReveal: word by word while the agent speaks, else all of it.
Reveals ==
  /\ line.speaker = "assistant" /\ line.revealed < line.length
  /\ \E shown \in (line.revealed + 1)..line.length :
       /\ shown < line.length => face.speaking /\ world.playing
       /\ line' = [line EXCEPT !.revealed = shown]
  /\ UNCHANGED <<face, world, seen>>

(* The frame loop *)

Mode(v) ==
  CASE v.link = "down" -> "offline"
    [] v.link = "connecting" -> "dormant"
    [] OTHER ->
       CASE v.error -> "error"
         [] ~v.error /\ v.speaking -> "speaking"
         [] ~v.error /\ ~v.speaking ->
            IF v.thinking THEN "thinking"
            ELSE IF v.listening THEN "listening"
            ELSE IF v.waiting THEN "waiting"
            ELSE IF v.paused \/ v.mic # "active" THEN "paused" ELSE "idle"

\* What the presence says: the mode, and that an answer is being prepared.
Presence(v) == <<Mode(v), v.deferred > 0 /\ Mode(v) # "speaking">>

Frame ==
  /\ face' =
       LET v == [face EXCEPT !.shown = Presence(face)]
       IN  IF ~Ready(face) /\ face.sup # "connected" THEN [v EXCEPT !.headline = ReconnectCopy(v)]
           ELSE IF Ready(face) /\ v.shown # face.shown /\ v.shown[1] # "error" /\ v.headline = "error"
           THEN [v EXCEPT !.headline = IF v.mic = "active" THEN "armed" ELSE "muted"]
           ELSE v
  /\ face' # face
  /\ UNCHANGED <<world, line, seen>>

\* Time passes with the frames: silence ends speech after 0.7 seconds,
\* thinking is given up after 30, an error fades after 1.6.
SilenceSettles ==
  /\ face.speaking /\ ~world.playing
  /\ Shows([face EXCEPT !.speaking = FALSE]) /\ UNCHANGED seen
ThinkingGivenUp ==
  /\ face.thinking
  /\ Shows([face EXCEPT !.thinking = FALSE]) /\ UNCHANGED seen
ErrorFades ==
  /\ face.error
  /\ IF Ready(face) THEN face.shown[1] = "error"
     ELSE face.sup = "connected" \/ face.headline # "error"
  /\ Shows([face EXCEPT !.error = FALSE]) /\ UNCHANGED seen

PresenceNext ==
  \/ LinkReady \/ RetryFails \/ RetryDue \/ ConnectionLost \/ ReconnectClicked
  \/ OldSocketClosed \/ ProbeAnswers
  \/ MicStarts \/ MicFails \/ MicStopped \/ MuteClicked \/ PauseRequested \/ Demoted
  \/ VoiceUnmutes
  \/ UserSpeechStarted \/ UserSpeechEnded \/ ResponseStarted \/ ResponseEnded
  \/ AudioArrives \/ PlaybackEnds \/ ErrorReported \/ DeferredPending \/ DeferredDelivered
  \/ TaskStarts \/ TaskProgresses \/ TaskEnds \/ TranscriptArrives \/ Reveals
  \/ Frame \/ SilenceSettles \/ ThinkingGivenUp \/ ErrorFades

PresenceSpec == PresenceInit /\ [][PresenceNext]_presenceVars

-----------------------------------------------------------------------------
\* Once the link is back, no headline says it is lost, and "Voice needs
\* attention" stays only while the error is shown.
HeadlineRecovers ==
  face.sup = "connected" /\ Ready(face) =>
    /\ face.headline \notin Outage
    /\ face.headline = "error" => face.error \/ face.shown[1] = "error"

\* An answer that is being prepared is announced until it is delivered.
PreparationShown == world.pending <= face.deferred

\* Work is shown exactly while tasks of the list are active, whatever events
\* came in between.
WorkShownIsReal ==
  /\ face.waiting = (world.active > 0)
  /\ face.work => world.active > 0

\* A pause asked for by voice is over as soon as speech is heard: the two are
\* never shown together, whichever of provider, gateway and microphone came last.
PauseIsQuiet == face.paused => ~face.listening

\* The agent line never shows what the assistant did not say in this row.
LineFollowsRow ==
  /\ line.speaker # "assistant" => line.revealed = 0
  /\ ~line.final => line.revealed <= line.length

\* What the page shows is what it was told, through reconnects, late probes
\* and microphone changes.
PresenceKept ==
  HeadlineRecovers /\ PreparationShown /\ WorkShownIsReal /\ PauseIsQuiet /\ LineFollowsRow
=============================================================================
