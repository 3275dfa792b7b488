---------------------------- MODULE BrowserAudio ----------------------------
(***************************************************************************)
(* The page's sound: the queue of response audio, which is cut when the    *)
(* user speaks and reports how far a notice was played, and the            *)
(* microphone, whose start waits for the browser more than once and may be *)
(* stopped or disposed of at each wait.  The gateway's messages and the    *)
(* browser's answers are external.                                         *)
(***************************************************************************)
EXTENDS Integers, Sequences, FiniteSets, SequencesExt

CONSTANTS
  MaxQueuedFrames, \* maxQueuedAudioFrames
  MaxResponses,    \* bounds: responses of the gateway,
  MaxFrames,       \* audio frames of one of them,
  MaxCuts,         \* interruptions by the user,
  MaxMicCalls      \* calls of startMicrophone and stopMicrophone

ASSUME AudioAssumption ==
  {MaxQueuedFrames, MaxResponses, MaxFrames, MaxCuts, MaxMicCalls} \subseteq Nat

VARIABLES
  playback,  \* the playback fields of HermesLiveAudio
  speaking,  \* the gateway's response: its number, the frames it sent, and
             \* the notices some frame of which was not played
  told,      \* what was reported of each notice
  mic,       \* the capture fields of HermesLiveAudio
  live,      \* captures whose media stream the browser keeps open
  calls      \* interruptions, microphone calls, and what the last one wanted

audioVars == <<playback, speaking, told, mic, live, calls>>

Responses == 1..MaxResponses
NoPlayback == [id |-> 0, complete |-> FALSE, frames |-> 0]

\* A frame is the response it belongs to, and the playback generation it came
\* in; "opening" is the head of the chain waiting for the audio context.
AudioInit ==
  /\ playback = [disposed |-> FALSE, context |-> "suspended", suppressed |-> FALSE, overflowed |-> FALSE,
                 generation |-> 0, chain |-> << >>, opening |-> FALSE, sources |-> << >>,
                 notice |-> NoPlayback, confirm |-> FALSE, confirmed |-> FALSE]
  /\ speaking = [number |-> 0, open |-> FALSE, notice |-> FALSE, frames |-> 0, lost |-> {}]
  /\ told = [r \in Responses |-> << >>]
  /\ mic = [state |-> "idle", generation |-> 0, start |-> 0, cancellation |-> 0, waiting |-> 0,
            stop |-> "none", active |-> FALSE, awaits |-> 0, stream |-> 0, starts |-> {}]
  /\ live = {}
  /\ calls = [cuts |-> 0, mic |-> 0, wish |-> "off"]

(* Playback *)

\* An operator of the playback yields it and what is told of which notice.
Telling(p, id, what) == [p |-> p, id |-> id, what |-> what]
Silently(p) == Telling(p, 0, "")
Plays(t) ==
  /\ playback' = t.p
  /\ told' = IF t.id = 0 THEN told ELSE [told EXCEPT ![t.id] = Append(@, t.what)]

\* finishNotificationPlayback
NoticeEnds(p, status) == Telling([p EXCEPT !.notice = NoPlayback], p.notice.id, status)

Drained(p) == p.chain = << >> /\ p.sources = << >>

\* maybeConfirmNotificationPlayback
Confirms(p) ==
  IF p.notice.complete /\ Drained(p)
  THEN NoticeEnds(p, IF p.notice.frames > 0 /\ ~p.overflowed THEN "delivered" ELSE "failed")
  ELSE Silently(p)

\* Frames in the chain outlive the cut; their generation does not.
CutShort(p) ==
  NoticeEnds([p EXCEPT !.generation = @ + 1, !.sources = << >>], "interrupted")

\* interrupt(): nothing of this response is played any more.
Interrupted(p) == CutShort([p EXCEPT !.suppressed = TRUE])

Valid(p, frame) == ~p.disposed /\ ~p.suppressed /\ frame.generation = p.generation

Losing(s, response) == [s EXCEPT !.lost = @ \cup {response}]

\* play()
FrameArrives ==
  /\ speaking.open /\ speaking.frames < MaxFrames
  /\ LET p == playback
         full == Len(p.chain) + Len(p.sources) >= MaxQueuedFrames
         refused == p.disposed \/ p.suppressed \/ p.overflowed
         sent == [speaking EXCEPT !.frames = @ + 1]
     IN  /\ playback' = IF refused THEN p ELSE IF full THEN [p EXCEPT !.overflowed = TRUE]
                        ELSE [p EXCEPT !.chain = Append(@, [response |-> speaking.number, generation |-> p.generation])]
         /\ speaking' = IF refused \/ full THEN Losing(sent, speaking.number) ELSE sent
  /\ UNCHANGED <<told, mic, live, calls>>

\* The frame at the head is done with; the finally block may confirm.
Dropped(p) == Confirms([p EXCEPT !.chain = Tail(@), !.opening = FALSE])

\* The first frame of a notice says that it is heard.
Scheduled(p) ==
  LET q == [p EXCEPT !.chain = Tail(@), !.opening = FALSE, !.sources = Append(@, Head(p.chain)),
                     !.notice.frames = IF p.notice.id # 0 THEN @ + 1 ELSE @]
  IN IF q.notice.id # 0 /\ q.notice.frames = 1 THEN Telling(q, q.notice.id, "playing") ELSE Silently(q)

Takes(t, whole) ==
  /\ Plays(t)
  /\ speaking' = IF whole THEN speaking ELSE Losing(speaking, Head(playback.chain).response)
  /\ UNCHANGED <<mic, live, calls>>

\* schedulePlayback, up to its wait for the context or to its end.
SchedulesFrame ==
  /\ playback.chain # << >> /\ ~playback.opening
  /\ IF ~Valid(playback, Head(playback.chain)) THEN Takes(Dropped(playback), FALSE)
     ELSE IF playback.context = "running" THEN Takes(Scheduled(playback), TRUE)
     ELSE Takes(Silently([playback EXCEPT !.opening = TRUE]), TRUE)

\* The context opens; what it waited for may have been cut meanwhile.
ContextOpens ==
  /\ playback.opening /\ playback.context = "suspended"
  /\ LET p == [playback EXCEPT !.context = "running"]
         valid == Valid(p, Head(p.chain))
     IN  Takes(IF valid THEN Scheduled(p) ELSE Dropped(p), valid)

\* It does not open in time, or a cut ends the wait.
WaitEnds == playback.opening /\ Takes(Dropped(playback), FALSE)

SourceEnds ==
  /\ playback.sources # << >>
  /\ Plays(Confirms([playback EXCEPT !.sources = Tail(@)]))
  /\ UNCHANGED <<speaking, mic, live, calls>>

\* The browser suspends an audio context on its own.
ContextSuspends ==
  /\ playback.context = "running" /\ playback.sources = << >>
  /\ playback' = [playback EXCEPT !.context = "suspended"]
  /\ UNCHANGED <<speaking, told, mic, live, calls>>

\* A notice takes the place of the one before it.
ResponseStartsHere ==
  /\ ~speaking.open /\ speaking.number < MaxResponses
  /\ \E notice \in BOOLEAN :
       /\ speaking' = [speaking EXCEPT !.number = @ + 1, !.open = TRUE, !.notice = notice, !.frames = 0]
       /\ LET fresh(p) == [p EXCEPT !.suppressed = FALSE, !.overflowed = FALSE, !.confirmed = FALSE]
              ended == NoticeEnds(playback, "interrupted")
          IN  IF ~notice THEN Plays(Silently(fresh(playback)))
              ELSE Plays([ended EXCEPT !.p = fresh([@ EXCEPT !.notice =
                            [id |-> speaking.number + 1, complete |-> FALSE, frames |-> 0]])])
  /\ UNCHANGED <<mic, live, calls>>

ResponseCompletes ==
  /\ speaking.open
  /\ speaking' = [speaking EXCEPT !.open = FALSE]
  /\ playback' = IF speaking.notice /\ playback.notice.id = speaking.number
                 THEN [playback EXCEPT !.notice.complete = TRUE, !.confirm = TRUE] ELSE playback
  /\ UNCHANGED <<told, mic, live, calls>>

\* The chain the completion waited for has run.
ConfirmsAfterChain ==
  /\ playback.confirm /\ playback.chain = << >>
  /\ Plays(Confirms([playback EXCEPT !.confirm = FALSE]))
  /\ UNCHANGED <<speaking, mic, live, calls>>

\* response.cancelled, response.failed
ResponseBreaksOff ==
  /\ speaking.open
  /\ speaking' = [speaking EXCEPT !.open = FALSE]
  /\ Plays(CutShort(playback))
  /\ UNCHANGED <<mic, live, calls>>

Cuts == calls.cuts < MaxCuts /\ calls' = [calls EXCEPT !.cuts = @ + 1]

UserInterrupts ==
  /\ Cuts /\ ~playback.disposed
  /\ Plays(Interrupted(playback))
  /\ UNCHANGED <<speaking, mic, live>>

\* Speech confirmed by the gateway cuts once, until it stops or a response
\* starts.
SpeechConfirmed ==
  /\ Cuts
  /\ IF playback.confirmed THEN Plays(Silently(playback))
     ELSE Plays(Interrupted([playback EXCEPT !.confirmed = TRUE]))
  /\ UNCHANGED <<speaking, mic, live>>

SpeechOver ==
  /\ playback.confirmed
  /\ playback' = [playback EXCEPT !.confirmed = FALSE]
  /\ UNCHANGED <<speaking, told, mic, live, calls>>

(* The microphone *)

\* A start is its generation; it asks for the media stream, then opens the
\* context and loads its module.
Start(generation, step) == [generation |-> generation, step |-> step, cancelled |-> FALSE]
WithoutStart(m, s) ==
  [m EXCEPT !.starts = @ \ {s},
            !.start = IF @ = s.generation THEN 0 ELSE @,
            !.cancellation = IF @ = s.generation THEN 0 ELSE @]

\* n starts at once; all but the last are overtaken as they begin.
BeginsCapture(m, n) ==
  LET g == m.generation + n
  IN IF n = 0 THEN m
     ELSE [m EXCEPT !.generation = g, !.state = "starting", !.start = g, !.cancellation = g,
                    !.starts = @ \cup {Start(i, "asking") : i \in (m.generation + 1)..g}]

Calls(wish) ==
  calls.mic < MaxMicCalls /\ calls' = [calls EXCEPT !.mic = @ + 1, !.wish = wish]

StartsMicrophone ==
  /\ Calls("on") /\ ~playback.disposed /\ mic.state # "active" /\ mic.start = 0
  /\ IF mic.stop # "none"
     THEN mic' = [mic EXCEPT !.waiting = @ + 1] /\ UNCHANGED <<playback, told>>
     ELSE mic' = BeginsCapture(mic, 1) /\ Plays(Interrupted(playback))
  /\ UNCHANGED <<speaking, live>>

\* A start that fails or is overtaken closes what it opened.
Abandons(s) ==
  /\ mic' = [WithoutStart(mic, s) EXCEPT
               !.state = IF s.generation = mic.generation /\ ~playback.disposed THEN "idle" ELSE @]
  /\ live' = live \ {s.generation}
  /\ UNCHANGED <<playback, speaking, told, calls>>

Overtaken(s) == s.cancelled \/ playback.disposed \/ s.generation # mic.generation

\* A cancelled start ends at once.  A stream that comes later is closed as it
\* comes.
StartCancelled(s) == s.cancelled /\ Abandons(s)

\* Mutant: a stream that comes after the cancellation is kept.
GrantedAnyhow(s) == live \cup {s.generation}

\* The stream of a start that still is the last one.
Granted(s) == IF Overtaken(s) THEN live ELSE live \cup {s.generation}

MediaGranted(s) ==
  /\ s.step = "asking"
  /\ live' = Granted(s)
  /\ mic' = IF Overtaken(s) THEN WithoutStart(mic, s)
            ELSE [mic EXCEPT !.starts = (@ \ {s}) \cup {[s EXCEPT !.step = "opening"]}]
  /\ UNCHANGED <<playback, speaking, told, calls>>

MediaDenied(s) == s.step = "asking" /\ Abandons(s)

CaptureOpens(s) ==
  /\ s.step = "opening" /\ ~Overtaken(s)
  /\ mic' = [WithoutStart(mic, s) EXCEPT !.stream = s.generation, !.state = "active"]
  /\ UNCHANGED <<playback, speaking, told, live, calls>>

CaptureFails(s) == s.step = "opening" /\ Abandons(s)

\* stopMicrophonePipeline, up to its wait for the start under way.
BeginsStop(m) ==
  [m EXCEPT !.active = (m.state = "active"), !.generation = @ + 1,
            !.state = IF @ = "disposed" THEN @ ELSE "stopping",
            !.starts = {[s EXCEPT !.cancelled = @ \/ s.generation = m.cancellation] : s \in m.starts},
            !.awaits = m.start, !.stop = "waiting"]

\* A stop under way is the stop of every caller.
Stopping(m) == IF m.stop # "none" THEN m ELSE BeginsStop(m)

StopsMicrophone ==
  /\ Calls("off")
  /\ mic' = Stopping(mic)
  /\ UNCHANGED <<playback, speaking, told, live>>

FlushesCapture ==
  /\ mic.stop = "waiting" /\ \A s \in mic.starts : s.generation # mic.awaits
  /\ mic' = [mic EXCEPT !.stop = "flushing"]
  /\ UNCHANGED <<playback, speaking, told, live, calls>>

\* The starts that waited for the stop go on without looking at each other,
\* unless the connection is gone.
StopEnds ==
  /\ mic.stop = "flushing"
  /\ LET idle == [mic EXCEPT !.stop = "none", !.stream = 0, !.awaits = 0, !.waiting = 0,
                             !.state = IF playback.disposed THEN "disposed" ELSE "idle"]
     IN  \E going \in {0, mic.waiting} :
           /\ mic' = BeginsCapture(idle, going)
           /\ Plays(IF going = 0 THEN Silently(playback) ELSE Interrupted(playback))
  /\ live' = live \ {mic.stream}
  /\ UNCHANGED <<speaking, calls>>

\* dispose(): the microphone first, the playback once it is stopped.
Disposes ==
  /\ ~playback.disposed
  /\ playback' = [playback EXCEPT !.disposed = TRUE]
  /\ mic' = Stopping(mic)
  /\ calls' = [calls EXCEPT !.wish = "off"]
  /\ UNCHANGED <<speaking, told, live>>

ClosesPlayback ==
  /\ playback.disposed /\ mic.stop = "none" /\ playback.context # "closed"
  /\ Plays(CutShort([playback EXCEPT !.context = "closed"]))
  /\ UNCHANGED <<speaking, mic, live, calls>>

AudioNext ==
  \/ FrameArrives \/ SchedulesFrame \/ ContextOpens \/ WaitEnds \/ SourceEnds \/ ContextSuspends
  \/ ResponseStartsHere \/ ResponseCompletes \/ ConfirmsAfterChain \/ ResponseBreaksOff
  \/ UserInterrupts \/ SpeechConfirmed \/ SpeechOver
  \/ StartsMicrophone \/ StopsMicrophone \/ FlushesCapture \/ StopEnds
  \/ Disposes \/ ClosesPlayback
  \/ \E s \in mic.starts : \/ StartCancelled(s) \/ MediaGranted(s) \/ MediaDenied(s)
                           \/ CaptureOpens(s) \/ CaptureFails(s)

AudioSpec == AudioInit /\ [][AudioNext]_audioVars

-----------------------------------------------------------------------------
\* What was on its way when the user spoke is never played after it, not even
\* when it waited for the audio context meanwhile ("epoch").
CutIsFinal ==
  \A i \in DOMAIN playback.sources : playback.sources[i].generation = playback.generation

\* A notice is reported as playing at most once, ends at most once, and ends
\* last: the gateway marks it spoken by the last report.
FinalReports == {"delivered", "failed", "interrupted"}
ToldOnce ==
  \A r \in Responses : \A i, j \in DOMAIN told[r] :
    i < j => told[r][i] = "playing" /\ told[r][j] \in FinalReports

\* The page never keeps a microphone open that no start and no running
\* capture holds, whatever was called, granted, denied or disposed of.
MicReleased ==
  live \subseteq {mic.stream} \cup {s.generation : s \in {x \in mic.starts : x.step = "opening"}}

AudioKept == CutIsFinal /\ ToldOnce /\ MicReleased

\* The microphone is off once the last thing the page asked for was a stop.
\* No run checks this: a start that waits for a stop is not withdrawn by the
\* next stop, which only joins the first.
LastStopWins ==
  calls.wish = "off" /\ mic.stop = "none" /\ mic.starts = {} => live = {}

\* A notice reported as delivered was played whole.  No run checks this: the
\* next response forgets an overflow before the report, and a frame given up
\* because the audio context did not open in time is not counted as lost.
DeliveredWasHeard ==
  \A r \in speaking.lost : told[r] # << >> => Last(told[r]) # "delivered"
=============================================================================
