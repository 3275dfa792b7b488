-------------------------- MODULE SpeechDetection --------------------------
(***************************************************************************)
(* The speech gate of a session: which audio frames of the client are      *)
(* speech, and when speech starts and stops.  A frame is scored in chunks  *)
(* by an engine that keeps what it was given until it is scored; the gate  *)
(* decides when the scores of a frame are there.  Most callers await the   *)
(* decision before they bring the next frame; audio held behind a tool     *)
(* call is not awaited, so that several frames may be under way.           *)
(*                                                                         *)
(* A chunk is loud or quiet.  Durations are counted in chunks and frames.  *)
(***************************************************************************)
EXTENDS Naturals, Sequences, SequencesExt

CONSTANTS
  MaxFrames,     \* frames in a behaviour
  MaxScoring,    \* frames a caller that does not await has under way
  FrameChunks,   \* chunks of a frame
  StartSustain,  \* startSustainMs in chunks
  EchoSustain,   \* echoStartSustainMs in chunks
  StopSustain,   \* stopSustainMs in chunks
  TailFrames,    \* tailMs in frames
  PrerollFrames, \* prerollMs in frames
  HalfDuplex     \* halfDuplex

VARIABLES
  serial,        \* the caller awaits a decision before the next frame
  through,       \* streamThrough: every frame is forwarded
  silero,        \* the engine scores a chunk at a time (energy: all at once)
  echo,          \* the echo guard is up
  frame,         \* frames so far
  gateState,     \* active, startStreakMs, stopStreakMs, tailRemainingMs
  preroll,       \* frames kept from before speech
  expiry,        \* expiryTimer is armed
  residual,      \* chunks the engine has not scored
  under,         \* the frames whose scores are awaited
  forwarded,     \* frames the provider was given, in order
  told,          \* what the session was told last
  onset,         \* the frame in which the present speech, or streak, began
  again          \* chunks that were scored more than once
  
detector == <<frame, gateState, preroll, expiry, residual, under, forwarded, told, onset, again>>
detectionVars == <<serial, through, silero, echo, detector>>

Frames == 1..MaxFrames
Silence == [active |-> FALSE, start |-> 0, stop |-> 0, tail |-> 0]

DetectionInit ==
  /\ serial \in BOOLEAN /\ through \in BOOLEAN /\ silero \in BOOLEAN
  /\ echo = FALSE /\ frame = 0 /\ gateState = Silence /\ preroll = <<>> /\ expiry = FALSE
  /\ residual = <<>> /\ under = <<>> /\ forwarded = <<>> /\ told = "stopped"
  /\ onset = 0 /\ again = {}

\* setDownlinkActive, and the hold after it.
DownlinkTurns == echo' = ~echo /\ UNCHANGED <<serial, through, silero, detector>>

Stopped(tail) == [active |-> FALSE, start |-> 0, stop |-> 0, tail |-> tail]

(***************************************************************************)
(* A decision: the chunks of frame f, one after the other, and what is     *)
(* done with the frame then.  d holds the state and what was confirmed.    *)
(***************************************************************************)
Sustain == IF echo THEN EchoSustain ELSE StartSustain

Hears(f, d, loud) ==
  LET g == d.gate
      begins == IF g.start = 0 THEN f ELSE d.from
  IN  IF ~g.active
        THEN IF (echo /\ HalfDuplex) \/ ~loud THEN [d EXCEPT !.gate.start = 0]
             ELSE IF g.start + 1 >= Sustain
               THEN [d EXCEPT !.gate.start = Sustain, !.gate.active = TRUE, !.gate.stop = 0,
                              !.started = TRUE, !.from = begins]
               ELSE [d EXCEPT !.gate.start = g.start + 1, !.from = begins]
        ELSE IF loud THEN [d EXCEPT !.gate.stop = 0]
             ELSE IF g.stop + 1 >= StopSustain THEN [d EXCEPT !.gate = Stopped(TailFrames), !.stopped = TRUE]
             ELSE [d EXCEPT !.gate.stop = g.stop + 1]

Heard(base, f, gap, scores) ==
  FoldLeft(LAMBDA d, loud : Hears(f, d, loud),
           [gate |-> base, started |-> FALSE, stopped |-> gap, from |-> onset], scores)

LastOf(s, n) == SubSeq(s, IF Len(s) > n THEN Len(s) - n + 1 ELSE 1, Len(s))

\* The session reads a decision: started first, stopped after the frames.
Tells(started, stopped) ==
  told' = IF stopped THEN "stopped" ELSE IF started THEN "started" ELSE told

\* Mutant: the budget counts the frames before the present one only.
PrerollShort(f, started, quiet) ==
  IF started THEN <<>>
  ELSE IF quiet THEN LastOf(Append(preroll, f), PrerollFrames) ELSE preroll

\* The frames kept after frame f: speech takes them, silence adds to them.
PrerollAfter(f, started, quiet) ==
  IF started THEN <<>>
  ELSE IF quiet THEN LastOf(Append(preroll, f), PrerollFrames + 1) ELSE preroll

\* The stop is told when the tail drained, or at once when there is none.
StopTold(d, drains, quiet) == (drains /\ d.gate.tail = 1) \/ (quiet /\ d.stopped)

Decides(base, f, gap, scores) ==
  LET d == Heard(base, f, gap, scores)
      g == d.gate
      drains == ~d.started /\ ~g.active /\ g.tail > 0
      quiet  == ~d.started /\ ~g.active /\ g.tail = 0
  IN  /\ onset' = d.from
      /\ gateState' = IF drains /\ ~through THEN [g EXCEPT !.tail = @ - 1] ELSE g
      /\ expiry' = (gateState'.active \/ gateState'.tail > 0)
      /\ IF through
           THEN /\ forwarded' = Append(forwarded, f) /\ UNCHANGED preroll
                /\ Tells(d.started, d.stopped)
           ELSE /\ preroll' = PrerollAfter(f, d.started, quiet)
                /\ forwarded' = IF d.started THEN forwarded \o Append(preroll, f)
                                ELSE IF quiet THEN forwarded ELSE Append(forwarded, f)
                /\ Tells(d.started, StopTold(d, drains, quiet))

(***************************************************************************)
(* Frames and scores.                                                      *)
(***************************************************************************)

\* ingest: a gap in the stream is silence.  The energy engine, and a silero
\* engine given too little for a chunk, answer without waiting for a score.
Ingests(louds, gap) ==
  LET f == frame + 1
      chunks == [i \in 1..FrameChunks |-> [f |-> f, i |-> i, loud |-> louds[i]]]
  IN  /\ frame < MaxFrames /\ frame' = f
      /\ Len(under) < IF serial THEN 1 ELSE MaxScoring
      /\ gap => gateState.active
      /\ UNCHANGED <<again, serial, through, silero, echo>>
      /\ IF silero
           THEN /\ gateState' = IF gap THEN Stopped(0) ELSE gateState
                /\ residual' = residual \o chunks
                /\ under' = Append(under, [f |-> f, gap |-> gap, chunk |-> Head(residual'), scores |-> <<>>])
                /\ UNCHANGED <<preroll, expiry, forwarded, told, onset>>
           ELSE /\ UNCHANGED <<residual, under>>
                /\ Decides(IF gap THEN Stopped(0) ELSE gateState, f, gap, louds)

\* The model scored the chunk a call waits for.  What the call drops from the
\* residual afterwards is whatever is there first.
Scores(k) ==
  LET u == under[k]
      rest == IF residual = <<>> THEN <<>> ELSE Tail(residual)
      scores == Append(u.scores, u.chunk.loud)
      others == {under[j].chunk : j \in DOMAIN under \ {k}}
  IN  /\ residual' = rest
      /\ again' = IF u.chunk \in others THEN again \cup {<<u.chunk.f, u.chunk.i>>} ELSE again
      /\ UNCHANGED <<frame, serial, through, silero, echo>>
      /\ IF rest # <<>>
           THEN /\ under' = [under EXCEPT ![k].scores = scores, ![k].chunk = Head(rest)]
                /\ UNCHANGED <<gateState, preroll, expiry, forwarded, told, onset>>
           ELSE under' = RemoveAt(under, k) /\ Decides(gateState, u.f, u.gap, scores)

\* Mutant: the session is not told.
ExpiresQuietly ==
  /\ expiry /\ expiry' = FALSE
  /\ UNCHANGED <<frame, under, forwarded, told, onset, again, serial, through, silero, echo>>
  /\ IF gateState.active \/ gateState.tail > 0
       THEN gateState' = Stopped(0) /\ preroll' = <<>> /\ residual' = <<>>
       ELSE UNCHANGED <<gateState, preroll, residual>>

\* The frames ceased while speech, or its tail, was not over.
Expires ==
  /\ expiry /\ expiry' = FALSE
  /\ UNCHANGED <<frame, under, forwarded, onset, again, serial, through, silero, echo>>
  /\ IF gateState.active \/ gateState.tail > 0
       THEN /\ gateState' = Stopped(0) /\ preroll' = <<>> /\ residual' = <<>>
            /\ told' = "stopped"
       ELSE UNCHANGED <<gateState, preroll, residual, told>>

Louds == [1..FrameChunks -> BOOLEAN]

DetectionNext ==
  \/ DownlinkTurns
  \/ \E louds \in Louds, gap \in BOOLEAN : Ingests(louds, gap)
  \/ \E k \in DOMAIN under : Scores(k)
  \/ Expires

DetectionSpec == DetectionInit /\ [][DetectionNext]_detectionVars

\* Scores arrive and timers fire.
DetectionFair ==
  /\ WF_detectionVars(\E k \in DOMAIN under : Scores(k))
  /\ WF_detectionVars(Expires)

DetectionLive == DetectionSpec /\ DetectionFair

-----------------------------------------------------------------------------
\* Frames, the gate with its preroll and tail, and what the session was told.
DetectionTypeOK ==
  /\ {serial, through, silero, echo, expiry} \subseteq BOOLEAN
  /\ frame \in 0..MaxFrames /\ onset \in 0..MaxFrames
  /\ gateState \in [active : BOOLEAN, start : Nat, stop : 0..StopSustain, tail : 0..TailFrames]
  /\ preroll \in Seq(Frames) /\ forwarded \in Seq(Frames)
  /\ Len(preroll) <= PrerollFrames + 1 /\ Len(under) <= MaxScoring /\ told \in {"started", "stopped"}
  /\ again \subseteq Frames \X (1..FrameChunks)

\* Frames are forwarded in the order they were spoken and never twice, also
\* through the preroll, a tail and an expiry.
ForwardedInOrder ==
  serial => \A i, j \in DOMAIN forwarded : i < j => forwarded[i] < forwarded[j]

\* When speech is confirmed, every frame since it began has been forwarded:
\* the first phoneme survives the time it took to be sure.
OnsetSurvives ==
  serial /\ gateState.active => \A f \in onset..frame :
    \/ \E i \in DOMAIN forwarded : forwarded[i] = f
    \/ \E k \in DOMAIN under : under[k].f = f

\* While the gate takes what it hears for speech, the session knows.
ActiveIsTold == serial /\ ~through /\ gateState.active => told = "started"

\* Every frame of an utterance reaches the provider once and in order, and
\* the session knows of it.
DetectionKept == DetectionTypeOK /\ ForwardedInOrder /\ OnsetSurvives /\ ActiveIsTold

\* A session that was told speech started is told that it stopped, also when
\* the frames cease.
SpeechEnds == told = "started" ~> told = "stopped"

\* No run checks this: it fails when frames are scored concurrently, as the
\* held ones are: the later score may be decided first.
ForwardedAlwaysInOrder ==
  \A i, j \in DOMAIN forwarded : i < j => forwarded[i] < forwarded[j]

\* No run checks this: it fails with the engine's residual chunk under
\* concurrent frames (silero-engine.ts:34-57, speech-gate.ts:20).
AlwaysScoredOnce == again = {}

\* No run checks this: it fails for a stream that passes through, whose stop
\* is told and whose gate takes the next loud frame for the same speech.
ActiveIsAlwaysTold == gateState.active => told = "started"
=============================================================================
