---------------------------- MODULE SpeechOutput ----------------------------
(***************************************************************************)
(* The two voices a session has beside the realtime provider: the mux,     *)
(* which queues utterances for the text-to-speech sidecar, and the filler, *)
(* which plays recorded clips into a slow wait.  Both ask the session      *)
(* before they speak and both are silenced by a barge-in.                  *)
(*                                                                         *)
(* Utterances are numbered in the order of speak(); sound is abstracted.   *)
(* Every await and timer of the two classes is a point of its own.         *)
(***************************************************************************)
EXTENDS Naturals, Sequences, FiniteSets

CONSTANTS
  MaxUtterances,   \* calls of speak() in a behaviour
  MaxGateRetries,  \* MAX_GATE_RETRIES
  MaxPerSequence,  \* maxPerSequence, the clip budget
  MaxClipFrames,   \* frames of a clip
  MaxWaits         \* calls of beginSequence and speakOnce in a behaviour

ASSUME OutputAssumption ==
  /\ {MaxUtterances, MaxWaits} \subseteq Nat
  /\ {MaxGateRetries, MaxPerSequence, MaxClipFrames} \subseteq Nat \ {0}

VARIABLES
  healthy,         \* the sidecar is considered healthy
  allowed,         \* fillerSpeechAllowed of the session: the gate of both
  utterance,       \* the utterances so far: what their promise settled to
  urgent,          \* the utterances that bypass the gate (receipts)
  muxQueue,        \* SpeechMux.queue
  pump,            \* the running pump: its await, utterance and attempts
  aborted,         \* SpeechMux.aborted
  stopping,        \* the signal of the utterance in flight is aborted
  begun,           \* utterances whose synthesis was started, in order
  filler,          \* FillerSpeaker: waiting, speaking, beginRequested and timer
  clipFrames,      \* frames of the current clip that are left
  played,          \* playedInSequence
  loads,           \* continuations of preload(), in order
  spent,           \* clips of the sequence that was begun last
  waits            \* the counter of MaxWaits

muxVars    == <<utterance, urgent, muxQueue, pump, aborted, stopping, begun>>
fillerVars == <<filler, clipFrames, played, loads, spent, waits>>
outputVars == <<healthy, allowed, muxVars, fillerVars>>

NoPump == [at |-> "off", u |-> 0, tries |-> 0]
Still  == [waiting |-> FALSE, speaking |-> FALSE, begin |-> FALSE, timer |-> FALSE]

OutputInit ==
  /\ healthy = TRUE /\ allowed = FALSE
  /\ utterance = <<>> /\ urgent = {} /\ muxQueue = <<>> /\ pump = NoPump
  /\ aborted = FALSE /\ stopping = FALSE /\ begun = <<>>
  /\ filler = Still /\ clipFrames = 0 /\ played = 0 /\ loads = <<>> /\ spent = 0 /\ waits = 0

\* What the user and the provider do decides whether either may speak.
GateTurns ==
  /\ allowed' = ~allowed
  /\ UNCHANGED <<healthy, muxVars, fillerVars>>

SidecarTurns ==
  /\ healthy' = ~healthy
  /\ UNCHANGED <<allowed, muxVars, fillerVars>>

(***************************************************************************)
(* The mux.                                                                *)
(***************************************************************************)

\* The head of q starts, or waits for the gate.  Nothing is taken from q
\* while it waits.
StartsSpeaking(u) ==
  /\ pump' = [at |-> "speak", u |-> u, tries |-> 0]
  /\ begun' = Append(begun, u) /\ stopping' = FALSE

Pumps(q) ==
  IF q = <<>>
    THEN pump' = NoPump /\ muxQueue' = q /\ UNCHANGED <<begun, stopping>>
    ELSE IF Head(q) \in urgent' \/ allowed
      THEN StartsSpeaking(Head(q)) /\ muxQueue' = Tail(q)
      ELSE /\ pump' = [at |-> "gate", u |-> Head(q), tries |-> 1]
           /\ muxQueue' = q /\ UNCHANGED <<begun, stopping>>

\* speak(): the promise stays open until the pump or abort() settles it.
Speak(immediate) ==
  LET u == Len(utterance) + 1
  IN  /\ healthy /\ u <= MaxUtterances
      /\ utterance' = Append(utterance, "open")
      /\ urgent' = IF immediate THEN urgent \cup {u} ELSE urgent
      /\ aborted' = FALSE
      /\ IF pump.at = "off" THEN Pumps(Append(muxQueue, u))
         ELSE muxQueue' = Append(muxQueue, u) /\ UNCHANGED <<pump, begun, stopping>>
      /\ UNCHANGED <<healthy, allowed, fillerVars>>

\* abort(): barge-in, or the provider speaks.
Queued == {muxQueue[i] : i \in DOMAIN muxQueue}
Abort ==
  /\ aborted' = TRUE /\ muxQueue' = <<>>
  /\ utterance' = [u \in DOMAIN utterance |-> IF u \in Queued THEN "aborted" ELSE utterance[u]]
  /\ stopping' = (pump.at = "speak")
  /\ UNCHANGED <<urgent, pump, begun>>

Silenced ==
  /\ muxQueue # <<>> \/ pump.at # "off"
  /\ Abort /\ UNCHANGED <<healthy, allowed, fillerVars>>

\* GATE_RETRY_MS passed.  Whatever heads the queue now is what the pump
\* takes from it, and what it speaks is what headed it before.
GateRetries ==
  /\ pump.at = "gate"
  /\ UNCHANGED <<healthy, allowed, urgent, aborted, fillerVars>>
  /\ IF aborted
       THEN \* shift() of an empty queue: the pump throws.
            pump' = NoPump /\ UNCHANGED <<utterance, muxQueue, begun, stopping>>
       ELSE IF pump.tries >= MaxGateRetries
         THEN \* The last wait is over: skipped, without asking the gate again.
              /\ utterance' = [utterance EXCEPT ![Head(muxQueue)] = "skipped"]
              /\ Pumps(Tail(muxQueue))
         ELSE IF allowed
           THEN StartsSpeaking(pump.u) /\ muxQueue' = Tail(muxQueue) /\ UNCHANGED utterance
           ELSE /\ pump' = [pump EXCEPT !.tries = @ + 1]
                /\ UNCHANGED <<utterance, muxQueue, begun, stopping>>

\* The sidecar is done; the pump goes on unless an abort stopped it.
Spoken(outcome) ==
  /\ pump.at = "speak" /\ (outcome = "aborted" <=> stopping)
  /\ utterance' = [utterance EXCEPT ![pump.u] = IF @ = "open" THEN outcome ELSE @]
  /\ UNCHANGED urgent /\ Pumps(muxQueue)
  /\ UNCHANGED <<healthy, allowed, aborted, fillerVars>>

(***************************************************************************)
(* The filler.                                                             *)
(***************************************************************************)
FillerActive == filler.waiting \/ filler.speaking

BeginSequence ==
  /\ waits < MaxWaits /\ waits' = waits + 1
  /\ IF FillerActive \/ filler.begin
       THEN UNCHANGED <<filler, loads, spent>>
       ELSE /\ filler' = [filler EXCEPT !.begin = TRUE] /\ loads' = Append(loads, "begin")
            /\ spent' = 0
  /\ UNCHANGED <<healthy, allowed, muxVars, clipFrames, played>>

SpeakOnce ==
  /\ waits < MaxWaits /\ waits' = waits + 1
  /\ loads' = Append(loads, "once")
  /\ UNCHANGED <<healthy, allowed, muxVars, filler, clipFrames, played, spent>>

\* The first frame of a clip goes out at once; a clip of one frame is over.
Plays(budget, w) ==
  /\ spent' = IF w THEN spent + 1 ELSE spent
  /\ IF MaxClipFrames = 1
       THEN /\ filler' = [filler EXCEPT !.speaking = FALSE, !.waiting = w, !.timer = w]
            /\ clipFrames' = 0 /\ played' = IF w THEN budget + 1 ELSE 0
       ELSE /\ filler' = [filler EXCEPT !.speaking = TRUE, !.waiting = w, !.timer = FALSE]
            /\ clipFrames' = MaxClipFrames - 1 /\ played' = budget + 1

\* The continuation of preload() in beginSequence and in speakOnce.
Loaded ==
  /\ loads # <<>> /\ loads' = Tail(loads)
  /\ IF Head(loads) = "begin"
       THEN /\ UNCHANGED <<clipFrames, spent>>
            /\ IF filler.begin
                 THEN filler' = [filler EXCEPT !.waiting = TRUE, !.timer = TRUE] /\ played' = 0
                 ELSE UNCHANGED <<filler, played>>
       ELSE IF ~FillerActive /\ allowed THEN Plays(0, FALSE)
            ELSE UNCHANGED <<filler, clipFrames, played, spent>>
  /\ UNCHANGED <<healthy, allowed, muxVars, waits>>

BudgetSpent == played >= MaxPerSequence

\* Timers exist only once the clips are loaded, and then the continuations
\* of preload() run before any timer.
\* trySpeak: a spent budget ends the sequence; a closed gate defers the clip.
WaitFires ==
  /\ filler.timer /\ loads = <<>>
  /\ IF ~filler.waiting \/ filler.speaking
       THEN filler' = [filler EXCEPT !.timer = FALSE] /\ UNCHANGED <<clipFrames, played, spent>>
       ELSE IF BudgetSpent
         THEN /\ filler' = [filler EXCEPT !.timer = FALSE, !.waiting = FALSE]
              /\ UNCHANGED <<clipFrames, played, spent>>
         ELSE IF allowed THEN Plays(played, TRUE)
              ELSE UNCHANGED <<filler, clipFrames, played, spent>>
  /\ UNCHANGED <<healthy, allowed, muxVars, loads, waits>>

\* Mutant: after a clip the sequence is not scheduled again.
FramePlaysLast ==
  /\ filler.speaking /\ loads = <<>>
  /\ clipFrames' = clipFrames - 1
  /\ IF clipFrames > 1
       THEN UNCHANGED <<filler, played>>
       ELSE /\ filler' = [filler EXCEPT !.speaking = FALSE]
            /\ played' = IF filler.waiting THEN played ELSE 0
  /\ UNCHANGED <<healthy, allowed, muxVars, loads, spent, waits>>

\* The next frame of the clip; after the last one finishClip.
FramePlays ==
  /\ filler.speaking /\ loads = <<>>
  /\ clipFrames' = clipFrames - 1
  /\ IF clipFrames > 1
       THEN UNCHANGED <<filler, played>>
       ELSE /\ filler' = [filler EXCEPT !.speaking = FALSE, !.timer = filler.waiting]
            /\ played' = IF filler.waiting THEN played ELSE 0
  /\ UNCHANGED <<healthy, allowed, muxVars, loads, spent, waits>>

\* stopFiller of the session: the filler stops and the mux is aborted.
StopFiller ==
  /\ FillerActive \/ filler.begin
  /\ filler' = Still /\ clipFrames' = 0 /\ played' = 0 /\ spent' = 0
  /\ Abort
  /\ UNCHANGED <<healthy, allowed, loads, waits>>

OutputNext ==
  \/ GateTurns \/ SidecarTurns
  \/ \E i \in BOOLEAN : Speak(i)
  \/ Silenced \/ GateRetries \/ \E o \in {"spoken", "aborted", "failed"} : Spoken(o)
  \/ BeginSequence \/ SpeakOnce \/ Loaded \/ WaitFires \/ FramePlays \/ StopFiller

OutputSpec == OutputInit /\ [][OutputNext]_outputVars

-----------------------------------------------------------------------------
\* The utterances and their queue, the pump, and the filler.
OutputTypeOK ==
  /\ {healthy, allowed, aborted, stopping} \subseteq BOOLEAN
  /\ utterance \in Seq({"open", "spoken", "aborted", "skipped", "failed"})
  /\ Len(utterance) <= MaxUtterances
  /\ urgent \subseteq DOMAIN utterance
  /\ muxQueue \in Seq(DOMAIN utterance)
  /\ pump \in [at : {"off", "gate", "speak"}, u : 0..MaxUtterances, tries : 0..MaxGateRetries]
  /\ begun \in Seq(DOMAIN utterance)
  /\ filler \in [waiting : BOOLEAN, speaking : BOOLEAN, begin : BOOLEAN, timer : BOOLEAN]
  /\ clipFrames \in 0..MaxClipFrames /\ played \in 0..MaxPerSequence
  /\ loads \in Seq({"begin", "once"}) /\ spent \in Nat /\ waits \in 0..MaxWaits

\* Utterances are started in the order speak() was called, none twice, across
\* gate waits, aborts and utterances that arrive in between.
SpokenOnceInOrder == \A i, j \in DOMAIN begun : i < j => begun[i] < begun[j]

\* A slow wait never gets more clips than its budget, whatever stops, repeats
\* or named clips come in between.
WithinBudget == spent <= MaxPerSequence

\* A filler that waits has a clip or a timer that will go on with it.
FillerGoesOn == filler.waiting => filler.speaking \/ filler.timer

\* The voices of the sidecar do what they promise.
OutputKept == OutputTypeOK /\ SpokenOnceInOrder /\ FillerGoesOn /\ WithinBudget

\* No run checks this: it fails.  The utterance that waits for its gate is
\* aborted and still spoken when the gate opens (speech-mux.ts:82-99).
DroppedStaysSilent ==
  [][\A u \in DOMAIN utterance :
       utterance[u] = "aborted" => Len(begun') = Len(begun) \/ begun'[Len(begun')] # u]_outputVars

\* No run checks this: it fails.  An utterance that is aborted while it waits
\* for its gate leaves the queue, and what arrives meanwhile is at its front
\* when the pump takes the front off: it is never spoken and its promise never
\* settles (speech-mux.ts:82-99).
NothingForgotten ==
  pump.at = "off" => \A u \in DOMAIN utterance : utterance[u] # "open"

\* No run checks this: it fails.  The gates of the two do not look at each
\* other (live-gateway-session.ts:2239-2254).
OneSidecarVoice == ~(pump.at = "speak" /\ filler.speaking)
=============================================================================
