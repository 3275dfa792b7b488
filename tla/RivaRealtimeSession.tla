------------------------- MODULE RivaRealtimeSession -------------------------
(***************************************************************************)
(* A session with the separate speech services: an ear, which is a socket  *)
(* that is replaced after every utterance, a brain that answers requests,  *)
(* and a voice that opens a socket for every text.  The gateway sends      *)
(* audio one call after the other; what it asks to be said, and the        *)
(* answers of the brain, take their turns in one chain of promises.        *)
(***************************************************************************)
EXTENDS Integers, Sequences, FiniteSets, SequencesExt

CONSTANTS
  MaxRivaFrames,  \* bounds: frames of audio,
  MaxEars,        \* sockets to the transcription service,
  MaxSayings,     \* texts and notices the gateway sends,
  MaxBargeIns,    \* cancellations,
  MaxRivaCalls,   \* tool calls of the brain,
  MaxHeardParts   \* sentences of one answer that are spoken as they arrive

ASSUME RivaAssumption ==
  {MaxRivaFrames, MaxEars, MaxSayings, MaxBargeIns, MaxRivaCalls, MaxHeardParts} \subseteq Nat

VARIABLES
  ears,     \* the sockets that transcribe, and what was committed on each
  hearing,  \* the adapter's fields about them
  sendingAudio, \* the gateway's call of sendRealtimeAudio
  chain,    \* what waits in the chain of promises
  turn,     \* the task of the chain that runs
  speech,   \* the adapter's fields about responses
  dialogue, \* the tool calls and the history
  informed  \* what the gateway was told, and how much was asked

rivaVars == <<ears, hearing, sendingAudio, chain, turn, speech, dialogue, informed>>

NoTurn == [kind |-> "none", step |-> "none", stale |-> FALSE, retried |-> FALSE, sentences |-> 0,
           waiting |-> 0, speaking |-> FALSE, broken |-> FALSE]
NoEar == [at |-> "unused", heard |-> 0]

RivaInit ==
  /\ ears = [n \in 1..MaxEars |-> IF n = 1 THEN [at |-> "open", heard |-> 0] ELSE NoEar]
  /\ hearing = [ear |-> 1, connecting |-> FALSE, buffered |-> FALSE, awaiting |-> FALSE, gate |-> FALSE,
                timer |-> FALSE, utterance |-> 0]
  /\ sendingAudio = [at |-> "none", frames |-> 0]
  /\ chain = << >> /\ turn = NoTurn
  /\ speech \in [active : {FALSE}, owed : {0}, voiced : {FALSE}, streaming : BOOLEAN]
  /\ dialogue = [pending |-> {}, calls |-> 0, results |-> FALSE]
  /\ informed = [closed |-> FALSE, lost |-> FALSE, settled |-> << >>, sayings |-> 0, bargeIns |-> 0,
             outside |-> FALSE, latch |-> FALSE]

Alive == ~informed.closed
EarOpen == hearing.ear # 0 /\ ears[hearing.ear].at = "open"

(* The ear *)

\* close(): of the session, by the gateway, which takes no more of it.
ClosesSession ==
  /\ informed' = [informed EXCEPT !.closed = TRUE, !.lost = FALSE]
  /\ hearing' = [hearing EXCEPT !.gate = FALSE, !.timer = FALSE, !.awaiting = FALSE]
  /\ turn' = NoTurn /\ chain' = << >>
  /\ speech' = [speech EXCEPT !.active = FALSE, !.owed = 0]
  /\ sendingAudio' = [sendingAudio EXCEPT !.at = "none"]
  /\ UNCHANGED <<ears, dialogue>>

\* The gateway ends a session whose provider is lost or refuses its input.
RivaCloses == Alive /\ ClosesSession

\* sendRealtimeAudio waits for the transcript of what came before.
FrameComes ==
  /\ Alive /\ ~informed.lost /\ sendingAudio.at = "none" /\ sendingAudio.frames < MaxRivaFrames
  /\ sendingAudio' = [at |-> "gate", frames |-> sendingAudio.frames + 1]
  /\ UNCHANGED <<ears, hearing, chain, turn, speech, dialogue, informed>>

GateOpen == sendingAudio.at = "gate" /\ ~hearing.gate

FramePasses ==
  /\ Alive /\ GateOpen /\ EarOpen
  /\ hearing' = [hearing EXCEPT !.buffered = TRUE]
  /\ sendingAudio' = [sendingAudio EXCEPT !.at = "none"]
  /\ UNCHANGED <<ears, chain, turn, speech, dialogue, informed>>

FrameReconnects ==
  /\ Alive /\ GateOpen /\ ~EarOpen
  /\ hearing' = [hearing EXCEPT !.connecting = TRUE]
  /\ sendingAudio' = [sendingAudio EXCEPT !.at = "connect"]
  /\ UNCHANGED <<ears, chain, turn, speech, dialogue, informed>>

NextEar == CHOOSE n \in 1..MaxEars : ears[n].at = "unused" /\ \A k \in 1..(n - 1) : ears[k].at # "unused"
EarsLeft == \E n \in 1..MaxEars : ears[n].at = "unused"

\* The one reconnection in flight; a frame that waits for it is sent on, or
\* fails, and the gateway ends the session for it.
EarConnects ==
  /\ Alive /\ hearing.connecting /\ EarsLeft
  /\ ears' = [ears EXCEPT ![NextEar] = [at |-> "open", heard |-> 0]]
  /\ hearing' = [hearing EXCEPT !.connecting = FALSE, !.ear = NextEar,
                                !.buffered = @ \/ sendingAudio.at = "connect"]
  /\ sendingAudio' = [sendingAudio EXCEPT !.at = IF @ = "connect" THEN "none" ELSE @]
  /\ UNCHANGED <<chain, turn, speech, dialogue, informed>>

EarRefused ==
  /\ Alive /\ hearing.connecting
  /\ IF sendingAudio.at = "connect" THEN ClosesSession
     ELSE /\ hearing' = [hearing EXCEPT !.connecting = FALSE]
          /\ UNCHANGED <<ears, sendingAudio, chain, turn, speech, dialogue, informed>>

\* sendAudioStreamEnd.  On a socket its peer has closed, the commit throws
\* before the timer is set, and the gateway ends the session.
UtteranceEnds ==
  /\ Alive /\ ~informed.lost /\ sendingAudio.at = "none" /\ hearing.buffered /\ hearing.ear # 0
  /\ IF EarOpen
     THEN /\ hearing' = [hearing EXCEPT !.buffered = FALSE, !.awaiting = TRUE, !.gate = TRUE,
                                        !.timer = TRUE, !.utterance = @ + 1]
          /\ ears' = [ears EXCEPT ![hearing.ear].heard = hearing.utterance + 1]
          /\ informed' = [informed EXCEPT !.latch = TRUE, !.settled = Append(@, 0)]
          /\ UNCHANGED <<sendingAudio, chain, turn, speech, dialogue>>
     ELSE ClosesSession

\* Mutant: a transcript is taken from whichever socket it comes.
ListensToAll(n) == TRUE
\* A message of a socket that was replaced is not looked at.
Listens(n) == hearing.ear = n

\* releaseTranscript and rotateAsr: the socket is given up for a new one.
Rotated(n) ==
  /\ hearing' = [hearing EXCEPT !.awaiting = FALSE, !.gate = FALSE, !.timer = FALSE, !.ear = 0,
                                !.connecting = TRUE]
  /\ ears' = [ears EXCEPT ![n].at = "left"]

SettledBy(u) == [informed.settled EXCEPT ![u] = @ + 1]

\* The last result of an utterance: nothing, an echo of the session's own
\* voice, or a turn of the user.
Transcribed(n) ==
  /\ ears[n].at \in {"open", "left"} /\ ears[n].heard # 0 /\ Listens(n) /\ hearing.awaiting
  /\ \E heard \in {"nothing", "echo", "words"} :
       /\ heard = "echo" => speech.voiced
       /\ chain' = IF heard = "words" THEN Append(chain, [kind |-> "user", stale |-> FALSE]) ELSE chain
       /\ informed' = [informed EXCEPT !.settled = SettledBy(ears[n].heard),
                               !.latch = IF heard = "nothing" THEN FALSE ELSE @]
  /\ Rotated(n)
  /\ UNCHANGED <<sendingAudio, turn, speech, dialogue>>

\* An error, or no last result in time: a response that failed.
NotTranscribed(n) ==
  /\ Listens(n)
  /\ \/ ears[n].at = "open"
     \/ hearing.timer /\ hearing.awaiting
  /\ informed' = [informed EXCEPT !.latch = FALSE,
                          !.settled = IF hearing.awaiting THEN SettledBy(hearing.utterance) ELSE @]
  /\ Rotated(n)
  /\ UNCHANGED <<sendingAudio, chain, turn, speech, dialogue>>

\* The service closes a socket; the adapter hears of it later.
EarShuts(n) ==
  /\ ears[n].at = "open" /\ ears' = [ears EXCEPT ![n].at = "shut"]
  /\ UNCHANGED <<hearing, sendingAudio, chain, turn, speech, dialogue, informed>>

\* Between utterances the ear is replaced; within one the provider is lost.
EarLost(n) ==
  /\ ears[n].at = "shut" /\ Listens(n)
  /\ ears' = [ears EXCEPT ![n].at = "left"]
  /\ IF hearing.awaiting
     THEN /\ hearing' = [hearing EXCEPT !.ear = 0, !.timer = FALSE]
          /\ informed' = [informed EXCEPT !.lost = TRUE]
     ELSE /\ hearing' = [hearing EXCEPT !.ear = 0, !.connecting = TRUE]
          /\ UNCHANGED informed
  /\ UNCHANGED <<sendingAudio, chain, turn, speech, dialogue>>

EarNext ==
  \/ RivaCloses \/ FrameComes \/ FramePasses \/ FrameReconnects \/ EarConnects \/ EarRefused
  \/ UtteranceEnds
  \/ Alive /\ \E n \in 1..MaxEars :
       \/ Transcribed(n) \/ NotTranscribed(n) \/ EarShuts(n) \/ EarLost(n)

(* What is to be said, and the tools *)

Waiting(kind) == Append(chain, [kind |-> kind, stale |-> FALSE])
\* enqueueSpeech
Owes == chain' = Waiting("speech") /\ speech' = [speech EXCEPT !.owed = @ + 1]

\* sendText and sendTaskNotification.
GatewaySays ==
  /\ Alive /\ informed.sayings < MaxSayings
  /\ informed' = [informed EXCEPT !.sayings = @ + 1]
  /\ \/ chain' = Waiting("user") /\ UNCHANGED speech
     \/ Owes
  /\ UNCHANGED <<ears, hearing, sendingAudio, turn, dialogue>>

\* sendToolResponse: a result with words of its own is spoken here or by the
\* sidecar; after the last of the others the brain is asked again.
ToolAnswered ==
  /\ Alive
  /\ \E c \in dialogue.pending :
       LET left == dialogue.pending \ {c}
       IN  \/ /\ dialogue' = [dialogue EXCEPT !.pending = left]
              /\ Owes \/ UNCHANGED <<chain, speech>>
           \/ /\ dialogue' = [dialogue EXCEPT !.pending = left, !.results = left # {}]
              /\ chain' = IF left = {} THEN Waiting("results") ELSE chain
              /\ UNCHANGED speech
  /\ UNCHANGED <<ears, hearing, sendingAudio, turn, informed>>

\* A new speech epoch: what waits to be spoken will not be.
Outdated == [i \in DOMAIN chain |-> [chain[i] EXCEPT !.stale = @ \/ chain[i].kind = "speech"]]

\* cancelResponse: the response that is open ends at once, what makes it finds
\* out by its generation.
BargesIn ==
  /\ Alive /\ informed.bargeIns < MaxBargeIns
  /\ chain' = Outdated
  /\ IF speech.active THEN turn' = [turn EXCEPT !.stale = TRUE] ELSE UNCHANGED turn
  /\ speech' = [speech EXCEPT !.active = FALSE]
  /\ informed' = [informed EXCEPT !.bargeIns = @ + 1, !.latch = IF speech.active THEN FALSE ELSE @]
  /\ UNCHANGED <<ears, hearing, sendingAudio, dialogue>>

(* The chain *)

Opened(kind, step) ==
  /\ turn' = [NoTurn EXCEPT !.kind = kind, !.step = step]
  /\ informed' = [informed EXCEPT !.latch = TRUE]

\* The next of the chain: a text that is not outdated, or the brain.
ChainMoves ==
  /\ Alive /\ turn.kind = "none" /\ chain # << >>
  /\ chain' = Tail(chain)
  /\ LET next == Head(chain)
         owed == IF next.kind = "speech" THEN speech.owed - 1 ELSE speech.owed
     IN  IF next.stale
         THEN speech' = [speech EXCEPT !.owed = owed] /\ UNCHANGED <<turn, informed>>
         ELSE /\ speech' = [speech EXCEPT !.owed = owed, !.active = TRUE,
                                          !.voiced = @ \/ next.kind = "speech"]
              /\ Opened(next.kind, IF next.kind = "speech" THEN "synthesis" ELSE "brain")
  /\ UNCHANGED <<ears, hearing, sendingAudio, dialogue>>

\* finish(), for the response that is still this task's.
Finishes == ~turn.stale
TurnOver ==
  /\ turn' = NoTurn
  /\ speech' = [speech EXCEPT !.active = IF Finishes THEN FALSE ELSE @]
  /\ informed' = [informed EXCEPT !.latch = IF Finishes THEN FALSE ELSE @]

\* Synthesized audio is passed on in one piece, if nobody cut in meanwhile.
Heard == ~turn.stale
Outside == Heard /\ ~speech.active

Synthesized ==
  /\ Alive /\ turn.step = "synthesis"
  /\ turn' = NoTurn
  /\ speech' = [speech EXCEPT !.active = IF Finishes THEN FALSE ELSE @]
  /\ informed' = [informed EXCEPT !.outside = @ \/ Outside, !.latch = IF Finishes THEN FALSE ELSE @]
  /\ UNCHANGED <<ears, hearing, sendingAudio, chain, dialogue>>

SynthesisFails ==
  /\ Alive /\ turn.step = "synthesis" /\ TurnOver
  /\ UNCHANGED <<ears, hearing, sendingAudio, chain, dialogue>>

(* The brain *)

\* The sentences of a streamed answer are spoken one after the other while
\* the rest of it arrives.
SentenceArrives ==
  /\ Alive /\ turn.step = "brain" /\ speech.streaming /\ ~turn.retried /\ turn.sentences < MaxHeardParts
  /\ turn' = [turn EXCEPT !.sentences = @ + 1, !.waiting = @ + 1]
  /\ UNCHANGED <<ears, hearing, sendingAudio, chain, speech, dialogue, informed>>

SentenceBegins ==
  /\ Alive /\ turn.waiting > 0 /\ ~turn.speaking
  /\ turn' = [turn EXCEPT !.waiting = @ - 1, !.speaking = ~turn.broken /\ ~turn.stale]
  /\ speech' = [speech EXCEPT !.voiced = @ \/ (~turn.broken /\ ~turn.stale)]
  /\ UNCHANGED <<ears, hearing, sendingAudio, chain, dialogue, informed>>

SentenceEnds ==
  /\ Alive /\ turn.speaking
  /\ \/ /\ turn' = [turn EXCEPT !.speaking = FALSE]
        /\ informed' = [informed EXCEPT !.outside = @ \/ Outside]
     \/ turn' = [turn EXCEPT !.speaking = FALSE, !.broken = TRUE] /\ UNCHANGED informed
  /\ UNCHANGED <<ears, hearing, sendingAudio, chain, speech, dialogue>>

BrainStep(next) ==
  /\ turn' = next
  /\ UNCHANGED <<ears, hearing, sendingAudio, chain, speech, dialogue, informed>>

\* An answer with nothing in it is asked for again, once.
BrainIsEmpty ==
  /\ Alive /\ turn.step = "brain" /\ turn.sentences = 0 /\ ~turn.retried
  /\ BrainStep([turn EXCEPT !.retried = TRUE])

\* An answer in words is spoken, by its sentences or now.
BrainSpeaks ==
  /\ Alive /\ turn.step = "brain" /\ ~turn.stale
  /\ turn' = [turn EXCEPT !.step = IF turn.sentences > 0 THEN "drain" ELSE "synthesis"]
  /\ speech' = [speech EXCEPT !.voiced = TRUE]
  /\ UNCHANGED <<ears, hearing, sendingAudio, chain, dialogue, informed>>

\* Tool calls are passed on; a malformed one is settled in the history.  What
\* was said before them is spoken to its end.
BrainCalls ==
  /\ Alive /\ turn.step = "brain" /\ ~turn.stale
  /\ \E last \in (dialogue.calls + 1)..MaxRivaCalls :
       \E malformed \in SUBSET ((dialogue.calls + 1)..last) :
         dialogue' = [dialogue EXCEPT !.calls = last,
                                      !.pending = @ \cup (((dialogue.calls + 1)..last) \ malformed)]
  /\ turn' = [turn EXCEPT !.step = "drain"]
  /\ UNCHANGED <<ears, hearing, sendingAudio, chain, speech, informed>>

\* The request fails, is aborted or times out: the sentences that wait are still spoken.
BrainFails == Alive /\ turn.step = "brain" /\ BrainStep([turn EXCEPT !.step = "drain"])

\* An answer nobody waits for any more; its sentences are outdated as well.
AnswerOutdated ==
  /\ Alive /\ turn.step = "brain" /\ turn.stale /\ TurnOver
  /\ UNCHANGED <<ears, hearing, sendingAudio, chain, dialogue>>

AnswerDrained ==
  /\ Alive /\ turn.step = "drain" /\ turn.waiting = 0 /\ ~turn.speaking /\ TurnOver
  /\ UNCHANGED <<ears, hearing, sendingAudio, chain, dialogue>>

VoiceNext ==
  \/ GatewaySays \/ ToolAnswered \/ BargesIn
  \/ ChainMoves \/ Synthesized \/ SynthesisFails
  \/ SentenceArrives \/ SentenceBegins \/ SentenceEnds
  \/ BrainIsEmpty \/ BrainSpeaks \/ BrainCalls \/ BrainFails \/ AnswerOutdated \/ AnswerDrained

RivaNext == EarNext \/ VoiceNext

RivaSpec == RivaInit /\ [][RivaNext]_rivaVars

(* Properties *)

\* Whoever waits for a transcript is released: by the timer, or because the
\* provider counts as lost and the gateway closes the session.
GateIsReleased == hearing.gate => hearing.timer \/ informed.lost

\* Every utterance that was committed is answered once: by a turn, an empty or
\* a failed response, or a dropped echo; only the one awaited is open.
UtterancesSettleOnce ==
  Alive => \A u \in DOMAIN informed.settled :
             informed.settled[u] = IF hearing.awaiting /\ u = hearing.utterance THEN 0 ELSE 1

\* A response that was opened is ended before the chain goes on.
ResponsesEnd == turn.kind = "none" => ~speech.active

\* Audio is passed on only inside an open response: never after the user cut
\* in, although synthesis, brain and queue go on for a while.
HeardInside == ~informed.outside

\* What a cancellation takes for queued speech is the speech that is queued.
OwedIsQueued == speech.owed = Cardinality({i \in DOMAIN chain : chain[i].kind = "speech"})

RivaKept ==
  GateIsReleased /\ UtterancesSettleOnce /\ ResponsesEnd /\ HeardInside /\ OwedIsQueued

\* riva-realtime.adapter.ts:391 settles malformed calls so that no request to
\* the brain has an unanswered call in it: a turn of the user that is
\* transcribed while a tool works makes such a request.
RequestsAreSettled == turn.step = "brain" /\ turn.kind = "user" => dialogue.pending = {}

\* A turn that ended is over for the gateway too: a dropped echo tells no
\* response, and the gateway takes the provider for busy until the next one.
IdleIsKnown ==
  Alive /\ turn.kind = "none" /\ chain = << >> /\ ~hearing.awaiting => ~informed.latch

\* A result that was left for the brain is read by it when all are in: not if
\* the last one has words of its own.
ResultsAreRead == dialogue.results => dialogue.pending # {}
=============================================================================
