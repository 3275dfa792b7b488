-------------------------- MODULE LocalVoiceSession --------------------------
(***************************************************************************)
(* A session with the local speech-to-speech runtime: the adapter, the     *)
(* runtime that hears the user's turns and makes the responses, and the    *)
(* two ordered directions of the socket between them.  A managed runtime   *)
(* leaves the routing of a turn to the adapter, which waits for the        *)
(* transcript and makes it a tool call of its own or asks for a response;  *)
(* otherwise the runtime answers turns by itself.  The runtime is          *)
(* external: what it does is taken from the events the adapter handles.    *)
(***************************************************************************)
EXTENDS Integers, Sequences, FiniteSets

CONSTANTS
  MaxLocalAsks,   \* calls of the gateway
  MaxVoiceTurns,  \* voice turns
  MaxToolCalls,   \* tool calls of the runtime
  MaxQueued,      \* LOCAL_MAX_QUEUED_RESPONSES
  MaxConnects,    \* bound: attempts to connect
  MaxWire         \* bound: events on their way to the adapter

ASSUME LocalAssumption ==
  {MaxLocalAsks, MaxVoiceTurns, MaxToolCalls, MaxQueued, MaxConnects, MaxWire} \subseteq Nat

VARIABLES
  wire,      \* the attempt to connect
  adapter,   \* the adapter's fields
  upward,    \* messages on their way to the runtime
  downward,  \* events on their way to the adapter
  runtime,   \* the runtime
  caller     \* how often it called, what it was handed and has answered

localVars == <<wire, adapter, upward, downward, runtime, caller>>

None == 0

Fresh == [closing |-> FALSE, pending |-> FALSE, wants |-> "none", active |-> None, kind |-> "none",
          implicit |-> FALSE, speech |-> FALSE, heard |-> None, queue |-> <<>>, timer |-> FALSE,
          handled |-> {}, routed |-> {}, routes |-> 0]
ClosedAdapter == [Fresh EXCEPT !.closing = TRUE]

LocalInit ==
  /\ wire \in [at : {"opening"}, tries : {0}, managed : BOOLEAN]
  /\ adapter = Fresh /\ upward = <<>> /\ downward = <<>>
  /\ runtime = [active |-> None, last |-> 0, speech |-> "silent", turns |-> 0,
                untold |-> {}, owed |-> FALSE, called |-> FALSE, calls |-> 0]
  /\ caller = [asked |-> 0, called |-> <<>>, answered |-> {}]

(* Connecting *)

\* The pipeline's one slot may be taken: tried again until the deadline.  Any other error
\* ends the attempt.
Refused ==
  /\ wire.at = "opening"
  /\ \/ wire.tries < MaxConnects /\ wire' = [wire EXCEPT !.tries = @ + 1]
     \/ wire' = [wire EXCEPT !.at = "failed"]
  /\ UNCHANGED <<adapter, upward, downward, runtime, caller>>

\* session.created is answered with the configuration, which nobody confirms:
\* a tenth of a second without an error is success.
Configures ==
  /\ wire.at = "opening" /\ wire' = [wire EXCEPT !.at = "settling"]
  /\ UNCHANGED <<adapter, upward, downward, runtime, caller>>
ConfigurationStands ==
  /\ wire.at = "settling" /\ \E at \in {"ready", "failed"} : wire' = [wire EXCEPT !.at = at]
  /\ UNCHANGED <<adapter, upward, downward, runtime, caller>>

(* Requests.  An operator yields the adapter and what it sends. *)

IsUp == wire.at = "ready" /\ ~adapter.closing
Step(a, out) == [a |-> a, out |-> out]
OnlyNotes(a) == Step(a, <<>>)
Does(step) == adapter' = step.a /\ upward' = upward \o step.out

Busy(a) == a.speech \/ a.implicit \/ a.pending \/ a.active # None

\* sendRequest, whatever else goes on.
Request(a, kind) ==
  Step([a EXCEPT !.pending = TRUE, !.wants = kind, !.timer = TRUE],
       <<[type |-> "create", kind |-> kind]>>)

Full(a) == Busy(a) /\ Len(a.queue) >= MaxQueued
Scheduled(a, kind) ==
  IF Busy(a) THEN OnlyNotes([a EXCEPT !.queue = Append(@, kind)]) ELSE Request(a, kind)

\* Mutant: what waits is not looked at when a response has ended.
FlushesNothing(a) == OnlyNotes(a)
Flushed(a) ==
  IF Busy(a) \/ a.queue = <<>> THEN OnlyNotes(a)
  ELSE Request([a EXCEPT !.queue = Tail(@)], Head(a.queue))

\* A tool call of the adapter's own: an act, a list to find a task in, or the
\* saved conversation.
Uses == {"act", "find", "converse"}
Routed(a, use) ==
  OnlyNotes([a EXCEPT !.routed = @ \cup {[id |-> a.routes + 1, use |-> use]}, !.routes = @ + 1])

(* Calls of the gateway *)

MayAsk == IsUp /\ caller.asked < MaxLocalAsks /\ caller' = [caller EXCEPT !.asked = @ + 1]

SendsText ==
  /\ MayAsk
  /\ \/ wire.managed /\ \E use \in Uses : Does(Routed(adapter, use))
     \/ ~Full(adapter) /\ Does(Scheduled(adapter, "conversation"))
  /\ UNCHANGED <<wire, downward, runtime>>

SendsNotice ==
  /\ MayAsk /\ ~Full(adapter) /\ Does(Scheduled(adapter, "notice"))
  /\ UNCHANGED <<wire, downward, runtime>>

CancelsResponse ==
  /\ MayAsk /\ (adapter.pending \/ adapter.active # None)
  /\ Does(Step(adapter, <<[type |-> "cancel"]>>))
  /\ UNCHANGED <<wire, downward, runtime>>

\* The result of a call the runtime made.
AnswersCall ==
  /\ IsUp /\ ~Full(adapter)
  /\ \E i \in DOMAIN caller.called \ caller.answered :
       caller' = [caller EXCEPT !.answered = @ \cup {i}]
  /\ Does(Scheduled(adapter, "conversation"))
  /\ UNCHANGED <<wire, downward, runtime>>

\* The result of a call of the adapter's own is spoken, unless the gateway's
\* sidecar speaks it; a list leads to a second call or says that it does not;
\* a result with nothing to say ends the session.
AnswersRoute ==
  /\ IsUp
  /\ \E r \in adapter.routed :
       LET left == [adapter EXCEPT !.routed = @ \ {r}]
       IN  \/ ~Full(adapter) /\ Does(Scheduled(left, "conversation"))
           \/ Full(adapter) /\ Does(OnlyNotes(left)) \* schedule() throws
           \/ r.use = "find" /\ Does(Routed(left, "act"))
           \/ r.use = "act" /\ Does(OnlyNotes(ClosedAdapter))
  /\ UNCHANGED <<wire, downward, runtime, caller>>

\* close(), the end of the socket, a message that does not fit its buffer, the
\* deadline of a response, or two pings that were missed.
LocalCloses ==
  /\ IsUp
  /\ adapter' = ClosedAdapter /\ upward' = <<>> /\ downward' = <<>>
  /\ UNCHANGED <<wire, runtime, caller>>

(* Events of the runtime *)

Receives(type) ==
  IsUp /\ downward # <<>> /\ Head(downward).type = type /\ downward' = Tail(downward)

HearsSpeech ==
  /\ Receives("started")
  /\ adapter' = [adapter EXCEPT !.speech = TRUE, !.heard = None]
  /\ UNCHANGED <<wire, upward, runtime, caller>>

\* routeManagedVoiceTranscript: past the queue.
TakesTurn(a) ==
  LET turn == [a EXCEPT !.heard = None, !.implicit = FALSE, !.timer = FALSE]
  IN  (\E use \in Uses : Does(Routed(turn, use))) \/ Does(Request(turn, "conversation"))

HearsPause ==
  LET paused == [adapter EXCEPT !.speech = FALSE, !.implicit = TRUE, !.timer = TRUE]
  IN  /\ Receives("stopped")
      /\ IF adapter.heard # None THEN TakesTurn(paused) ELSE Does(OnlyNotes(paused))
      /\ UNCHANGED <<wire, runtime, caller>>

\* A transcript that is neither awaited nor early is left.
HearsTranscript ==
  LET turn == Head(downward).turn
  IN  /\ Receives("transcript")
      /\ IF wire.managed /\ adapter.implicit THEN TakesTurn(adapter)
         ELSE Does(OnlyNotes(IF wire.managed /\ adapter.speech
                         THEN [adapter EXCEPT !.heard = turn] ELSE adapter))
      /\ UNCHANGED <<wire, runtime, caller>>

LocalResponseStarts ==
  LET id == Head(downward).id
  IN  /\ Receives("created")
      /\ adapter' = IF adapter.active # None THEN ClosedAdapter
                    ELSE [adapter EXCEPT !.pending = FALSE, !.implicit = FALSE, !.active = id,
                            !.kind = IF adapter.wants = "none" THEN "conversation"
                                     ELSE adapter.wants,
                            !.wants = "none", !.timer = TRUE]
      /\ UNCHANGED <<wire, upward, runtime, caller>>

\* Mutant: a call that is repeated is reported again.
ForgetsCalls(a, id) == FALSE
Handled(a, id) == id \in a.handled

\* A tool call, reported once; what else the response says is dropped.
ToolCalled ==
  LET id == Head(downward).id
  IN  /\ Receives("call")
      /\ IF Handled(adapter, id) THEN UNCHANGED <<adapter, caller>>
         ELSE /\ adapter' = [adapter EXCEPT !.handled = @ \cup {id}]
              /\ caller' = [caller EXCEPT !.called = Append(@, id)]
      /\ UNCHANGED <<wire, upward, runtime>>

\* The end of a response; one that the user's speech cut off keeps the queue
\* closed until that turn is answered.
LocalResponseEnds ==
  LET e == Head(downward)
      over == [adapter EXCEPT !.pending = FALSE, !.active = None, !.kind = "none",
                 !.implicit = e.cut, !.timer = FALSE]
  IN  /\ Receives("done")
      /\ IF adapter.active \notin {None, e.id} THEN UNCHANGED <<adapter, upward>>
         ELSE Does(Flushed(over))
      /\ UNCHANGED <<wire, runtime, caller>>

\* An error after the start is only counted.
CountsError ==
  /\ Receives("error")
  /\ UNCHANGED <<wire, adapter, upward, runtime, caller>>

(* The runtime, while the socket is open *)

Emits(events) == downward' = downward \o events
Works == IsUp /\ Len(downward) < MaxWire
Reads(type) ==
  Works /\ upward # <<>> /\ Head(upward).type = type /\ upward' = Tail(upward)
RuntimeBegins(r) == [r EXCEPT !.active = r.last + 1, !.last = @ + 1, !.called = FALSE]
Created(kind) == [type |-> "created", id |-> runtime.last + 1, kind |-> kind]
Done(cut) == [type |-> "done", id |-> runtime.active, cut |-> cut]

\* A request during a response is an error.
RuntimeCreates ==
  /\ Reads("create")
  /\ IF runtime.active # None THEN UNCHANGED runtime /\ Emits(<<[type |-> "error"]>>)
     ELSE runtime' = RuntimeBegins(runtime) /\ Emits(<<Created(Head(upward).kind)>>)
  /\ UNCHANGED <<wire, adapter, caller>>
RuntimeCancels ==
  /\ Reads("cancel")
  /\ IF runtime.active = None THEN UNCHANGED <<runtime, downward>>
     ELSE runtime' = [runtime EXCEPT !.active = None] /\ Emits(<<Done(FALSE)>>)
  /\ UNCHANGED <<wire, adapter, caller>>

RuntimeWorks ==
  /\ Works /\ runtime.active # None
  /\ \/ /\ ~runtime.called /\ runtime.calls < MaxToolCalls
        /\ runtime' = [runtime EXCEPT !.called = TRUE, !.calls = @ + 1]
        /\ \E n \in 1..2 : Emits([i \in 1..n |-> [type |-> "call", id |-> runtime.active]])
     \/ runtime' = [runtime EXCEPT !.active = None] /\ Emits(<<Done(FALSE)>>)
  /\ UNCHANGED <<wire, adapter, upward, caller>>

\* An unmanaged turn is answered by the runtime itself.
RuntimeAnswers ==
  /\ Works /\ runtime.owed /\ runtime.active = None
  /\ runtime' = [RuntimeBegins(runtime) EXCEPT !.owed = FALSE]
  /\ Emits(<<Created("conversation")>>)
  /\ UNCHANGED <<wire, adapter, upward, caller>>

\* The end of a response that speech cuts off is told before the speech.
UserSpeaks ==
  /\ Works /\ runtime.speech = "silent" /\ runtime.turns < MaxVoiceTurns
  /\ runtime' = [runtime EXCEPT !.active = None, !.speech = "speaking", !.turns = @ + 1]
  /\ Emits((IF runtime.active # None THEN <<Done(TRUE)>> ELSE <<>>) \o <<[type |-> "started"]>>)
  /\ UNCHANGED <<wire, adapter, upward, caller>>

\* The transcript follows the end of the turn, or overtakes it, or takes its
\* time; noise has none.
UserPauses ==
  LET stopped == <<[type |-> "stopped"]>>
      told == <<[type |-> "transcript", turn |-> runtime.turns]>>
      quiet == [runtime EXCEPT !.speech = "silent", !.owed = ~wire.managed]
  IN  /\ Works /\ runtime.speech = "speaking"
      /\ \/ runtime' = quiet /\ \E es \in {stopped, stopped \o told, told \o stopped} : Emits(es)
         \/ runtime' = [quiet EXCEPT !.untold = @ \cup {runtime.turns}] /\ Emits(stopped)
      /\ UNCHANGED <<wire, adapter, upward, caller>>
TranscriptIsReady ==
  /\ Works
  /\ \E t \in runtime.untold :
       /\ runtime' = [runtime EXCEPT !.untold = @ \ {t}]
       /\ Emits(<<[type |-> "transcript", turn |-> t]>>)
  /\ UNCHANGED <<wire, adapter, upward, caller>>

LocalNext ==
  \/ Refused \/ Configures \/ ConfigurationStands
  \/ SendsText \/ SendsNotice \/ CancelsResponse
  \/ AnswersCall \/ AnswersRoute \/ LocalCloses
  \/ HearsSpeech \/ HearsPause \/ HearsTranscript \/ LocalResponseStarts \/ ToolCalled
  \/ LocalResponseEnds \/ CountsError
  \/ RuntimeCreates \/ RuntimeCancels \/ RuntimeWorks \/ RuntimeAnswers
  \/ UserSpeaks \/ UserPauses \/ TranscriptIsReady

LocalSpec == LocalInit /\ [][LocalNext]_localVars

LocalTypeOK ==
  /\ wire.at \in {"opening", "settling", "ready", "failed"} /\ wire.tries \in 0..MaxConnects
  /\ adapter.wants \in {"none", "conversation", "notice"} /\ Len(adapter.queue) <= MaxQueued
  /\ adapter.kind \in {"none", "conversation", "notice"}
  /\ adapter.closing => adapter = ClosedAdapter

\* What waits in the queue has something that will let it out: a response or
\* a turn whose end flushes it, or a routed call whose result is spoken.
QueueHasAWaker ==
  adapter.queue # <<>> => Busy(adapter) \/ adapter.routed # {}

\* A tool call of the runtime is handed to the gateway once, however often the
\* events of its response repeat it (huggingface-realtime.adapter.ts:568-588).
CallsAreToldOnce ==
  \A i, j \in DOMAIN caller.called : caller.called[i] = caller.called[j] => i = j

LocalKept == LocalTypeOK /\ QueueHasAWaker /\ CallsAreToldOnce

\* No run checks these: they fail.  A turn that is taken up while a request is
\* pending stops the deadline of that request
\* (huggingface-realtime.adapter.ts:770-786).
ResponsesAreWatched == adapter.pending \/ adapter.active # None => adapter.timer

\* Nor is a request for a turn kept back while another response is asked for
\* or begins: the runtime refuses it, and the turn has no answer.
RequestsAreServed == \A i \in DOMAIN downward : downward[i].type # "error"

\* The transcript of a turn is left when a response began since, or when the
\* user has spoken again (huggingface-realtime.adapter.ts:526-530, 602-621,
\* where the comment says "rather than losing the voice turn").
TurnsAreTaken ==
  [][wire.managed /\ IsUp' /\ downward # <<>> /\ Head(downward).type = "transcript"
       /\ downward' = Tail(downward) =>
       adapter'.heard = Head(downward).turn \/ adapter.implicit]_localVars

\* A receipt that the sidecar speaks for a routed call ends the session
\* (huggingface-realtime.adapter.ts:338, 434-436).
ReceiptsAreHarmless == [][AnswersRoute => ~adapter'.closing]_localVars

\* The response to the user's turn is taken for the notice that was asked for
\* meanwhile, or the notice for the turn
\* (huggingface-realtime.adapter.ts:530-531).
NoticesAreThemselves ==
  [][LocalResponseStarts /\ ~adapter'.closing => adapter'.kind = Head(downward).kind]_localVars
=============================================================================
