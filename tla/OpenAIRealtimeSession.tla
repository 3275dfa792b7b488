----------------------- MODULE OpenAIRealtimeSession -----------------------
(***************************************************************************)
(* A session with the OpenAI Realtime API: the adapter that asks for one   *)
(* response at a time, the provider that makes them, and the socket with   *)
(* its two ordered directions between them.  The provider is external:     *)
(* what it does is taken from the events the adapter handles.              *)
(***************************************************************************)
EXTENDS Integers, Sequences, FiniteSets, SequencesExt

CONSTANTS
  MaxAsks,      \* calls of the gateway: texts, tool results, notices, cancels
  MaxTurns,     \* voice turns
  MaxCalls,     \* tool calls of the provider
  MaxQueuedAsks \* OPENAI_MAX_QUEUED_RESPONSE_REQUESTS

ASSUME RealtimeAssumption == {MaxAsks, MaxTurns, MaxCalls, MaxQueuedAsks} \subseteq Nat

VARIABLES
  adapter,    \* the adapter's fields
  upward,     \* messages on their way to the provider
  downward,   \* events on their way to the adapter
  provider,   \* the provider: the response it makes, and the user's speech
  asked,      \* how many calls the gateway has made
  ended,      \* responses that were cut off while they were active
  reported,   \* responses whose tool call the gateway was given
  resulted    \* the ones whose result it has sent

realtimeVars == <<adapter, upward, downward, provider, asked, ended, reported, resulted>>
gatewayVars == <<asked, ended, reported, resulted>>

None == "none"

\* "turns" counts the voice turns for which a response was asked; the texts
\* in "deferred" carry how many there were before them.
Fresh ==
  [closing |-> FALSE, pending |-> None, active |-> 0, kind |-> None, awaiting |-> 0,
   queue |-> <<>>, deferred |-> <<>>, cancelling |-> FALSE, endNotice |-> FALSE,
   cancels |-> {}, cancel |-> 0, suppressed |-> 0, terminal |-> {}, handled |-> {},
   buffered |-> FALSE, skipStop |-> FALSE, turns |-> 0]
ClosedAdapter == [Fresh EXCEPT !.closing = TRUE]

RealtimeInit ==
  /\ adapter = Fresh /\ upward = <<>> /\ downward = <<>>
  /\ provider = [active |-> 0, kind |-> None, called |-> FALSE, last |-> 0, calls |-> 0,
                 speech |-> "silent", spoken |-> 0, answered |-> 0, collided |-> FALSE]
  /\ asked = 0 /\ ended = {} /\ reported = {} /\ resulted = {}

IsUp == ~adapter.closing
Asks == IsUp /\ asked < MaxAsks /\ asked' = asked + 1

\* An operator of the adapter yields the adapter and what it sends.
Step(a, out) == [a |-> a, out |-> out]
Still(a) == Step(a, <<>>)
Does(step) == adapter' = step.a /\ upward' = upward \o step.out
Then(step, Next(_)) == Step(Next(step.a).a, step.out \o Next(step.a).out)

(* Asking for responses *)

Create(a, kind) == Step([a EXCEPT !.pending = kind], <<[type |-> "create", kind |-> kind]>>)

\* One response at a time, its cancellation included.
Busy(a) == a.pending # None \/ a.active # 0 \/ a.cancelling

\* Voice turns go first: they were spoken before what waits for them.
NextAsk(a) ==
  IF a.awaiting > 0 THEN SelectInSeq(a.queue, LAMBDA kind : kind = "vad") ELSE 1

Flushed(a) ==
  IF a.closing \/ a.queue = <<>> \/ Busy(a) THEN Still(a)
  ELSE IF NextAsk(a) = 0 THEN Still(ClosedAdapter)
  ELSE Create([a EXCEPT !.queue = RemoveAt(@, NextAsk(a))], a.queue[NextAsk(a)])

\* A text behind a waiting text is answered with it.
Merges(a, kind) == kind = "default" /\ a.queue # <<>> /\ Last(a.queue) = "default"

Overflows(a, kind) ==
  (Busy(a) \/ a.queue # <<>>) /\ ~Merges(a, kind) /\ Len(a.queue) >= MaxQueuedAsks

Requested(a, kind) ==
  IF Busy(a) \/ a.queue # <<>>
  THEN Flushed(IF Merges(a, kind) THEN a ELSE [a EXCEPT !.queue = Append(@, kind)])
  ELSE Create(a, kind)

Input(a) == [type |-> "input", after |-> a.turns]

\* Behind a voice turn that has no response yet a text is kept back, so that
\* the response to the turn does not see it.
InputSent(a) ==
  IF a.awaiting = 0 THEN Step(a, <<Input(a)>>)
  ELSE Still([a EXCEPT !.deferred = Append(@, Input(a))])

Sends == Does(Then(InputSent(adapter), LAMBDA a : Requested(a, "default")))

\* A text that would overflow the queue is refused before anything is sent.
SendsText ==
  /\ Asks /\ ~Overflows(adapter, "default")
  /\ Sends
  /\ UNCHANGED <<downward, provider, ended, reported, resulted>>

SendsToolResult ==
  /\ IsUp /\ ~Overflows(adapter, "default")
  /\ \E id \in reported \ resulted : resulted' = resulted \cup {id}
  /\ Sends
  /\ UNCHANGED <<downward, provider, asked, ended, reported>>

SendsNotice ==
  /\ Asks /\ ~Overflows(adapter, "notice")
  /\ Does(Requested(adapter, "notice"))
  /\ UNCHANGED <<downward, provider, ended, reported, resulted>>

\* Audio is streamed; its end commits the turn and skips the provider's.
StreamsAudio ==
  /\ IsUp /\ ~adapter.buffered
  /\ adapter' = [adapter EXCEPT !.buffered = TRUE]
  /\ UNCHANGED <<upward, downward, provider, gatewayVars>>

EndsAudio ==
  /\ Asks /\ adapter.buffered /\ ~Overflows(adapter, "default")
  /\ LET committed == Step([adapter EXCEPT !.buffered = FALSE, !.skipStop = TRUE],
                           <<[type |-> "commit"]>>)
     IN  Does(Then(committed, LAMBDA a : Requested(a, "default")))
  /\ UNCHANGED <<downward, provider, ended, reported, resulted>>

(* Cancelling *)

Cancelled(a, id, event) ==
  Step([a EXCEPT !.cancelling = TRUE, !.cancel = event,
                 !.suppressed = IF id = 0 THEN @ ELSE id,
                 !.cancels = @ \cup {[event |-> event, id |-> id]}],
       <<[type |-> "cancel", event |-> event, id |-> id]>>)

\* A pending notice has no id to cancel by, and without one the cancellation
\* would hit the conversation: it waits for the id.
CancelNow(a, event) ==
  IF a.active = 0 /\ a.pending = "notice" THEN Still([a EXCEPT !.endNotice = TRUE])
  ELSE Cancelled(a, a.active, event)

CancelsResponse ==
  /\ Asks
  /\ adapter.pending # None \/ adapter.active # 0
  /\ IF adapter.cancelling THEN UNCHANGED <<adapter, upward>> ELSE Does(CancelNow(adapter, asked'))
  /\ ended' = ended \cup ({adapter.active} \ {0})
  /\ UNCHANGED <<downward, provider, reported, resulted>>

\* close(), or two seconds without a confirmation of a cancellation.
ShutsDown ==
  /\ IsUp
  /\ adapter.cancelling \/ asked = MaxAsks
  /\ adapter' = ClosedAdapter
  /\ UNCHANGED <<upward, downward, provider, gatewayVars>>

(* The provider's events *)

Receives(type) ==
  IsUp /\ downward # <<>> /\ Head(downward).type = type /\ downward' = Tail(downward)

\* The provider may have stopped the conversation's response by itself.
HearsSpeech ==
  /\ Receives("started")
  /\ LET cut == IF adapter.kind # "notice" THEN adapter.active ELSE 0
     IN  /\ adapter' = [adapter EXCEPT !.skipStop = FALSE,
                                       !.suppressed = IF cut # 0 THEN cut ELSE @]
         /\ ended' = ended \cup ({cut} \ {0})
  /\ UNCHANGED <<upward, provider, asked, reported, resulted>>

HearsPause ==
  /\ Receives("stopped")
  /\ LET paused == [adapter EXCEPT !.buffered = FALSE]
         turn == [paused EXCEPT !.awaiting = @ + 1, !.turns = @ + 1]
     IN  IF adapter.skipStop THEN Does(Still([paused EXCEPT !.skipStop = FALSE]))
         ELSE IF Overflows(turn, "vad") THEN Does(Still(ClosedAdapter))
         ELSE Does(Requested(turn, "vad"))
  /\ UNCHANGED <<provider, gatewayVars>>

\* What was kept back for the voice turns goes out once they are answered.
WithDeferred(a) ==
  IF a.awaiting > 0 THEN Still(a) ELSE Step([a EXCEPT !.deferred = <<>>], a.deferred)

Begun(a, id) ==
  [a EXCEPT !.pending = None, !.active = id, !.kind = a.pending, !.endNotice = FALSE,
            !.suppressed = IF a.cancelling THEN id ELSE @,
            !.awaiting = IF a.pending = "vad" /\ @ > 0 THEN @ - 1 ELSE @]

ResponseStarts ==
  /\ Receives("created")
  /\ LET id == Head(downward).id
         EndsNotice(a) == IF adapter.endNotice THEN Cancelled(a, id, MaxAsks + id) ELSE Still(a)
     IN  IF id \in adapter.terminal \/ adapter.active # 0 THEN UNCHANGED <<adapter, upward, ended>>
         ELSE IF adapter.pending = None THEN Does(Still(ClosedAdapter)) /\ UNCHANGED ended
         ELSE /\ Does(Then(WithDeferred(Begun(adapter, id)), EndsNotice))
              /\ ended' = IF adapter.cancelling \/ adapter.endNotice THEN ended \cup {id} ELSE ended
  /\ UNCHANGED <<provider, asked, reported, resulted>>

\* Mutant: a call is reported whatever became of its response.
SuppressesNothing(a, id) == FALSE

\* A call that completes late belongs to a response the gateway or the user
\* has cut off.
Suppresses(a, id) == a.cancelling \/ id = a.suppressed

\* A finished tool call: reported once, and never from a response that ends.
ToolCalled ==
  /\ Receives("call")
  /\ LET id == Head(downward).id
     IN  IF id \in adapter.handled \/ Suppresses(adapter, id) \/ id # adapter.active
         THEN UNCHANGED <<adapter, reported>>
         ELSE adapter' = [adapter EXCEPT !.handled = @ \cup {id}] /\ reported' = reported \cup {id}
  /\ UNCHANGED <<upward, provider, asked, ended, resulted>>

\* A response is over, and the cancellation of it.
Over(a, id) ==
  [a EXCEPT !.terminal = @ \cup {id}, !.suppressed = IF @ = id THEN 0 ELSE @,
            !.pending = None, !.active = 0, !.kind = None, !.cancelling = FALSE,
            !.cancel = 0, !.endNotice = FALSE]

\* The end of the active response, and not a repeated end of another.
Concerns(a, id) == id \notin a.terminal /\ id = a.active

\* The end of a response repeats its call.  Unless that is news, the next
\* request goes out; after news it waits for the tool's result.
ResponseEnds ==
  /\ Receives("done")
  /\ LET id == Head(downward).id
         news == Head(downward).call /\ id \notin adapter.handled /\ ~Suppresses(adapter, id)
         over == Over(adapter, id)
     IN  IF ~Concerns(adapter, id) THEN UNCHANGED <<adapter, upward, reported>>
         ELSE IF news THEN Does(Still([over EXCEPT !.handled = @ \cup {id}]))
                           /\ reported' = reported \cup {id}
         ELSE Does(Flushed(over)) /\ UNCHANGED reported
  /\ UNCHANGED <<provider, asked, ended, resulted>>

\* A cancellation that came too late is answered with an error.  It is
\* harmless when the end it lost to is known; it ends the response when that
\* is still thought active; anything else ends the session.
CancelTooLate ==
  /\ Receives("inactive")
  /\ LET event == Head(downward).event
         mine == {c \in adapter.cancels : c.event = event}
         settled == [adapter EXCEPT !.cancels = @ \ mine]
     IN  IF mine # {} /\ adapter.cancel # event THEN Does(Still(settled))
         ELSE IF \E c \in mine : c.id # 0 /\ adapter.active = c.id
         THEN Does(Flushed(Over(settled, adapter.active)))
         ELSE Does(Still(ClosedAdapter))
  /\ UNCHANGED <<provider, gatewayVars>>

(* The provider, while the socket is open *)

Emits(events) == downward' = downward \o events
Reads(type) == IsUp /\ upward # <<>> /\ Head(upward).type = type /\ upward' = Tail(upward)
Ends(p) == [p EXCEPT !.active = 0, !.kind = None, !.called = FALSE]
DoneEvent(call) == [type |-> "done", id |-> provider.active, call |-> call]

\* A request during a response is an error, and the end of the session.
ProviderCreates ==
  /\ Reads("create")
  /\ LET id == provider.last + 1
         kind == Head(upward).kind
     IN  IF provider.active # 0
         THEN provider' = [provider EXCEPT !.collided = TRUE] /\ UNCHANGED downward
         ELSE /\ provider' = [provider EXCEPT !.active = id, !.last = id, !.kind = kind,
                                !.answered = IF kind = "vad" THEN @ + 1 ELSE @]
              /\ Emits(<<[type |-> "created", id |-> id]>>)
  /\ UNCHANGED <<adapter, gatewayVars>>

ProviderCalls ==
  /\ IsUp /\ provider.active # 0 /\ provider.kind # "notice"
  /\ ~provider.called /\ provider.calls < MaxCalls
  /\ provider' = [provider EXCEPT !.called = TRUE, !.calls = @ + 1]
  /\ \/ Emits(<<[type |-> "call", id |-> provider.active]>>)
     \/ UNCHANGED downward
  /\ UNCHANGED <<adapter, upward, gatewayVars>>

\* Some responses have two terminal events.
ProviderFinishes ==
  /\ IsUp /\ provider.active # 0
  /\ provider' = Ends(provider)
  /\ \E n \in 1..2 : Emits([i \in 1..n |-> DoneEvent(provider.called)])
  /\ UNCHANGED <<adapter, upward, gatewayVars>>

ProviderCancels ==
  /\ Reads("cancel")
  /\ LET c == Head(upward)
         hit == /\ provider.active # 0
                /\ IF c.id = 0 THEN provider.kind # "notice" ELSE c.id = provider.active
     IN  IF hit THEN provider' = Ends(provider) /\ Emits(<<DoneEvent(provider.called)>>)
         ELSE UNCHANGED provider /\ Emits(<<[type |-> "inactive", event |-> c.event]>>)
  /\ UNCHANGED <<adapter, gatewayVars>>

ProviderReads ==
  /\ Reads("input") \/ Reads("commit")
  /\ UNCHANGED <<adapter, downward, provider, gatewayVars>>

\* Voice activity interrupts the response of the conversation.
UserSpeaks ==
  /\ IsUp /\ provider.speech = "silent" /\ provider.spoken < MaxTurns
  /\ LET cut == provider.active # 0 /\ provider.kind # "notice"
     IN  /\ provider' = [(IF cut THEN Ends(provider) ELSE provider) EXCEPT !.speech = "speaking"]
         /\ Emits(<<[type |-> "started"]>> \o (IF cut THEN <<DoneEvent(provider.called)>> ELSE <<>>))
  /\ UNCHANGED <<adapter, upward, gatewayVars>>

UserPauses ==
  /\ IsUp /\ provider.speech = "speaking"
  /\ provider' = [provider EXCEPT !.speech = "silent", !.spoken = @ + 1]
  /\ Emits(<<[type |-> "stopped"]>>)
  /\ UNCHANGED <<adapter, upward, gatewayVars>>

RealtimeNext ==
  \/ SendsText \/ SendsToolResult \/ SendsNotice \/ StreamsAudio \/ EndsAudio
  \/ CancelsResponse \/ ShutsDown
  \/ HearsSpeech \/ HearsPause \/ ResponseStarts \/ ToolCalled \/ ResponseEnds \/ CancelTooLate
  \/ ProviderCreates \/ ProviderCalls \/ ProviderFinishes \/ ProviderCancels \/ ProviderReads
  \/ UserSpeaks \/ UserPauses

RealtimeSpec == RealtimeInit /\ [][RealtimeNext]_realtimeVars

-----------------------------------------------------------------------------
\* The provider is never asked for a response while it makes one: that error
\* would end the session (requestResponse, flushQueuedResponse).
NeverCollides == ~provider.collided

\* A tool call that completes in a response the gateway or the user has cut
\* off is never given to the gateway, in whatever order the cancellation, the
\* speech, the call and the end of the response meet.
CutOffIsSilent == [][\A id \in reported' \ reported : id \notin ended]_realtimeVars

\* A text that follows a voice turn reaches the provider behind the request
\* for the response to that turn.
TurnsBefore(i) == {j \in 1..i - 1 : upward[j].type = "create" /\ upward[j].kind = "vad"}
TurnSnapshot ==
  \A i \in DOMAIN upward :
    upward[i].type = "input" => upward[i].after <= provider.answered + Cardinality(TurnsBefore(i))

\* Every voice turn has its own request, waiting or sent: "lost a queued VAD
\* response" never happens (openai-realtime.adapter.ts:573-600).
TurnsAccounted ==
  adapter.awaiting = Cardinality({i \in DOMAIN adapter.queue : adapter.queue[i] = "vad"})
                     + (IF adapter.pending = "vad" THEN 1 ELSE 0)

\* Voice turns are answered one by one, and on their own.
TurnsKept == TurnSnapshot /\ TurnsAccounted

\* When nothing is on its way and no tool result is owed, nothing waits: no
\* request, text or cancellation is forgotten.
NothingStuck ==
  IsUp /\ upward = <<>> /\ downward = <<>> /\ provider.active = 0 /\ reported = resulted
    => adapter.queue = <<>> /\ adapter.deferred = <<>> /\ ~Busy(adapter)

\* One request at a time, every voice turn on its own, and nothing forgotten.
ProviderKept == NeverCollides /\ TurnsKept /\ NothingStuck
=============================================================================
