---------------------------- MODULE SessionInput ----------------------------
(***************************************************************************)
(* How a live voice session serializes what the client says with what the  *)
(* realtime provider asks for.  Client frames go through one promise chain *)
(* (queue).  While a provider tool call has not had its output delivered,  *)
(* user turns are held and later drained by a job of the same chain, since *)
(* the provider refuses a new turn in that window.  Tool calls go through  *)
(* a ledger that remembers what was executed, so that a repeated or a      *)
(* cancelled call is not executed again.                                   *)
(*                                                                         *)
(* Client items are numbered in the order they arrive; their payloads are  *)
(* abstracted.  The speech gate's verdict on an audio frame is an input.   *)
(* Every await is a point of its own; code between two awaits is one step. *)
(***************************************************************************)
EXTENDS Integers, Sequences, FiniteSets

CONSTANTS
  Calls,         \* ids of provider tool calls
  MaxItems,      \* client items in a behaviour
  MaxClient,     \* MAX_PENDING_CLIENT_MESSAGES
  MaxHeld,       \* MAX_HELD_INPUTS
  MaxActive,     \* MAX_CONCURRENT_PROVIDER_TOOL_CALLS
  MaxRunning,    \* MAX_PENDING_PROVIDER_TOOL_CALLS
  MaxLedger,     \* MAX_PROCESSED_PROVIDER_TOOL_CALLS
  MaxSeen        \* MAX_SEEN_PROVIDER_TOOL_CALLS

ASSUME InputAssumption ==
  {MaxItems, MaxClient, MaxHeld, MaxActive, MaxRunning, MaxLedger, MaxSeen} \subseteq Nat

VARIABLES
  gate,          \* speechGate: client audio is scored before it is used
  open,          \* ~closing
  demoted,       \* voiceDemoted: a newer session owns the voice
  arrived,       \* client items so far
  queue,         \* messageQueue: jobs behind the running one
  job,           \* the running job: what it has left and what it awaits
  held,          \* heldInputs
  flush,         \* heldInputFlushQueued
  scoring,       \* held audio frames whose gate.ingest is awaited, in order
  call,          \* providerToolCalls: the records, by id
  ledger,        \* the ids of providerToolCalls, oldest first
  tombs,         \* providerToolCallTombstones
  waiting,       \* providerToolOperations
  active,        \* operations that run, and where they are
  sent,          \* what the provider was given, in order
  executed       \* how often each call was executed

client == <<gate, demoted, arrived, queue, job, held, flush, scoring, sent>>
tools  == <<call, ledger, tombs, waiting, active, executed>>
inputVars == <<client, tools, open>>

Kinds == {"audio", "end", "text"}
Item  == [kind : Kinds, n : 1..MaxItems, scored : BOOLEAN]
Drain == [kind |-> "drain", n |-> 0, scored |-> FALSE]
Idle  == [left |-> <<>>, at |-> "idle", drains |-> FALSE]

NoCall == [state |-> "absent", cancelled |-> FALSE, delivery |-> "not_started", cached |-> FALSE]
Op     == [id : Calls, does : {"execute", "replay"}]

(***************************************************************************)
(* Holding and releasing.                                                  *)
(***************************************************************************)

\* Some call of the ledger has not had its output delivered.
Outstanding(c, ids) == \E i \in DOMAIN ids : ~c[ids[i]].cancelled /\ c[ids[i]].delivery # "sent"

\* New turns are held: behind a tool output, or behind what is already held.
Holding == flush \/ held # <<>> \/ Outstanding(call, ledger)

\* Over the limit the oldest held inputs go, up to and including the first
\* one that is not audio.
Trimmed(h) ==
  LET excess == Len(h) - MaxHeld
      turns  == {i \in 1..excess : h[i].kind # "audio"}
      cut    == IF turns = {} THEN excess ELSE CHOOSE i \in turns : \A j \in turns : i <= j
  IN  IF excess > 0 /\ Len(h) > 1 THEN SubSeq(h, cut + 1, Len(h)) ELSE h

Held(h, item) == IF item.kind = "end" THEN Append(h, item) ELSE Trimmed(Append(h, item))

\* Mutant: the drain is queued only when no frame of the client waits.
ReleasesWhenIdle(h, c, ids, q) ==
  LET due == h # <<>> /\ ~flush /\ ~Outstanding(c, ids) /\ q = <<>>
  IN  flush' = (flush \/ due) /\ queue' = IF due THEN Append(q, Drain) ELSE q

\* The drain of the held inputs joins the client's own promise chain.
Releases(h, c, ids, q) ==
  LET due == h # <<>> /\ ~flush /\ ~Outstanding(c, ids)
  IN  flush' = (flush \/ due) /\ queue' = IF due THEN Append(q, Drain) ELSE q

InputInit ==
  /\ gate \in BOOLEAN /\ open = TRUE /\ demoted = FALSE /\ arrived = 0
  /\ queue = <<>> /\ job = Idle /\ held = <<>> /\ flush = FALSE /\ scoring = <<>>
  /\ call = [c \in Calls |-> NoCall] /\ ledger = <<>> /\ tombs = {}
  /\ waiting = <<>> /\ active = {} /\ sent = <<>> /\ executed = [c \in Calls |-> 0]

\* closeClientAfterCleanup: every handler of a closing session returns at
\* once, so what it still held is of no consequence and is forgotten here.
Closes ==
  /\ open' = FALSE /\ demoted' = FALSE /\ arrived' = 0 /\ UNCHANGED gate
  /\ queue' = <<>> /\ job' = Idle /\ held' = <<>> /\ flush' = FALSE /\ scoring' = <<>>
  /\ call' = [c \in Calls |-> NoCall] /\ ledger' = <<>> /\ tombs' = {}
  /\ waiting' = <<>> /\ active' = {} /\ sent' = <<>> /\ executed' = [c \in Calls |-> 0]

(***************************************************************************)
(* The client's frames.                                                    *)
(***************************************************************************)

\* enqueueClientFrame: a client faster than the session loses the session.
ClientSends(kind) ==
  /\ open /\ arrived < MaxItems
  /\ Len(queue) + (IF job.at = "idle" THEN 0 ELSE 1) < MaxClient
  /\ arrived' = arrived + 1
  /\ queue' = Append(queue, [kind |-> kind, n |-> arrived + 1, scored |-> FALSE])
  /\ UNCHANGED <<gate, demoted, job, held, flush, scoring, sent, tools, open>>

ClientOverflows ==
  /\ open /\ arrived < MaxItems
  /\ Len(queue) + (IF job.at = "idle" THEN 0 ELSE 1) >= MaxClient
  /\ Closes

\* session.close is never queued behind other messages.
ClientCloses == open /\ Closes

\* handleClientMessage: a view-only session drops the item.
Ignores ==
  /\ open /\ job.at = "idle" /\ queue # <<>> /\ demoted /\ Head(queue).kind # "drain"
  /\ queue' = Tail(queue)
  /\ UNCHANGED <<gate, demoted, arrived, job, held, flush, scoring, sent, tools, open>>

\* handleClientMessage while input is held.  Scored audio is not awaited.
Holds ==
  LET item == Head(queue)
  IN  /\ open /\ job.at = "idle" /\ queue # <<>> /\ ~demoted
      /\ item.kind # "drain" /\ Holding
      /\ queue' = Tail(queue)
      /\ IF gate /\ item.kind = "audio"
           THEN scoring' = Append(scoring, item) /\ UNCHANGED held
           ELSE held' = Held(held, item) /\ UNCHANGED scoring
      /\ UNCHANGED <<gate, demoted, arrived, job, flush, sent, tools, open>>

\* The job goes on with the items that are left: unscored audio goes to the
\* gate, other input to the provider.  A drain that is done releases what
\* was held meanwhile.  q is the queue behind the job.
NeedsGate(item) == gate /\ item.kind = "audio" /\ ~item.scored

GoesOn(left, drains, h, q) ==
  /\ held' = h
  /\ IF left # <<>>
       THEN /\ job' = [left |-> left, at |-> IF NeedsGate(Head(left)) THEN "gate" ELSE "io", drains |-> drains]
            /\ sent' = IF NeedsGate(Head(left)) THEN sent ELSE Append(sent, Head(left))
            /\ queue' = q /\ UNCHANGED flush
       ELSE /\ job' = Idle /\ UNCHANGED sent
            /\ LET due == h # <<>> /\ ~Outstanding(call, ledger)
               IN  IF drains THEN flush' = due /\ queue' = IF due THEN Append(q, Drain) ELSE q
                             ELSE queue' = q /\ UNCHANGED flush

\* handleClientMessage: the item is for the provider now.
Takes ==
  /\ open /\ job.at = "idle" /\ queue # <<>> /\ ~demoted
  /\ Head(queue).kind # "drain" /\ ~Holding
  /\ GoesOn(<<Head(queue)>>, FALSE, held, Tail(queue))
  /\ UNCHANGED <<gate, demoted, arrived, scoring, tools, open>>

\* The drain job takes everything that is held at once.
TakesHeld ==
  /\ open /\ job.at = "idle" /\ queue # <<>> /\ Head(queue).kind = "drain"
  /\ GoesOn(held, TRUE, <<>>, Tail(queue))
  /\ UNCHANGED <<gate, demoted, arrived, scoring, tools, open>>

\* handleGatedAudioInput: speech is forwarded,
GatePasses ==
  /\ open /\ job.at = "gate"
  /\ job' = [job EXCEPT !.at = "io"] /\ sent' = Append(sent, Head(job.left))
  /\ UNCHANGED <<gate, demoted, arrived, queue, held, flush, scoring, tools, open>>

\* and what is not speech stays in the gate.  Or the provider took the input.
ItemDone ==
  /\ open /\ job.at \in {"gate", "io"}
  /\ GoesOn(Tail(job.left), job.drains, held, queue)
  /\ UNCHANGED <<gate, demoted, arrived, scoring, tools, open>>

\* The provider refuses the input, or does not settle before the deadline.
ItemFails == open /\ job.at = "io" /\ Closes

\* ingestHeldAudio resumes: the frame is buffered, or the gate keeps it.
\* Nothing looks whether there is still a reason to hold.
HeldScored(forward) ==
  /\ open /\ scoring # <<>>
  /\ scoring' = Tail(scoring)
  /\ held' = IF forward THEN Held(held, [Head(scoring) EXCEPT !.scored = TRUE]) ELSE held
  /\ UNCHANGED <<gate, demoted, arrived, queue, job, flush, sent, tools, open>>

\* demote: the voice moved to a newer session.
Demoted ==
  /\ open /\ ~demoted
  /\ demoted' = TRUE /\ held' = <<>>
  /\ UNCHANGED <<gate, arrived, queue, job, flush, scoring, sent, tools, open>>

(***************************************************************************)
(* The provider's tool calls.                                              *)
(***************************************************************************)

\* An operation gets a slot: a call that was cancelled meanwhile does nothing.
Starting(c, op) ==
  [id |-> op.id, does |-> op.does,
   at |-> IF c[op.id].cancelled THEN "ends" ELSE IF op.does = "execute" THEN "runs" ELSE "sends"]

Sending(c, id) == [c EXCEPT ![id].delivery = "sending"]

FreeSlot(r) == Cardinality(r) < MaxActive

\* drainProviderToolOperations with w waiting, r running and the records c.
Drains(w, r, c) ==
  IF w # <<>> /\ FreeSlot(r)
    THEN LET op == Starting(c, Head(w))
         IN  /\ waiting' = Tail(w) /\ active' = r \cup {op}
             /\ call' = IF op.at = "sends" THEN Sending(c, op.id) ELSE c
             /\ executed' = IF op.at = "runs" THEN [executed EXCEPT ![op.id] = @ + 1] ELSE executed
    ELSE waiting' = w /\ active' = r /\ call' = c /\ UNCHANGED executed

Executing == Cardinality({i \in DOMAIN waiting : waiting[i].does = "execute"})
             + Cardinality({op \in active : op.does = "execute"})

OldestDone == {i \in DOMAIN ledger : /\ call[ledger[i]].state = "done"
                                     /\ \A j \in 1..(i - 1) : call[ledger[j]].state # "done"}

Known(id) == \E i \in DOMAIN ledger : ledger[i] = id

\* Mutant: a call whose record was evicted counts as new.
SeenInLedger(id) == Known(id)

\* The call is known: by its record, or by the tombstone of an evicted one.
Seen(id) == Known(id) \/ id \in tombs

\* enqueueProviderToolCall: a call nobody has seen enters the ledger.
CallArrives(id) ==
  /\ open /\ ~Seen(id)
  /\ Executing < MaxRunning /\ Len(ledger) + Cardinality(tombs) < MaxSeen
  /\ \/ Len(ledger) < MaxLedger /\ ledger' = Append(ledger, id) /\ UNCHANGED tombs
     \/ /\ Len(ledger) >= MaxLedger
        /\ \E i \in OldestDone :
             /\ ledger' = Append(SubSeq(ledger, 1, i - 1) \o SubSeq(ledger, i + 1, Len(ledger)), id)
             /\ tombs' = tombs \cup {ledger[i]}
  /\ Drains(Append(waiting, [id |-> id, does |-> "execute"]), active,
            [call EXCEPT ![id] = [NoCall EXCEPT !.state = "pending"]])
  /\ UNCHANGED <<client, open>>

CallsOverflow(id) ==
  /\ open /\ ~Seen(id)
  /\ \/ Executing >= MaxRunning
     \/ Len(ledger) + Cardinality(tombs) >= MaxSeen
     \/ Len(ledger) >= MaxLedger /\ OldestDone = {}
  /\ Closes

\* A repeated call replays its cached result; without one the session ends.
CallRepeats(id) ==
  /\ open /\ Known(id) /\ ~call[id].cancelled /\ call[id].state = "done" /\ call[id].cached
  /\ ~\E i \in DOMAIN waiting : waiting[i] = [id |-> id, does |-> "replay"]
  /\ ~\E op \in active : op.id = id /\ op.does = "replay"
  /\ Drains(Append(waiting, [id |-> id, does |-> "replay"]), active, call)
  /\ UNCHANGED <<client, ledger, tombs, open>>

ReplayExpired(id) ==
  /\ open
  /\ \/ id \in tombs
     \/ Known(id) /\ ~call[id].cancelled /\ call[id].state = "done" /\ ~call[id].cached
  /\ Closes

\* The provider reuses the id of a known call for another one.
CallConflicts(id) == open /\ Seen(id) /\ Closes

\* An operation is over: held input may be released and a slot is free.
OperationEnds(op, c) ==
  /\ Drains(waiting, active \ {op}, c)
  /\ Releases(held, c, ledger, queue)
  /\ UNCHANGED <<gate, demoted, arrived, job, held, scoring, sent, ledger, tombs, open>>

\* Mutant: the result is delivered whether the call was cancelled or not.
WantedAnyway(id) == TRUE

Wanted(id) == ~call[id].cancelled

\* executeToolCall settles; its response may fit in the cache.
ToolReturns(op, cached) ==
  /\ open /\ op \in active /\ op.at = "runs" /\ Wanted(op.id)
  /\ call' = Sending([call EXCEPT ![op.id].state = "done", ![op.id].cached = cached], op.id)
  /\ active' = (active \ {op}) \cup {[op EXCEPT !.at = "sends"]}
  /\ UNCHANGED <<client, ledger, tombs, waiting, executed, open>>

CancelledReturns(op) ==
  /\ open /\ op \in active
  /\ \/ op.at = "runs" /\ ~Wanted(op.id)
     \/ op.at = "ends"
  /\ OperationEnds(op, IF op.does = "execute" THEN [call EXCEPT ![op.id].state = "done"] ELSE call)

ResultSent(op) ==
  /\ open /\ op \in active /\ op.at = "sends"
  /\ OperationEnds(op, [call EXCEPT ![op.id].delivery = "sent"])

ResultRefused(op) == open /\ op \in active /\ op.at = "sends" /\ Closes

\* handleProviderToolCallCancellation
CallCancelled(id) ==
  /\ open /\ Known(id) /\ call[id].delivery # "sending"
  /\ call' = [call EXCEPT ![id].cancelled = TRUE, ![id].cached = FALSE]
  /\ Releases(held, call', ledger, queue)
  /\ UNCHANGED <<gate, demoted, arrived, job, held, scoring, sent,
                 ledger, tombs, waiting, active, executed, open>>

CancelledTooLate(id) ==
  /\ open
  /\ \/ Known(id) /\ call[id].delivery = "sending"
     \/ ~Seen(id)
  /\ Closes

InputNext ==
  \/ \E k \in Kinds : ClientSends(k)
  \/ ClientOverflows \/ ClientCloses
  \/ Ignores \/ Holds \/ Takes \/ TakesHeld
  \/ GatePasses \/ ItemDone \/ ItemFails
  \/ \E fwd \in BOOLEAN : HeldScored(fwd)
  \/ Demoted
  \/ \E id \in Calls :
       \/ CallArrives(id) \/ CallsOverflow(id) \/ CallRepeats(id) \/ ReplayExpired(id)
       \/ CallConflicts(id) \/ CallCancelled(id) \/ CancelledTooLate(id)
  \/ \E op \in active :
       \/ \E cached \in BOOLEAN : ToolReturns(op, cached)
       \/ CancelledReturns(op) \/ ResultSent(op) \/ ResultRefused(op)

InputSpec == InputInit /\ [][InputNext]_inputVars

-----------------------------------------------------------------------------
\* The queues, the calls and their ledger, and the bounds of both.
InputTypeOK ==
  /\ gate \in BOOLEAN /\ open \in BOOLEAN /\ demoted \in BOOLEAN /\ flush \in BOOLEAN
  /\ arrived \in 0..MaxItems
  /\ queue \in Seq(Item \cup {Drain}) /\ held \in Seq(Item) /\ scoring \in Seq(Item)
  /\ job \in [left : Seq(Item), at : {"idle", "gate", "io"}, drains : BOOLEAN]
  /\ call \in [Calls -> [state : {"absent", "pending", "done"}, cancelled : BOOLEAN,
                         delivery : {"not_started", "sending", "sent"}, cached : BOOLEAN]]
  /\ ledger \in Seq(Calls) /\ tombs \subseteq Calls /\ waiting \in Seq(Op)
  /\ active \subseteq [id : Calls, does : {"execute", "replay"}, at : {"runs", "sends", "ends"}]
  /\ Len(ledger) <= MaxLedger /\ Cardinality(active) <= MaxActive
  /\ sent \in Seq(Item) /\ executed \in [Calls -> Nat]

\* What the user said reaches the provider in the order it was said, across
\* holding, draining and frames that arrive during a drain.  Audio a gate
\* scores while it is held is the exception: nobody awaits its verdict.
SaidInOrder ==
  \A i, j \in DOMAIN sent :
    i < j /\ (gate => sent[i].kind # "audio" /\ sent[j].kind # "audio") => sent[i].n < sent[j].n

\* Whatever the provider repeats, cancels or floods, a tool (which may start
\* background work) is executed at most once for a call id, also after its
\* record was evicted from the ledger.
ExecutedOnce == \A id \in Calls : executed[id] <= 1

\* Held input has something that will release it: a tool output still to be
\* delivered, an operation that is about to end, or a queued drain.
SomethingReleases == held = <<>> \/ flush \/ Outstanding(call, ledger) \/ active # {}
HeldIsReleased == ~gate => SomethingReleases

\* What the user said is neither reordered nor left held for good.
InputKept == InputTypeOK /\ SaidInOrder /\ HeldIsReleased

\* No run checks this: it fails behind a speech gate.  Audio that is scored
\* while a tool runs is held after the result was delivered, and nothing but
\* the next tool call drains it (live-gateway-session.ts:2309-2343).
HeldIsAlwaysReleased == SomethingReleases

\* The result of a cancelled call is never given to the provider afterwards.
CancelledIsSilent ==
  [][\A id \in Calls :
       open' /\ call[id].cancelled => call'[id].delivery = call[id].delivery]_inputVars

\* No run checks this: it fails.  A turn whose frame was taken before a call
\* arrived is sent while the call's output is outstanding
\* (live-gateway-session.ts:2292-2307).
TurnsWaitForTools ==
  [][open' /\ sent' # sent /\ sent'[Len(sent')].kind # "audio"
       => ~Outstanding(call, ledger)]_inputVars
=============================================================================
