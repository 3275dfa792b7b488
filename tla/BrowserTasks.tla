---------------------------- MODULE BrowserTasks ----------------------------
(***************************************************************************)
(* What one page knows of one task: the projections of the task record     *)
(* that a gateway session sends it, and the client that merges snapshots,  *)
(* lifecycle events and notifications by their per-task sequence.          *)
(*                                                                         *)
(* The record is its event log: event i has sequence i, and it is written  *)
(* at time i (two events of a task are a millisecond apart) with a summary *)
(* of its own.  A copy of the record is therefore a number, the length of  *)
(* the log it was read at, and so is a message.                            *)
(***************************************************************************)
EXTENDS Integers, Sequences, FiniteSets, FiniteSetsExt

CONSTANTS
  MaxTaskEvents,  \* bounds: events of the task, fewer after the next two,
  MaxConnections, \* connections of the page,
  MaxRequests,    \* requests it makes,
  MaxUnderway     \* messages on their way to it while the task moves

VARIABLES
  taskLog, \* the log of the task record
  feed,    \* the gateway session: how far its hydration is, the record it
           \* read for it, and the latest record pushed to it meanwhile
  inflight, \* messages from the session to the page
  request, \* the request the session is handling, and what it read for it
  client,  \* the fields of the client that concern the task
  bounds   \* connections and requests so far

taskViewVars == <<taskLog, feed, inflight, request, client, bounds>>

(* The record (task-transition.ts) *)

Statuses == {"queued", "dispatching", "running", "delegated", "waiting_for_approval", "stopping",
             "completed", "cancelled", "unknown"}
Final == {"completed", "cancelled"}
Notified == Final \cup {"unknown"}
NextStatuses ==
  [queued |-> {"dispatching", "cancelled"},
   dispatching |-> {"queued", "running", "cancelled", "unknown"},
   running |-> {"delegated", "waiting_for_approval", "stopping", "completed", "cancelled", "unknown"},
   delegated |-> Final \cup {"unknown"},
   waiting_for_approval |-> {"running", "stopping", "cancelled", "unknown"},
   stopping |-> Final \cup {"unknown"},
   completed |-> {}, cancelled |-> {},
   unknown |-> {"running", "waiting_for_approval", "stopping"} \cup Final]

Now == Len(taskLog)
Positions(n, types) == {i \in 1..n : taskLog[i] \in types}
StatusAt(n) == taskLog[Max(Positions(n, Statuses))]
StopAsked(n) == Positions(n, {"stop_requested"}) # {}
Contained(n) == Positions(n, {"operator_contained"}) # {}
\* A transition, a containment and an acknowledgement set the unread mark.
UnreadAt(n) ==
  /\ n > 0
  /\ taskLog[Max(Positions(n, Statuses \cup {"operator_contained", "acknowledged"}))]
       \in Notified \cup {"operator_contained"}
Announced(n) ==
  LET marks == Positions(n, Notified \cup {"operator_contained", "announced"})
  IN marks # {} /\ taskLog[Max(marks)] = "announced"

(* The projections (task-public-projection.ts); n is the record *)

PublicState(n) ==
  IF StopAsked(n) /\ StatusAt(n) \notin Notified THEN "stopping"
  ELSE CASE StatusAt(n) = "dispatching" -> "accepted"
         [] StatusAt(n) = "waiting_for_approval" -> "stopping"
         [] OTHER -> StatusAt(n)

FirstOf(n, types) == IF Positions(n, types) = {} THEN 0 ELSE Min(Positions(n, types))

\* A time or a text that is absent is 0.
TaskSnapshot(n) ==
  [seq |-> n, state |-> PublicState(n), created |-> 1, updated |-> n,
   started |-> FirstOf(n, {"dispatching", "running"}),
   finished |-> FirstOf(n, Final),
   progress |-> IF PublicState(n) \in {"running", "stopping", "delegated"} THEN n ELSE 0]

EventOf ==
  [stopping |-> "task.stopping", completed |-> "task.completed", cancelled |-> "task.cancelled",
   unknown |-> "task.unknown"]

Lifecycle(n) ==
  IF StopAsked(n) /\ PublicState(n) = "stopping" THEN "task.stopping"
  ELSE CASE StatusAt(n) \in {"queued", "dispatching"} -> "task.accepted"
         [] StatusAt(n) = "running" -> IF taskLog[n] = "progress" THEN "task.progress" ELSE "task.started"
         [] StatusAt(n) \in {"delegated", "waiting_for_approval"} -> "task.progress"
         [] OTHER -> EventOf[StatusAt(n)]

NoticeAnchor(n) ==
  LET types == IF Contained(n) THEN {"operator_contained"} ELSE {StatusAt(n)}
  IN Max(Positions(n, types))
Superseded(n) == Positions(n, Notified \cup {"operator_contained"})

HasNotice(n) == StatusAt(n) \in Notified \/ (~UnreadAt(n) /\ Superseded(n) # {})
Notice(n) ==
  IF StatusAt(n) \in Notified THEN [id |-> NoticeAnchor(n), acked |-> ~UnreadAt(n)]
  ELSE [id |-> Max(Superseded(n)), acked |-> TRUE]

(* Messages *)

NoRequest == [op |-> "none", step |-> "none", record |-> 0, id |-> 0]
Message(kind, n, answers) == [kind |-> kind, n |-> n, answers |-> answers]

\* dispatchTaskRecord, up to the voice session's own copy of the record.
Dispatched(n) ==
  (IF taskLog[n] \in {"announced", "acknowledged"} THEN << >> ELSE <<Message("event", n, FALSE)>>) \o
  (IF HasNotice(n) /\ taskLog[n] # "announced" THEN <<Message("notice", n, FALSE)>> ELSE << >>)

(* The client (hermes-live-client.js) *)

NoView == [seq |-> 0, state |-> "none", updated |-> 0, started |-> 0, finished |-> 0, progress |-> 0,
           created |-> 0]
NoRevision == [seq |-> 0, printed |-> FALSE]
NoNotice == [seq |-> 0, id |-> 0, acked |-> FALSE]
TaskViewInit ==
  /\ taskLog = << >>
  /\ feed = [phase |-> "recent", read |-> 0, unread |-> 0, pushed |-> 0]
  /\ inflight = << >>
  /\ request = NoRequest
  /\ client = [up |-> TRUE, clash |-> "none", view |-> NoView, life |-> 0, rev |-> NoRevision,
               note |-> NoNotice, inbox |-> {}, hydrate |-> FALSE, pending |-> NoRequest]
  /\ bounds = [connections |-> 1, requests |-> 0]

Known(c) == c.view # NoView
Larger(a, b) == IF a > b THEN a ELSE b
\* The receive loop closes the socket on whatever acceptMessage throws.
Throws(c, why) == [c EXCEPT !.up = FALSE, !.clash = why]

Either(a, b) == a = b \/ a = 0 \/ b = 0
\* assertCompatibleTaskRevision
Compatible(a, b) ==
  /\ a.state = b.state /\ a.created = b.created
  /\ a.seq = b.seq => a.updated = b.updated
  /\ Either(a.started, b.started) /\ Either(a.finished, b.finished)
  /\ Either(a.progress, b.progress)

Filled(a, b) == IF a = 0 THEN b ELSE a
\* mergeEqualSequenceTask
MergesEqual(a, b) ==
  [a EXCEPT !.seq = Larger(@, b.seq), !.updated = Larger(@, b.updated), !.started = Filled(@, b.started),
            !.finished = Filled(@, b.finished), !.progress = Filled(@, b.progress)]

\* taskFromLifecycle
FromLifecycle(view, n) ==
  LET moved == [view EXCEPT !.seq = Larger(@, n), !.updated = Larger(@, n)]
      type == Lifecycle(n)
  IN CASE type = "task.accepted" -> [moved EXCEPT !.state = PublicState(n), !.created = Filled(@, n)]
       [] type = "task.started" -> [moved EXCEPT !.state = "running", !.started = Filled(@, n)]
       [] type = "task.progress" ->
            [moved EXCEPT !.state = IF @ \in {"stopping", "delegated"} THEN @ ELSE "running",
                          !.progress = n]
       [] type = "task.stopping" -> [moved EXCEPT !.state = "stopping"]
       [] type = "task.unknown" -> [moved EXCEPT !.state = "unknown"]
       [] OTHER -> [moved EXCEPT !.state = StatusAt(n), !.finished = n]

\* Mutant: an answer older than what the page shows replaces it.
AcceptsAnySnapshot(c, n) ==
  [c EXCEPT !.view = TaskSnapshot(n), !.life = n, !.rev = [seq |-> n, printed |-> FALSE]]

\* acceptTaskSnapshot, for one task of the snapshot.
AcceptsSnapshot(c, n) ==
  LET task == TaskSnapshot(n) IN
  IF Known(c) /\ n < c.view.seq /\ n <= c.life THEN c
  ELSE IF Known(c) /\ n = c.life
       THEN IF Compatible(c.view, task) THEN [c EXCEPT !.view = MergesEqual(@, task)]
            ELSE Throws(c, "answer")
  ELSE [c EXCEPT !.view = IF Known(c) THEN [task EXCEPT !.seq = Larger(@, c.view.seq),
                                                        !.updated = Larger(@, c.view.updated)]
                          ELSE task,
                 !.life = n, !.rev = [seq |-> n, printed |-> FALSE]]

\* The first snapshot of a connection replaces all the page kept.
Hydrates(c, n) ==
  LET clean == IF c.hydrate
               THEN [c EXCEPT !.hydrate = FALSE, !.inbox = {}, !.note = NoNotice, !.view = NoView,
                              !.life = 0, !.rev = NoRevision]
               ELSE c
  IN IF n = 0 THEN clean ELSE AcceptsSnapshot(clean, n)

\* correlateTaskMutation: the request an answer is for is no longer pending.
Correlates(c, expected, stale) ==
  IF c.pending = expected THEN [c EXCEPT !.pending = NoRequest]
  ELSE IF c.pending = NoRequest /\ stale THEN c
  ELSE Throws(c, "correlation")

Pending(op, id) == [op |-> op, id |-> id, step |-> "none", record |-> 0]

\* acceptTaskEvent, a lifecycle event.  Messages about one sequence are
\* projections of one record, so their fingerprints agree.
AcceptsEvent(c, m) ==
  LET unprinted == m.n = c.life /\ ~c.rev.printed
      stale == Known(c) /\ m.n <= c.life
      printed == IF unprinted THEN [c EXCEPT !.rev.printed = TRUE] ELSE c
      answered == IF m.answers /\ Lifecycle(m.n) \notin {"task.started", "task.progress"}
                  THEN Correlates(printed, Pending("stop", 0), stale) ELSE printed
  IN IF unprinted /\ Known(c) /\ ~Compatible(c.view, FromLifecycle(c.view, m.n))
     THEN Throws(c, IF m.answers THEN "answer" ELSE "push")
     ELSE IF stale \/ ~answered.up THEN answered
     ELSE IF ~Known(c) /\ Lifecycle(m.n) # "task.accepted" THEN Throws(answered, "unknown task")
     ELSE [answered EXCEPT !.view = FromLifecycle(@, m.n), !.life = m.n,
                           !.rev = [seq |-> m.n, printed |-> TRUE]]

\* One task has one notice: a new one withdraws the one it replaces.
InboxWith(c, notice) == IF notice.acked THEN {} ELSE {notice.id}

\* acceptTaskEvent, a notification.
AcceptsNotice(c, m) ==
  LET notice == Notice(m.n)
      stale == (c.note # NoNotice /\ m.n <= c.note.seq) \/ (Known(c) /\ m.n < c.view.seq)
      answered == IF ~m.answers THEN c
                  ELSE IF ~notice.acked THEN Throws(c, "correlation")
                  ELSE Correlates(c, Pending("ack", notice.id), stale)
  IN IF stale \/ ~answered.up THEN answered
     ELSE IF ~Known(c) THEN Throws(answered, "unknown task")
     ELSE [answered EXCEPT !.note = [seq |-> m.n, id |-> notice.id, acked |-> notice.acked],
                           !.inbox = InboxWith(c, notice),
                           !.view.seq = Larger(@, m.n), !.view.updated = Larger(@, m.n)]

\* acceptMessage; a snapshot that answers has a request to answer.
AcceptsMessage(c, m) ==
  CASE m.kind = "ready" -> [c EXCEPT !.hydrate = TRUE]
    [] m.kind = "hydration" -> Hydrates(c, m.n)
    [] m.kind = "snapshot" -> IF c.pending.op # "get" THEN Throws(c, "correlation")
                              ELSE AcceptsSnapshot([c EXCEPT !.pending = NoRequest], m.n)
    [] m.kind = "event" -> AcceptsEvent(c, m)
    [] m.kind = "notice" -> AcceptsNotice(c, m)
    [] m.kind = "error" -> [c EXCEPT !.pending = NoRequest]

PageReads ==
  /\ client.up /\ inflight # << >>
  /\ client' = AcceptsMessage(client, Head(inflight))
  /\ inflight' = Tail(inflight)
  /\ UNCHANGED <<taskLog, feed, request, bounds>>

(* The record moves, and the session hears of it at once *)

Published(log) ==
  /\ taskLog' = log
  /\ IF feed.phase = "ready"
     THEN /\ feed' = feed
          /\ inflight' = inflight \o Dispatched(Now)'
     ELSE /\ feed' = [feed EXCEPT !.pushed = Len(log)]
          /\ inflight' = inflight

\* A contained task stays as it is, and only an operator beside a gateway that
\* is down contains one.
MayAppend(type) ==
  LET status == StatusAt(Now) IN
  CASE type \in Statuses -> type \in NextStatuses[status] /\ ~Contained(Now)
    [] type = "progress" -> status \in {"running", "delegated", "stopping"}
    [] type = "announced" -> UnreadAt(Now) /\ ~Announced(Now)
    [] type = "acknowledged" -> UnreadAt(Now)
    [] type = "operator_contained" -> status = "unknown" /\ ~Contained(Now) /\ feed.phase = "recent"

RecordTypes == Statuses \cup {"progress", "announced", "acknowledged", "operator_contained"}

\* The supervisor, the operator and the owner's other sessions.
RecordMoves ==
  /\ Now + bounds.connections + bounds.requests <= MaxTaskEvents /\ Len(inflight) <= MaxUnderway
  /\ \E type \in RecordTypes :
       /\ IF Now = 0 THEN type = "queued" ELSE MayAppend(type)
       /\ Published(Append(taskLog, type))
  /\ UNCHANGED <<request, client, bounds>>

(* The gateway session (live-gateway-session.ts) *)

\* start() reads the recent tasks and then the unread ones, and keeps the
\* newer copy; the records pushed meanwhile wait.
ReadsRecent ==
  /\ feed.phase = "recent"
  /\ feed' = [feed EXCEPT !.phase = "unread", !.read = Now]
  /\ UNCHANGED <<taskLog, inflight, request, client, bounds>>

ReadsUnread ==
  /\ feed.phase = "unread"
  /\ feed' = [feed EXCEPT !.phase = "read", !.read = IF UnreadAt(Now) THEN Now ELSE @,
                          !.unread = IF UnreadAt(Now) THEN Now ELSE 0]
  /\ UNCHANGED <<taskLog, inflight, request, client, bounds>>

\* Only a record newer than the one the snapshot showed is sent on.
PushedMeanwhile(f) == IF f.pushed > f.read THEN Dispatched(f.pushed) ELSE << >>

SendsHydration ==
  /\ feed.phase = "read"
  /\ inflight' = <<Message("ready", 0, FALSE), Message("hydration", feed.read, FALSE)>>
                 \o (IF feed.unread > 0 THEN <<Message("notice", feed.unread, FALSE)>> ELSE << >>)
                 \o PushedMeanwhile(feed)
  /\ feed' = [feed EXCEPT !.phase = "ready"]
  /\ UNCHANGED <<taskLog, request, client, bounds>>

\* A page that lost its socket, or closed it, connects again.
Reconnects ==
  /\ bounds.connections < MaxConnections
  /\ bounds' = [bounds EXCEPT !.connections = @ + 1]
  /\ feed' = [phase |-> "recent", read |-> 0, unread |-> 0, pushed |-> 0]
  /\ inflight' = << >> /\ request' = NoRequest
  /\ client' = [client EXCEPT !.up = TRUE, !.clash = "none", !.hydrate = FALSE, !.pending = NoRequest]
  /\ UNCHANGED taskLog

(* Requests of the page *)

PageAsks(op, id) ==
  /\ client.up /\ feed.phase = "ready" /\ inflight = << >> /\ client.pending = NoRequest
  /\ request = NoRequest /\ bounds.requests < MaxRequests
  /\ client' = [client EXCEPT !.pending = Pending(op, id)]
  /\ request' = [op |-> op, step |-> "asked", record |-> 0, id |-> id]
  /\ bounds' = [bounds EXCEPT !.requests = @ + 1]
  /\ UNCHANGED <<taskLog, feed, inflight>>

GetsTask == Known(client) /\ PageAsks("get", 0)
StopsTask == Known(client) /\ client.view.state # "stopping" /\ PageAsks("stop", 0)
AcknowledgesNotice == \E id \in client.inbox : PageAsks("ack", id)

Handles(op, step) == request.op = op /\ request.step = step
Answers(messages) ==
  /\ inflight' = inflight \o messages
  /\ request' = NoRequest
  /\ UNCHANGED <<taskLog, feed, client, bounds>>

GetReads ==
  /\ Handles("get", "asked")
  /\ request' = [request EXCEPT !.step = "read", !.record = Now]
  /\ UNCHANGED <<taskLog, feed, inflight, client, bounds>>

GetAnswers == Handles("get", "read") /\ Answers(<<Message("snapshot", request.record, TRUE)>>)

\* The supervisor's stop: what it writes, if it writes at all.
StopEvent ==
  CASE StatusAt(Now) \in {"queued", "delegated"} -> <<"cancelled">>
    [] StatusAt(Now) \in Final \/ Contained(Now) \/ StopAsked(Now) -> << >>
    [] OTHER -> <<"stop_requested">>

StopTakes ==
  /\ Handles("stop", "asked")
  /\ IF StopEvent = << >> THEN UNCHANGED <<taskLog, feed, inflight>> ELSE Published(taskLog \o StopEvent)
  /\ request' = [request EXCEPT !.step = "read", !.record = Len(taskLog')]
  /\ UNCHANGED <<client, bounds>>

StopAnswers == Handles("stop", "read") /\ Answers(<<Message("event", request.record, TRUE)>>)

\* The notice acknowledged must be the current one.
AckChecks ==
  /\ Handles("ack", "asked")
  /\ IF UnreadAt(Now) /\ Notice(Now).id = request.id
     THEN /\ request' = [request EXCEPT !.step = "checked"]
          /\ UNCHANGED <<taskLog, feed, inflight, client, bounds>>
     ELSE Answers(<<Message("error", 0, TRUE)>>)

AckWrites ==
  /\ Handles("ack", "checked")
  /\ IF UnreadAt(Now) THEN Published(Append(taskLog, "acknowledged")) ELSE UNCHANGED <<taskLog, feed, inflight>>
  /\ request' = [request EXCEPT !.step = "read", !.record = Len(taskLog')]
  /\ UNCHANGED <<client, bounds>>

AckAnswers ==
  /\ Handles("ack", "read")
  /\ Answers(IF StatusAt(request.record) \in Notified
             THEN <<Message("notice", request.record, TRUE)>> ELSE << >>)

TaskViewNext ==
  \/ PageReads \/ RecordMoves
  \/ ReadsRecent \/ ReadsUnread \/ SendsHydration \/ Reconnects
  \/ GetsTask \/ StopsTask \/ AcknowledgesNotice
  \/ GetReads \/ GetAnswers \/ StopTakes \/ StopAnswers \/ AckChecks \/ AckWrites \/ AckAnswers

TaskViewSpec == TaskViewInit /\ [][TaskViewNext]_taskViewVars

(* Properties *)

Settled == client.up /\ feed.phase = "ready" /\ inflight = << >> /\ request = NoRequest /\ Now > 0

\* Of the records pushed while the session was starting only the last is kept.
\* When it is progress or a mark on the notice, what came before it is never
\* told.
MissedInStart == feed.pushed > feed.read + 1 /\ taskLog[feed.pushed] \notin Statuses

\* A page that has read all it was sent shows the task as it is: the state,
\* except that external and unapproved work reads as progress of the run, or of
\* its end, and the one unread notice of the task, or none.
PageAgrees ==
  Settled /\ ~MissedInStart =>
    /\ \/ client.view.state = PublicState(Now)
       \/ /\ StatusAt(Now) \in {"delegated", "waiting_for_approval"}
          /\ client.view.state \in {"running", "stopping", "delegated"}
    /\ client.inbox = IF UnreadAt(Now) THEN {Notice(Now).id} ELSE {}

\* What the session pushes on its own never contradicts what the page keeps:
\* only an answer can close the connection, and an event of a task that was
\* created while the session was starting.
PushesAgree == client.clash # "push"

PageKept == PageAgrees /\ PushesAgree

\* Within a connection the page never goes back to an earlier record, and
\* never shows an ended task as running again.
NeverBack ==
  [][client.up /\ client'.up /\ Known(client) /\ Known(client') /\ ~client.hydrate
     => /\ client'.view.seq >= client.view.seq
        /\ client.view.state \in Final => client'.view.state = client.view.state]_taskViewVars

\* docs/client-protocol.md:292: an equal-sequence replay is idempotent.  The
\* snapshot that answers task.get projects the record by other rules than the
\* events the page has seen, and the client takes the difference for a lie.
AnswersAgree == client.clash # "answer"
=============================================================================
