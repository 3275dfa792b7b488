-------------------------- MODULE TerminalConsole --------------------------
(***************************************************************************)
(* The text console of a gateway: one connection, which it leaves without  *)
(* stopping anything, requests that are matched with their answers by id,  *)
(* and its own merge of snapshots, events and notices of a task.  The      *)
(* record, its projections and what a session sends are those of           *)
(* BrowserTasks; the session takes a stop while another request waits.     *)
(***************************************************************************)
EXTENDS BrowserTasks

CONSTANTS
  MaxTyped,       \* bounds: requests the owner types,
  MaxConsoleSteps \* events of the task and requests together

ASSUME ConsoleAssumption == {MaxTyped, MaxConsoleSteps} \subseteq Nat

VARIABLES
  console, \* the fields of the console that concern the task
  orders    \* the requests, as far as the gateway is with them

consoleVars == <<taskLog, feed, inflight, request, client, bounds, console, orders>>

NotAsked == [op |-> "none", id |-> 0, step |-> "none", record |-> 0]
Requests == 1..MaxTyped

ConsoleInit ==
  /\ TaskViewInit
  /\ console = [socket |-> "open", ready |-> FALSE, clash |-> "none", view |-> NoView, life |-> 0,
                note |-> NoNotice, pending |-> {}, typed |-> 0, quits |-> FALSE, ended |-> "no"]
  /\ orders = [r \in Requests |-> NotAsked]

\* What a message handler throws closes the socket; what was sent before the
\* peer has closed it too is still read.
Refuses(c, why) == [c EXCEPT !.socket = "closing", !.clash = IF @ = "none" THEN why ELSE @]

(* The merge *)

SameRevision(a, b) ==
  a.state = b.state /\ Either(a.started, b.started) /\ Either(a.finished, b.finished)
  /\ Either(a.progress, b.progress)

\* taskFromLifecycle of the console: a task it has not heard of starts here,
\* external work reads as running, and a stop is its progress.
FromEvent(view, n) ==
  LET moved == [view EXCEPT !.seq = Larger(@, n), !.updated = Larger(@, n), !.created = Filled(@, n)]
      type == Lifecycle(n)
  IN CASE type = "task.accepted" -> [moved EXCEPT !.state = PublicState(n)]
       [] type = "task.started" -> [moved EXCEPT !.state = "running", !.started = Filled(@, n)]
       [] type = "task.progress" ->
            [moved EXCEPT !.state = IF @ = "stopping" THEN @ ELSE "running", !.progress = n]
       [] type = "task.stopping" -> [moved EXCEPT !.state = "stopping", !.progress = n]
       [] type = "task.completed" -> [moved EXCEPT !.state = "completed", !.finished = n]
       [] type = "task.cancelled" -> [moved EXCEPT !.state = "cancelled", !.finished = n, !.progress = n]
       [] type = "task.unknown" -> [moved EXCEPT !.state = "unknown"]

\* upsertTaskSnapshot
Upserts(c, n) ==
  LET task == TaskSnapshot(n) IN
  IF n < c.life THEN c
  ELSE IF Known(c) /\ n = c.life
       THEN IF SameRevision(c.view, task) THEN [c EXCEPT !.view = MergesEqual(@, task)]
            ELSE Refuses(c, "answer")
  ELSE [c EXCEPT !.life = n,
                 !.view = [task EXCEPT !.seq = Larger(@, c.view.seq), !.updated = Larger(@, c.view.updated)]]

\* handleTaskSnapshot: the first one has no request, the others answer one.
TakesSnapshot(c, m) == IF m.n = 0 THEN c ELSE Upserts(c, m.n)

\* Events of running tasks carry no request id.
Correlated(m) == m.answers /\ Lifecycle(m.n) \notin {"task.started", "task.progress"}

\* applyTaskLifecycle.  Two events of one sequence project one record, so
\* their contents agree; what is kept may not.
TakesEvent(c, m) ==
  LET answered == IF Correlated(m) THEN [c EXCEPT !.pending = @ \ {m.req}] ELSE c
  IN IF Correlated(m) /\ m.req \notin c.pending THEN Refuses(c, "correlation")
     ELSE IF m.n < c.life THEN answered
     ELSE IF m.n = c.life
     THEN IF Known(c) /\ ~SameRevision(c.view, FromEvent(c.view, m.n))
          THEN Refuses(answered, IF m.answers THEN "answer" ELSE "push") ELSE answered
     ELSE [answered EXCEPT !.view = FromEvent(@, m.n), !.life = m.n]

\* handleTaskNotification
TakesNotice(c, m) ==
  LET notice == Notice(m.n)
      answered == IF m.answers THEN [c EXCEPT !.pending = @ \ {m.req}] ELSE c
  IN IF m.answers /\ ~(m.req \in c.pending /\ orders[m.req].id = notice.id /\ notice.acked)
     THEN Refuses(c, "correlation")
     ELSE IF c.note # NoNotice /\ m.n <= c.note.seq THEN answered
     ELSE [answered EXCEPT !.note = [seq |-> m.n, id |-> notice.id, acked |-> notice.acked],
                           !.view = IF Known(c) THEN [@ EXCEPT !.seq = Larger(@, m.n),
                                                               !.updated = Larger(@, m.n)] ELSE @]

Hears(c, m) ==
  CASE m.kind = "ready" -> [c EXCEPT !.ready = TRUE]
    [] m.kind = "hydration" -> TakesSnapshot(c, m)
    [] m.kind = "snapshot" -> TakesSnapshot([c EXCEPT !.pending = @ \ {m.req}], m)
    [] m.kind = "event" -> TakesEvent(c, m)
    [] m.kind = "notice" -> TakesNotice(c, m)
    [] m.kind \in {"receipt", "error"} -> [c EXCEPT !.pending = @ \ {m.req}]

ConsoleUp == console.socket # "closed"

ConsoleReads ==
  /\ ConsoleUp /\ inflight # << >>
  /\ console' = Hears(console, Head(inflight)) /\ inflight' = Tail(inflight)
  /\ UNCHANGED <<taskLog, feed, request, client, bounds, orders>>

(* Requests *)

\* trackAndSend, while the session is ready and its socket open.
Types(op, id) ==
  /\ console.ready /\ console.socket = "open" /\ ~console.quits
  /\ console.typed < MaxTyped /\ Now + console.typed < MaxConsoleSteps
  /\ LET r == console.typed + 1
     IN /\ orders' = [orders EXCEPT ![r] = [NotAsked EXCEPT !.op = op, !.id = id, !.step = "asked"]]
        /\ console' = [console EXCEPT !.typed = r, !.pending = @ \cup {r}]
  /\ UNCHANGED <<taskLog, feed, inflight, request, client, bounds>>

\* /tasks needs nothing; /status, /result, /stop and /followup name a task,
\* /read the notice the console shows as unread.
ConsoleAsks ==
  \/ Types("snapshot", 0)
  \/ Known(console) /\ \E op \in {"stop", "follow_up"} : Types(op, 0)
  \/ console.note # NoNotice /\ ~console.note.acked /\ Types("ack", console.note.id)

\* A session takes requests in turn, and stops as they come.
Served(r, op, step) ==
  /\ orders[r].op = op /\ orders[r].step = step
  /\ op = "stop" \/ \A k \in 1..(r - 1) : orders[k].op = "stop" \/ orders[k].step = "answered"

MovesOn(r, step) == orders' = [orders EXCEPT ![r].step = step]
ReadBy(r, step) == orders' = [orders EXCEPT ![r].step = step, ![r].record = Len(taskLog')]
Answer(kind, n, r) == [kind |-> kind, n |-> n, answers |-> TRUE, req |-> r]
AnswersWith(r, messages) ==
  /\ inflight' = inflight \o messages /\ MovesOn(r, "answered")
  /\ UNCHANGED <<taskLog, feed>>

SnapshotServed(r) ==
  \/ Served(r, "snapshot", "asked") /\ UNCHANGED <<taskLog, feed, inflight>> /\ ReadBy(r, "read")
  \/ Served(r, "snapshot", "read") /\ AnswersWith(r, <<Answer("snapshot", orders[r].record, r)>>)

StopServed(r) ==
  \/ /\ Served(r, "stop", "asked")
     /\ IF StopEvent = << >> THEN UNCHANGED <<taskLog, feed, inflight>> ELSE Published(taskLog \o StopEvent)
     /\ ReadBy(r, "read")
  \/ Served(r, "stop", "read") /\ AnswersWith(r, <<Answer("event", orders[r].record, r)>>)

\* Work after a task is a task of its own, and needs the task to have ended.
FollowUpServed(r) ==
  /\ Served(r, "follow_up", "asked")
  /\ AnswersWith(r, <<Answer(IF StatusAt(Now) \in Final THEN "receipt" ELSE "error", 0, r)>>)

\* An acknowledgement that left no notice behind is not answered.
AckServed(r) ==
  \/ /\ Served(r, "ack", "asked")
     /\ IF UnreadAt(Now) /\ Notice(Now).id = orders[r].id
        THEN MovesOn(r, "checked") /\ UNCHANGED <<taskLog, feed, inflight>>
        ELSE AnswersWith(r, <<Answer("error", 0, r)>>)
  \/ /\ Served(r, "ack", "checked")
     /\ IF UnreadAt(Now) THEN Published(Append(taskLog, "acknowledged"))
        ELSE UNCHANGED <<taskLog, feed, inflight>>
     /\ ReadBy(r, "read")
  \/ /\ Served(r, "ack", "read")
     /\ AnswersWith(r, IF StatusAt(orders[r].record) \in Notified
                       THEN <<Answer("notice", orders[r].record, r)>> ELSE << >>)

RequestServed ==
  /\ ConsoleUp
  /\ \E r \in Requests : SnapshotServed(r) \/ StopServed(r) \/ FollowUpServed(r) \/ AckServed(r)
  /\ UNCHANGED <<request, client, bounds, console>>

(* The end *)

\* /quit, the end of the input or Ctrl+C detaches.
Quits ==
  /\ ConsoleUp /\ console.ready /\ ~console.quits
  /\ console' = [console EXCEPT !.quits = TRUE]
  /\ UNCHANGED <<taskLog, feed, inflight, request, client, bounds, orders>>

\* The socket closes, and the session with it, before it was ready or after; or
\* nothing closes it in time, and the console ends it and reports that.
ConsoleEnds ==
  /\ ConsoleUp
  /\ console' \in {[console EXCEPT !.socket = "closed", !.ready = FALSE, !.pending = {}, !.ended = how] :
                   how \in {IF console.ready THEN "ok" ELSE "rejected"}
                           \cup (IF console.quits THEN {"rejected"} ELSE {})}
  /\ inflight' = << >> /\ orders' = [r \in Requests |-> NotAsked]
  /\ UNCHANGED <<taskLog, feed, request, client, bounds>>

\* What the task does after the owner has left is not followed.
ConsoleNext ==
  \/ ConsoleReads \/ ConsoleAsks \/ RequestServed \/ Quits \/ ConsoleEnds
  \/ /\ ConsoleUp /\ ~console.quits /\ UNCHANGED <<console, orders>>
     /\ \/ RecordMoves /\ Now + console.typed < MaxConsoleSteps
        \/ ReadsRecent \/ ReadsUnread \/ SendsHydration

ConsoleSpec == ConsoleInit /\ [][ConsoleNext]_consoleVars

(* Properties *)

ConsoleSettled ==
  /\ console.ready /\ console.socket = "open" /\ inflight = << >> /\ Now > 0
  /\ \A r \in 1..console.typed : orders[r].step = "answered"

\* A console that has read all it was sent shows the state of the task, but
\* external and unapproved work as running or stopping, and whether its end has
\* been read.
ConsoleAgrees ==
  ConsoleSettled /\ ~MissedInStart =>
    /\ \/ console.view.state = PublicState(Now)
       \/ /\ StatusAt(Now) \in {"delegated", "waiting_for_approval"}
          /\ console.view.state \in {"running", "stopping"}
    /\ (console.note # NoNotice /\ ~console.note.acked) = UnreadAt(Now)

\* Whatever the requests overlap with, each is answered: only one that marked
\* a notice as read waits in vain, if the task moved on meanwhile.
RequestsAnswered ==
  ConsoleSettled =>
    \A r \in console.pending : orders[r].op = "ack" /\ StatusAt(orders[r].record) \notin Notified

\* Nothing the session sends on its own closes the console.
PushesAccepted == console.clash # "push"

ConsoleKept == ConsoleAgrees /\ RequestsAnswered /\ PushesAccepted

\* docs/client-protocol.md:292: an equal-sequence replay is idempotent.  Not when
\* /status reads a task by other rules than its events.
ReplaysAccepted == console.clash # "answer"

\* An acknowledgement is answered with the notice it named.
AcksAreMatched == console.clash # "correlation"
=============================================================================
