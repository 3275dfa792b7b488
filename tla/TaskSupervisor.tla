---------------------------- MODULE TaskSupervisor ----------------------------
(***************************************************************************)
(* The gateway's background-task runtime                                   *)
(* (application/task-supervisor/task-supervisor.ts): one process that      *)
(* admits durable tasks to Hermes, follows their runs, and is restarted.   *)
(*                                                                         *)
(* Every write goes through the supervisor's serialized operation chain    *)
(* and is one atomic step here.  What the code awaits outside the chain    *)
(* (HTTP requests, reads that precede a write) is a step of its own, so    *)
(* that the steps of several operations on one task interleave:            *)
(* op[t][r] is the operation in role r on task t, with the point it has    *)
(* reached, the upstream status it carries and the status it last read.    *)
(***************************************************************************)
EXTENDS Naturals, Sequences, FiniteSets, TaskRecords

CONSTANTS
  Tasks,          \* tasks owners may submit
  Owner,          \* [Tasks -> owners]
  Parent,         \* [Tasks -> Tasks \cup {NoParent}], the task a follow-up continues
  NoParent,
  Root,           \* [Tasks -> Tasks], rootTaskId, or the task itself
  Mode,           \* [Tasks -> {"exclusive", "parallel_read_only"}] as requested
  Keys,           \* [Tasks -> SUBSET resource keys] as requested
  DefaultKey,     \* the key shared by every task that names none
  WorkMode,       \* tasks requested with a work mode (orchestrate or quick)
  Trust,          \* trustDeclaredReadOnly
  MaxConcurrent, MaxQueued,
  Stoppable,      \* tasks an owner may ask to stop
  Delegable,      \* tasks whose run hands off to an external agent
  Outcomes,       \* terminal statuses a Hermes run may end with
  Approving,      \* tasks whose run may wait for an approval
  Streamed,       \* tasks whose event stream delivers events
  Prunable,       \* tasks whose finished run Hermes may forget
  Faults,         \* kinds of upstream and store faults that may happen
  MaxFaults,      \* bound on their number
  MaxStops        \* bound on crashes and shutdowns

ASSUME SupervisorAssumption ==
  /\ IsFiniteSet(Tasks)
  /\ NoParent \notin Tasks
  /\ Parent \in [Tasks -> Tasks \cup {NoParent}]
  /\ Root \in [Tasks -> Tasks]
  /\ \A t \in Tasks :
       Root[t] = IF Parent[t] = NoParent THEN t ELSE Root[Parent[t]]
  /\ Mode \in [Tasks -> {"exclusive", "parallel_read_only"}]
  /\ Trust \in BOOLEAN
  /\ MaxConcurrent \in Nat \ {0}
  /\ MaxQueued \in Nat
  /\ Outcomes \subseteq Terminal

VARIABLES
  task,       \* the durable store: a record per task
  order,      \* tasks in creation order (createdAt, made strictly increasing)
  phase,      \* life of the process: up, closing, down, init
  booting,    \* records initializeOnce did not look at yet
  owners,     \* owners with a registered session key
  drain,      \* idle, queued (microtask pending), running, or ending a pass
  again,      \* drainRequested
  backoff,    \* tasks with a future retryNotBefore
  poll,       \* tasks with an armed poll timer
  suppressed, \* pollSuppressed
  watching,   \* tasks with a run-event subscription
  confirmed,  \* confirmedStopRequests
  sending,    \* tasks with a stop request in flight (stopRequests)
  denying,    \* operations inside containUncorrelatedApproval
  op,         \* the operations in progress
  run,        \* Hermes' own state of each task's run
  wire,       \* tasks with a start request Hermes did not answer yet
  runs,       \* number of runs Hermes started for a task
  faults, stops

memory ==
  <<booting, owners, drain, again, backoff, poll, suppressed, watching,
    confirmed, sending, denying, op>>
vars == <<task, order, phase, memory, run, wire, runs, faults, stops>>

drainVars == <<drain, again>>
timerVars == <<backoff, poll, suppressed, watching>>
stopVars  == <<confirmed, sending, denying>>
hermesVars == <<run, wire, runs>>
bounds == <<faults, stops>>

Roles == {"dispatch", "poll", "watch", "stop", "boot"}

\* Statuses of a Hermes run; "none" before Hermes accepts it, "gone" once
\* Hermes answers 404 for it.
Live == {"running", "waiting_for_approval", "stopping"}
RunStates == Live \cup Terminal \cup {"none", "gone"}

Points ==
  {"idle", "start", "post", "busy", "refused", "ambiguous", "accepted",
   "get", "apply", "move", "write", "deny", "mark", "halt", "await",
   "reload", "rearm", "bootend"}

Operation ==
  [pc : Points, arg : RunStates, seen : Statuses \cup {"absent", "none"}]

At(pc, arg, seen) == [pc |-> pc, arg |-> arg, seen |-> seen]
Idle == At("idle", "none", "none")

\* Mutant: a poll that is through with its task does not go on.
AfterReturns(r) == IF r = "boot" THEN At("bootend", "none", "none") ELSE Idle

\* What an operation does when it is through with its task: pollTask and
\* initializeOnce go on, the others return.
After(r) ==
  CASE r = "poll" -> At("rearm", "none", "none")
    [] r = "boot" -> At("bootend", "none", "none")
    [] OTHER -> Idle

Put(t, r, o) ==
  /\ op' = [op EXCEPT ![t][r] = o]
  /\ denying' = IF o = After(r) THEN denying \ {<<t, r>>} ELSE denying

Open == phase \in {"init", "up"}

Fault(kind) == kind \in Faults /\ faults < MaxFaults /\ faults' = faults + 1

-----------------------------------------------------------------------------
(* Timers and wake-ups. *)

\* Mutant: a wake-up that comes during a pass is dropped.
ScheduleDrainUnlessRunning ==
  IF phase = "up" /\ drain = "idle"
  THEN drain' = "queued" /\ UNCHANGED again ELSE UNCHANGED drainVars

ScheduleDrain ==
  IF phase = "up"
  THEN /\ drain' = IF drain = "idle" THEN "queued" ELSE drain
       /\ again' = (again \/ drain \in {"running", "ending"})
  ELSE UNCHANGED drainVars

\* Mutant: a subscribed task is not polled as well.
PollArmedUnlessWatched(t) ==
  IF Open /\ t \notin suppressed \cup watching THEN poll \cup {t} ELSE poll

\* schedulePoll
PollArmed(t) == IF Open /\ t \notin suppressed THEN poll \cup {t} ELSE poll

StartWatcher(t) ==
  IF Open /\ t \notin watching \cup suppressed
  THEN watching' = watching \cup {t} /\ poll' = poll \cup {t}
  ELSE UNCHANGED <<watching, poll>>

-----------------------------------------------------------------------------
(* Admission. *)

ActiveTasks == {t \in Tasks : Active(task[t])}
Holders == {t \in Tasks : Holding(task[t])}
Queued == {t \in Tasks : task[t].status = "queued"}

\* The record submit and followUp create: without the operator's trust a
\* request is clamped to exclusive work on the default key, a follow-up always is.
Scoped(t) == Trust /\ Parent[t] = NoParent
ExecutionMode(t) == IF Scoped(t) THEN Mode[t] ELSE "exclusive"
ResourceKeys(t) ==
  IF Scoped(t) /\ Keys[t] # {} THEN Keys[t] ELSE {DefaultKey}
HasWorkMode(t) == t \in WorkMode /\ Parent[t] = NoParent

SharesExplicit(s, t) ==
  (ResourceKeys(s) \cap ResourceKeys(t)) \ {DefaultKey} # {}
Disjoint(s, t) == ResourceKeys(s) \cap ResourceKeys(t) = {}

\* Mutant: only tasks that occupy a slot reserve their resources.
CanAdmitBesideDelegated(t) ==
  \/ ActiveTasks = {}
  \/ /\ \A h \in Holders : Root[h] # Root[t]
     /\ Trust /\ ExecutionMode(t) = "parallel_read_only"
     /\ \A h \in ActiveTasks :
          ExecutionMode(h) = "parallel_read_only" /\ Disjoint(t, h)

CanAdmit(t) ==
  \/ Holders = {}
  \/ /\ \A h \in Holders : Root[h] # Root[t]
     /\ \A h \in Holders :
          ~(task[h].status = "delegated" /\ SharesExplicit(t, h))
     /\ \/ HasWorkMode(t) /\ \A h \in Holders : ~SharesExplicit(t, h)
        \/ ~HasWorkMode(t) /\ ActiveTasks = {}
        \/ /\ ~HasWorkMode(t) /\ Trust
           /\ ExecutionMode(t) = "parallel_read_only"
           /\ \A h \in Holders :
                ExecutionMode(h) = "parallel_read_only" /\ Disjoint(t, h)

\* Mutant: a requeued task is a candidate whatever its owner asked.
EligibleIfStopped(t) ==
  t \in Queued /\ Owner[t] \in owners /\ t \notin backoff

Eligible(t) ==
  /\ t \in Queued /\ ~task[t].stop
  /\ Owner[t] \in owners /\ t \notin backoff

\* A candidate that admission refuses and does not pass over.
Barrier(t) ==
  Eligible(t) /\ ~CanAdmit(t) /\ (~Trust \/ ExecutionMode(t) = "exclusive")

Older(s, t) ==
  \E i, j \in 1..Len(order) : i < j /\ order[i] = s /\ order[j] = t

\* Mutant: one slot too many.
ReachedOffByOne(t) ==
  /\ Cardinality(ActiveTasks) <= MaxConcurrent
  /\ \A s \in Queued :
       Older(s, t) => ~Barrier(s) /\ ~(Eligible(s) /\ CanAdmit(s))

\* admitNextTask gets as far as t in its oldest-first pass.
Reached(t) ==
  /\ Cardinality(ActiveTasks) < MaxConcurrent
  /\ \A s \in Queued :
       Older(s, t) => ~Barrier(s) /\ ~(Eligible(s) /\ CanAdmit(s))

\* The candidate it dispatches, and those it cancels in passing: queued records
\* whose owner asked to stop them while they were being dispatched.
Admissible(t) == Reached(t) /\ Eligible(t) /\ CanAdmit(t)
Cancellable(t) == Reached(t) /\ t \in Queued /\ task[t].stop

-----------------------------------------------------------------------------
Init ==
  /\ task = [t \in Tasks |-> Absent]
  /\ order = <<>>
  /\ phase = "up"
  /\ booting = {} /\ owners = {}
  /\ drain = "idle" /\ again = FALSE
  /\ backoff = {} /\ poll = {} /\ suppressed = {} /\ watching = {}
  /\ confirmed = {} /\ sending = {} /\ denying = {}
  /\ op = [t \in Tasks |-> [r \in Roles |-> Idle]]
  /\ run = [t \in Tasks |-> "none"]
  /\ wire = {}
  /\ runs = [t \in Tasks |-> 0]
  /\ faults = 0 /\ stops = 0

\* submit and followUp: a parent must be finished, the queue must have room.
Submit(t) ==
  /\ phase = "up"
  /\ task[t] = Absent
  /\ Parent[t] # NoParent => task[Parent[t]].status \in Terminal
  /\ Cardinality(Queued) < MaxQueued
  /\ task' = [task EXCEPT ![t].status = "queued"]
  /\ order' = Append(order, t)
  /\ owners' = owners \cup {Owner[t]}
  /\ ScheduleDrain
  /\ UNCHANGED <<phase, booting, timerVars, stopVars, op, hermesVars, bounds>>

\* A live session attaches; also all a refused submit leaves behind.
RegisterOwner(o) ==
  /\ Open
  /\ o \notin owners
  /\ owners' = owners \cup {o}
  /\ ScheduleDrain
  /\ UNCHANGED <<task, order, phase, booting, timerVars, stopVars, op,
                 hermesVars, bounds>>

\* The microtask of scheduleDrain runs.
DrainStarts ==
  /\ phase = "up" /\ drain = "queued"
  /\ drain' = "running" /\ again' = FALSE
  /\ UNCHANGED <<task, order, phase, booting, owners, timerVars, stopVars, op,
                 hermesVars, bounds>>

\* One turn of performDrain that admits: the record turns dispatching and
\* dispatchTask starts.
Admit(t) ==
  /\ phase = "up" /\ drain = "running"
  /\ Admissible(t)
  /\ task' = [task EXCEPT ![t] = Transitioned(task[t], "dispatching")]
  /\ Put(t, "dispatch", At("start", "none", "none"))
  /\ UNCHANGED <<order, phase, booting, owners, drainVars, timerVars,
                 confirmed, sending, hermesVars, bounds>>

CancelStopped(t) ==
  /\ phase = "up" /\ drain = "running"
  /\ Cancellable(t)
  /\ task' = [task EXCEPT ![t] = Transitioned(task[t], "cancelled")]
  /\ UNCHANGED <<order, phase, memory, hermesVars, bounds>>

\* A write of such a turn fails: performDrain throws and is over.
AdmitFails(t) ==
  /\ phase = "up" /\ drain = "running"
  /\ Admissible(t) \/ Cancellable(t)
  /\ Fault("admit")
  /\ drain' = "idle"
  /\ UNCHANGED <<task, order, phase, booting, owners, again, timerVars,
                 stopVars, op, hermesVars, stops>>

\* A turn that finds nothing to admit; a wake-up that comes while the pass
\* ends starts another one.
DrainFindsNothing ==
  /\ phase = "up" /\ drain = "running"
  /\ \A t \in Tasks : ~Admissible(t) /\ ~Cancellable(t)
  /\ drain' = "ending"
  /\ UNCHANGED <<task, order, phase, booting, owners, again, timerVars,
                 stopVars, op, hermesVars, bounds>>

DrainEnds ==
  /\ phase = "up" /\ drain = "ending"
  /\ drain' = IF again THEN "running" ELSE "idle"
  /\ again' = FALSE
  /\ UNCHANGED <<task, order, phase, booting, owners, timerVars, stopVars, op,
                 hermesVars, bounds>>

-----------------------------------------------------------------------------
(* Dispatch: one POST, whose outcome may never be known. *)

\* dispatchTask up to its POST; shutdown may have dropped the session keys.
StartDispatch(t) ==
  /\ op[t]["dispatch"].pc = "start"
  /\ IF Owner[t] \in owners
     THEN /\ wire' = wire \cup {t}
          /\ Put(t, "dispatch", At("post", "none", "none"))
          /\ UNCHANGED task
     ELSE /\ task' = [task EXCEPT ![t] = Transitioned(task[t], "queued")]
          /\ Put(t, "dispatch", Idle)
          /\ UNCHANGED wire
  /\ UNCHANGED <<order, phase, booting, owners, drainVars, timerVars,
                 confirmed, sending, run, runs, bounds>>

\* Hermes starts a run for a request it received, answered or not.
HermesAccepts(t) ==
  /\ t \in wire
  /\ wire' = wire \ {t}
  /\ run' = [run EXCEPT ![t] = "running"]
  /\ runs' = [runs EXCEPT ![t] = @ + 1]
  /\ UNCHANGED <<task, order, phase, memory, bounds>>

RunIdArrives(t) ==
  /\ op[t]["dispatch"].pc = "post" /\ phase # "closing"
  /\ run[t] # "none"
  /\ Put(t, "dispatch", At("accepted", "none", "none"))
  /\ UNCHANGED <<task, order, phase, booting, owners, drainVars, timerVars,
                 confirmed, sending, hermesVars, bounds>>

\* A definitive rejection: busy or draining ("busy"), or a client error
\* ("refused").  Hermes started nothing.
HermesRejects(t, kind) ==
  /\ op[t]["dispatch"].pc = "post" /\ phase # "closing"
  /\ t \in wire
  /\ Fault(kind)
  /\ wire' = wire \ {t}
  /\ Put(t, "dispatch", At(kind, "none", "none"))
  /\ UNCHANGED <<task, order, phase, booting, owners, drainVars, timerVars,
                 confirmed, sending, run, runs, stops>>

\* The answer is lost or the request is aborted by shutdown; Hermes may still
\* receive the request.
AnswerLost(t) ==
  /\ op[t]["dispatch"].pc = "post"
  /\ IF phase = "closing" THEN UNCHANGED faults ELSE Fault("ambiguous")
  /\ Put(t, "dispatch", At("ambiguous", "none", "none"))
  /\ UNCHANGED <<task, order, phase, booting, owners, drainVars, timerVars,
                 confirmed, sending, hermesVars, stops>>

\* handleDispatchStartFailure on a definitive rejection.
SettleRejection(t) ==
  LET point == op[t]["dispatch"].pc
      record == Rejected(task[t], point = "busy")
  IN /\ point \in {"busy", "refused"}
     /\ task' = [task EXCEPT ![t] = record]
     /\ backoff' = IF record.status = "queued" THEN backoff \cup {t}
                   ELSE backoff \ {t}
     /\ ScheduleDrain
     /\ Put(t, "dispatch", Idle)
     /\ UNCHANGED <<order, phase, booting, owners, poll, suppressed, watching,
                    confirmed, sending, hermesVars, bounds>>

\* handleDispatchStartFailure otherwise: fenced, never retried.
SettleAmbiguity(t) ==
  /\ op[t]["dispatch"].pc = "ambiguous"
  /\ task' = [task EXCEPT ![t] = Fenced(task[t])]
  /\ Put(t, "dispatch", Idle)
  /\ UNCHANGED <<order, phase, booting, owners, drainVars, timerVars,
                 confirmed, sending, hermesVars, bounds>>

\* The retry timer of a requeued task.
RetryTimer(t) ==
  /\ phase = "up" /\ t \in backoff
  /\ backoff' = backoff \ {t}
  /\ ScheduleDrain
  /\ UNCHANGED <<task, order, phase, booting, owners, poll, suppressed,
                 watching, stopVars, op, hermesVars, bounds>>

-----------------------------------------------------------------------------
(* requestStop, entered by several operations.  It works on the record its *)
(* caller read; seen is that record's status.                              *)

StopEntry(r, record) ==
  IF Closed(record) THEN After(r)
  ELSE IF ~record.stop THEN At("mark", "none", "none")
  ELSE At("halt", "none", record.status)

\* activateAcceptedRun: the run id becomes durable and the task is followed,
\* or stopped if its owner asked for that while the POST was in flight.
PersistAccepted(t) ==
  LET record == Accepted(task[t])
  IN /\ op[t]["dispatch"].pc = "accepted"
     /\ task' = [task EXCEPT ![t] = record]
     /\ backoff' = backoff \ {t}
     /\ IF Open /\ record.stop
        THEN /\ Put(t, "dispatch", StopEntry("dispatch", record))
             /\ UNCHANGED <<poll, watching>>
        ELSE /\ Put(t, "dispatch", Idle)
             /\ StartWatcher(t)
     /\ UNCHANGED <<order, phase, booting, owners, drainVars, suppressed,
                    confirmed, sending, hermesVars, bounds>>

\* Shutdown's last attempt to write an accepted run id fails as well.  (While
\* the process is open a failed write is only retried by a timer.)
RunIdAbandoned(t) ==
  /\ op[t]["dispatch"].pc = "accepted" /\ phase = "closing"
  /\ Fault("persist")
  /\ Put(t, "dispatch", Idle)
  /\ UNCHANGED <<task, order, phase, booting, owners, drainVars, timerVars,
                 confirmed, sending, hermesVars, stops>>

\* The missing intent is persisted (a stop the gateway decided on itself).
MarkStop(t, r) ==
  LET record == StopMarked(task[t])
  IN /\ op[t][r].pc = "mark"
     /\ task' = [task EXCEPT ![t] = record]
     /\ Put(t, r, StopEntry(r, record))
     /\ UNCHANGED <<order, phase, booting, owners, drainVars, timerVars,
                    confirmed, sending, hermesVars, bounds>>

\* The record turns stopping where it can, and the exact-run stop request is
\* sent unless one succeeded before or is in flight.
HaltRun(t, r) ==
  LET moves == "stopping" \in Allowed[op[t][r].seen]
      record == Transitioned(task[t], "stopping")
      finished == t \in confirmed \/ (moves /\ Closed(record))
  IN /\ op[t][r].pc = "halt"
     /\ task' = IF moves THEN [task EXCEPT ![t] = record] ELSE task
     /\ Put(t, r, IF finished THEN After(r) ELSE At("await", "none", "none"))
     /\ sending' = IF finished THEN sending ELSE sending \cup {t}
     /\ UNCHANGED <<order, phase, booting, owners, drainVars, timerVars,
                    confirmed, hermesVars, bounds>>

\* The request settles for every operation that sent or joined it.
StopSettles(t) ==
  /\ sending' = sending \ {t}
  /\ op' = [op EXCEPT ![t] = [r \in Roles |->
               IF op[t][r].pc = "await" THEN After(r) ELSE op[t][r]]]
  /\ denying' = {d \in denying : d[1] = t => op[t][d[2]].pc # "await"}

\* sendStopRequest, answered.
StopConfirmed(t) ==
  /\ t \in sending /\ phase # "closing"
  /\ run[t] # "gone"
  /\ run' = [run EXCEPT ![t] = IF @ \in Live THEN "stopping" ELSE @]
  /\ confirmed' = confirmed \cup {t}
  /\ StopSettles(t)
  /\ poll' = PollArmed(t)
  /\ UNCHANGED <<task, order, phase, booting, owners, drainVars, backoff,
                 suppressed, watching, wire, runs, bounds>>

\* sendStopRequest, failed: Hermes forgot the run, or the outcome is unknown
\* and Hermes may have received the request.
StopFails(t) ==
  /\ t \in sending /\ phase # "closing"
  /\ IF run[t] = "gone" THEN UNCHANGED faults ELSE Fault("stop")
  /\ run' \in {run, [run EXCEPT ![t] = IF @ \in Live THEN "stopping" ELSE @]}
  /\ confirmed' = confirmed \ {t}
  /\ StopSettles(t)
  /\ task' = [task EXCEPT ![t] = Unknowned(task[t], FALSE)]
  /\ poll' = PollArmed(t)
  /\ UNCHANGED <<order, phase, booting, owners, drainVars, backoff, suppressed,
                 watching, wire, runs, stops>>

-----------------------------------------------------------------------------
(* Reconciliation by status polls, at startup and by run events. *)

\* The poll timer fires: reconcileTask reads the record before it asks Hermes.
PollFires(t) ==
  /\ Open /\ t \in poll /\ op[t]["poll"] = Idle
  /\ poll' = poll \ {t}
  /\ Put(t, "poll", IF task[t].run /\ ~Closed(task[t])
                    THEN At("get", "none", "none") ELSE After("poll"))
  /\ UNCHANGED <<task, order, phase, booting, owners, drainVars, backoff,
                 suppressed, watching, confirmed, sending, hermesVars, bounds>>

\* applySnapshot begins: a running snapshot first looks at the stop intent.
Snapshot(status) ==
  At(IF status = "running" THEN "apply" ELSE "move", status, "none")

SnapshotArrives(t, r) ==
  /\ r \in {"poll", "boot"}
  /\ op[t][r].pc = "get" /\ phase # "closing"
  /\ run[t] \in Live \cup Terminal
  /\ suppressed' = suppressed \ {t}
  /\ Put(t, r, Snapshot(run[t]))
  /\ UNCHANGED <<task, order, phase, booting, owners, drainVars, backoff, poll,
                 watching, confirmed, sending, hermesVars, bounds>>

\* Hermes answers 404, or for another run.
SnapshotRefuted(t, r, gone) ==
  /\ r \in {"poll", "boot"}
  /\ op[t][r].pc = "get" /\ phase # "closing"
  /\ IF gone THEN run[t] = "gone" /\ UNCHANGED faults ELSE Fault("mismatch")
  /\ task' = [task EXCEPT ![t] = Unknowned(task[t], gone)]
  /\ suppressed' = suppressed \cup {t}
  /\ Put(t, r, After(r))
  /\ UNCHANGED <<order, phase, booting, owners, drainVars, backoff, poll,
                 watching, confirmed, sending, hermesVars, stops>>

\* The request fails, or shutdown aborts it.
SnapshotFails(t, r) ==
  /\ r \in {"poll", "boot"}
  /\ op[t][r].pc = "get"
  /\ IF phase = "closing" THEN UNCHANGED faults ELSE Fault("get")
  /\ Put(t, r, After(r))
  /\ UNCHANGED <<task, order, phase, booting, owners, drainVars, timerVars,
                 confirmed, sending, hermesVars, stops>>

\* An event of the run reaches its subscription; handleRunEvent reads the
\* record before it applies the event.
RunEvent(t) ==
  /\ Open /\ t \in watching \cap Streamed /\ op[t]["watch"] = Idle
  /\ run[t] \in Live \cup Terminal
  /\ ~Closed(task[t])
  /\ Put(t, "watch", Snapshot(run[t]))
  /\ UNCHANGED <<task, order, phase, booting, owners, drainVars, timerVars,
                 confirmed, sending, hermesVars, bounds>>

\* An event that names another run.
RunEventMismatch(t) ==
  /\ Open /\ t \in watching \cap Streamed /\ op[t]["watch"] = Idle
  /\ ~Closed(task[t])
  /\ Fault("mismatch")
  /\ task' = [task EXCEPT ![t] = Unknowned(task[t], FALSE)]
  /\ UNCHANGED <<order, phase, memory, hermesVars, stops>>

\* consumeRunEvents returns: the record closed, or Hermes answers 404 for the
\* stream of a finished run.  Polling takes over.
WatchEnds(t) ==
  /\ Open /\ t \in watching /\ op[t]["watch"] = Idle
  /\ Closed(task[t]) \/ run[t] \in Terminal \cup {"gone"}
  /\ watching' = watching \ {t}
  /\ poll' = PollArmed(t)
  /\ UNCHANGED <<task, order, phase, booting, owners, drainVars, backoff,
                 suppressed, stopVars, op, hermesVars, bounds>>

\* applySnapshot of a running run: a persisted stop is retried instead.
ApplyRunning(t, r) ==
  /\ op[t][r].pc = "apply"
  /\ Put(t, r,
         IF task[t].stop /\ task[t].run
         THEN IF task[t].status = "stopping" /\ t \in confirmed THEN After(r)
              ELSE StopEntry(r, task[t])
         ELSE At("move", "running", "none"))
  /\ UNCHANGED <<task, order, phase, booting, owners, drainVars, timerVars,
                 confirmed, sending, hermesVars, bounds>>

\* applySnapshot once moveToStatus returned the record: an approval is denied
\* fail-closed, a terminal status frees its slot.
Applied(t, r, target, record) ==
  /\ IF target = "waiting_for_approval"
     THEN IF Open /\ ~Closed(record) /\ \A x \in Roles : <<t, x>> \notin denying
          THEN /\ op' = [op EXCEPT ![t][r] = At("deny", "none", "none")]
               /\ denying' = denying \cup {<<t, r>>}
          ELSE Put(t, r, After(r))
     ELSE Put(t, r, After(r))
  /\ IF target \in Terminal
     THEN confirmed' = confirmed \ {t} /\ ScheduleDrain
     ELSE UNCHANGED <<confirmed, drainVars>>

\* moveToStatus decides on the record it reads; its branches for a record
\* without a run id cannot be taken by a caller that has one.
MoveDecides(record, target) ==
  /\ ~Closed(record)
  /\ record.status = "delegated" => target = "cancelled"
  /\ target \in Allowed[record.status]

MoveToStatus(t, r) ==
  LET target == op[t][r].arg
  IN /\ op[t][r].pc = "move"
     /\ IF MoveDecides(task[t], target)
        THEN /\ Put(t, r, At("write", target, "none"))
             /\ UNCHANGED <<confirmed, drainVars>>
        ELSE Applied(t, r, target, task[t])
     /\ UNCHANGED <<task, order, phase, booting, owners, timerVars, sending,
                    hermesVars, bounds>>

\* The serialized write of that decision, against the record of this moment.
WriteStatus(t, r) ==
  LET target == op[t][r].arg
      record == Transitioned(task[t], target)
  IN /\ op[t][r].pc = "write"
     /\ task' = [task EXCEPT ![t] = record]
     /\ Applied(t, r, target, record)
     /\ UNCHANGED <<order, phase, booting, owners, timerVars, sending,
                    hermesVars, bounds>>

\* submitApproval(deny) answered, failed or aborted; then the run is stopped.
ApprovalDenied(t, r) ==
  /\ op[t][r].pc = "deny"
  /\ run' \in {run, [run EXCEPT ![t] =
                 IF @ = "waiting_for_approval" THEN "running" ELSE @]}
  /\ Put(t, r, IF Open THEN StopEntry(r, task[t]) ELSE After(r))
  /\ UNCHANGED <<task, order, phase, booting, owners, drainVars, timerVars,
                 confirmed, sending, wire, runs, bounds>>

\* The end of pollTask: a closed record frees capacity, an open one is polled
\* again.
Rearm(t) ==
  /\ op[t]["poll"].pc = "rearm"
  /\ IF Closed(task[t])
     THEN ScheduleDrain /\ UNCHANGED poll
     ELSE /\ poll' = IF task[t].run THEN PollArmed(t) ELSE poll
          /\ UNCHANGED drainVars
  /\ op' = [op EXCEPT ![t]["poll"] = Idle]
  /\ UNCHANGED <<task, order, phase, booting, owners, backoff, suppressed,
                 watching, stopVars, hermesVars, bounds>>

-----------------------------------------------------------------------------
(* Calls of the task's owner. *)

StopCall(t) ==
  LET record == StopRequested(task[t])
  IN /\ phase = "up" /\ t \in Stoppable
     /\ task[t] # Absent /\ op[t]["stop"] = Idle
     /\ task' = [task EXCEPT ![t] = record]
     /\ Put(t, "stop",
            IF record.status = "dispatching" THEN At("reload", "none", "none")
            ELSE IF record.run THEN StopEntry("stop", record) ELSE Idle)
     /\ UNCHANGED <<order, phase, booting, owners, drainVars, timerVars,
                    confirmed, sending, hermesVars, bounds>>

\* stop() looks again at a task that was still dispatching.
StopReload(t) ==
  /\ op[t]["stop"].pc = "reload"
  /\ Put(t, "stop", IF task[t].run THEN StopEntry("stop", task[t]) ELSE Idle)
  /\ UNCHANGED <<task, order, phase, booting, owners, drainVars, timerVars,
                 confirmed, sending, hermesVars, bounds>>

\* markDelegated: the slot is released, the launch run is polled no longer.
MarkDelegated(t) ==
  /\ phase = "up" /\ t \in Delegable
  /\ task[t].status = "running"
  /\ task' = [task EXCEPT ![t] = Delegated(task[t])]
  /\ suppressed' = suppressed \cup {t}
  /\ poll' = poll \ {t}
  /\ UNCHANGED <<order, phase, booting, owners, drainVars, backoff, watching,
                 stopVars, op, hermesVars, bounds>>

\* resolveDelegated: the owner's disposition.
ResolveDelegated(t, outcome) ==
  /\ phase = "up" /\ t \in Delegable
  /\ task[t].status = "delegated" /\ ~Closed(task[t])
  /\ outcome \in {"completed", "failed"}
  /\ task' = [task EXCEPT ![t] = Moved(task[t], outcome)]
  /\ suppressed' = suppressed \ {t}
  /\ ScheduleDrain
  /\ UNCHANGED <<order, phase, booting, owners, backoff, poll, watching,
                 stopVars, op, hermesVars, bounds>>

-----------------------------------------------------------------------------
(* Life of the process. *)

\* closeOnce, up to its wait for the operations in progress.
Close ==
  /\ phase \in {"init", "up"} /\ stops < MaxStops
  /\ phase' = "closing"
  /\ stops' = stops + 1
  /\ booting' = {} /\ owners' = {}
  /\ drain' = "idle" /\ again' = FALSE
  /\ poll' = {} /\ watching' = {}
  /\ UNCHANGED <<task, order, backoff, suppressed, stopVars, op, hermesVars,
                 faults>>

\* A stop request that shutdown aborts.
StopAborted(t) ==
  /\ t \in sending /\ phase = "closing"
  /\ StopSettles(t)
  /\ run' \in {run, [run EXCEPT ![t] = IF @ \in Live THEN "stopping" ELSE @]}
  /\ UNCHANGED <<task, order, phase, booting, owners, drainVars, timerVars,
                 confirmed, wire, runs, bounds>>

\* Nothing of the process memory survives it.
Forget ==
  /\ booting' = {} /\ owners' = {} /\ drain' = "idle" /\ again' = FALSE
  /\ backoff' = {} /\ poll' = {} /\ suppressed' = {} /\ watching' = {}
  /\ confirmed' = {} /\ sending' = {} /\ denying' = {}
  /\ op' = [t \in Tasks |-> [r \in Roles |-> Idle]]

ShutDown ==
  /\ phase = "closing"
  /\ \A t \in Tasks, r \in Roles : op[t][r] = Idle
  /\ sending = {}
  /\ phase' = "down"
  /\ Forget
  /\ UNCHANGED <<task, order, hermesVars, bounds>>

Crash ==
  /\ phase \in {"init", "up", "closing"} /\ stops < MaxStops
  /\ phase' = "down"
  /\ stops' = stops + 1
  /\ Forget
  /\ UNCHANGED <<task, order, hermesVars, faults>>

\* The operator contains an indeterminate task while the gateway is down.
OperatorContains(t) ==
  /\ phase = "down"
  /\ task[t] # Contained(task[t])
  /\ task' = [task EXCEPT ![t] = Contained(task[t])]
  /\ UNCHANGED <<order, phase, memory, hermesVars, bounds>>

Restart ==
  /\ phase = "down"
  /\ phase' = "init"
  /\ booting' = {t \in Tasks : task[t] # Absent}
  /\ UNCHANGED <<task, order, owners, drainVars, timerVars, stopVars, op,
                 hermesVars, bounds>>

\* initializeOnce looks at one record.
BootTask(t) ==
  /\ phase = "init" /\ t \in booting
  /\ booting' = booting \ {t}
  /\ task' = IF task[t].status = "dispatching" /\ ~task[t].run
             THEN [task EXCEPT ![t] = Fenced(@)]
             ELSE task
  /\ suppressed' = IF task[t].status = "delegated" THEN suppressed \cup {t}
                   ELSE suppressed
  /\ IF task[t].run /\ ~Closed(task[t]) /\ task[t].status # "delegated"
     THEN Put(t, "boot", At("get", "none", "none"))
     ELSE UNCHANGED <<op, denying>>
  /\ UNCHANGED <<order, phase, owners, drainVars, backoff, poll, watching,
                 confirmed, sending, hermesVars, bounds>>

\* The reconciled task is followed again.
BootWatches(t) ==
  /\ op[t]["boot"].pc = "bootend"
  /\ op' = [op EXCEPT ![t]["boot"] = Idle]
  /\ IF task[t].run /\ ~Closed(task[t]) /\ task[t].status # "delegated"
     THEN StartWatcher(t) ELSE UNCHANGED <<poll, watching>>
  /\ UNCHANGED <<task, order, phase, booting, owners, drainVars, backoff,
                 suppressed, stopVars, hermesVars, bounds>>

Initialized ==
  /\ phase = "init" /\ booting = {}
  /\ \A t \in Tasks : op[t]["boot"] = Idle
  /\ phase' = "up"
  /\ drain' = "queued"
  /\ UNCHANGED <<task, order, booting, owners, again, timerVars, stopVars, op,
                 hermesVars, bounds>>

-----------------------------------------------------------------------------
(* Hermes (src/ only calls it): what a run does by itself. *)

HermesMoves(t, status) ==
  /\ run[t] # status
  /\ \/ run[t] = "running" /\ t \in Approving /\ status = "waiting_for_approval"
     \/ run[t] = "waiting_for_approval" /\ status = "running"
     \/ run[t] \in Live /\ status \in Outcomes
     \/ run[t] = "stopping" /\ status = "cancelled"
     \/ run[t] \in Terminal /\ t \in Prunable /\ status = "gone"
  /\ run' = [run EXCEPT ![t] = status]
  /\ UNCHANGED <<task, order, phase, memory, wire, runs, bounds>>

-----------------------------------------------------------------------------
Dispatch(t) ==
  \/ StartDispatch(t) \/ RunIdArrives(t) \/ AnswerLost(t)
  \/ \E kind \in {"busy", "refused"} : HermesRejects(t, kind)
  \/ SettleRejection(t) \/ SettleAmbiguity(t) \/ RetryTimer(t)
  \/ PersistAccepted(t) \/ RunIdAbandoned(t)

Control(t) ==
  \/ \E r \in Roles : MarkStop(t, r) \/ HaltRun(t, r)
  \/ StopConfirmed(t) \/ StopFails(t) \/ StopAborted(t) \/ StopReload(t)

Reconcile(t) ==
  \/ PollFires(t) \/ Rearm(t) \/ WatchEnds(t)
  \/ RunEvent(t) \/ RunEventMismatch(t)
  \/ \E r \in Roles :
       \/ SnapshotArrives(t, r) \/ SnapshotFails(t, r)
       \/ \E gone \in BOOLEAN : SnapshotRefuted(t, r, gone)
       \/ ApplyRunning(t, r) \/ MoveToStatus(t, r) \/ WriteStatus(t, r)
       \/ ApprovalDenied(t, r)

OwnerCall(t) ==
  \/ Submit(t) \/ StopCall(t) \/ MarkDelegated(t)
  \/ \E outcome \in {"completed", "failed"} : ResolveDelegated(t, outcome)

Upstream(t) ==
  HermesAccepts(t) \/ \E status \in RunStates : HermesMoves(t, status)

Process ==
  \/ DrainStarts \/ DrainFindsNothing \/ DrainEnds \/ Close \/ ShutDown \/ Crash \/ Restart
  \/ Initialized
  \/ \E t \in Tasks : RegisterOwner(Owner[t])

Next ==
  \/ Process
  \/ \E t \in Tasks :
       \/ Admit(t) \/ CancelStopped(t) \/ AdmitFails(t) \/ Dispatch(t) \/ Control(t)
       \/ Reconcile(t) \/ OwnerCall(t) \/ Upstream(t)
       \/ BootTask(t) \/ BootWatches(t) \/ OperatorContains(t)

Spec == Init /\ [][Next]_vars

\* A step of an operation that does not wait for a fault.
Step(t, r) ==
  \/ MarkStop(t, r) \/ HaltRun(t, r)
  \/ SnapshotArrives(t, r) \/ SnapshotRefuted(t, r, TRUE)
  \/ ApplyRunning(t, r) \/ MoveToStatus(t, r) \/ WriteStatus(t, r)
  \/ ApprovalDenied(t, r)
  \/ phase = "closing" /\ SnapshotFails(t, r)

DispatchStep(t) ==
  \/ StartDispatch(t) \/ RunIdArrives(t) \/ SettleRejection(t)
  \/ SettleAmbiguity(t) \/ PersistAccepted(t)
  \/ phase = "closing" /\ AnswerLost(t)

StopAnswer(t) ==
  \/ StopConfirmed(t) \/ StopAborted(t)
  \/ run[t] = "gone" /\ StopFails(t)

\* Promises settle and timers fire, the service manager restarts the gateway,
\* owners come back, Hermes answers and its runs end.  No fault is fair.
Fairness ==
  /\ WF_vars(ShutDown \/ Restart \/ Initialized)
  /\ WF_vars(DrainStarts \/ DrainFindsNothing \/ DrainEnds
             \/ \E t \in Tasks : Admit(t) \/ CancelStopped(t))
  /\ \A t \in Tasks :
       /\ WF_vars(RegisterOwner(Owner[t]))
       /\ WF_vars(DispatchStep(t) \/ Step(t, "dispatch"))
       /\ WF_vars(PollFires(t) \/ Step(t, "poll") \/ Rearm(t))
       /\ WF_vars(Step(t, "watch") \/ WatchEnds(t))
       /\ WF_vars(Step(t, "stop") \/ StopReload(t))
       /\ WF_vars(BootTask(t) \/ Step(t, "boot") \/ BootWatches(t))
       /\ WF_vars(StopAnswer(t)) /\ WF_vars(RetryTimer(t))
       /\ WF_vars(HermesAccepts(t))
       /\ WF_vars(\E status \in Terminal : HermesMoves(t, status))

FairSpec == Spec /\ Fairness

-----------------------------------------------------------------------------
(* What must hold. *)

TypeOK ==
  /\ task \in [Tasks -> TaskRecord]
  /\ order \in Seq(Tasks)
  /\ phase \in {"up", "closing", "down", "init"}
  /\ booting \subseteq Tasks
  /\ drain \in {"idle", "queued", "running", "ending"}
  /\ again \in BOOLEAN
  /\ backoff \subseteq Tasks /\ poll \subseteq Tasks
  /\ suppressed \subseteq Tasks /\ watching \subseteq Tasks
  /\ confirmed \subseteq Tasks /\ sending \subseteq Tasks
  /\ denying \subseteq Tasks \X Roles
  /\ op \in [Tasks -> [Roles -> Operation]]
  /\ run \in [Tasks -> RunStates]
  /\ wire \subseteq Tasks
  /\ runs \in [Tasks -> Nat]
  /\ faults \in Nat /\ stops \in Nat

\* At most maxConcurrent tasks occupy a Hermes slot, whatever requeues,
\* restarts and late answers happen between an admission and its outcome.
SlotsBounded == Cardinality(ActiveTasks) <= MaxConcurrent

\* No two tasks that hold reservations (an admitted task, or one handed to an
\* external agent) belong to one lineage or name the same explicit resource.
ReservationsExclusive ==
  \A s, t \in Holders :
    s # t => Root[s] # Root[t] /\ ~SharesExplicit(s, t)

\* A Hermes run, or a start request on its way, whose id the record does not
\* hold is fenced: its task is dispatching or dispatch_unknown, never queued
\* again and never settled by anything but the operator.
UntrackedRunFenced ==
  \A t \in Tasks :
    (runs[t] > 0 \/ t \in wire) /\ ~task[t].run =>
      task[t].status \in {"dispatching", "dispatch_unknown"}

\* Hermes never starts a second run for a task.
AtMostOneRun == \A t \in Tasks : runs[t] <= 1

\* A record settled otherwise than by the owner's disposition of delegated
\* work or the operator tells the truth: Hermes' run is over.
SettledRunIsOver ==
  \A t \in Tasks \ Delegable :
    task[t].run /\ Closed(task[t]) /\ ~task[t].contained =>
      run[t] \in Terminal \cup {"gone"}

\* While the gateway is up, an open record with a run is being worked on,
\* polled or subscribed to, unless polling was suppressed on purpose.
Followed ==
  \A t \in Tasks :
    phase = "up" /\ task[t].run /\ ~Closed(task[t]) =>
      \/ t \in poll \cup watching \cup sending \cup suppressed
      \/ \E r \in Roles : op[t][r] # Idle

\* When the drain loop and every operation rest, no queued task could be
\* admitted: whatever frees capacity wakes the loop.
NoStalledQueue ==
  phase = "up" /\ drain = "idle"
    /\ (\A t \in Tasks, r \in Roles : op[t][r] = Idle) =>
      \A t \in Tasks : ~Admissible(t)

\* A closed record is final: nothing but the operator's containment of a
\* missing run writes it again, and nothing reopens it.
ClosedIsFinal ==
  [][\A t \in Tasks :
       Closed(task[t]) => task'[t] \in {task[t], Contained(task[t])}]_vars

\* A persisted stop intent survives everything, and queued work that carries
\* one (its stop raced a requeue) can only be cancelled.
StopIntentKept ==
  [][\A t \in Tasks :
       task[t].stop =>
         /\ task'[t].stop
         /\ task[t].status = "queued" =>
              task'[t].status \in {"queued", "cancelled"}]_vars

\* The launch run's completion never completes delegated work: only its owner
\* resolves it.
LaunchRunNeverCompletesDelegated ==
  [][\A t \in Tasks :
       task[t].status = "delegated" /\ task'[t].status = "completed" =>
         ResolveDelegated(t, "completed")]_vars

\* Monitoring never cancels delegated work either: only its owner stops it.
MonitoringNeverCancelsDelegated ==
  [][\A t \in Tasks :
       task[t].status = "delegated" /\ task'[t].status = "cancelled" =>
         StopCall(t)]_vars

\* Exclusive work runs only when no other task is active.
ExclusiveRunsAlone ==
  \A s, t \in ActiveTasks :
    s # t => ~(ExecutionMode(s) = "exclusive" /\ ~HasWorkMode(s))

\* A stop the owner asked for ends in a closed record.
StopIntentHonored ==
  \A t \in Tasks :
    task[t].stop ~> (Closed(task[t]) \/ task[t].status = "dispatch_unknown")

\* Every task is settled in the end, or fenced where nobody can know whether
\* Hermes started it.
EverySubmissionSettles ==
  \A t \in Tasks :
    task[t] # Absent ~>
      (Closed(task[t]) \/ task[t].status = "dispatch_unknown")

\* The status poll projects a run that completed.
CompletedRunCloses ==
  \A t \in Tasks :
    (run[t] = "completed" /\ task[t].run) ~> Closed(task[t])

------------------------------------------------------------------------------
(* The supervisor implements WorkExecution *)

\* What a durable record says of the work it stands for.
WorkState(r) ==
  CASE r.status = "absent" -> "new"
    [] r.status = "queued" -> "waiting"
    [] r.status = "dispatching" -> "claimed"
    [] r.status = "dispatch_unknown" /\ ~r.contained -> "fenced"
    [] r.status = "dispatch_unknown" /\ r.contained -> "written_off"
    [] r.status = "delegated" -> "handed"
    [] OTHER -> IF Closed(r) THEN "over" ELSE "tracked"

Promise ==
  INSTANCE WorkExecution WITH
    Work <- Tasks, Slots <- MaxConcurrent,
    state <- [t \in Tasks |-> WorkState(task[t])], started <- runs

\* Through every interleaving, fault, crash and restart, the records and the
\* runs of Hermes behave as the promise says.
KeepsPromise == Promise!Spec
==============================================================================
