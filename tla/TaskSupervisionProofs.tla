------------------------ MODULE TaskSupervisionProofs ------------------------
(***************************************************************************)
(* The task supervisor starts every task at most once upstream, fences     *)
(* every run whose id it does not hold, and so keeps the promise of        *)
(* WorkExecution; and what the gateway keeps of its tasks and tells of     *)
(* them: while it is up every open record with a run is being followed, a  *)
(* record is settled only once its run is over, and a queued task's place  *)
(* and its blockers are what admission makes of them, and the drain loop   *)
(* leaves nothing behind that it could admit.  For every value of the      *)
(* constants of TaskSupervisor; first, slots, reservations and what the    *)
(* record operators of TaskRecords preserve.                               *)
(***************************************************************************)
EXTENDS QueueSupervision, FiniteSetTheorems, TLAPS

-----------------------------------------------------------------------------
(* Rewritings of a record *)

\* Only a record in doubt is marked as missing at Hermes or as contained by the
\* operator; markers never outlive the status that justified them.
Shape(r) ==
  /\ r.missing => r.status = "unknown"
  /\ r.contained => r.status \in {"unknown", "dispatch_unknown"}

\* What every rewriting other than an admission respects: it takes no slot and
\* no reservation, keeps the stop intent, leaves closed records to the
\* operator, and moves queued work only to its cancellation.
Calm(r, q) ==
  /\ q \in TaskRecord
  /\ Shape(q)
  /\ Active(q) => Active(r)
  /\ Holding(q) => Holding(r)
  /\ r.stop => q.stop
  /\ Closed(r) => q \in {r, Contained(r)}
  /\ r.status = "queued" => q.status \in {"queued", "cancelled"}

\* The transition table, one status at a time (ALLOWED_TASK_TRANSITIONS).
LEMMA AllowedByStatus ==
  /\ Allowed["absent"] = {}
  /\ Allowed["queued"] = {"dispatching", "cancelled"}
  /\ Allowed["dispatching"] =
       {"queued", "running", "failed", "cancelled", "dispatch_unknown"}
  /\ Allowed["running"] =
       {"delegated", "waiting_for_approval", "stopping", "completed",
        "failed", "cancelled", "unknown"}
  /\ Allowed["delegated"] = {"completed", "failed", "cancelled", "unknown"}
  /\ Allowed["waiting_for_approval"] =
       {"running", "stopping", "failed", "cancelled", "unknown"}
  /\ Allowed["stopping"] = {"completed", "failed", "cancelled", "unknown"}
  /\ Allowed["unknown"] =
       {"running", "waiting_for_approval", "stopping", "completed", "failed",
        "cancelled"}
  /\ Allowed["dispatch_unknown"] =
       {"running", "stopping", "completed", "failed", "cancelled", "unknown"}
  /\ \A s \in Terminal : Allowed[s] = {}
BY DEF Allowed, Statuses, HoldingStatuses, ActiveStatuses, Terminal

\* transitionTask keeps a record a record and its markers in shape.
LEMMA MovedType ==
  ASSUME NEW r \in TaskRecord, Shape(r), ~r.contained, NEW s \in Statuses
  PROVE  /\ Moved(r, s) \in TaskRecord
         /\ Shape(Moved(r, s))
         /\ Moved(r, s).status = s
         /\ Moved(r, s).stop = r.stop
         /\ Moved(r, s).run = r.run
         /\ ~Moved(r, s).contained
         /\ Moved(r, s).missing => s = "unknown"
BY DEF Moved, TaskRecord, Shape

\* A record is calmly kept.
LEMMA CalmStutter ==
  ASSUME NEW r \in TaskRecord, Shape(r)
  PROVE  Calm(r, r)
BY DEF Calm

\* A move out of an open record is calm unless it claims a slot.
LEMMA CalmMove ==
  ASSUME NEW r \in TaskRecord, Shape(r), ~Closed(r),
         NEW s \in Statuses,
         s \in ActiveStatuses => Active(r),
         s \in HoldingStatuses => Holding(r),
         r.status = "queued" => s \in {"queued", "cancelled"}
  PROVE  Calm(r, Moved(r, s))
<1>1. ~r.contained BY DEF Closed
<1>2. QED BY <1>1, MovedType DEF Calm, Active, Holding

\* transitionPersist never claims a slot, except by dispatching a queued
\* record (and by reviving delegated work as unknown, which no caller asks for).
LEMMA CalmTransitioned ==
  ASSUME NEW r \in TaskRecord, Shape(r),
         NEW s, s \notin {"dispatching", "unknown"}
  PROVE  Calm(r, Transitioned(r, s))
<1>1. CASE Closed(r) \/ s \notin Allowed[r.status]
  BY <1>1, CalmStutter DEF Transitioned
<1>2. CASE ~Closed(r) /\ s \in Allowed[r.status]
  <2>1. r.status \in Statuses \cup {"absent"} BY DEF TaskRecord
  <2>2. /\ s \in Statuses
        /\ s \in ActiveStatuses => r.status \in ActiveStatuses
        /\ s \in HoldingStatuses => r.status \in HoldingStatuses
        /\ r.status = "queued" => s = "cancelled"
    BY <1>2, <2>1, AllowedByStatus
       DEF Statuses, HoldingStatuses, ActiveStatuses, Terminal
  <2>3. Calm(r, Moved(r, s))
    BY <1>2, <2>2, CalmMove DEF Active, Holding, Closed
  <2>4. QED BY <1>2, <2>3 DEF Transitioned
<1>3. QED BY <1>1, <1>2

\* The other updaters of the supervisor and of the operator are calm as well.
LEMMA CalmStopMarked ==
  ASSUME NEW r \in TaskRecord, Shape(r)
  PROVE  Calm(r, StopMarked(r))
BY DEF Calm, StopMarked, TaskRecord, Shape, Closed, Active, Holding

LEMMA CalmStopRequested ==
  ASSUME NEW r \in TaskRecord, Shape(r)
  PROVE  Calm(r, StopRequested(r))
<1>1. "cancelled" \in Statuses /\ "cancelled" \notin HoldingStatuses
      /\ "cancelled" \notin ActiveStatuses
  BY DEF Statuses, Terminal, HoldingStatuses, ActiveStatuses
<1>2. CASE Closed(r) BY <1>2, CalmStutter DEF StopRequested
<1>3. CASE ~Closed(r) /\ r.status \in {"queued", "delegated"}
  BY <1>1, <1>3, CalmMove DEF StopRequested
<1>4. CASE ~Closed(r) /\ r.status \notin {"queued", "delegated"}
  BY <1>4, CalmStopMarked DEF StopRequested
<1>5. QED BY <1>2, <1>3, <1>4

LEMMA CalmUnknowned ==
  ASSUME NEW r \in TaskRecord, Shape(r), NEW gone \in BOOLEAN
  PROVE  Calm(r, Unknowned(r, gone))
<1>1. CASE Closed(r) \/ r.status = "delegated"
  BY <1>1, CalmStutter DEF Unknowned
<1>2. CASE /\ ~Closed(r) /\ r.status # "delegated"
           /\ r.status = "unknown" \/ "unknown" \in Allowed[r.status]
  <2>1. r.status \in Statuses \cup {"absent"} BY DEF TaskRecord
  <2>2. r.status \in ActiveStatuses
    BY <1>2, <2>1, AllowedByStatus
       DEF Statuses, HoldingStatuses, ActiveStatuses, Terminal
  <2>3. Unknowned(r, gone) = [r EXCEPT !.status = "unknown", !.missing = gone]
    BY <1>2 DEF Unknowned
  <2>4. QED
    BY <1>2, <2>2, <2>3
       DEF Calm, TaskRecord, Shape, Closed, Active, Holding, Statuses,
           HoldingStatuses, ActiveStatuses
<1>3. CASE /\ ~Closed(r) /\ r.status # "delegated"
           /\ ~(r.status = "unknown" \/ "unknown" \in Allowed[r.status])
  <2>1. CASE r.status = "dispatching" /\ ~r.run
    <3>1. Unknowned(r, gone) = Moved(r, "dispatch_unknown")
      BY <1>3, <2>1 DEF Unknowned
    <3>2. QED
      BY <1>3, <2>1, <3>1, CalmMove
         DEF Active, Holding, Closed, Statuses, HoldingStatuses,
             ActiveStatuses
  <2>2. CASE ~(r.status = "dispatching" /\ ~r.run)
    BY <1>3, <2>2, CalmStutter DEF Unknowned
  <2>3. QED BY <2>1, <2>2
<1>4. QED BY <1>1, <1>2, <1>3

LEMMA CalmAccepted ==
  ASSUME NEW r \in TaskRecord, Shape(r)
  PROVE  Calm(r, Accepted(r))
BY DEF Accepted, Calm, Moved, TaskRecord, Shape, Closed, Active, Holding,
       Statuses, HoldingStatuses, ActiveStatuses, Terminal

LEMMA CalmRejected ==
  ASSUME NEW r \in TaskRecord, Shape(r), NEW retryable \in BOOLEAN
  PROVE  Calm(r, Rejected(r, retryable))
<1>1. /\ {"cancelled", "queued", "failed"} \subseteq Statuses
      /\ \A s \in {"cancelled", "queued", "failed"} :
           s \notin HoldingStatuses /\ s \notin ActiveStatuses
  BY DEF Statuses, Terminal, HoldingStatuses, ActiveStatuses
<1>2. CASE Closed(r) \/ r.status # "dispatching"
  BY <1>2, CalmStutter DEF Rejected
<1>3. CASE ~Closed(r) /\ r.status = "dispatching"
  <2>1. \E s \in {"cancelled", "queued", "failed"} :
          Rejected(r, retryable) = Moved(r, s)
    BY <1>3 DEF Rejected
  <2>2. QED BY <1>1, <1>3, <2>1, CalmMove
<1>4. QED BY <1>2, <1>3

LEMMA CalmContained ==
  ASSUME NEW r \in TaskRecord, Shape(r)
  PROVE  Calm(r, Contained(r))
BY DEF Contained, Calm, TaskRecord, Shape, Closed, Active, Holding

-----------------------------------------------------------------------------
(* The supervisor *)

\* What TLC checks as a type invariant, with the conjunct on the
\* records' shape that the other theorems build on.
RecordsOK ==
  /\ task \in [Tasks -> TaskRecord]
  /\ \A t \in Tasks : Shape(task[t])

Sound == TypeOK /\ RecordsOK

-----------------------------------------------------------------------------
(* Operations in progress. *)

LEMMA PointTypes ==
  /\ Idle \in Operation
  /\ \A r \in Roles : After(r) \in Operation
  /\ \A pc \in Points, arg \in RunStates,
        seen \in Statuses \cup {"absent", "none"} :
       At(pc, arg, seen) \in Operation
BY DEF Idle, At, After, Operation, Points, RunStates, Roles

LEMMA StopEntryType ==
  ASSUME NEW r \in Roles, NEW record \in TaskRecord
  PROVE  StopEntry(r, record) \in Operation
BY PointTypes DEF StopEntry, Points, RunStates, TaskRecord

LEMMA SnapshotType ==
  ASSUME NEW status \in RunStates
  PROVE  Snapshot(status) \in Operation
BY PointTypes DEF Snapshot, Points

LEMMA PutType ==
  ASSUME op \in [Tasks -> [Roles -> Operation]],
         denying \subseteq Tasks \X Roles,
         NEW t \in Tasks, NEW r \in Roles, NEW o \in Operation, Put(t, r, o)
  PROVE  /\ op' \in [Tasks -> [Roles -> Operation]]
         /\ denying' \subseteq Tasks \X Roles
BY DEF Put

\* What the wake-ups leave behind.
LEMMA WakeUpTypes ==
  /\ drain \in {"idle", "queued", "running", "ending"} /\ again \in BOOLEAN
       /\ ScheduleDrain =>
     drain' \in {"idle", "queued", "running", "ending"} /\ again' \in BOOLEAN
  /\ \A t \in Tasks : poll \subseteq Tasks => PollArmed(t) \subseteq Tasks
  /\ \A t \in Tasks :
       poll \subseteq Tasks /\ watching \subseteq Tasks /\ StartWatcher(t) =>
         poll' \subseteq Tasks /\ watching' \subseteq Tasks
BY DEF ScheduleDrain, PollArmed, StartWatcher, drainVars

-----------------------------------------------------------------------------
(* What a step does to the records. *)

\* Every record is rewritten calmly.
Calmly ==
  /\ RecordsOK'
  /\ \A u \in Tasks : Calm(task[u], task'[u])

LEMMA CalmlyKept ==
  ASSUME RecordsOK, UNCHANGED task
  PROVE  Calmly
BY CalmStutter DEF RecordsOK, Calmly

LEMMA CalmlyUpdated ==
  ASSUME RecordsOK, NEW t \in Tasks, NEW q, Calm(task[t], q),
         task' = [task EXCEPT ![t] = q]
  PROVE  Calmly
<1>1. q \in TaskRecord /\ Shape(q) BY DEF Calm
<1>2. task' \in [Tasks -> TaskRecord] BY <1>1 DEF RecordsOK
<1>3. \A u \in Tasks : task'[u] = IF u = t THEN q ELSE task[u]
  BY DEF RecordsOK
<1>4. \A u \in Tasks : Shape(task'[u]) BY <1>1, <1>3 DEF RecordsOK
<1>5. \A u \in Tasks : Calm(task[u], task'[u])
  BY <1>3, CalmStutter DEF RecordsOK
<1>6. QED BY <1>2, <1>4, <1>5 DEF Calmly, RecordsOK

\* Admission is the only step that takes a slot: it turns one queued record
\* without a stop intent into a dispatching one.
LEMMA AdmitRecord ==
  ASSUME RecordsOK, NEW t \in Tasks, Admit(t)
  PROVE  /\ RecordsOK'
         /\ task[t].status = "queued" /\ ~task[t].stop
         /\ task'[t].status = "dispatching"
         /\ ~task'[t].missing /\ ~task'[t].contained /\ ~task'[t].stop
         /\ task'[t].run = task[t].run
         /\ \A u \in Tasks \ {t} : task'[u] = task[u]
<1>1. /\ task[t].status = "queued" /\ ~task[t].stop
      /\ task' = [task EXCEPT ![t] = Transitioned(task[t], "dispatching")]
  BY DEF Admit, Admissible, Eligible, Queued
<1>2. task[t] \in TaskRecord /\ Shape(task[t]) BY DEF RecordsOK
<1>3. ~Closed(task[t]) /\ ~task[t].contained
  BY <1>1, <1>2 DEF Closed, Shape, Terminal
<1>4. Transitioned(task[t], "dispatching") = Moved(task[t], "dispatching")
  BY <1>1, <1>3, AllowedByStatus DEF Transitioned
<1>5. "dispatching" \in Statuses
  BY DEF Statuses, HoldingStatuses, ActiveStatuses
<1>6. task' = [task EXCEPT ![t] = Moved(task[t], "dispatching")]
  BY <1>1, <1>4
<1>7. /\ Moved(task[t], "dispatching") \in TaskRecord
      /\ Shape(Moved(task[t], "dispatching"))
      /\ Moved(task[t], "dispatching").status = "dispatching"
      /\ Moved(task[t], "dispatching").stop = task[t].stop
      /\ Moved(task[t], "dispatching").run = task[t].run
      /\ ~Moved(task[t], "dispatching").contained
      /\ ~Moved(task[t], "dispatching").missing
  BY <1>2, <1>3, <1>5, MovedType
<1>8. /\ task'[t] = Moved(task[t], "dispatching")
      /\ \A u \in Tasks \ {t} : task'[u] = task[u]
      /\ task' \in [Tasks -> TaskRecord]
  BY <1>6, <1>7 DEF RecordsOK
<1>9. QED BY <1>1, <1>7, <1>8 DEF RecordsOK

\* A submission adds a queued record.
LEMMA SubmitCalm ==
  ASSUME RecordsOK, NEW t \in Tasks, Submit(t)
  PROVE  Calmly
<1> DEFINE q == [Absent EXCEPT !.status = "queued"]
<1>1. task[t] = Absent /\ task' = [task EXCEPT ![t] = q]
  BY DEF Submit, RecordsOK
<1>2. Calm(Absent, q)
  BY DEF Calm, Absent, TaskRecord, Shape, Active, Holding, Closed,
         Statuses, HoldingStatuses, ActiveStatuses, Terminal
<1> HIDE DEF q
<1>3. QED BY <1>1, <1>2, CalmlyUpdated

\* The steps of dispatch are calm.
LEMMA DispatchCalm ==
  ASSUME RecordsOK, NEW t \in Tasks, Dispatch(t)
  PROVE  Calmly
<1>0. task[t] \in TaskRecord /\ Shape(task[t]) BY DEF RecordsOK
<1>1. CASE StartDispatch(t)
  BY <1>0, <1>1, CalmTransitioned, CalmlyKept, CalmlyUpdated
     DEF StartDispatch
<1>2. CASE SettleRejection(t)
  BY <1>0, <1>2, CalmRejected, CalmlyUpdated DEF SettleRejection
<1>3. CASE SettleAmbiguity(t)
  BY <1>0, <1>3, CalmTransitioned, CalmlyUpdated DEF SettleAmbiguity, Fenced
<1>4. CASE PersistAccepted(t)
  BY <1>0, <1>4, CalmAccepted, CalmlyUpdated DEF PersistAccepted
<1>5. CASE RunIdArrives(t) BY <1>5, CalmlyKept DEF RunIdArrives
<1>6. CASE AnswerLost(t) BY <1>6, CalmlyKept DEF AnswerLost
<1>7. CASE RetryTimer(t) BY <1>7, CalmlyKept DEF RetryTimer
<1>8. CASE RunIdAbandoned(t) BY <1>8, CalmlyKept DEF RunIdAbandoned
<1>9. CASE \E kind \in {"busy", "refused"} : HermesRejects(t, kind)
  BY <1>9, CalmlyKept DEF HermesRejects
<1>10. QED
  BY <1>1, <1>2, <1>3, <1>4, <1>5, <1>6, <1>7, <1>8, <1>9 DEF Dispatch

\* So are those of a stop.
LEMMA ControlCalm ==
  ASSUME RecordsOK, NEW t \in Tasks, Control(t)
  PROVE  Calmly
<1>0. task[t] \in TaskRecord /\ Shape(task[t]) BY DEF RecordsOK
<1>1. ASSUME NEW r \in Roles, MarkStop(t, r) PROVE Calmly
  BY <1>0, <1>1, CalmStopMarked, CalmlyUpdated DEF MarkStop
<1>2. ASSUME NEW r \in Roles, HaltRun(t, r) PROVE Calmly
  BY <1>0, <1>2, CalmTransitioned, CalmlyKept, CalmlyUpdated DEF HaltRun
<1>3. CASE StopConfirmed(t) BY <1>3, CalmlyKept DEF StopConfirmed
<1>4. CASE StopFails(t)
  BY <1>0, <1>4, CalmUnknowned, CalmlyUpdated DEF StopFails
<1>5. CASE StopAborted(t) BY <1>5, CalmlyKept DEF StopAborted
<1>6. CASE StopReload(t) BY <1>6, CalmlyKept DEF StopReload
<1>7. QED BY <1>1, <1>2, <1>3, <1>4, <1>5, <1>6 DEF Control

\* So are polls and events: a run status is never a claim on a slot.
LEMMA ReconcileCalm ==
  ASSUME RecordsOK, op \in [Tasks -> [Roles -> Operation]],
         NEW t \in Tasks, Reconcile(t)
  PROVE  Calmly
<1>0. task[t] \in TaskRecord /\ Shape(task[t]) BY DEF RecordsOK
<1>1. CASE PollFires(t) BY <1>1, CalmlyKept DEF PollFires
<1>2. CASE Rearm(t) BY <1>2, CalmlyKept DEF Rearm
<1>3. CASE WatchEnds(t) BY <1>3, CalmlyKept DEF WatchEnds
<1>4. CASE RunEvent(t) BY <1>4, CalmlyKept DEF RunEvent
<1>5. CASE RunEventMismatch(t)
  BY <1>0, <1>5, CalmUnknowned, CalmlyUpdated DEF RunEventMismatch
<1>6. ASSUME NEW r \in Roles, SnapshotArrives(t, r) PROVE Calmly
  BY <1>6, CalmlyKept DEF SnapshotArrives
<1>7. ASSUME NEW r \in Roles, SnapshotFails(t, r) PROVE Calmly
  BY <1>7, CalmlyKept DEF SnapshotFails
<1>8. ASSUME NEW r \in Roles, NEW gone \in BOOLEAN, SnapshotRefuted(t, r, gone)
      PROVE Calmly
  BY <1>0, <1>8, CalmUnknowned, CalmlyUpdated DEF SnapshotRefuted
<1>9. ASSUME NEW r \in Roles, ApplyRunning(t, r) PROVE Calmly
  BY <1>9, CalmlyKept DEF ApplyRunning
<1>10. ASSUME NEW r \in Roles, MoveToStatus(t, r) PROVE Calmly
  BY <1>10, CalmlyKept DEF MoveToStatus
<1>11. ASSUME NEW r \in Roles, WriteStatus(t, r) PROVE Calmly
  <2>1. op[t][r].arg \notin {"dispatching", "unknown"}
    BY <1>11 DEF Operation, RunStates, Live, Terminal
  <2>2. task' = [task EXCEPT ![t] = Transitioned(task[t], op[t][r].arg)]
    BY <1>11 DEF WriteStatus
  <2>3. QED BY <1>0, <2>1, <2>2, CalmTransitioned, CalmlyUpdated
<1>12. ASSUME NEW r \in Roles, ApprovalDenied(t, r) PROVE Calmly
  BY <1>12, CalmlyKept DEF ApprovalDenied
<1>13. QED
  BY <1>1, <1>2, <1>3, <1>4, <1>5, <1>6, <1>7, <1>8, <1>9, <1>10, <1>11,
     <1>12 DEF Reconcile

\* So are the calls of the owner,
LEMMA OwnerCallCalm ==
  ASSUME RecordsOK, NEW t \in Tasks, OwnerCall(t)
  PROVE  Calmly
<1>0. task[t] \in TaskRecord /\ Shape(task[t]) BY DEF RecordsOK
<1>1. CASE Submit(t) BY <1>1, SubmitCalm
<1>2. CASE StopCall(t)
  BY <1>0, <1>2, CalmStopRequested, CalmlyUpdated DEF StopCall
<1>3. CASE MarkDelegated(t)
  BY <1>0, <1>3, CalmTransitioned, CalmlyUpdated DEF MarkDelegated, Delegated
<1>4. ASSUME NEW outcome \in {"completed", "failed"},
             ResolveDelegated(t, outcome)
      PROVE Calmly
  <2>1. /\ outcome \in Statuses /\ outcome \notin ActiveStatuses
        /\ outcome \notin HoldingStatuses
    BY DEF Statuses, Terminal, HoldingStatuses, ActiveStatuses
  <2>2. task[t].status = "delegated" /\ ~Closed(task[t])
        /\ task' = [task EXCEPT ![t] = Moved(task[t], outcome)]
    BY <1>4 DEF ResolveDelegated
  <2>3. Calm(task[t], Moved(task[t], outcome))
    BY <1>0, <2>1, <2>2, CalmMove
  <2>4. QED BY <2>2, <2>3, CalmlyUpdated
<1>5. QED BY <1>1, <1>2, <1>3, <1>4 DEF OwnerCall

\* and everything else but an admission.
LEMMA StepCalm ==
  ASSUME TypeOK, RecordsOK, [Next]_vars, \A t \in Tasks : ~Admit(t)
  PROVE  Calmly
<1>1. CASE UNCHANGED vars BY <1>1, CalmlyKept DEF vars
<1>2. CASE Process
  <2>1. UNCHANGED task
    BY <1>2 DEF Process, DrainStarts, DrainFindsNothing, DrainEnds, Close,
                ShutDown, Crash, Restart, Initialized, RegisterOwner
  <2>2. QED BY <2>1, CalmlyKept
<1>3. ASSUME NEW t \in Tasks,
             \/ CancelStopped(t) \/ AdmitFails(t) \/ Dispatch(t)
             \/ Control(t) \/ Reconcile(t) \/ OwnerCall(t) \/ Upstream(t)
             \/ BootTask(t) \/ BootWatches(t) \/ OperatorContains(t)
      PROVE Calmly
  <2>0. task[t] \in TaskRecord /\ Shape(task[t]) BY DEF RecordsOK
  <2>1. CASE CancelStopped(t)
    BY <2>0, <2>1, CalmTransitioned, CalmlyUpdated DEF CancelStopped
  <2>2. CASE AdmitFails(t) BY <2>2, CalmlyKept DEF AdmitFails
  <2>3. CASE Dispatch(t) BY <2>3, DispatchCalm
  <2>4. CASE Control(t) BY <2>4, ControlCalm
  <2>5. CASE Reconcile(t) BY <2>5, ReconcileCalm DEF TypeOK
  <2>6. CASE OwnerCall(t) BY <2>6, OwnerCallCalm
  <2>7. CASE Upstream(t)
    BY <2>7, CalmlyKept DEF Upstream, HermesAccepts, HermesMoves
  <2>8. CASE BootTask(t)
    <3>1. CASE UNCHANGED task BY <3>1, CalmlyKept
    <3>2. CASE task' = [task EXCEPT ![t] = Fenced(task[t])]
      BY <2>0, <3>2, CalmTransitioned, CalmlyUpdated DEF Fenced
    <3>3. QED BY <2>8, <3>1, <3>2 DEF BootTask
  <2>9. CASE BootWatches(t) BY <2>9, CalmlyKept DEF BootWatches
  <2>10. CASE OperatorContains(t)
    BY <2>0, <2>10, CalmContained, CalmlyUpdated DEF OperatorContains
  <2>11. QED
    BY <1>3, <2>1, <2>2, <2>3, <2>4, <2>5, <2>6, <2>7, <2>8, <2>9, <2>10
<1>4. QED BY <1>1, <1>2, <1>3 DEF Next

-----------------------------------------------------------------------------
(* Type correctness. *)

LEMMA InitSound == Init => Sound
<1> SUFFICES ASSUME Init PROVE Sound OBVIOUS
<1>1. Absent \in TaskRecord /\ Shape(Absent)
  BY DEF Absent, TaskRecord, Shape
<1>2. "none" \in RunStates BY DEF RunStates
<1>3. op \in [Tasks -> [Roles -> Operation]] BY PointTypes DEF Init
<1>4. again \in BOOLEAN BY Zenon DEF Init
<1>5. TypeOK BY <1>1, <1>2, <1>3, <1>4 DEF Init, TypeOK
<1>6. RecordsOK BY <1>1 DEF Init, RecordsOK
<1>7. QED BY <1>5, <1>6 DEF Sound

\* Given well-formed records, dispatch keeps every type,
LEMMA DispatchTypes ==
  ASSUME TypeOK, task' \in [Tasks -> TaskRecord], NEW t \in Tasks, Dispatch(t)
  PROVE  TypeOK'
<1> USE DEF TypeOK, drainVars, timerVars, hermesVars, bounds, Fault, Roles
<1>0. \A pc \in Points : At(pc, "none", "none") \in Operation
  BY PointTypes DEF RunStates
<1>1. CASE StartDispatch(t)
  BY <1>0, <1>1, PointTypes, PutType DEF StartDispatch, Points
<1>2. CASE SettleRejection(t)
  BY <1>0, <1>2, PointTypes, PutType, WakeUpTypes DEF SettleRejection
<1>3. CASE SettleAmbiguity(t)
  BY <1>0, <1>3, PointTypes, PutType DEF SettleAmbiguity
<1>4. CASE PersistAccepted(t)
  <2>0. task' = [task EXCEPT ![t] = Accepted(task[t])]
    BY <1>4 DEF PersistAccepted
  <2>1. Accepted(task[t]) \in TaskRecord
    <3>1. task'[t] = Accepted(task[t]) BY <2>0
    <3>2. QED BY <3>1
  <2>2. \/ Put(t, "dispatch", StopEntry("dispatch", Accepted(task[t])))
        \/ Put(t, "dispatch", Idle)
    BY <1>4 DEF PersistAccepted
  <2>3. /\ op' \in [Tasks -> [Roles -> Operation]]
        /\ denying' \subseteq Tasks \X Roles
    BY <2>1, <2>2, PointTypes, PutType, StopEntryType
  <2>4. QED BY <1>4, <2>3, WakeUpTypes DEF PersistAccepted
<1>5. CASE RunIdArrives(t)
  BY <1>0, <1>5, PutType DEF RunIdArrives, Points
<1>6. CASE AnswerLost(t)
  BY <1>0, <1>6, PutType DEF AnswerLost, Points
<1>7. CASE RetryTimer(t) BY <1>7, WakeUpTypes DEF RetryTimer, stopVars
<1>8. CASE RunIdAbandoned(t)
  BY <1>8, PointTypes, PutType DEF RunIdAbandoned
<1>9. ASSUME NEW kind \in {"busy", "refused"}, HermesRejects(t, kind)
      PROVE TypeOK'
  BY <1>0, <1>9, PutType DEF HermesRejects, Points
<1>10. QED
  BY <1>1, <1>2, <1>3, <1>4, <1>5, <1>6, <1>7, <1>8, <1>9 DEF Dispatch

\* so do stops,
LEMMA ControlTypes ==
  ASSUME TypeOK, task' \in [Tasks -> TaskRecord], NEW t \in Tasks, Control(t)
  PROVE  TypeOK'
<1> USE DEF TypeOK, drainVars, timerVars, hermesVars, bounds, Fault
<1>0. /\ \A pc \in Points : At(pc, "none", "none") \in Operation
      /\ \A r \in Roles : StopEntry(r, task[t]) \in Operation
  BY PointTypes, StopEntryType DEF RunStates
<1>1. StopSettles(t) =>
        /\ op' \in [Tasks -> [Roles -> Operation]]
        /\ denying' \subseteq Tasks \X Roles
        /\ sending' \subseteq Tasks
  BY PointTypes DEF StopSettles
<1>2. [run EXCEPT ![t] = IF @ \in Live THEN "stopping" ELSE @]
        \in [Tasks -> RunStates]
  BY DEF RunStates, Live
<1>3. ASSUME NEW r \in Roles, MarkStop(t, r) PROVE TypeOK'
  <2>1. /\ task' = [task EXCEPT ![t] = StopMarked(task[t])]
        /\ Put(t, r, StopEntry(r, StopMarked(task[t])))
    BY <1>3 DEF MarkStop
  <2>2. task'[t] = StopMarked(task[t]) BY <2>1
  <2>3. StopEntry(r, StopMarked(task[t])) \in Operation
    BY <2>2, StopEntryType
  <2>4. /\ op' \in [Tasks -> [Roles -> Operation]]
        /\ denying' \subseteq Tasks \X Roles
    BY <2>1, <2>3, PutType
  <2>5. QED BY <1>3, <2>4 DEF MarkStop
<1>4. ASSUME NEW r \in Roles, HaltRun(t, r) PROVE TypeOK'
  <2>1. Put(t, r, After(r)) \/ Put(t, r, At("await", "none", "none"))
    BY <1>4 DEF HaltRun
  <2>2. /\ op' \in [Tasks -> [Roles -> Operation]]
        /\ denying' \subseteq Tasks \X Roles
    BY <1>0, <2>1, PointTypes, PutType DEF Points
  <2>3. sending' \subseteq Tasks BY <1>4 DEF HaltRun
  <2>4. QED BY <1>4, <2>2, <2>3 DEF HaltRun
<1>5. CASE StopConfirmed(t)
  BY <1>1, <1>2, <1>5, WakeUpTypes DEF StopConfirmed
<1>6. CASE StopFails(t)
  <2>1. run' \in [Tasks -> RunStates] BY <1>2, <1>6 DEF StopFails
  <2>2. confirmed' \subseteq Tasks BY <1>6 DEF StopFails
  <2>3. poll' \subseteq Tasks BY <1>6, WakeUpTypes DEF StopFails
  <2>4. faults' \in Nat BY <1>6 DEF StopFails
  <2>5. QED BY <1>1, <1>6, <2>1, <2>2, <2>3, <2>4 DEF StopFails
<1>7. CASE StopAborted(t) BY <1>1, <1>2, <1>7 DEF StopAborted
<1>8. CASE StopReload(t)
  <2>1. Put(t, "stop", StopEntry("stop", task[t])) \/ Put(t, "stop", Idle)
    BY <1>8 DEF StopReload
  <2>2. /\ op' \in [Tasks -> [Roles -> Operation]]
        /\ denying' \subseteq Tasks \X Roles
    BY <1>0, <2>1, PointTypes, PutType DEF Roles
  <2>3. QED BY <1>8, <2>2 DEF StopReload
<1>9. QED BY <1>3, <1>4, <1>5, <1>6, <1>7, <1>8 DEF Control

\* reconciliation,
LEMMA AppliedTypes ==
  ASSUME TypeOK, NEW t \in Tasks, NEW r \in Roles, NEW target \in RunStates,
         NEW record, Applied(t, r, target, record)
  PROVE  /\ op' \in [Tasks -> [Roles -> Operation]]
         /\ denying' \subseteq Tasks \X Roles
         /\ confirmed' \subseteq Tasks
         /\ drain' \in {"idle", "queued", "running", "ending"}
         /\ again' \in BOOLEAN
<1>1. At("deny", "none", "none") \in Operation
  BY PointTypes DEF Points, RunStates
<1>2. /\ op' \in [Tasks -> [Roles -> Operation]]
      /\ denying' \subseteq Tasks \X Roles
  <2>1. CASE Put(t, r, After(r))
    BY <2>1, PointTypes, PutType DEF TypeOK
  <2>2. CASE /\ op' = [op EXCEPT ![t][r] = At("deny", "none", "none")]
             /\ denying' = denying \cup {<<t, r>>}
    BY <1>1, <2>2 DEF TypeOK
  <2>3. QED BY <2>1, <2>2 DEF Applied
<1>3. confirmed' \subseteq Tasks BY DEF Applied, TypeOK
<1>4. ScheduleDrain \/ UNCHANGED drainVars BY DEF Applied
<1>5. QED BY <1>2, <1>3, <1>4, WakeUpTypes DEF TypeOK, drainVars

LEMMA ReconcileTypes ==
  ASSUME TypeOK, task' \in [Tasks -> TaskRecord], NEW t \in Tasks, Reconcile(t)
  PROVE  TypeOK'
<1> USE DEF TypeOK, drainVars, timerVars, hermesVars, bounds, stopVars, Fault
<1>0. /\ \A pc \in Points : At(pc, "none", "none") \in Operation
      /\ \A r \in Roles : StopEntry(r, task[t]) \in Operation
      /\ Snapshot(run[t]) \in Operation
      /\ \A r \in Roles : op[t][r].arg \in RunStates
  <2>1. \A pc \in Points : At(pc, "none", "none") \in Operation
    BY PointTypes DEF RunStates
  <2>2. \A r \in Roles : StopEntry(r, task[t]) \in Operation
    BY StopEntryType
  <2>3. Snapshot(run[t]) \in Operation BY SnapshotType
  <2>4. \A r \in Roles : op[t][r].arg \in RunStates BY DEF Operation
  <2>5. QED BY <2>1, <2>2, <2>3, <2>4
<1>1. CASE PollFires(t)
  <2>1. \/ Put(t, "poll", At("get", "none", "none"))
        \/ Put(t, "poll", After("poll"))
    BY <1>1 DEF PollFires
  <2>2. /\ op' \in [Tasks -> [Roles -> Operation]]
        /\ denying' \subseteq Tasks \X Roles
    BY <1>0, <2>1, PointTypes, PutType DEF Points, Roles
  <2>3. QED BY <1>1, <2>2 DEF PollFires
<1>2. CASE Rearm(t)
  <2>1. op' \in [Tasks -> [Roles -> Operation]]
    BY <1>2, PointTypes DEF Rearm
  <2>2. QED BY <1>2, <2>1, WakeUpTypes DEF Rearm
<1>3. CASE WatchEnds(t) BY <1>3, WakeUpTypes DEF WatchEnds
<1>4. CASE RunEvent(t)
  <2>1. /\ op' \in [Tasks -> [Roles -> Operation]]
        /\ denying' \subseteq Tasks \X Roles
    BY <1>0, <1>4, PutType DEF RunEvent, Roles
  <2>2. QED BY <1>4, <2>1 DEF RunEvent
<1>5. CASE RunEventMismatch(t)
  <2>1. UNCHANGED memory /\ faults' \in Nat BY <1>5 DEF RunEventMismatch
  <2>2. /\ UNCHANGED <<booting, owners, drain, again, backoff, poll>>
        /\ UNCHANGED <<suppressed, watching, confirmed, sending, denying, op>>
    BY <2>1 DEF memory
  <2>3. QED BY <1>5, <2>1, <2>2 DEF RunEventMismatch
<1>6. ASSUME NEW r \in Roles, SnapshotArrives(t, r) PROVE TypeOK'
  <2>1. /\ op' \in [Tasks -> [Roles -> Operation]]
        /\ denying' \subseteq Tasks \X Roles
    BY <1>0, <1>6, PutType DEF SnapshotArrives
  <2>2. QED BY <1>6, <2>1 DEF SnapshotArrives
<1>7. ASSUME NEW r \in Roles, SnapshotFails(t, r) PROVE TypeOK'
  BY <1>7, PointTypes, PutType DEF SnapshotFails
<1>8. ASSUME NEW r \in Roles, NEW gone \in BOOLEAN, SnapshotRefuted(t, r, gone)
      PROVE TypeOK'
  BY <1>8, PointTypes, PutType DEF SnapshotRefuted
<1>9. ASSUME NEW r \in Roles, ApplyRunning(t, r) PROVE TypeOK'
  <2>1. At("move", "running", "none") \in Operation
    BY PointTypes DEF Points, RunStates, Live
  <2>2. \/ Put(t, r, After(r)) \/ Put(t, r, StopEntry(r, task[t]))
        \/ Put(t, r, At("move", "running", "none"))
    BY <1>9 DEF ApplyRunning
  <2>3. /\ op' \in [Tasks -> [Roles -> Operation]]
        /\ denying' \subseteq Tasks \X Roles
    BY <1>0, <2>1, <2>2, PointTypes, PutType
  <2>4. QED BY <1>9, <2>3 DEF ApplyRunning
<1>10. ASSUME NEW r \in Roles, MoveToStatus(t, r) PROVE TypeOK'
  <2>1. CASE Applied(t, r, op[t][r].arg, task[t])
    BY <1>0, <1>10, <2>1, AppliedTypes DEF MoveToStatus
  <2>2. CASE Put(t, r, At("write", op[t][r].arg, "none"))
             /\ UNCHANGED <<confirmed, drainVars>>
    <3>1. At("write", op[t][r].arg, "none") \in Operation
      BY <1>0, PointTypes DEF Points
    <3>2. /\ op' \in [Tasks -> [Roles -> Operation]]
          /\ denying' \subseteq Tasks \X Roles
      BY <2>2, <3>1, PutType
    <3>3. QED BY <1>10, <2>2, <3>2 DEF MoveToStatus
  <2>3. QED BY <1>10, <2>1, <2>2 DEF MoveToStatus
<1>11. ASSUME NEW r \in Roles, WriteStatus(t, r) PROVE TypeOK'
  <2>1. Applied(t, r, op[t][r].arg, Transitioned(task[t], op[t][r].arg))
    BY <1>11 DEF WriteStatus
  <2>2. QED BY <1>0, <1>11, <2>1, AppliedTypes DEF WriteStatus
<1>12. ASSUME NEW r \in Roles, ApprovalDenied(t, r) PROVE TypeOK'
  <2>1. run' \in [Tasks -> RunStates]
    BY <1>12 DEF ApprovalDenied, RunStates, Live
  <2>2. Put(t, r, StopEntry(r, task[t])) \/ Put(t, r, After(r))
    BY <1>12 DEF ApprovalDenied
  <2>3. /\ op' \in [Tasks -> [Roles -> Operation]]
        /\ denying' \subseteq Tasks \X Roles
    BY <1>0, <2>2, PointTypes, PutType
  <2>4. QED BY <1>12, <2>1, <2>3 DEF ApprovalDenied
<1>13. QED
  BY <1>1, <1>2, <1>3, <1>4, <1>5, <1>6, <1>7, <1>8, <1>9, <1>10, <1>11,
     <1>12 DEF Reconcile

\* the calls of the owner and the process itself.
LEMMA OwnerCallTypes ==
  ASSUME TypeOK, task' \in [Tasks -> TaskRecord], NEW t \in Tasks, OwnerCall(t)
  PROVE  TypeOK'
<1> USE DEF TypeOK, drainVars, timerVars, hermesVars, bounds, stopVars
<1>1. CASE Submit(t)
  <2>1. order' \in Seq(Tasks) BY <1>1 DEF Submit
  <2>2. QED BY <1>1, <2>1, WakeUpTypes DEF Submit
<1>2. CASE StopCall(t)
  <2>1. task' = [task EXCEPT ![t] = StopRequested(task[t])]
    BY <1>2 DEF StopCall
  <2>2. StopRequested(task[t]) \in TaskRecord
    <3>1. task'[t] = StopRequested(task[t]) BY <2>1
    <3>2. QED BY <3>1
  <2>3. \/ Put(t, "stop", At("reload", "none", "none"))
        \/ Put(t, "stop", StopEntry("stop", StopRequested(task[t])))
        \/ Put(t, "stop", Idle)
    BY <1>2 DEF StopCall
  <2>4. /\ At("reload", "none", "none") \in Operation
        /\ StopEntry("stop", StopRequested(task[t])) \in Operation
    BY <2>2, PointTypes, StopEntryType DEF Points, RunStates, Roles
  <2>5. /\ op' \in [Tasks -> [Roles -> Operation]]
        /\ denying' \subseteq Tasks \X Roles
    BY <2>3, <2>4, PointTypes, PutType DEF Roles
  <2>6. QED BY <1>2, <2>5 DEF StopCall
<1>3. CASE MarkDelegated(t) BY <1>3 DEF MarkDelegated
<1>4. ASSUME NEW outcome, ResolveDelegated(t, outcome) PROVE TypeOK'
  BY <1>4, WakeUpTypes DEF ResolveDelegated
<1>5. QED BY <1>1, <1>2, <1>3, <1>4 DEF OwnerCall

LEMMA ProcessTypes ==
  ASSUME TypeOK, task' \in [Tasks -> TaskRecord], Process
  PROVE  TypeOK'
<1> USE DEF TypeOK, drainVars, timerVars, hermesVars, bounds, stopVars
<1>1. CASE DrainStarts
  <2>1. again' \in BOOLEAN BY <1>1, Zenon DEF DrainStarts
  <2>2. QED BY <1>1, <2>1 DEF DrainStarts
<1>2. CASE DrainFindsNothing BY <1>2 DEF DrainFindsNothing
<1>3. CASE DrainEnds
  <2>1. again' \in BOOLEAN BY <1>3, Zenon DEF DrainEnds
  <2>2. QED BY <1>3, <2>1 DEF DrainEnds
<1>4. CASE Close
  <2>1. again' \in BOOLEAN BY <1>4, Zenon DEF Close
  <2>2. QED BY <1>4, <2>1 DEF Close
<1>5. ASSUME Forget
      PROVE  /\ booting' \subseteq Tasks /\ drain' = "idle"
             /\ again' \in BOOLEAN
             /\ backoff' \subseteq Tasks /\ poll' \subseteq Tasks
             /\ suppressed' \subseteq Tasks /\ watching' \subseteq Tasks
             /\ confirmed' \subseteq Tasks /\ sending' \subseteq Tasks
             /\ denying' \subseteq Tasks \X Roles
             /\ op' \in [Tasks -> [Roles -> Operation]]
  <2>1. again' \in BOOLEAN BY <1>5, Zenon DEF Forget
  <2>2. op' \in [Tasks -> [Roles -> Operation]]
    BY <1>5, PointTypes DEF Forget
  <2>3. QED BY <1>5, <2>1, <2>2 DEF Forget
<1>6. CASE ShutDown BY <1>5, <1>6 DEF ShutDown
<1>7. CASE Crash BY <1>5, <1>7 DEF Crash
<1>8. CASE Restart BY <1>8 DEF Restart
<1>9. CASE Initialized BY <1>9 DEF Initialized
<1>10. ASSUME NEW t \in Tasks, RegisterOwner(Owner[t]) PROVE TypeOK'
  BY <1>10, WakeUpTypes DEF RegisterOwner
<1>11. QED
  BY <1>1, <1>2, <1>3, <1>4, <1>6, <1>7, <1>8, <1>9, <1>10 DEF Process

LEMMA StepTypes ==
  ASSUME TypeOK, task' \in [Tasks -> TaskRecord], [Next]_vars
  PROVE  TypeOK'
<1> USE DEF TypeOK, drainVars, timerVars, hermesVars, bounds, stopVars
<1>1. CASE UNCHANGED vars BY <1>1 DEF vars, memory
<1>2. CASE Process BY <1>2, ProcessTypes
<1>3. ASSUME NEW t \in Tasks,
             \/ Admit(t) \/ CancelStopped(t) \/ AdmitFails(t) \/ Dispatch(t)
             \/ Control(t) \/ Reconcile(t) \/ OwnerCall(t) \/ Upstream(t)
             \/ BootTask(t) \/ BootWatches(t) \/ OperatorContains(t)
      PROVE TypeOK'
  <2>1. CASE Admit(t)
    <3>1. At("start", "none", "none") \in Operation
      BY PointTypes DEF Points, RunStates
    <3>2. /\ op' \in [Tasks -> [Roles -> Operation]]
          /\ denying' \subseteq Tasks \X Roles
      BY <2>1, <3>1, PutType DEF Admit, Roles
    <3>3. QED BY <2>1, <3>2 DEF Admit
  <2>2. CASE CancelStopped(t) \/ OperatorContains(t)
    BY <2>2 DEF CancelStopped, OperatorContains, memory
  <2>3. CASE AdmitFails(t) BY <2>3 DEF AdmitFails, Fault
  <2>4. CASE Dispatch(t) BY <2>4, DispatchTypes
  <2>5. CASE Control(t) BY <2>5, ControlTypes
  <2>6. CASE Reconcile(t) BY <2>6, ReconcileTypes
  <2>7. CASE OwnerCall(t) BY <2>7, OwnerCallTypes
  <2>8. CASE Upstream(t)
    <3>1. CASE HermesAccepts(t)
      BY <3>1 DEF HermesAccepts, memory, RunStates, Live
    <3>2. ASSUME NEW status \in RunStates, HermesMoves(t, status)
          PROVE TypeOK'
      BY <3>2 DEF HermesMoves, memory
    <3>3. QED BY <2>8, <3>1, <3>2 DEF Upstream
  <2>9. CASE BootTask(t)
    <3>1. At("get", "none", "none") \in Operation
      BY PointTypes DEF Points, RunStates
    <3>2. \/ Put(t, "boot", At("get", "none", "none"))
          \/ UNCHANGED <<op, denying>>
      BY <2>9 DEF BootTask
    <3>3. /\ op' \in [Tasks -> [Roles -> Operation]]
          /\ denying' \subseteq Tasks \X Roles
      BY <3>1, <3>2, PutType DEF Roles
    <3>4. QED BY <2>9, <3>3 DEF BootTask
  <2>10. CASE BootWatches(t)
    <3>1. op' \in [Tasks -> [Roles -> Operation]]
      BY <2>10, PointTypes DEF BootWatches
    <3>2. poll' \subseteq Tasks /\ watching' \subseteq Tasks
      BY <2>10, WakeUpTypes DEF BootWatches
    <3>3. QED BY <2>10, <3>1, <3>2 DEF BootWatches
  <2>11. QED
    BY <1>3, <2>1, <2>2, <2>3, <2>4, <2>5, <2>6, <2>7, <2>8, <2>9, <2>10
<1>4. QED BY <1>1, <1>2, <1>3 DEF Next

LEMMA StepSound ==
  ASSUME Sound, [Next]_vars
  PROVE  Sound'
<1>1. RecordsOK'
  <2>1. CASE \E t \in Tasks : Admit(t) BY <2>1, AdmitRecord DEF Sound
  <2>2. CASE \A t \in Tasks : ~Admit(t)
    BY <2>2, StepCalm DEF Sound, Calmly
  <2>3. QED BY <2>1, <2>2
<1>2. task' \in [Tasks -> TaskRecord] BY <1>1 DEF RecordsOK
<1>3. TypeOK' BY <1>2, StepTypes DEF Sound
<1>4. QED BY <1>1, <1>3 DEF Sound

\* The supervisor's state stays what its declarations say, and every durable
\* record stays well formed: a missing-run or containment marker never
\* outlives the doubtful status that justified it.
THEOREM SupervisorSound == Spec => []Sound
<1>1. Sound /\ [Next]_vars => Sound' BY StepSound
<1>2. QED BY InitSound, <1>1, PTL DEF Spec

\* Type correctness.
THEOREM TypeCorrect == Spec => []TypeOK
<1>1. Sound => TypeOK BY DEF Sound
<1>2. QED BY SupervisorSound, <1>1, PTL

-----------------------------------------------------------------------------
(* Slots and reservations: only an admission takes one, and its guard looks *)
(* at all that are taken.                                                   *)

LEMMA CalmTakesNothing ==
  ASSUME Calmly
  PROVE  ActiveTasks' \subseteq ActiveTasks /\ Holders' \subseteq Holders
BY DEF Calmly, Calm, ActiveTasks, Holders

LEMMA AdmitTakesOne ==
  ASSUME RecordsOK, NEW t \in Tasks, Admit(t)
  PROVE  ActiveTasks' \subseteq ActiveTasks \cup {t}
         /\ Holders' \subseteq Holders \cup {t}
BY AdmitRecord DEF ActiveTasks, Holders

LEMMA ActiveFinite ==
  /\ IsFiniteSet(ActiveTasks) /\ IsFiniteSet(ActiveTasks')
  /\ Cardinality(ActiveTasks) \in Nat /\ Cardinality(ActiveTasks') \in Nat
<1>1. ActiveTasks \in SUBSET Tasks /\ ActiveTasks' \in SUBSET Tasks
  BY DEF ActiveTasks
<1>2. IsFiniteSet(ActiveTasks) /\ IsFiniteSet(ActiveTasks')
  BY <1>1, FS_Subset, SupervisorAssumption
<1>3. QED BY <1>2, FS_CardinalityType

LEMMA SlotsStep ==
  ASSUME Sound, SlotsBounded, [Next]_vars
  PROVE  SlotsBounded'
<1>0. MaxConcurrent \in Nat BY SupervisorAssumption
<1>1. ASSUME NEW t \in Tasks, Admit(t) PROVE SlotsBounded'
  <2>1. Cardinality(ActiveTasks) < MaxConcurrent
    BY <1>1 DEF Admit, Admissible, Reached
  <2>2. /\ IsFiniteSet(ActiveTasks \cup {t})
        /\ Cardinality(ActiveTasks \cup {t}) <= Cardinality(ActiveTasks) + 1
    BY FS_AddElement, ActiveFinite
  <2>3. Cardinality(ActiveTasks \cup {t}) \in Nat
    BY <2>2, FS_CardinalityType
  <2>4. ActiveTasks' \in SUBSET (ActiveTasks \cup {t})
    BY <1>1, AdmitTakesOne DEF Sound
  <2>5. Cardinality(ActiveTasks') <= Cardinality(ActiveTasks \cup {t})
    BY <2>2, <2>4, FS_Subset
  <2>6. QED
    BY <1>0, <2>1, <2>2, <2>3, <2>5, ActiveFinite DEF SlotsBounded
<1>2. CASE \A t \in Tasks : ~Admit(t)
  <2>1. ActiveTasks' \in SUBSET ActiveTasks
    BY <1>2, StepCalm, CalmTakesNothing DEF Sound
  <2>2. Cardinality(ActiveTasks') <= Cardinality(ActiveTasks)
    BY <2>1, ActiveFinite, FS_Subset
  <2>3. QED BY <1>0, <2>2, ActiveFinite DEF SlotsBounded
<1>3. QED BY <1>1, <1>2

LEMMA NothingHeldAtFirst ==
  ASSUME Init
  PROVE  ActiveTasks = {} /\ Holders = {}
<1>1. \A t \in Tasks : task[t] = Absent BY DEF Init
<1>2. ~Active(Absent) /\ ~Holding(Absent)
  BY DEF Active, Holding, Absent, HoldingStatuses, ActiveStatuses
<1>3. QED BY <1>1, <1>2 DEF ActiveTasks, Holders

\* The slot bound holds for every number of tasks, slots, faults, crashes and
\* restarts.
THEOREM SlotsAlwaysBounded == Spec => []SlotsBounded
<1>1. Init => SlotsBounded
  BY NothingHeldAtFirst, FS_EmptySet, SupervisorAssumption DEF SlotsBounded
<1>2. Sound /\ SlotsBounded /\ [Next]_vars => SlotsBounded'
  BY SlotsStep
<1>3. QED BY <1>1, <1>2, SupervisorSound, PTL DEF Spec

\* What canAdmit looks at suffices: an admitted task shares neither its
\* lineage nor an explicit resource with any holder, delegated ones included.
LEMMA AdmittedSharesNothing ==
  ASSUME RecordsOK, NEW t \in Tasks, CanAdmit(t), NEW h \in Holders
  PROVE  Root[h] # Root[t] /\ ~SharesExplicit(t, h)
<1>1. Holders # {} BY DEF Holders
<1>2. Root[h] # Root[t] BY <1>1 DEF CanAdmit
<1>3. ~(task[h].status = "delegated" /\ SharesExplicit(t, h))
  BY <1>1 DEF CanAdmit
<1>4. CASE \A k \in Holders : ~SharesExplicit(t, k) BY <1>2, <1>4
<1>5. CASE ActiveTasks = {}
  <2>1. task[h].status = "delegated"
    BY <1>5 DEF Holders, ActiveTasks, Holding, Active, HoldingStatuses
  <2>2. QED BY <1>2, <1>3, <2>1
<1>6. CASE \A k \in Holders : Disjoint(t, k)
  BY <1>2, <1>6 DEF Disjoint, SharesExplicit
<1>7. QED BY <1>1, <1>4, <1>5, <1>6 DEF CanAdmit

LEMMA ReservationsStep ==
  ASSUME Sound, ReservationsExclusive, [Next]_vars
  PROVE  ReservationsExclusive'
<1>1. ASSUME NEW t \in Tasks, Admit(t) PROVE ReservationsExclusive'
  <2>1. CanAdmit(t) BY <1>1 DEF Admit, Admissible
  <2>2. Holders' \subseteq Holders \cup {t}
    BY <1>1, AdmitTakesOne DEF Sound
  <2>3. \A h \in Holders :
          Root[h] # Root[t] /\ ~SharesExplicit(t, h) /\ ~SharesExplicit(h, t)
    BY <2>1, AdmittedSharesNothing DEF Sound, SharesExplicit
  <2>4. QED
    BY <2>2, <2>3
       DEF ReservationsExclusive, SharesExplicit, ResourceKeys, Scoped
<1>2. CASE \A t \in Tasks : ~Admit(t)
  <2>1. Holders' \subseteq Holders
    BY <1>2, StepCalm, CalmTakesNothing DEF Sound
  <2>2. QED
    BY <2>1 DEF ReservationsExclusive, SharesExplicit, ResourceKeys, Scoped
<1>3. QED BY <1>1, <1>2

\* Reservations stay exclusive for every lineage, key set and trust setting.
THEOREM ReservationsAlwaysExclusive == Spec => []ReservationsExclusive
<1>1. Init => ReservationsExclusive
  BY NothingHeldAtFirst DEF ReservationsExclusive
<1>2. Sound /\ ReservationsExclusive /\ [Next]_vars => ReservationsExclusive'
  BY ReservationsStep
<1>3. QED BY <1>1, <1>2, SupervisorSound, PTL DEF Spec

-----------------------------------------------------------------------------
(* What no step may do to a record. *)

\* A closed record is final, whatever operation still holds an older view of
\* it.
THEOREM ClosedStaysFinal == Spec => ClosedIsFinal
<1>1. ASSUME Sound, [Next]_vars, NEW t \in Tasks, Closed(task[t])
      PROVE  task'[t] \in {task[t], Contained(task[t])}
  <2>1. CASE \A u \in Tasks : ~Admit(u)
    BY <1>1, <2>1, StepCalm DEF Sound, Calmly, Calm
  <2>2. ASSUME NEW u \in Tasks, Admit(u)
        PROVE  task'[t] \in {task[t], Contained(task[t])}
    <3>1. task[u].status = "queued" /\ Shape(task[u])
      BY <1>1, <2>2, AdmitRecord DEF Sound, RecordsOK
    <3>2. u # t BY <1>1, <3>1 DEF Closed, Terminal, Shape
    <3>3. QED BY <1>1, <2>2, <3>2, AdmitRecord DEF Sound
  <2>3. QED BY <2>1, <2>2
<1>2. Sound /\ [Next]_vars =>
        [\A t \in Tasks :
           Closed(task[t]) => task'[t] \in {task[t], Contained(task[t])}]_vars
  BY <1>1
<1>3. QED BY <1>2, SupervisorSound, PTL DEF Spec, ClosedIsFinal

\* A stop intent is never lost, and work that carries one is never admitted
\* (again).
THEOREM StopIntentAlwaysKept == Spec => StopIntentKept
<1>1. ASSUME Sound, [Next]_vars, NEW t \in Tasks, task[t].stop
      PROVE  /\ task'[t].stop
             /\ task[t].status = "queued" =>
                  task'[t].status \in {"queued", "cancelled"}
  <2>1. CASE \A u \in Tasks : ~Admit(u)
    BY <1>1, <2>1, StepCalm DEF Sound, Calmly, Calm
  <2>2. ASSUME NEW u \in Tasks, Admit(u)
        PROVE  task'[t] = task[t]
    BY <1>1, <2>2, AdmitRecord DEF Sound
  <2>3. QED BY <1>1, <2>1, <2>2
<1>2. Sound /\ [Next]_vars =>
        [\A t \in Tasks :
           task[t].stop =>
             /\ task'[t].stop
             /\ task[t].status = "queued" =>
                  task'[t].status \in {"queued", "cancelled"}]_vars
  BY <1>1
<1>3. QED BY <1>2, SupervisorSound, PTL DEF Spec, StopIntentKept

-----------------------------------------------------------------------------
(* One run per task *)

\* Points of dispatchTask before the run id is in the record, and of any
\* operation that works on a run the record names.
Starting == {"start", "post", "busy", "refused", "ambiguous", "accepted"}
Following ==
  {"get", "apply", "move", "write", "deny", "mark", "halt", "await"}

\* Statuses of a record that names its run, and of one that does not.
RunStatuses == Statuses \ {"queued", "dispatching", "dispatch_unknown"}
Doubtful == {"dispatching", "dispatch_unknown"}
Runless == Doubtful \cup {"absent", "queued", "cancelled", "failed"}

Untouched(t) == runs[t] = 0 /\ t \notin wire

\* How far dispatchTask got tells what Hermes may know of the task; the
\* operation exists only in a process that finished its initialization.
DispatchAccounted(t) ==
  LET point == op[t]["dispatch"].pc
  IN /\ point \in Starting => task[t].status = "dispatching"
     /\ point \in {"start", "busy", "refused"} => Untouched(t)
     /\ point = "accepted" => runs[t] = 1
     /\ phase \in {"init", "down"} => op[t]["dispatch"] = Idle

\* One run at most, from at most one start request.
RunsAccounted(t) ==
  /\ runs[t] \in {0, 1}
  /\ run[t] = "none" <=> runs[t] = 0
  /\ t \in wire => runs[t] = 0
  /\ task[t].run => runs[t] = 1

\* A record without a run id is doubtful, or Hermes knows nothing of its task.
RecordAccounted(t) ==
  /\ task[t].run => task[t].status \in RunStatuses
  /\ ~task[t].run => task[t].status \in Runless
  /\ ~task[t].run /\ task[t].status \notin Doubtful => Untouched(t)

\* Whatever follows or stops a run has its id from the record.
FollowersAccounted(t) ==
  /\ t \in watching \cup sending => task[t].run
  /\ \A r \in Roles : op[t][r].pc \in Following => task[t].run

AccountedFor(t) ==
  /\ DispatchAccounted(t) /\ RunsAccounted(t)
  /\ RecordAccounted(t) /\ FollowersAccounted(t)

\* The inductive invariant of this module, beside Sound.
Accounted == \A t \in Tasks : AccountedFor(t)

-----------------------------------------------------------------------------
(* Records. *)

LEMMA StatusSets ==
  /\ RunStatuses = {"running", "waiting_for_approval", "stopping", "unknown",
                    "delegated", "completed", "failed", "cancelled"}
  /\ RunStatuses \cap Doubtful = {} /\ "queued" \notin RunStatuses
  /\ "absent" \notin RunStatuses
BY DEF RunStatuses, Doubtful, Statuses, HoldingStatuses, ActiveStatuses,
       Terminal

\* What a record that names its run may be rewritten to, and what leaves any
\* record as it was, as far as its run is concerned.
SameRun(r, q) ==
  /\ q.run = r.run
  /\ \/ q.status = r.status
     \/ r.run /\ q.status \in RunStatuses

LEMMA MovedRun ==
  ASSUME NEW r \in TaskRecord, NEW s \in Statuses
  PROVE  /\ Moved(r, s).run = r.run /\ Moved(r, s).status = s
         /\ Moved(r, s).contained = r.contained
BY DEF Moved, TaskRecord

LEMMA SameRunTransitioned ==
  ASSUME NEW r \in TaskRecord, r.run, r.status \in RunStatuses, NEW s
  PROVE  SameRun(r, Transitioned(r, s))
<1>1. CASE Closed(r) \/ s \notin Allowed[r.status]
  BY <1>1 DEF Transitioned, SameRun
<1>2. CASE ~Closed(r) /\ s \in Allowed[r.status]
  <2>1. s \in RunStatuses
    BY <1>2, StatusSets, AllowedByStatus DEF Terminal
  <2>2. s \in Statuses BY <2>1 DEF RunStatuses
  <2>3. QED BY <1>2, <2>1, <2>2, MovedRun DEF Transitioned, SameRun
<1>3. QED BY <1>1, <1>2

LEMMA SameRunStopMarked ==
  ASSUME NEW r \in TaskRecord
  PROVE  SameRun(r, StopMarked(r))
BY DEF StopMarked, SameRun, TaskRecord

LEMMA SameRunUnknowned ==
  ASSUME NEW r \in TaskRecord, r.run, NEW gone \in BOOLEAN
  PROVE  SameRun(r, Unknowned(r, gone))
BY StatusSets DEF Unknowned, SameRun, TaskRecord

LEMMA SameRunContained ==
  ASSUME NEW r \in TaskRecord
  PROVE  SameRun(r, Contained(r))
BY DEF Contained, SameRun, TaskRecord

-----------------------------------------------------------------------------
(* Operations. *)

Resting == {"idle", "rearm", "bootend"}

LEMMA PointsReached ==
  /\ Idle.pc = "idle"
  /\ \A pc, arg, seen : At(pc, arg, seen).pc = pc
  /\ \A r \in Roles : After(r).pc \in Resting
  /\ After("dispatch") = Idle
  /\ \A r \in Roles : \A record :
       StopEntry(r, record).pc \in Resting \cup {"mark", "halt"}
  /\ \A status : Snapshot(status).pc \in {"apply", "move"}
BY DEF Idle, At, After, StopEntry, Snapshot, Resting, Roles

LEMMA PutPoint ==
  ASSUME op \in [Tasks -> [Roles -> Operation]],
         NEW t \in Tasks, NEW r \in Roles, NEW o, Put(t, r, o)
  PROVE  /\ op'[t][r] = o
         /\ \A x \in Roles \ {r} : op'[t][x] = op[t][x]
         /\ \A u \in Tasks \ {t} : op'[u] = op[u]
BY DEF Put

\* What a task that a step does not concern keeps.
Same(u) ==
  /\ UNCHANGED <<task[u], op[u], run[u], runs[u], phase>>
  /\ u \in wire' <=> u \in wire
  /\ u \in watching' <=> u \in watching
  /\ u \in sending' <=> u \in sending

Elsewhere(t) == \A u \in Tasks \ {t} : Same(u)

LEMMA SameAccounted ==
  ASSUME NEW u, AccountedFor(u), Same(u)
  PROVE  AccountedFor(u)'
BY DEF AccountedFor, Same, DispatchAccounted, RunsAccounted, RecordAccounted,
       FollowersAccounted, Untouched

\* A step on t that neither starts it nor gives it a run, in parts: its record
\* names the run it named; its operations go to resting points, or to points
\* whose run the record names; Hermes' run moves but does not begin; and only
\* a task whose record names its run is watched or stopped.
RecordContinues(t) ==
  /\ SameRun(task[t], task'[t])
  /\ \A u \in Tasks \ {t} : task'[u] = task[u]

PointContinues(t, r, o) ==
  /\ o.pc \in Following => task[t].run
  /\ o.pc \notin Starting
  /\ r = "dispatch" => phase \notin {"init", "down"} \/ o = Idle

OpsContinue(t) ==
  /\ \A r \in Roles :
       op'[t][r] = op[t][r] \/ PointContinues(t, r, op'[t][r])
  /\ \A u \in Tasks \ {t} : op'[u] = op[u]

RunContinues(t) ==
  /\ run'[t] = "none" <=> run[t] = "none"
  /\ \A u \in Tasks \ {t} : run'[u] = run[u]

FollowersContinue(t) ==
  /\ t \in watching' \cup sending' =>
       t \in watching \cup sending \/ task[t].run
  /\ \A u \in Tasks \ {t} :
       /\ u \in watching' <=> u \in watching
       /\ u \in sending' <=> u \in sending

Continues(t) ==
  /\ RecordContinues(t) /\ OpsContinue(t)
  /\ RunContinues(t) /\ FollowersContinue(t)
  /\ UNCHANGED <<runs, wire, phase>>

LEMMA ContinuesElsewhere ==
  ASSUME NEW t \in Tasks, Continues(t)
  PROVE  Elsewhere(t)
BY DEF Continues, RecordContinues, OpsContinue, RunContinues,
       FollowersContinue, Elsewhere, Same

LEMMA ContinuesAccounted ==
  ASSUME NEW t \in Tasks, AccountedFor(t), Continues(t)
  PROVE  AccountedFor(t)'
<1> USE DEF AccountedFor, Continues
<1>0. "dispatch" \in Roles BY DEF Roles
<1>1. /\ task'[t].run = task[t].run
      /\ \/ task'[t].status = task[t].status
         \/ task[t].run /\ task'[t].status \in RunStatuses
  BY DEF RecordContinues, SameRun
<1>2. RunsAccounted(t)' BY <1>1 DEF RunsAccounted, RunContinues
<1>3. RecordAccounted(t)' BY <1>1 DEF RecordAccounted, Untouched
<1>4. FollowersAccounted(t)'
  BY <1>1 DEF FollowersAccounted, FollowersContinue, OpsContinue,
              PointContinues
<1>5. DispatchAccounted(t)'
  <2>1. CASE op'[t]["dispatch"] = op[t]["dispatch"]
    <3>1. op[t]["dispatch"].pc \in Starting => ~task[t].run
      BY StatusSets DEF DispatchAccounted, RecordAccounted, Doubtful
    <3>2. QED BY <2>1, <1>1, <3>1 DEF DispatchAccounted, Untouched
  <2>2. CASE op'[t]["dispatch"] # op[t]["dispatch"]
    <3>1. PointContinues(t, "dispatch", op'[t]["dispatch"])
      BY <1>0, <2>2 DEF OpsContinue
    <3>2. QED BY <3>1 DEF DispatchAccounted, Starting, PointContinues
  <2>3. QED BY <2>1, <2>2
<1>6. QED BY <1>2, <1>3, <1>4, <1>5

\* The parts, from the shape of the actions.
LEMMA RecordUnchanged ==
  ASSUME NEW t, UNCHANGED task
  PROVE  RecordContinues(t)
BY DEF RecordContinues, SameRun

LEMMA RecordRewritten ==
  ASSUME task \in [Tasks -> TaskRecord], NEW t \in Tasks, NEW q,
         SameRun(task[t], q), task' = [task EXCEPT ![t] = q]
  PROVE  RecordContinues(t)
BY DEF RecordContinues

LEMMA OpsUnchanged ==
  ASSUME NEW t, UNCHANGED op
  PROVE  OpsContinue(t)
BY DEF OpsContinue

LEMMA OpPut ==
  ASSUME op \in [Tasks -> [Roles -> Operation]],
         NEW t \in Tasks, NEW r \in Roles, NEW o, PointContinues(t, r, o),
         Put(t, r, o)
  PROVE  OpsContinue(t)
BY PutPoint DEF OpsContinue

\* An operation that is through rests; one that works on the run of a record
\* goes on working on it.
LEMMA AfterContinues ==
  ASSUME NEW t, NEW r \in Roles
  PROVE  PointContinues(t, r, After(r))
BY PointsReached DEF PointContinues, Following, Resting, Starting

LEMMA PointsContinue ==
  ASSUME NEW t, NEW r \in Roles,
         r = "dispatch" => phase \notin {"init", "down"},
         NEW o, o.pc \in Following \cup Resting,
         o.pc \in Following => task[t].run
  PROVE  PointContinues(t, r, o)
BY DEF PointContinues, Following, Resting, Starting

LEMMA RunUnchanged ==
  ASSUME NEW t, UNCHANGED run
  PROVE  RunContinues(t)
BY DEF RunContinues

LEMMA FollowersUnchanged ==
  ASSUME NEW t, UNCHANGED <<watching, sending>>
  PROVE  FollowersContinue(t)
BY DEF FollowersContinue

-----------------------------------------------------------------------------
(* The steps of stops, polls and events follow a run the record names. *)

\* What they know of the task they work on.
LEMMA FollowedRun ==
  ASSUME TypeOK, NEW t \in Tasks, AccountedFor(t)
  PROVE  /\ t \in sending \/ t \in watching => task[t].run
         /\ task[t].run => task[t].status \in RunStatuses
         /\ \A r \in Roles : op[t][r].pc \in Following =>
              /\ task[t].run
              /\ r = "dispatch" => phase \notin {"init", "down"}
BY PointsReached
   DEF AccountedFor, FollowersAccounted, RecordAccounted, DispatchAccounted,
       Following

LEMMA ControlContinues ==
  ASSUME TypeOK, NEW t \in Tasks, AccountedFor(t), Control(t)
  PROVE  Continues(t)
<1> USE DEF TypeOK, drainVars, timerVars, hermesVars, bounds
<1>0. task[t] \in TaskRecord
  OBVIOUS
<1>a. ASSUME StopSettles(t)
      PROVE  OpsContinue(t)
  BY <1>a, AfterContinues DEF StopSettles, OpsContinue
<1>b. ASSUME run' \in {run, [run EXCEPT ![t] =
                         IF @ \in Live THEN "stopping" ELSE @]}
      PROVE  RunContinues(t)
  BY <1>b DEF RunContinues, Live
<1>c. ASSUME StopSettles(t), UNCHANGED watching
      PROVE  FollowersContinue(t)
  BY <1>c DEF StopSettles, FollowersContinue
<1>1. ASSUME NEW r \in Roles, MarkStop(t, r) PROVE Continues(t)
  <2> DEFINE o == StopEntry(r, StopMarked(task[t]))
  <2>1. /\ Put(t, r, o) /\ task[t].run
        /\ r = "dispatch" => phase \notin {"init", "down"}
    BY <1>1, FollowedRun DEF MarkStop, Following
  <2>2. o.pc \in Following \cup Resting
    BY PointsReached DEF Following
  <2> HIDE DEF o
  <2>3. OpsContinue(t) BY <2>1, <2>2, PointsContinue, OpPut
  <2>4. RecordContinues(t)
    BY <1>0, <1>1, SameRunStopMarked, RecordRewritten DEF MarkStop
  <2>5. QED
    BY <1>1, <2>3, <2>4, RunUnchanged, FollowersUnchanged
       DEF MarkStop, Continues
<1>2. ASSUME NEW r \in Roles, HaltRun(t, r) PROVE Continues(t)
  <2>1. /\ task[t].run /\ task[t].status \in RunStatuses
        /\ r = "dispatch" => phase \notin {"init", "down"}
    BY <1>2, FollowedRun DEF HaltRun, Following
  <2>2. OpsContinue(t)
    <3>1. Put(t, r, After(r)) \/ Put(t, r, At("await", "none", "none"))
      BY <1>2 DEF HaltRun
    <3>2. At("await", "none", "none").pc \in Following
      BY PointsReached DEF Following
    <3>3. PointContinues(t, r, At("await", "none", "none"))
      BY <2>1, <3>2, PointsContinue
    <3>4. QED BY <3>1, <3>3, AfterContinues, OpPut
  <2>3. RecordContinues(t)
    <3>1. \/ UNCHANGED task
          \/ task' = [task EXCEPT ![t] = Transitioned(task[t], "stopping")]
      BY <1>2 DEF HaltRun
    <3>2. QED
      BY <1>0, <2>1, <3>1, SameRunTransitioned, RecordUnchanged,
         RecordRewritten
  <2>4. FollowersContinue(t) BY <1>2, <2>1 DEF HaltRun, FollowersContinue
  <2>5. QED
    BY <1>2, <2>2, <2>3, <2>4, RunUnchanged DEF HaltRun, Continues
<1>3. CASE StopConfirmed(t)
  <2>1. run' \in {run, [run EXCEPT ![t] =
                    IF @ \in Live THEN "stopping" ELSE @]}
    BY <1>3 DEF StopConfirmed
  <2>2. QED
    BY <1>3, <1>a, <1>b, <1>c, <2>1, RecordUnchanged
       DEF StopConfirmed, Continues
<1>4. CASE StopFails(t)
  <2>1. task[t].run BY <1>4, FollowedRun DEF StopFails
  <2>2. RecordContinues(t)
    BY <1>0, <1>4, <2>1, SameRunUnknowned, RecordRewritten DEF StopFails
  <2>3. QED
    BY <1>4, <1>a, <1>b, <1>c, <2>2 DEF StopFails, Continues
<1>5. CASE StopAborted(t)
  BY <1>5, <1>a, <1>b, <1>c, RecordUnchanged DEF StopAborted, Continues
<1>6. CASE StopReload(t)
  <2> DEFINE o == IF task[t].run THEN StopEntry("stop", task[t]) ELSE Idle
  <2>1. "stop" \in Roles BY DEF Roles
  <2>2. o.pc \in Following \cup Resting /\ (o.pc \in Following => task[t].run)
    BY <2>1, PointsReached DEF Following, Resting
  <2>3. Put(t, "stop", o) BY <1>6 DEF StopReload
  <2> HIDE DEF o
  <2>4. OpsContinue(t) BY <2>1, <2>2, <2>3, PointsContinue, OpPut
  <2>5. QED
    BY <1>6, <2>4, RecordUnchanged, RunUnchanged, FollowersUnchanged
       DEF StopReload, Continues
<1>7. QED BY <1>1, <1>2, <1>3, <1>4, <1>5, <1>6 DEF Control
\* applySnapshot's end denies an approval of a run the record names, or rests.
LEMMA AppliedContinues ==
  ASSUME TypeOK, NEW t \in Tasks, NEW r \in Roles, NEW target, NEW record,
         task[t].run, r = "dispatch" => phase \notin {"init", "down"},
         Applied(t, r, target, record)
  PROVE  OpsContinue(t)
<1>1. CASE Put(t, r, After(r))
  BY <1>1, AfterContinues, OpPut DEF TypeOK
<1>2. CASE op' = [op EXCEPT ![t][r] = At("deny", "none", "none")]
  <2>1. At("deny", "none", "none").pc = "deny" BY PointsReached
  <2>2. PointContinues(t, r, At("deny", "none", "none"))
    BY <2>1, PointsContinue DEF Following
  <2>3. QED BY <1>2, <2>2 DEF TypeOK, OpsContinue
<1>3. QED BY <1>1, <1>2 DEF Applied

LEMMA ReconcileContinues ==
  ASSUME TypeOK, NEW t \in Tasks, AccountedFor(t), Reconcile(t)
  PROVE  Continues(t)
<1> USE DEF TypeOK, drainVars, timerVars, stopVars, hermesVars, memory, bounds
<1>0. /\ task[t] \in TaskRecord
      /\ {"poll", "watch", "boot"} \subseteq Roles \ {"dispatch"}
  BY DEF Roles
<1>1. CASE PollFires(t)
  <2> DEFINE o == IF task[t].run /\ ~Closed(task[t])
                  THEN At("get", "none", "none") ELSE After("poll")
  <2>1. o.pc \in Following \cup Resting /\ (o.pc \in Following => task[t].run)
    BY <1>0, PointsReached DEF Following, Resting
  <2>2. Put(t, "poll", o) BY <1>1 DEF PollFires
  <2> HIDE DEF o
  <2>3. OpsContinue(t) BY <1>0, <2>1, <2>2, PointsContinue, OpPut
  <2>4. QED
    BY <1>1, <2>3, RecordUnchanged, RunUnchanged, FollowersUnchanged
       DEF PollFires, Continues
<1>2. CASE Rearm(t)
  <2>1. OpsContinue(t)
    BY <1>0, <1>2, PointsReached
       DEF Rearm, OpsContinue, PointContinues, Following, Starting
  <2>2. QED
    BY <1>2, <2>1, RecordUnchanged, RunUnchanged, FollowersUnchanged
       DEF Rearm, Continues
<1>3. CASE WatchEnds(t)
  <2>1. FollowersContinue(t) BY <1>3 DEF WatchEnds, FollowersContinue
  <2>2. QED
    BY <1>3, <2>1, RecordUnchanged, RunUnchanged, OpsUnchanged
       DEF WatchEnds, Continues
<1>4. CASE RunEvent(t)
  <2>1. task[t].run /\ Put(t, "watch", Snapshot(run[t]))
    BY <1>4, FollowedRun DEF RunEvent
  <2>2. Snapshot(run[t]).pc \in Following BY PointsReached DEF Following
  <2>3. OpsContinue(t) BY <1>0, <2>1, <2>2, PointsContinue, OpPut
  <2>4. QED
    BY <1>4, <2>3, RecordUnchanged, RunUnchanged, FollowersUnchanged
       DEF RunEvent, Continues
<1>5. CASE RunEventMismatch(t)
  <2>1. task[t].run BY <1>5, FollowedRun DEF RunEventMismatch
  <2>2. RecordContinues(t)
    BY <1>0, <1>5, <2>1, SameRunUnknowned, RecordRewritten
       DEF RunEventMismatch
  <2>3. QED
    BY <1>5, <2>2, OpsUnchanged, RunUnchanged, FollowersUnchanged
       DEF RunEventMismatch, Continues
<1>6. ASSUME NEW r \in Roles, SnapshotArrives(t, r) PROVE Continues(t)
  <2>1. /\ task[t].run /\ r # "dispatch" /\ Put(t, r, Snapshot(run[t]))
    BY <1>6, FollowedRun DEF SnapshotArrives, Following
  <2>2. Snapshot(run[t]).pc \in Following BY PointsReached DEF Following
  <2>3. OpsContinue(t) BY <2>1, <2>2, PointsContinue, OpPut
  <2>4. QED
    BY <1>6, <2>3, RecordUnchanged, RunUnchanged, FollowersUnchanged
       DEF SnapshotArrives, Continues
<1>7. ASSUME NEW r \in Roles, SnapshotFails(t, r) PROVE Continues(t)
  <2>1. OpsContinue(t) BY <1>7, AfterContinues, OpPut DEF SnapshotFails
  <2>2. QED
    BY <1>7, <2>1, RecordUnchanged, RunUnchanged, FollowersUnchanged
       DEF SnapshotFails, Continues
<1>8. ASSUME NEW r \in Roles, NEW gone \in BOOLEAN, SnapshotRefuted(t, r, gone)
      PROVE Continues(t)
  <2>1. task[t].run BY <1>8, FollowedRun DEF SnapshotRefuted, Following
  <2>2. RecordContinues(t)
    BY <1>0, <1>8, <2>1, SameRunUnknowned, RecordRewritten
       DEF SnapshotRefuted
  <2>3. OpsContinue(t) BY <1>8, AfterContinues, OpPut DEF SnapshotRefuted
  <2>4. QED
    BY <1>8, <2>2, <2>3, RunUnchanged, FollowersUnchanged
       DEF SnapshotRefuted, Continues
<1>9. ASSUME NEW r \in Roles, ApplyRunning(t, r) PROVE Continues(t)
  <2>1. task[t].run /\ (r = "dispatch" => phase \notin {"init", "down"})
    BY <1>9, FollowedRun DEF ApplyRunning, Following
  <2>2. PICK o \in {After(r), StopEntry(r, task[t]),
                    At("move", "running", "none")} : Put(t, r, o)
    BY <1>9 DEF ApplyRunning
  <2>3. o.pc \in Following \cup Resting BY PointsReached DEF Following
  <2>4. OpsContinue(t) BY <2>1, <2>2, <2>3, PointsContinue, OpPut
  <2>5. QED
    BY <1>9, <2>4, RecordUnchanged, RunUnchanged, FollowersUnchanged
       DEF ApplyRunning, Continues
<1>10. ASSUME NEW r \in Roles, MoveToStatus(t, r) PROVE Continues(t)
  <2>1. task[t].run /\ (r = "dispatch" => phase \notin {"init", "down"})
    BY <1>10, FollowedRun DEF MoveToStatus, Following
  <2>2. \/ Put(t, r, At("write", op[t][r].arg, "none"))
        \/ Applied(t, r, op[t][r].arg, task[t])
    BY <1>10 DEF MoveToStatus
  <2>3. At("write", op[t][r].arg, "none").pc \in Following
    BY PointsReached DEF Following
  <2>4. OpsContinue(t)
    BY <2>1, <2>2, <2>3, PointsContinue, OpPut, AppliedContinues
  <2>5. QED
    BY <1>10, <2>4, RecordUnchanged, RunUnchanged, FollowersUnchanged
       DEF MoveToStatus, Continues
<1>11. ASSUME NEW r \in Roles, WriteStatus(t, r) PROVE Continues(t)
  <2>1. /\ task[t].run /\ task[t].status \in RunStatuses
        /\ r = "dispatch" => phase \notin {"init", "down"}
    BY <1>11, FollowedRun DEF WriteStatus, Following
  <2>2. /\ task' = [task EXCEPT ![t] = Transitioned(task[t], op[t][r].arg)]
        /\ Applied(t, r, op[t][r].arg, Transitioned(task[t], op[t][r].arg))
    BY <1>11 DEF WriteStatus
  <2>3. RecordContinues(t)
    BY <1>0, <2>1, <2>2, SameRunTransitioned, RecordRewritten
  <2>4. OpsContinue(t) BY <2>1, <2>2, AppliedContinues
  <2>5. QED
    BY <1>11, <2>3, <2>4, RunUnchanged, FollowersUnchanged
       DEF WriteStatus, Continues
<1>12. ASSUME NEW r \in Roles, ApprovalDenied(t, r) PROVE Continues(t)
  <2>1. task[t].run /\ (r = "dispatch" => phase \notin {"init", "down"})
    BY <1>12, FollowedRun DEF ApprovalDenied, Following
  <2>2. PICK o \in {After(r), StopEntry(r, task[t])} : Put(t, r, o)
    BY <1>12 DEF ApprovalDenied
  <2>3. o.pc \in Following \cup Resting BY PointsReached DEF Following
  <2>4. OpsContinue(t) BY <2>1, <2>2, <2>3, PointsContinue, OpPut
  <2>5. RunContinues(t) BY <1>12 DEF ApprovalDenied, RunContinues
  <2>6. QED
    BY <1>12, <2>4, <2>5, RecordUnchanged, FollowersUnchanged
       DEF ApprovalDenied, Continues
<1>13. QED
  BY <1>1, <1>2, <1>3, <1>4, <1>5, <1>6, <1>7, <1>8, <1>9, <1>10, <1>11,
     <1>12 DEF Reconcile

LEMMA FollowedKept ==
  ASSUME TypeOK, NEW t \in Tasks, AccountedFor(t),
         Control(t) \/ Reconcile(t)
  PROVE  AccountedFor(t)' /\ Elsewhere(t)
BY ControlContinues, ReconcileContinues, ContinuesAccounted,
   ContinuesElsewhere

-----------------------------------------------------------------------------
(* The steps of dispatch. *)

\* While dispatchTask is under way its record is dispatching and names no run,
\* and nothing else works on the task.
LEMMA StartingAlone ==
  ASSUME TypeOK, RecordsOK, NEW t \in Tasks, AccountedFor(t),
         op[t]["dispatch"].pc \in Starting
  PROVE  /\ task[t].status = "dispatching" /\ ~task[t].run
         /\ ~Closed(task[t])
         /\ t \notin watching /\ t \notin sending
         /\ \A r \in Roles : op[t][r].pc \notin Following
         /\ phase \notin {"init", "down"}
<1>1. task[t].status = "dispatching" BY DEF AccountedFor, DispatchAccounted
<1>2. ~task[t].run
  BY <1>1, StatusSets DEF AccountedFor, RecordAccounted, Doubtful
<1>3. ~Closed(task[t]) BY <1>1 DEF RecordsOK, Shape, Closed, Terminal
<1>4. phase \notin {"init", "down"}
  BY PointsReached DEF AccountedFor, DispatchAccounted, Starting
<1>5. QED
  BY <1>1, <1>2, <1>3, <1>4 DEF AccountedFor, FollowersAccounted

\* What dispatchTask leaves behind while the record names no run.
LEMMA DispatchMoves ==
  ASSUME TypeOK, RecordsOK, NEW t \in Tasks, AccountedFor(t),
         op[t]["dispatch"].pc \in Starting,
         NEW o, Put(t, "dispatch", o), o.pc \in Starting \cup {"idle"},
         UNCHANGED <<watching, sending, phase>>,
         ~task'[t].run, task'[t].status \in Runless,
         task'[t].status \notin Doubtful => Untouched(t)',
         o.pc \in Starting => task'[t].status = "dispatching",
         o.pc \in {"start", "busy", "refused"} => Untouched(t)',
         o.pc = "accepted" => runs'[t] = 1,
         runs'[t] \in {0, 1},
         run'[t] = "none" <=> runs'[t] = 0,
         t \in wire' => runs'[t] = 0
  PROVE  AccountedFor(t)'
<1>0. "dispatch" \in Roles BY DEF Roles
<1>1. /\ op'[t]["dispatch"] = o
      /\ \A r \in Roles \ {"dispatch"} : op'[t][r] = op[t][r]
  BY <1>0, PutPoint DEF TypeOK
<1>2. DispatchAccounted(t)' BY <1>1, StartingAlone DEF DispatchAccounted
<1>3. RunsAccounted(t)' BY DEF RunsAccounted
<1>4. RecordAccounted(t)' BY DEF RecordAccounted, Untouched
<1>5. FollowersAccounted(t)'
  <2>1. \A r \in Roles : op'[t][r].pc \notin Following
    BY <1>1, StartingAlone DEF Starting, Following
  <2>2. QED BY <2>1, StartingAlone DEF FollowersAccounted
<1>6. QED BY <1>2, <1>3, <1>4, <1>5 DEF AccountedFor

\* The same, for a step that leaves the records and Hermes' runs alone.
LEMMA DispatchAdvances ==
  ASSUME TypeOK, RecordsOK, NEW t \in Tasks, AccountedFor(t),
         op[t]["dispatch"].pc \in Starting,
         NEW pc \in Starting, Put(t, "dispatch", At(pc, "none", "none")),
         UNCHANGED <<task, run, runs, watching, sending, phase>>,
         t \in wire' => t \in wire \/ runs[t] = 0,
         pc \in {"start", "busy", "refused"} => Untouched(t)',
         pc = "accepted" => runs[t] = 1
  PROVE  AccountedFor(t)'
<1> DEFINE o == At(pc, "none", "none")
<1>1. o.pc = pc BY PointsReached
<1>2. task[t].status = "dispatching" /\ ~task[t].run BY StartingAlone
<1>3. /\ ~task'[t].run /\ task'[t].status = "dispatching"
      /\ task'[t].status \in Runless /\ task'[t].status \in Doubtful
  BY <1>2 DEF Runless, Doubtful
<1>4. /\ runs'[t] \in {0, 1} /\ (run'[t] = "none" <=> runs'[t] = 0)
      /\ t \in wire' => runs'[t] = 0
  BY DEF AccountedFor, RunsAccounted
<1> HIDE DEF o
<1>5. QED BY <1>1, <1>3, <1>4, DispatchMoves DEF o

LEMMA DispatchElsewhere ==
  ASSUME TypeOK, NEW t \in Tasks, Dispatch(t)
  PROVE  Elsewhere(t)
<1> USE DEF TypeOK, drainVars, timerVars, stopVars, hermesVars, bounds,
            Elsewhere, Same, Put
<1>1. CASE StartDispatch(t) BY <1>1 DEF StartDispatch
<1>2. CASE SettleRejection(t) BY <1>2 DEF SettleRejection
<1>3. CASE SettleAmbiguity(t) BY <1>3 DEF SettleAmbiguity
<1>4. CASE PersistAccepted(t) BY <1>4 DEF PersistAccepted, StartWatcher
<1>5. CASE RunIdArrives(t) BY <1>5 DEF RunIdArrives
<1>6. CASE AnswerLost(t) BY <1>6 DEF AnswerLost
<1>7. CASE RetryTimer(t) BY <1>7 DEF RetryTimer
<1>8. CASE RunIdAbandoned(t) BY <1>8 DEF RunIdAbandoned
<1>9. CASE \E kind \in {"busy", "refused"} : HermesRejects(t, kind)
  BY <1>9 DEF HermesRejects
<1>10. QED
  BY <1>1, <1>2, <1>3, <1>4, <1>5, <1>6, <1>7, <1>8, <1>9 DEF Dispatch

LEMMA DispatchAccountedFor ==
  ASSUME TypeOK, RecordsOK, NEW t \in Tasks, AccountedFor(t), Dispatch(t)
  PROVE  AccountedFor(t)'
<1> USE DEF TypeOK, drainVars, timerVars, stopVars, hermesVars, bounds
<1>0. /\ task[t] \in TaskRecord
      /\ \A pc, arg, seen : At(pc, arg, seen).pc = pc
      /\ Idle.pc = "idle"
  BY PointsReached
<1>r. /\ RunsAccounted(t)
      /\ runs[t] \in {0, 1}
      /\ run[t] = "none" <=> runs[t] = 0
      /\ t \in wire => runs[t] = 0
  BY DEF AccountedFor, RunsAccounted
<1>p. LET point == op[t]["dispatch"].pc
      IN /\ point \in {"start", "busy", "refused"} => Untouched(t)
         /\ point = "accepted" => runs[t] = 1
  BY DEF AccountedFor, DispatchAccounted
<1>s. {"queued", "dispatching", "dispatch_unknown", "cancelled", "failed"}
        \subseteq Statuses
  BY DEF Statuses, HoldingStatuses, ActiveStatuses, Terminal
<1>1. CASE StartDispatch(t)
  <2>1. op[t]["dispatch"].pc = "start" /\ Untouched(t)
    BY <1>1, <1>p DEF StartDispatch
  <2>2. task[t].status = "dispatching" /\ ~task[t].run /\ ~Closed(task[t])
    BY <2>1, StartingAlone DEF Starting
  <2>3. CASE Owner[t] \in owners
    BY <1>1, <2>1, <2>3, DispatchAdvances
       DEF StartDispatch, Starting, Untouched
  <2>4. CASE Owner[t] \notin owners
    <3>1. Transitioned(task[t], "queued") = Moved(task[t], "queued")
      BY <2>2, AllowedByStatus DEF Transitioned
    <3>2. task'[t] = Moved(task[t], "queued") /\ Put(t, "dispatch", Idle)
      BY <1>1, <2>4, <3>1 DEF StartDispatch
    <3>3. task'[t].status = "queued" /\ ~task'[t].run
      BY <1>0, <1>s, <2>2, <3>2, MovedRun
    <3>4. Untouched(t)' BY <1>1, <2>1, <2>4 DEF StartDispatch, Untouched
    <3>5. QED
      BY <1>0, <1>1, <1>r, <2>1, <2>4, <3>2, <3>3, <3>4, DispatchMoves
         DEF StartDispatch, Starting, Runless, Doubtful
  <2>5. QED BY <2>3, <2>4
<1>2. CASE SettleRejection(t)
  <2>1. op[t]["dispatch"].pc \in {"busy", "refused"} /\ Untouched(t)
    BY <1>2, <1>p DEF SettleRejection
  <2>2. task[t].status = "dispatching" /\ ~task[t].run /\ ~Closed(task[t])
    BY <2>1, StartingAlone DEF Starting
  <2>3. PICK s \in {"cancelled", "queued", "failed"} : task'[t] = Moved(task[t], s)
    BY <1>2, <2>2 DEF SettleRejection, Rejected
  <2>4. task'[t].status = s /\ ~task'[t].run
    BY <1>0, <1>s, <2>2, <2>3, MovedRun
  <2>5. Untouched(t)' BY <1>2, <2>1 DEF SettleRejection, Untouched
  <2>6. QED
    BY <1>0, <1>2, <1>r, <2>1, <2>4, <2>5, DispatchMoves
       DEF SettleRejection, Starting, Runless, Doubtful
<1>3. CASE SettleAmbiguity(t)
  <2>1. op[t]["dispatch"].pc = "ambiguous" BY <1>3 DEF SettleAmbiguity
  <2>2. task[t].status = "dispatching" /\ ~task[t].run /\ ~Closed(task[t])
    BY <2>1, StartingAlone DEF Starting
  <2>3. task'[t] = Moved(task[t], "dispatch_unknown")
    BY <1>3, <2>2, AllowedByStatus DEF SettleAmbiguity, Fenced, Transitioned
  <2>4. task'[t].status = "dispatch_unknown" /\ ~task'[t].run
    BY <1>0, <1>s, <2>2, <2>3, MovedRun
  <2>5. QED
    BY <1>0, <1>3, <1>r, <2>1, <2>4, DispatchMoves
       DEF SettleAmbiguity, Starting, Runless, Doubtful
<1>4. CASE PersistAccepted(t)
  <2>1. op[t]["dispatch"].pc = "accepted" /\ runs[t] = 1
    BY <1>4, <1>p DEF PersistAccepted
  <2>2. /\ task[t].status = "dispatching" /\ ~task[t].run
        /\ \A r \in Roles : op[t][r].pc \notin Following
        /\ phase \notin {"init", "down"}
    BY <2>1, StartingAlone DEF Starting
  <2>3. task'[t].status = "running" /\ task'[t].run
    BY <1>0, <1>4, <2>2 DEF PersistAccepted, Accepted, Moved, TaskRecord
  <2>4. PICK o \in {Idle, StopEntry("dispatch", Accepted(task[t]))} :
          Put(t, "dispatch", o)
    BY <1>4 DEF PersistAccepted
  <2>5. op'[t]["dispatch"] = o /\ o.pc \in Resting \cup {"mark", "halt"}
    BY <2>4, PutPoint, PointsReached DEF Roles, Resting
  <2>6. UNCHANGED <<run, runs, wire, phase>> BY <1>4 DEF PersistAccepted
  <2>7. DispatchAccounted(t)'
    BY <2>2, <2>5, <2>6 DEF DispatchAccounted, Resting, Starting
  <2>8. RunsAccounted(t)' BY <1>r, <2>1, <2>6 DEF RunsAccounted
  <2>9. RecordAccounted(t)' BY <2>3, StatusSets DEF RecordAccounted
  <2>10. FollowersAccounted(t)' BY <2>3 DEF FollowersAccounted
  <2>11. QED BY <2>7, <2>8, <2>9, <2>10 DEF AccountedFor
<1>5. CASE RunIdArrives(t)
  <2>1. op[t]["dispatch"].pc = "post" /\ runs[t] = 1
    BY <1>5, <1>r DEF RunIdArrives
  <2>2. QED BY <1>5, <2>1, DispatchAdvances DEF RunIdArrives, Starting
<1>6. CASE AnswerLost(t)
  BY <1>6, DispatchAdvances DEF AnswerLost, Starting
<1>7. CASE RetryTimer(t)
  <2>1. Same(t) BY <1>7 DEF RetryTimer, Same
  <2>2. QED BY <2>1, SameAccounted
<1>8. CASE RunIdAbandoned(t)
  <2>1. op[t]["dispatch"].pc = "accepted" BY <1>8 DEF RunIdAbandoned
  <2>2. task[t].status = "dispatching" /\ ~task[t].run
    BY <2>1, StartingAlone DEF Starting
  <2>3. /\ Put(t, "dispatch", Idle) /\ Idle.pc = "idle"
        /\ UNCHANGED <<task, run, runs, wire, watching, sending, phase>>
    BY <1>0, <1>8 DEF RunIdAbandoned
  <2>4. /\ ~task'[t].run /\ task'[t].status \in Runless \cap Doubtful
        /\ Idle.pc \in Starting \cup {"idle"} /\ Idle.pc \notin Starting
        /\ op[t]["dispatch"].pc \in Starting
        /\ Idle.pc \notin {"start", "busy", "refused", "accepted"}
    BY <2>1, <2>2, <2>3 DEF Starting, Runless, Doubtful
  <2>5. /\ runs'[t] \in {0, 1} /\ (run'[t] = "none" <=> runs'[t] = 0)
        /\ t \in wire' => runs'[t] = 0
    BY <1>r, <2>3
  <2>6. QED BY <2>3, <2>4, <2>5, DispatchMoves
<1>9. ASSUME NEW kind \in {"busy", "refused"}, HermesRejects(t, kind)
      PROVE  AccountedFor(t)'
  <2>1. op[t]["dispatch"].pc = "post" /\ Untouched(t)'
    BY <1>9, <1>r DEF HermesRejects, Untouched
  <2>2. QED BY <1>9, <2>1, DispatchAdvances DEF HermesRejects, Starting
<1>10. QED
  BY <1>1, <1>2, <1>3, <1>4, <1>5, <1>6, <1>7, <1>8, <1>9 DEF Dispatch

-----------------------------------------------------------------------------
(* Admission, the owner's calls, Hermes, startup and the operator. *)

\* A queued task was never started, and nothing works on it.
LEMMA QueuedUntouched ==
  ASSUME NEW t \in Tasks, AccountedFor(t), ~task[t].run,
         task[t].status \notin Doubtful
  PROVE  /\ Untouched(t) /\ t \notin watching /\ t \notin sending
         /\ op[t]["dispatch"].pc \notin Starting
         /\ \A r \in Roles : op[t][r].pc \notin Following
BY DEF AccountedFor, DispatchAccounted, RecordAccounted, FollowersAccounted,
       Doubtful

\* Its record may be requeued, cancelled, or created.
LEMMA UntouchedMoves ==
  ASSUME TypeOK, NEW t \in Tasks, AccountedFor(t), ~task[t].run,
         task[t].status \notin Doubtful,
         ~task'[t].run, task'[t].status \in Runless \ Doubtful,
         UNCHANGED <<run, runs, wire, watching, sending, phase>>,
         \A r \in Roles : op'[t][r] = op[t][r] \/ op'[t][r] = Idle
  PROVE  AccountedFor(t)'
<1> USE QueuedUntouched, PointsReached
<1>0. "dispatch" \in Roles BY DEF Roles
<1>1. DispatchAccounted(t)'
  BY <1>0 DEF AccountedFor, DispatchAccounted, Starting
<1>2. RunsAccounted(t)' BY DEF AccountedFor, RunsAccounted
<1>3. RecordAccounted(t)' BY DEF RecordAccounted, Untouched
<1>4. FollowersAccounted(t)' BY DEF FollowersAccounted, Following
<1>5. QED BY <1>1, <1>2, <1>3, <1>4 DEF AccountedFor

LEMMA AdmissionAccounted ==
  ASSUME TypeOK, RecordsOK, NEW t \in Tasks, AccountedFor(t),
         Admit(t) \/ CancelStopped(t) \/ AdmitFails(t)
  PROVE  AccountedFor(t)' /\ Elsewhere(t)
<1> USE DEF TypeOK, drainVars, timerVars, stopVars, hermesVars, memory, bounds
<1>0. task[t] \in TaskRecord OBVIOUS
<1>q. task[t].status = "queued" =>
        ~task[t].run /\ task[t].status \notin Doubtful /\ ~Closed(task[t])
  BY StatusSets
     DEF AccountedFor, RecordAccounted, Doubtful, Closed, RecordsOK, Shape,
         Terminal
<1>1. CASE Admit(t)
  <2>1. task[t].status = "queued"
        /\ task'[t].status = "dispatching" /\ ~task'[t].run
        /\ \A u \in Tasks \ {t} : task'[u] = task[u]
    BY <1>1, <1>q, AdmitRecord
  <2>2. Untouched(t) /\ t \notin watching /\ t \notin sending
        /\ \A r \in Roles : op[t][r].pc \notin Following
    BY <1>q, <2>1, QueuedUntouched
  <2>3. /\ UNCHANGED <<run, runs, wire, watching, sending, phase>>
        /\ phase = "up"
        /\ Put(t, "dispatch", At("start", "none", "none"))
    BY <1>1 DEF Admit
  <2>4. /\ op'[t]["dispatch"].pc = "start"
        /\ \A r \in Roles \ {"dispatch"} : op'[t][r] = op[t][r]
        /\ \A u \in Tasks \ {t} : op'[u] = op[u]
    BY <2>3, PutPoint, PointsReached DEF Roles
  <2>5. DispatchAccounted(t)'
    BY <2>1, <2>2, <2>3, <2>4 DEF DispatchAccounted, Untouched
  <2>6. RunsAccounted(t)'
    BY <2>1, <2>3 DEF RunsAccounted, AccountedFor
  <2>7. RecordAccounted(t)' BY <2>1 DEF RecordAccounted, Runless, Doubtful
  <2>8. FollowersAccounted(t)'
    BY <2>2, <2>3, <2>4 DEF FollowersAccounted, Following
  <2>9. Elsewhere(t) BY <2>1, <2>3, <2>4 DEF Elsewhere, Same
  <2>10. QED BY <2>5, <2>6, <2>7, <2>8, <2>9 DEF AccountedFor
<1>2. CASE CancelStopped(t)
  <2>1. task[t].status = "queued"
    BY <1>2 DEF CancelStopped, Cancellable, Queued
  <2>2. Transitioned(task[t], "cancelled") = Moved(task[t], "cancelled")
    BY <1>q, <2>1, AllowedByStatus DEF Transitioned
  <2>3. "cancelled" \in Statuses BY DEF Statuses, Terminal
  <2>4. /\ task' = [task EXCEPT ![t] = Moved(task[t], "cancelled")]
        /\ UNCHANGED <<run, runs, wire, op, watching, sending, phase>>
    BY <1>2, <2>2 DEF CancelStopped
  <2>5. task'[t].status = "cancelled" /\ ~task'[t].run
    BY <1>0, <1>q, <2>1, <2>3, <2>4, MovedRun
  <2>6. AccountedFor(t)'
    BY <1>q, <2>1, <2>4, <2>5, UntouchedMoves DEF Runless, Doubtful
  <2>7. Elsewhere(t) BY <2>4 DEF Elsewhere, Same
  <2>8. QED BY <2>6, <2>7
<1>3. CASE AdmitFails(t)
  <2>1. \A u : Same(u) BY <1>3 DEF AdmitFails, Same
  <2>2. QED BY <2>1, SameAccounted DEF Elsewhere
<1>4. QED BY <1>1, <1>2, <1>3

LEMMA OwnerCallAccounted ==
  ASSUME TypeOK, RecordsOK, NEW t \in Tasks, AccountedFor(t), OwnerCall(t)
  PROVE  AccountedFor(t)' /\ Elsewhere(t)
<1> USE DEF TypeOK, drainVars, timerVars, stopVars, hermesVars, memory, bounds
<1>0. task[t] \in TaskRecord /\ "stop" \in Roles BY DEF Roles
<1>1. CASE Submit(t)
  <2>1. /\ task[t] = Absent
        /\ task' = [task EXCEPT ![t] = [Absent EXCEPT !.status = "queued"]]
        /\ UNCHANGED <<run, runs, wire, op, watching, sending, phase>>
    BY <1>1 DEF Submit
  <2>2. task'[t].status = "queued" /\ ~task'[t].run
    BY <2>1 DEF Absent
  <2>3. /\ ~task[t].run /\ task[t].status \notin Doubtful
        /\ task'[t].status \in Runless \ Doubtful
    BY <2>1, <2>2 DEF Absent, Runless, Doubtful
  <2>4. AccountedFor(t)' BY <2>1, <2>2, <2>3, UntouchedMoves
  <2>5. Elsewhere(t) BY <2>1 DEF Elsewhere, Same
  <2>6. QED BY <2>4, <2>5
<1>2. CASE StopCall(t)
  <2> DEFINE record == StopRequested(task[t])
             o == IF record.status = "dispatching"
                  THEN At("reload", "none", "none")
                  ELSE IF record.run THEN StopEntry("stop", record) ELSE Idle
  <2>1. /\ task' = [task EXCEPT ![t] = record]
        /\ Put(t, "stop", o)
        /\ UNCHANGED <<run, runs, wire, watching, sending, phase>>
    BY <1>2 DEF StopCall
  <2>2. CASE task[t].status = "queued"
    <3>1. ~task[t].run /\ task[t].status \notin Doubtful
      BY <2>2, StatusSets DEF AccountedFor, RecordAccounted, Doubtful
    <3>2. record = Moved(task[t], "cancelled")
      BY <2>2 DEF StopRequested, Closed, RecordsOK, Shape, Terminal
    <3>3. "cancelled" \in Statuses BY DEF Statuses, Terminal
    <3>4. record.status = "cancelled" /\ ~record.run
      BY <1>0, <3>1, <3>2, <3>3, MovedRun
    <3>5. o = Idle BY <3>4
    <3> HIDE DEF record, o
    <3>6. task'[t].status = "cancelled" /\ ~task'[t].run BY <2>1, <3>4
    <3>7. \A r \in Roles : op'[t][r] = op[t][r] \/ op'[t][r] = Idle
      BY <1>0, <2>1, <3>5, PutPoint
    <3>8. AccountedFor(t)'
      BY <2>1, <3>1, <3>6, <3>7, UntouchedMoves DEF Runless, Doubtful
    <3>9. \A u \in Tasks \ {t} : task'[u] = task[u] /\ op'[u] = op[u]
      BY <1>0, <2>1, PutPoint
    <3>10. Elsewhere(t) BY <2>1, <3>9 DEF Elsewhere, Same
    <3>11. QED BY <3>8, <3>10
  <2>3. CASE task[t].status # "queued"
    <3>1. task[t].status = "delegated" => task[t].run
      BY DEF AccountedFor, RecordAccounted, Runless, Doubtful
    <3>2. SameRun(task[t], record)
      <4>1. CASE ~Closed(task[t]) /\ task[t].status = "delegated"
        <5>1. record = Moved(task[t], "cancelled") BY <4>1 DEF StopRequested
        <5>2. "cancelled" \in Statuses BY DEF Statuses, Terminal
        <5>3. record.run = task[t].run /\ record.status = "cancelled"
          BY <1>0, <5>1, <5>2, MovedRun
        <5>4. QED BY <3>1, <4>1, <5>3, StatusSets DEF SameRun
      <4>2. CASE Closed(task[t])
        BY <4>2 DEF StopRequested, SameRun
      <4>3. CASE ~Closed(task[t]) /\ task[t].status # "delegated"
        BY <1>0, <2>3, <4>3, SameRunStopMarked DEF StopRequested
      <4>4. QED BY <4>1, <4>2, <4>3
    <3>3. o.pc \in Following => task[t].run
      <4>1. record.run = task[t].run BY <3>2 DEF SameRun
      <4>2. QED BY <4>1, PointsReached DEF Following
    <3>4. o.pc \notin Starting
      <4>1. StopEntry("stop", record).pc \in Resting \cup {"mark", "halt"}
        BY <1>0, PointsReached
      <4>2. At("reload", "none", "none").pc = "reload" BY PointsReached
      <4>3. Idle.pc = "idle" BY PointsReached
      <4> HIDE DEF record
      <4>4. QED BY <4>1, <4>2, <4>3 DEF Starting, Resting
    <3> HIDE DEF record, o
    <3>5. PointContinues(t, "stop", o) BY <3>3, <3>4 DEF PointContinues
    <3>6. OpsContinue(t) BY <1>0, <2>1, <3>5, OpPut
    <3>7. RecordContinues(t) BY <2>1, <3>2, RecordRewritten
    <3>8. Continues(t)
      BY <2>1, <3>6, <3>7, RunUnchanged, FollowersUnchanged DEF Continues
    <3>9. QED BY <3>8, ContinuesAccounted, ContinuesElsewhere
  <2>4. QED BY <2>2, <2>3
<1>3. CASE MarkDelegated(t)
  <2>1. task[t].run /\ task[t].status \in RunStatuses
    BY <1>3, StatusSets
       DEF MarkDelegated, AccountedFor, RecordAccounted, Runless, Doubtful
  <2>2. RecordContinues(t)
    BY <1>0, <1>3, <2>1, SameRunTransitioned, RecordRewritten
       DEF MarkDelegated, Delegated
  <2>3. Continues(t)
    BY <1>3, <2>2, OpsUnchanged, RunUnchanged, FollowersUnchanged
       DEF MarkDelegated, Continues
  <2>4. QED BY <2>3, ContinuesAccounted, ContinuesElsewhere
<1>4. ASSUME NEW outcome \in {"completed", "failed"},
             ResolveDelegated(t, outcome)
      PROVE  AccountedFor(t)' /\ Elsewhere(t)
  <2>1. task[t].run /\ outcome \in RunStatuses /\ outcome \in Statuses
    BY <1>4, StatusSets
       DEF ResolveDelegated, AccountedFor, RecordAccounted, Runless, Doubtful,
           RunStatuses
  <2>2. SameRun(task[t], Moved(task[t], outcome))
    BY <1>0, <2>1, MovedRun DEF SameRun
  <2>3. RecordContinues(t)
    BY <1>4, <2>2, RecordRewritten DEF ResolveDelegated
  <2>4. Continues(t)
    BY <1>4, <2>3, OpsUnchanged, RunUnchanged, FollowersUnchanged
       DEF ResolveDelegated, Continues
  <2>5. QED BY <2>4, ContinuesAccounted, ContinuesElsewhere
<1>5. QED BY <1>1, <1>2, <1>3, <1>4 DEF OwnerCall

\* Hermes starts at most the run it was asked for, and never forgets that it
\* did.
LEMMA UpstreamAccounted ==
  ASSUME TypeOK, RecordsOK, NEW t \in Tasks, AccountedFor(t), Upstream(t)
  PROVE  AccountedFor(t)' /\ Elsewhere(t)
<1> USE DEF TypeOK, memory
<1>1. CASE HermesAccepts(t)
  <2>1. /\ t \in wire /\ runs[t] = 0 /\ ~task[t].run
        /\ task[t].status \in Doubtful
    BY <1>1
       DEF HermesAccepts, AccountedFor, RunsAccounted, RecordAccounted,
           Untouched
  <2>2. /\ runs'[t] = 1 /\ run'[t] = "running" /\ t \notin wire'
        /\ UNCHANGED <<task, op, watching, sending, phase>>
    BY <1>1, <2>1 DEF HermesAccepts
  <2>3. op[t]["dispatch"].pc \notin {"start", "busy", "refused"}
    BY <2>1 DEF AccountedFor, DispatchAccounted, Untouched
  <2>4. DispatchAccounted(t)'
    BY <2>2, <2>3 DEF AccountedFor, DispatchAccounted
  <2>5. RunsAccounted(t)' BY <2>1, <2>2 DEF RunsAccounted
  <2>6. RecordAccounted(t)'
    BY <2>1, <2>2 DEF AccountedFor, RecordAccounted
  <2>7. FollowersAccounted(t)'
    BY <2>2 DEF AccountedFor, FollowersAccounted
  <2>8. Elsewhere(t) BY <1>1 DEF HermesAccepts, Elsewhere, Same
  <2>9. QED BY <2>4, <2>5, <2>6, <2>7, <2>8 DEF AccountedFor
<1>2. ASSUME NEW status \in RunStates, HermesMoves(t, status)
      PROVE  AccountedFor(t)' /\ Elsewhere(t)
  <2>1. run[t] # "none" /\ status # "none"
    BY <1>2, SupervisorAssumption DEF HermesMoves, Live, Terminal
  <2>2. RunContinues(t) BY <1>2, <2>1 DEF HermesMoves, RunContinues
  <2>3. Continues(t)
    BY <1>2, <2>2, RecordUnchanged, OpsUnchanged, FollowersUnchanged
       DEF HermesMoves, Continues
  <2>4. QED BY <2>3, ContinuesAccounted, ContinuesElsewhere
<1>3. QED BY <1>1, <1>2 DEF Upstream

\* Startup fences what was being dispatched, and follows only named runs; the
\* operator contains without touching a run.
LEMMA BootAccounted ==
  ASSUME TypeOK, RecordsOK, NEW t \in Tasks, AccountedFor(t),
         BootTask(t) \/ BootWatches(t) \/ OperatorContains(t)
  PROVE  AccountedFor(t)' /\ Elsewhere(t)
<1> USE DEF TypeOK, drainVars, timerVars, stopVars, hermesVars, memory, bounds
<1>0. task[t] \in TaskRecord /\ "boot" \in Roles BY DEF Roles
<1>1. CASE BootTask(t)
  <2>1. /\ UNCHANGED <<run, runs, wire, watching, sending, phase>>
        /\ phase = "init" /\ op[t]["dispatch"] = Idle
    BY <1>1 DEF BootTask, AccountedFor, DispatchAccounted
  <2>2. OpsContinue(t)
    <3>1. CASE UNCHANGED op BY <3>1, OpsUnchanged
    <3>2. CASE task[t].run /\ Put(t, "boot", At("get", "none", "none"))
      <4>1. At("get", "none", "none").pc = "get" BY PointsReached
      <4>2. PointContinues(t, "boot", At("get", "none", "none"))
        BY <3>2, <4>1 DEF PointContinues, Starting
      <4>3. QED BY <1>0, <3>2, <4>2, OpPut
    <3>3. QED BY <1>1, <3>1, <3>2 DEF BootTask
  <2>3. CASE task[t].status = "dispatching" /\ ~task[t].run
    <3>1. ~Closed(task[t])
      BY <2>3 DEF RecordsOK, Shape, Closed, Terminal
    <3>2. Fenced(task[t]) = Moved(task[t], "dispatch_unknown")
      BY <2>3, <3>1, AllowedByStatus DEF Fenced, Transitioned
    <3>3. "dispatch_unknown" \in Statuses
      BY DEF Statuses, HoldingStatuses, ActiveStatuses
    <3>4. task' = [task EXCEPT ![t] = Moved(task[t], "dispatch_unknown")]
      BY <1>1, <2>3, <3>2 DEF BootTask
    <3>5. task'[t].status = "dispatch_unknown" /\ ~task'[t].run
      BY <1>0, <2>3, <3>3, <3>4, MovedRun
    <3>6. UNCHANGED op BY <1>1, <2>3 DEF BootTask
    <3>7. DispatchAccounted(t)'
      BY <2>1, <3>6, PointsReached DEF DispatchAccounted, Starting
    <3>8. RunsAccounted(t)'
      BY <2>1, <3>5 DEF AccountedFor, RunsAccounted
    <3>9. RecordAccounted(t)' BY <3>5 DEF RecordAccounted, Runless, Doubtful
    <3>10. FollowersAccounted(t)'
      BY <2>1, <2>3, <3>6 DEF AccountedFor, FollowersAccounted
    <3>11. Elsewhere(t) BY <2>1, <3>4, <3>6 DEF Elsewhere, Same
    <3>12. QED BY <3>7, <3>8, <3>9, <3>10, <3>11 DEF AccountedFor
  <2>4. CASE ~(task[t].status = "dispatching" /\ ~task[t].run)
    <3>1. UNCHANGED task BY <1>1, <2>4 DEF BootTask
    <3>2. Continues(t)
      BY <2>1, <2>2, <3>1, RecordUnchanged, RunUnchanged, FollowersUnchanged
         DEF Continues
    <3>3. QED BY <3>2, ContinuesAccounted, ContinuesElsewhere
  <2>5. QED BY <2>3, <2>4
<1>2. CASE BootWatches(t)
  <2>1. op' = [op EXCEPT ![t]["boot"] = Idle] BY <1>2 DEF BootWatches
  <2>2. PointContinues(t, "boot", Idle)
    BY PointsReached DEF PointContinues, Following, Starting
  <2>3. OpsContinue(t) BY <2>1, <2>2 DEF OpsContinue
  <2>4. FollowersContinue(t)
    BY <1>2 DEF BootWatches, StartWatcher, FollowersContinue
  <2>5. QED
    BY <1>2, <2>3, <2>4, RecordUnchanged, RunUnchanged, ContinuesAccounted,
       ContinuesElsewhere DEF BootWatches, Continues
<1>3. CASE OperatorContains(t)
  <2>1. RecordContinues(t)
    BY <1>0, <1>3, SameRunContained, RecordRewritten DEF OperatorContains
  <2>2. Continues(t)
    BY <1>3, <2>1, OpsUnchanged, RunUnchanged, FollowersUnchanged
       DEF OperatorContains, Continues
  <2>3. QED BY <2>2, ContinuesAccounted, ContinuesElsewhere
<1>4. QED BY <1>1, <1>2, <1>3

\* A crash or a shutdown forgets every operation; Hermes does not.
LEMMA ProcessAccounted ==
  ASSUME TypeOK, Accounted, Process
  PROVE  Accounted'
<1> USE DEF TypeOK, drainVars, timerVars, stopVars, hermesVars, bounds
<1> SUFFICES ASSUME NEW u \in Tasks PROVE AccountedFor(u)'
  BY DEF Accounted
<1>0. AccountedFor(u) BY DEF Accounted
<1>1. UNCHANGED <<task, run, runs, wire>>
  BY DEF Process, DrainStarts, DrainFindsNothing, DrainEnds, Close, ShutDown,
         Crash, Restart, Initialized, RegisterOwner
<1>2. CASE DrainStarts \/ DrainFindsNothing \/ DrainEnds
           \/ \E t \in Tasks : RegisterOwner(Owner[t])
  <2>1. Same(u)
    BY <1>2
       DEF DrainStarts, DrainFindsNothing, DrainEnds, RegisterOwner, Same
  <2>2. QED BY <1>0, <2>1, SameAccounted
<1>3. CASE Close \/ Restart \/ Initialized
  <2>1. /\ UNCHANGED <<op, sending>> /\ watching' \subseteq watching
        /\ phase' \in {"init", "down"} => phase \in {"init", "down"}
    BY <1>3 DEF Close, Restart, Initialized
  <2>2. DispatchAccounted(u)'
    BY <1>0, <1>1, <2>1 DEF AccountedFor, DispatchAccounted, Untouched
  <2>3. RunsAccounted(u)' BY <1>0, <1>1 DEF AccountedFor, RunsAccounted
  <2>4. RecordAccounted(u)'
    BY <1>0, <1>1 DEF AccountedFor, RecordAccounted, Untouched
  <2>5. FollowersAccounted(u)'
    BY <1>0, <1>1, <2>1 DEF AccountedFor, FollowersAccounted
  <2>6. QED BY <2>2, <2>3, <2>4, <2>5 DEF AccountedFor
<1>4. CASE ShutDown \/ Crash
  <2>1. /\ op' = [t \in Tasks |-> [r \in Roles |-> Idle]]
        /\ watching' = {} /\ sending' = {}
    BY <1>4 DEF ShutDown, Crash, Forget
  <2>2. \A r \in Roles : op'[u][r] = Idle BY <2>1
  <2>3. DispatchAccounted(u)'
    BY <2>2, PointsReached DEF DispatchAccounted, Starting, Roles
  <2>4. RunsAccounted(u)' BY <1>0, <1>1 DEF AccountedFor, RunsAccounted
  <2>5. RecordAccounted(u)'
    BY <1>0, <1>1 DEF AccountedFor, RecordAccounted, Untouched
  <2>6. FollowersAccounted(u)'
    BY <2>1, <2>2, PointsReached DEF FollowersAccounted, Following
  <2>7. QED BY <2>3, <2>4, <2>5, <2>6 DEF AccountedFor
<1>5. QED BY <1>2, <1>3, <1>4 DEF Process

LEMMA TaskStepAccounted ==
  ASSUME TypeOK, RecordsOK, NEW t \in Tasks, AccountedFor(t),
         \/ Admit(t) \/ CancelStopped(t) \/ AdmitFails(t) \/ Dispatch(t)
         \/ Control(t) \/ Reconcile(t) \/ OwnerCall(t) \/ Upstream(t)
         \/ BootTask(t) \/ BootWatches(t) \/ OperatorContains(t)
  PROVE  AccountedFor(t)' /\ Elsewhere(t)
BY AdmissionAccounted, DispatchAccountedFor, DispatchElsewhere, FollowedKept,
   OwnerCallAccounted, UpstreamAccounted, BootAccounted

LEMMA StepAccounted ==
  ASSUME Sound, Accounted, [Next]_vars
  PROVE  Accounted'
<1> USE DEF Sound
<1>1. CASE UNCHANGED vars
  BY <1>1
     DEF vars, memory, Accounted, AccountedFor, DispatchAccounted,
         RunsAccounted, RecordAccounted, FollowersAccounted, Untouched
<1>2. CASE Process BY <1>2, ProcessAccounted
<1>3. ASSUME NEW t \in Tasks,
             \/ Admit(t) \/ CancelStopped(t) \/ AdmitFails(t) \/ Dispatch(t)
             \/ Control(t) \/ Reconcile(t) \/ OwnerCall(t) \/ Upstream(t)
             \/ BootTask(t) \/ BootWatches(t) \/ OperatorContains(t)
      PROVE  Accounted'
  <2>1. AccountedFor(t)' /\ Elsewhere(t)
    BY <1>3, TaskStepAccounted DEF Accounted
  <2>2. \A u \in Tasks \ {t} : AccountedFor(u)'
    BY <2>1, SameAccounted DEF Accounted, Elsewhere
  <2>3. QED BY <2>1, <2>2 DEF Accounted
<1>4. QED BY <1>1, <1>2, <1>3 DEF Next

LEMMA InitAccounted == Init => Accounted
<1> SUFFICES ASSUME Init, NEW t \in Tasks PROVE AccountedFor(t)
  BY DEF Accounted
<1>1. /\ \A r \in Roles : op[t][r] = Idle
      /\ task[t] = Absent /\ run[t] = "none" /\ runs[t] = 0
      /\ wire = {} /\ watching = {} /\ sending = {} /\ phase = "up"
  BY DEF Init
<1>2. "dispatch" \in Roles BY DEF Roles
<1>3. QED
  BY <1>1, <1>2, PointsReached
     DEF AccountedFor, DispatchAccounted, RunsAccounted, RecordAccounted,
         FollowersAccounted, Untouched, Starting, Following, Runless,
         Doubtful, Absent

LEMMA SupervisorAccounted == Spec => [](Sound /\ Accounted)
<1>1. Init => Sound /\ Accounted BY InitSound, InitAccounted
<1>2. Sound /\ Accounted /\ [Next]_vars => (Sound /\ Accounted)'
  BY StepSound, StepAccounted
<1>3. QED BY <1>1, <1>2, PTL DEF Spec

\* Hermes never starts a second run for a task, however its start request, its
\* answer, the retries and the restarts interleave.
THEOREM StartedAtMostOnce == Spec => []AtMostOneRun
<1>1. Accounted => AtMostOneRun
  BY DEF Accounted, AccountedFor, RunsAccounted, AtMostOneRun
<1>2. QED BY <1>1, SupervisorAccounted, PTL

\* A run, or a start request on its way, whose id the record does not hold
\* leaves its task fenced: dispatching or dispatch_unknown.
THEOREM UntrackedAlwaysFenced == Spec => []UntrackedRunFenced
<1>1. ASSUME Sound, Accounted PROVE UntrackedRunFenced
  <2> SUFFICES ASSUME NEW t \in Tasks, runs[t] > 0 \/ t \in wire, ~task[t].run
               PROVE  task[t].status \in {"dispatching", "dispatch_unknown"}
    BY DEF UntrackedRunFenced
  <2>1. ~Untouched(t) BY <1>1 DEF Untouched, Sound, TypeOK
  <2>2. RecordAccounted(t) BY <1>1 DEF Accounted, AccountedFor
  <2>3. QED BY <2>1, <2>2 DEF RecordAccounted, Doubtful
<1>2. QED BY <1>1, SupervisorAccounted, PTL

-----------------------------------------------------------------------------
(* The promise.  What each step makes of the record of its task:           *)

Moves(r, q) ==
  \/ SameRun(r, q)
  \/ r.status = "absent" /\ q.status = "queued" /\ ~q.run
  \/ r.status = "queued" /\ q.status = "cancelled" /\ ~q.run
  \/ /\ r.status = "dispatching"
     /\ q.status \in {"queued", "cancelled", "failed", "dispatch_unknown"}
     /\ ~q.run /\ ~q.contained
  \/ r.status = "dispatching" /\ q.status = "running" /\ q.run

LEMMA DispatchRecordMoves ==
  ASSUME TypeOK, RecordsOK, NEW t \in Tasks, AccountedFor(t), Dispatch(t)
  PROVE  Moves(task[t], task'[t]) /\ UNCHANGED runs
<1> USE DEF TypeOK, hermesVars
<1>0. task[t] \in TaskRecord OBVIOUS
<1>s. {"queued", "dispatch_unknown", "cancelled", "failed"} \subseteq Statuses
  BY DEF Statuses, HoldingStatuses, ActiveStatuses, Terminal
<1>1. CASE UNCHANGED <<task, runs>> BY <1>1 DEF Moves, SameRun
<1>2. ASSUME task[t].status = "dispatching", ~task[t].run, UNCHANGED runs,
             NEW s \in {"queued", "cancelled", "failed", "dispatch_unknown"},
             task'[t] \in {task[t], Moved(task[t], s)}
      PROVE  Moves(task[t], task'[t]) /\ UNCHANGED runs
  <2>1. /\ Moved(task[t], s).run = task[t].run
        /\ Moved(task[t], s).status = s
        /\ Moved(task[t], s).contained = task[t].contained
    BY <1>0, <1>s, MovedRun
  <2>2. ~task[t].contained BY <1>2 DEF RecordsOK, Shape
  <2>3. QED BY <1>2, <2>1, <2>2 DEF Moves, SameRun
<1>3. CASE StartDispatch(t)
  <2>1. task[t].status = "dispatching" /\ ~task[t].run
    BY <1>3, StartingAlone DEF StartDispatch, Starting
  <2>2. task'[t] \in {task[t], Moved(task[t], "queued")}
    BY <1>3 DEF StartDispatch, Transitioned
  <2>3. QED BY <1>2, <1>3, <2>1, <2>2 DEF StartDispatch
<1>4. CASE SettleRejection(t)
  <2>1. task[t].status = "dispatching" /\ ~task[t].run
    BY <1>4, StartingAlone DEF SettleRejection, Starting
  <2>2. PICK s \in {"queued", "cancelled", "failed"} :
          task'[t] \in {task[t], Moved(task[t], s)}
    BY <1>4 DEF SettleRejection, Rejected
  <2>3. QED BY <1>2, <1>4, <2>1, <2>2 DEF SettleRejection
<1>5. CASE SettleAmbiguity(t)
  <2>1. task[t].status = "dispatching" /\ ~task[t].run
    BY <1>5, StartingAlone DEF SettleAmbiguity, Starting
  <2>2. task'[t] \in {task[t], Moved(task[t], "dispatch_unknown")}
    BY <1>5 DEF SettleAmbiguity, Fenced, Transitioned
  <2>3. QED BY <1>2, <1>5, <2>1, <2>2 DEF SettleAmbiguity
<1>6. CASE PersistAccepted(t)
  <2>1. task[t].status = "dispatching" /\ ~task[t].run
    BY <1>6, StartingAlone DEF PersistAccepted, Starting
  <2>2. task'[t].status = "running" /\ task'[t].run
    BY <1>0, <1>6, <2>1 DEF PersistAccepted, Accepted, Moved, TaskRecord
  <2>3. QED BY <1>6, <2>1, <2>2 DEF PersistAccepted, Moves
<1>7. CASE \/ RunIdArrives(t) \/ AnswerLost(t) \/ RetryTimer(t)
           \/ RunIdAbandoned(t)
           \/ \E kind \in {"busy", "refused"} : HermesRejects(t, kind)
  BY <1>1, <1>7
     DEF RunIdArrives, AnswerLost, RetryTimer, RunIdAbandoned, HermesRejects
<1>8. QED BY <1>3, <1>4, <1>5, <1>6, <1>7 DEF Dispatch

LEMMA OwnerRecordMoves ==
  ASSUME TypeOK, RecordsOK, NEW t \in Tasks, AccountedFor(t), OwnerCall(t)
  PROVE  Moves(task[t], task'[t]) /\ UNCHANGED runs
<1> USE DEF TypeOK, hermesVars
<1>0. /\ task[t] \in TaskRecord
      /\ {"cancelled", "completed", "failed", "delegated"} \subseteq Statuses
      /\ {"cancelled", "completed", "failed", "delegated"}
           \subseteq RunStatuses
  BY DEF RunStatuses, Statuses, HoldingStatuses, Terminal
<1>r. task[t].status \in {"delegated", "running"} => task[t].run
  BY DEF AccountedFor, RecordAccounted, Runless, Doubtful
<1>1. CASE Submit(t)
  <2>1. task[t] = Absent /\ task'[t] = [Absent EXCEPT !.status = "queued"]
    BY <1>1 DEF Submit
  <2>2. QED BY <1>1, <2>1 DEF Submit, Absent, Moves
<1>2. CASE StopCall(t)
  <2>1. task'[t] = StopRequested(task[t]) /\ UNCHANGED runs
    BY <1>2 DEF StopCall
  <2>2. \/ task'[t] = task[t]
        \/ task'[t] = StopMarked(task[t])
        \/ /\ task[t].status \in {"queued", "delegated"}
           /\ task'[t] = Moved(task[t], "cancelled")
    BY <2>1 DEF StopRequested
  <2>3. task[t].status = "queued" => ~task[t].run
    BY StatusSets DEF AccountedFor, RecordAccounted
  <2>4. CASE /\ task[t].status \in {"queued", "delegated"}
             /\ task'[t] = Moved(task[t], "cancelled")
    BY <1>0, <1>r, <2>1, <2>3, <2>4, MovedRun DEF Moves, SameRun
  <2>5. CASE task'[t] \in {task[t], StopMarked(task[t])}
    BY <1>0, <2>1, <2>5, SameRunStopMarked DEF Moves, SameRun
  <2>6. QED BY <2>2, <2>4, <2>5
<1>3. CASE MarkDelegated(t)
  <2>1. /\ task'[t] \in {task[t], Moved(task[t], "delegated")}
        /\ task[t].run /\ UNCHANGED runs
    BY <1>3, <1>r DEF MarkDelegated, Delegated, Transitioned
  <2>2. /\ Moved(task[t], "delegated").run = task[t].run
        /\ Moved(task[t], "delegated").status = "delegated"
    BY <1>0, MovedRun
  <2>3. SameRun(task[t], task'[t]) BY <1>0, <2>1, <2>2 DEF SameRun
  <2>4. QED BY <2>1, <2>3 DEF Moves
<1>4. ASSUME NEW outcome \in {"completed", "failed"},
             ResolveDelegated(t, outcome)
      PROVE  Moves(task[t], task'[t]) /\ UNCHANGED runs
  <2>1. /\ task'[t] = Moved(task[t], outcome)
        /\ task[t].run /\ UNCHANGED runs
    BY <1>4, <1>r DEF ResolveDelegated
  <2>2. /\ Moved(task[t], outcome).run = task[t].run
        /\ Moved(task[t], outcome).status = outcome
    BY <1>0, MovedRun
  <2>3. SameRun(task[t], task'[t]) BY <1>0, <2>1, <2>2 DEF SameRun
  <2>4. QED BY <2>1, <2>3 DEF Moves
<1>5. QED BY <1>1, <1>2, <1>3, <1>4 DEF OwnerCall

\* The steps other than an admission and the start of a run by Hermes.
LEMMA RecordMoves ==
  ASSUME TypeOK, RecordsOK, NEW t \in Tasks, AccountedFor(t),
         \/ CancelStopped(t) \/ AdmitFails(t) \/ Dispatch(t)
         \/ Control(t) \/ Reconcile(t) \/ OwnerCall(t)
         \/ \E status \in RunStates : HermesMoves(t, status)
         \/ BootTask(t) \/ BootWatches(t) \/ OperatorContains(t)
  PROVE  Moves(task[t], task'[t]) /\ UNCHANGED runs
<1>0. task[t] \in TaskRecord BY DEF TypeOK
<1>1. CASE CancelStopped(t)
  <2>1. /\ task'[t] \in {task[t], Moved(task[t], "cancelled")}
        /\ task[t].status = "queued" /\ UNCHANGED runs
    BY <1>1
       DEF CancelStopped, Cancellable, Queued, Transitioned, hermesVars,
           TypeOK
  <2>2. ~task[t].run BY <2>1, StatusSets DEF AccountedFor, RecordAccounted
  <2>3. "cancelled" \in Statuses BY DEF Statuses, Terminal
  <2>4. /\ Moved(task[t], "cancelled").run = task[t].run
        /\ Moved(task[t], "cancelled").status = "cancelled"
    BY <1>0, <2>3, MovedRun
  <2>5. QED BY <2>1, <2>2, <2>4 DEF Moves, SameRun
<1>2. CASE BootTask(t)
  <2>1. /\ \/ task'[t] = task[t]
           \/ /\ task[t].status = "dispatching" /\ ~task[t].run
              /\ task'[t] \in {task[t], Moved(task[t], "dispatch_unknown")}
        /\ UNCHANGED runs
    BY <1>2 DEF BootTask, Fenced, Transitioned, hermesVars, TypeOK
  <2>2. "dispatch_unknown" \in Statuses
    BY DEF Statuses, HoldingStatuses, ActiveStatuses
  <2>3. /\ Moved(task[t], "dispatch_unknown").run = task[t].run
        /\ Moved(task[t], "dispatch_unknown").status = "dispatch_unknown"
        /\ Moved(task[t], "dispatch_unknown").contained = task[t].contained
    BY <1>0, <2>2, MovedRun
  <2>4. task[t].status = "dispatching" => ~task[t].contained
    BY DEF RecordsOK, Shape
  <2>5. QED BY <2>1, <2>3, <2>4 DEF Moves, SameRun
<1>3. CASE OperatorContains(t)
  <2>1. task'[t] = Contained(task[t]) /\ UNCHANGED runs
    BY <1>3 DEF OperatorContains, hermesVars, TypeOK
  <2>2. QED BY <1>0, <2>1, SameRunContained DEF Moves
<1>4. CASE \/ AdmitFails(t) \/ BootWatches(t)
           \/ \E status \in RunStates : HermesMoves(t, status)
  BY <1>4
     DEF AdmitFails, BootWatches, HermesMoves, hermesVars, Moves, SameRun
<1>5. CASE Control(t) \/ Reconcile(t)
  BY <1>5, ControlContinues, ReconcileContinues
     DEF Continues, RecordContinues, Moves
<1>6. QED
  BY <1>1, <1>2, <1>3, <1>4, <1>5, DispatchRecordMoves, OwnerRecordMoves

\* What a record says of its work, by what the record holds.
LEMMA WorkStates ==
  ASSUME NEW r \in TaskRecord, Shape(r),
         r.run => r.status \in RunStatuses, ~r.run => r.status \in Runless
  PROVE  /\ r.run => WorkState(r) = IF Closed(r) THEN "over"
                                    ELSE IF r.status = "delegated"
                                      THEN "handed" ELSE "tracked"
         /\ r.status = "absent" => WorkState(r) = "new"
         /\ r.status = "queued" => WorkState(r) = "waiting"
         /\ r.status = "dispatching" => WorkState(r) = "claimed"
         /\ r.status = "dispatch_unknown" =>
              WorkState(r) = IF r.contained THEN "written_off" ELSE "fenced"
         /\ ~r.run /\ r.status \in {"cancelled", "failed"} =>
              WorkState(r) = "over"
         /\ WorkState(r) \in {"claimed", "fenced", "tracked"} <=> Active(r)
<1>1. CASE r.run
  <2>1. /\ r.status \in RunStatuses
        /\ r.status = "delegated" => ~Closed(r)
    BY <1>1 DEF Shape, Closed, Terminal
  <2>2. WorkState(r) = IF Closed(r) THEN "over"
                       ELSE IF r.status = "delegated"
                         THEN "handed" ELSE "tracked"
    BY <1>1, <2>1, StatusSets DEF WorkState
  <2>3. WorkState(r) \in {"claimed", "fenced", "tracked"} <=> Active(r)
    BY <2>1, <2>2, StatusSets DEF Active, Closed, ActiveStatuses, Terminal
  <2>4. QED BY <1>1, <2>1, <2>2, <2>3, StatusSets DEF Doubtful
<1>2. CASE ~r.run
  <2>1. r.status \in {"dispatching", "dispatch_unknown", "absent", "queued",
                      "cancelled", "failed"}
    BY <1>2 DEF Runless, Doubtful
  <2>2. ~r.missing /\ (r.contained => r.status = "dispatch_unknown")
    BY <2>1 DEF Shape
  <2>3. WorkState(r) =
          IF r.status = "absent" THEN "new"
          ELSE IF r.status = "queued" THEN "waiting"
          ELSE IF r.status = "dispatching" THEN "claimed"
          ELSE IF r.contained THEN "written_off"
          ELSE IF r.status = "dispatch_unknown" THEN "fenced" ELSE "over"
    <3>1. Closed(r) <=> r.status \in {"cancelled", "failed"} \/ r.contained
      BY <2>1, <2>2 DEF Closed, Terminal
    <3>2. QED BY <1>2, <2>1, <2>2, <3>1 DEF WorkState
  <2>4. Active(r) <=>
          /\ r.status \in {"dispatching", "dispatch_unknown"}
          /\ ~r.contained
    BY <2>1, <2>2 DEF Active, ActiveStatuses
  <2>5. QED BY <1>2, <2>1, <2>2, <2>3, <2>4
<1>3. r.run \in BOOLEAN BY DEF TaskRecord
<1>4. QED BY <1>1, <1>2, <1>3

\* Each rewriting is a step of the promise on that piece of work, or none.
PromisedMove(r, q, n) ==
  \/ WorkState(q) = WorkState(r)
  \/ WorkState(r) = "new" /\ WorkState(q) = "waiting"
  \/ WorkState(r) = "claimed" /\ n = 0 /\ WorkState(q) \in {"waiting", "over"}
  \/ WorkState(r) = "claimed" /\ WorkState(q) = "fenced"
  \/ WorkState(r) = "claimed" /\ n = 1 /\ WorkState(q) = "tracked"
  \/ WorkState(r) = "tracked" /\ WorkState(q) = "handed"
  \/ WorkState(r) \in {"waiting", "tracked", "handed"} /\ WorkState(q) = "over"
  \/ WorkState(r) = "fenced" /\ WorkState(q) = "written_off"

LEMMA MovesPromised ==
  ASSUME NEW r \in TaskRecord, NEW q \in TaskRecord, Shape(r), Shape(q),
         r.run => r.status \in RunStatuses, ~r.run => r.status \in Runless,
         q.run => q.status \in RunStatuses, ~q.run => q.status \in Runless,
         Calm(r, q), Moves(r, q), NEW n,
         q.run => n = 1, ~q.run /\ q.status \notin Doubtful => n = 0
  PROVE  PromisedMove(r, q, n)
<1>1. CASE SameRun(r, q) /\ r.run
  <2>1. q.run /\ r.status \in RunStatuses BY <1>1 DEF SameRun
  <2>2. CASE Closed(r)
    <3>1. Closed(q) BY <2>2 DEF Calm, Contained, Closed, TaskRecord
    <3>2. QED BY <1>1, <2>1, <2>2, <3>1, WorkStates DEF PromisedMove
  <2>3. CASE ~Closed(r) /\ r.status # "delegated"
    <3>1. WorkState(r) = "tracked" BY <1>1, <2>3, WorkStates
    <3>2. WorkState(q) \in {"over", "handed", "tracked"} BY <2>1, WorkStates
    <3>3. QED BY <3>1, <3>2 DEF PromisedMove
  <2>4. CASE ~Closed(r) /\ r.status = "delegated"
    <3>1. WorkState(r) = "handed" BY <1>1, <2>4, WorkStates
    <3>2. ~Active(q) BY <2>4 DEF Calm, Active, ActiveStatuses
    <3>3. WorkState(q) \in {"over", "handed"} BY <2>1, <3>2, WorkStates
    <3>4. QED BY <3>1, <3>3 DEF PromisedMove
  <2>5. QED BY <2>2, <2>3, <2>4
<1>2. CASE SameRun(r, q) /\ ~r.run
  <2>1. ~q.run /\ q.status = r.status BY <1>2 DEF SameRun
  <2>2. r.contained => q.contained
    BY DEF Calm, Closed, Contained, TaskRecord
  <2>3. r.status \in {"dispatching", "dispatch_unknown", "absent", "queued",
                      "cancelled", "failed"}
    BY <1>2 DEF Runless, Doubtful
  <2>4. CASE r.status # "dispatch_unknown"
    BY <1>2, <2>1, <2>3, <2>4, WorkStates DEF PromisedMove
  <2>5. CASE r.status = "dispatch_unknown"
    BY <2>1, <2>2, <2>5, WorkStates DEF PromisedMove
  <2>6. QED BY <2>4, <2>5
<1>3. CASE ~SameRun(r, q)
  <2>1. CASE r.status = "absent" /\ q.status = "queued"
    BY <2>1, WorkStates DEF PromisedMove
  <2>2. CASE r.status = "queued" /\ q.status = "cancelled" /\ ~q.run
    BY <2>2, WorkStates DEF PromisedMove
  <2>3. CASE /\ r.status = "dispatching" /\ ~q.run
             /\ q.status \in {"queued", "cancelled", "failed"}
    <3>1. n = 0 BY <2>3 DEF Doubtful
    <3>2. QED BY <2>3, <3>1, WorkStates DEF PromisedMove
  <2>4. CASE /\ r.status = "dispatching" /\ ~q.contained
             /\ q.status = "dispatch_unknown"
    BY <2>4, WorkStates DEF PromisedMove
  <2>5. CASE r.status = "dispatching" /\ q.status = "running" /\ q.run
    <3>1. ~Closed(q) BY <2>5 DEF Closed, Shape, Terminal
    <3>2. QED BY <2>5, <3>1, WorkStates DEF PromisedMove
  <2>6. QED BY <1>3, <2>1, <2>2, <2>3, <2>4, <2>5 DEF Moves
<1>4. r.run \in BOOLEAN BY DEF TaskRecord
<1>5. QED BY <1>1, <1>2, <1>3, <1>4

\* The refinement mapping, and what its steps look like for one task.
Works == [t \in Tasks |-> WorkState(task[t])]

LEMMA PromisedStep ==
  ASSUME TypeOK, NEW t \in Tasks, UNCHANGED runs,
         \A u \in Tasks \ {t} : task'[u] = task[u],
         PromisedMove(task[t], task'[t], runs[t])
  PROVE  Promise!Next \/ UNCHANGED Works
<1> DEFINE s == WorkState(task'[t])
<1>1. Works' = [Works EXCEPT ![t] = s] BY DEF Works
<1>2. Works[t] = WorkState(task[t]) BY DEF Works
<1>3. CASE s = WorkState(task[t]) BY <1>1, <1>2, <1>3 DEF Works
<1>4. CASE s # WorkState(task[t])
  <2>1. Promise!Becomes(t, s) BY <1>1 DEF Works, Promise!Becomes
  <2> HIDE DEF s
  <2>2. \/ Promise!Enter(t) \/ Promise!Return(t) \/ Promise!Fence(t)
        \/ Promise!Track(t) \/ Promise!HandOff(t) \/ Promise!Finish(t)
        \/ Promise!WriteOff(t)
    BY <1>2, <1>4, <2>1
       DEF PromisedMove, s, Works, Promise!Enter, Promise!Return,
           Promise!Fence, Promise!Track, Promise!HandOff, Promise!Finish,
           Promise!WriteOff
  <2>3. QED BY <2>2 DEF Promise!Next
<1>5. QED BY <1>3, <1>4

LEMMA PromiseStep ==
  ASSUME Sound, Accounted, [Next]_vars, Sound', Accounted'
  PROVE  Promise!Next \/ UNCHANGED <<Works, runs>>
<1> USE DEF Sound
<1>0. /\ \A t \in Tasks :
           /\ task[t] \in TaskRecord /\ Shape(task[t])
           /\ task'[t] \in TaskRecord /\ Shape(task'[t])
           /\ task[t].run => task[t].status \in RunStatuses
           /\ ~task[t].run => task[t].status \in Runless
           /\ task'[t].run => task'[t].status \in RunStatuses
           /\ ~task'[t].run => task'[t].status \in Runless
           /\ task'[t].run => runs'[t] = 1
           /\ ~task'[t].run /\ task'[t].status \notin Doubtful =>
                runs'[t] = 0
  BY DEF RecordsOK, Accounted, AccountedFor, RunsAccounted, RecordAccounted,
         Untouched
<1>1. CASE UNCHANGED vars BY <1>1 DEF vars, Works
<1>2. CASE Process
  BY <1>2
     DEF Process, DrainStarts, DrainFindsNothing, DrainEnds, Close, ShutDown,
         Crash, Restart, Initialized, RegisterOwner, hermesVars, Works
<1>3. ASSUME NEW t \in Tasks, Admit(t) PROVE Promise!Next
  <2>1. /\ task[t].status = "queued"
        /\ task'[t].status = "dispatching"
        /\ \A u \in Tasks \ {t} : task'[u] = task[u]
    BY <1>3, AdmitRecord
  <2>2. WorkState(task[t]) = "waiting" /\ WorkState(task'[t]) = "claimed"
    BY <1>0, <2>1, WorkStates
  <2>3. Works[t] = "waiting" /\ Works' = [Works EXCEPT ![t] = "claimed"]
    BY <2>1, <2>2 DEF Works
  <2>4. Promise!Occupied = ActiveTasks
    BY <1>0, WorkStates DEF Promise!Occupied, ActiveTasks
  <2>5. Cardinality(ActiveTasks) < MaxConcurrent /\ UNCHANGED runs
    BY <1>3 DEF Admit, Admissible, Reached, hermesVars
  <2>6. Promise!Becomes(t, "claimed")
    BY <2>3, <2>5 DEF Promise!Becomes, Works
  <2>7. [u \in Tasks |-> WorkState(task[u])][t] = "waiting"
    BY <2>3 DEF Works
  <2>8. Promise!Cardinality(Promise!Occupied) < MaxConcurrent
    BY <2>4, <2>5 DEF Promise!Cardinality, Cardinality
  <2>9. Promise!Claim(t) BY <2>6, <2>7, <2>8 DEF Promise!Claim
  <2>10. QED BY <2>9 DEF Promise!Next
<1>4. ASSUME NEW t \in Tasks, HermesAccepts(t) PROVE Promise!Next
  <2>1. /\ t \in wire /\ runs[t] = 0 /\ ~task[t].run
        /\ task[t].status \in Doubtful
    BY <1>4
       DEF HermesAccepts, Accounted, AccountedFor, RunsAccounted,
           RecordAccounted, Untouched
  <2>2. Works[t] \in {"claimed", "fenced", "written_off"}
    BY <1>0, <2>1, WorkStates DEF Works, Doubtful
  <2>3. UNCHANGED Works /\ runs' = [runs EXCEPT ![t] = 1]
    BY <1>4, <2>1 DEF HermesAccepts, Works, TypeOK
  <2>4. Promise!Start(t) BY <2>1, <2>2, <2>3 DEF Promise!Start, Works
  <2>5. QED BY <2>4 DEF Promise!Next
<1>5. ASSUME NEW t \in Tasks,
             \/ CancelStopped(t) \/ AdmitFails(t) \/ Dispatch(t)
             \/ Control(t) \/ Reconcile(t) \/ OwnerCall(t)
             \/ \E status \in RunStates : HermesMoves(t, status)
             \/ BootTask(t) \/ BootWatches(t) \/ OperatorContains(t),
             \A u \in Tasks : ~Admit(u)
      PROVE  Promise!Next \/ UNCHANGED <<Works, runs>>
  <2>1. Moves(task[t], task'[t]) /\ UNCHANGED runs
    BY <1>5, RecordMoves DEF Accounted
  <2>2. \A u \in Tasks \ {t} : task'[u] = task[u]
    <3>1. Elsewhere(t)
      BY <1>5, TaskStepAccounted DEF Accounted, Upstream
    <3>2. QED BY <3>1 DEF Elsewhere, Same
  <2>3. Calm(task[t], task'[t]) BY <1>5, StepCalm DEF Calmly
  <2>4. PromisedMove(task[t], task'[t], runs[t])
    BY <1>0, <2>1, <2>3, MovesPromised
  <2>5. QED BY <2>1, <2>2, <2>4, PromisedStep
<1>6. QED BY <1>1, <1>2, <1>3, <1>4, <1>5 DEF Next, Upstream

\* The task supervisor implements WorkExecution: work is started at most once,
\* waits again only when it was certainly not started, is fenced while that is
\* in doubt, and never takes more slots than there are.
THEOREM PromiseKept == Spec => KeepsPromise
<1>1. Init => Promise!Init
  <2>1. WorkState(Absent) = "new" BY DEF WorkState, Absent
  <2>2. QED BY <2>1 DEF Init, Promise!Init
<1>2. ASSUME Sound /\ Accounted, [Next]_vars, (Sound /\ Accounted)'
      PROVE  [Promise!Next]_<<Works, runs>>
  BY <1>2, PromiseStep
<1>3. QED
  BY <1>1, <1>2, SupervisorAccounted, PTL
     DEF Spec, KeepsPromise, Promise!Spec, Works

-----------------------------------------------------------------------------
(* Following, settling, telling *)
Concerns(t) == task[t].run /\ ~Closed(task[t])

\* What alone keeps an eye on a run, until the process closes: a timer, a
\* subscription, a suppression somebody decided on, or an operation that ends
\* by arming one of them.
Kept(t) ==
  \/ t \in poll \cup watching \cup suppressed
  \/ op[t]["poll"] # Idle \/ op[t]["boot"] # Idle

\* A run that was just accepted is in the hands of dispatchTask, or of the stop
\* request it sends.
Handled(t) == op[t]["dispatch"] # Idle \/ t \in sending

\* Points of operations that apply a run's status.
Applying == {"apply", "move", "write", "deny"}

FollowedFor(t) ==
  /\ op[t]["dispatch"].pc \notin Applying
  /\ Open /\ Concerns(t) /\ t \notin booting => Kept(t) \/ Handled(t)
  /\ Open /\ Concerns(t) /\ t \in confirmed => Kept(t)
  /\ t \in confirmed => task[t].run
  /\ \A r \in Roles : op[t][r].pc = "await" => t \in sending
  /\ op[t]["boot"] # Idle =>
       phase # "up" /\ (Open => task[t].status # "delegated")
  /\ phase = "up" => t \notin booting

\* No operation outlives the process.
DownQuiet ==
  phase = "down" =>
    \A t \in Tasks :
      t \notin confirmed \cup sending /\ \A r \in Roles : op[t][r] = Idle

\* The inductive invariant, beside Sound and Accounted.
AllFollowed ==
  /\ \A t \in Tasks : FollowedFor(t)
  /\ DownQuiet

-----------------------------------------------------------------------------
(* What a step on t keeps of it, and leaves alone of the others. *)

Attends(t) ==
  /\ UNCHANGED phase
  /\ op'[t]["dispatch"].pc \notin Applying
  /\ Concerns(t)' /\ ~Concerns(t) /\ Open => Kept(t)' \/ Handled(t)'
  /\ Concerns(t)' /\ ~Concerns(t) /\ Open /\ t \in confirmed' => Kept(t)'
  /\ task[t].run => task'[t].run
  /\ t \in confirmed' => t \in confirmed \/ task[t].run
  /\ Concerns(t)' /\ Kept(t) /\ Open => Kept(t)'
  /\ Concerns(t)' /\ Handled(t) /\ Open /\ ~Kept(t) =>
       Kept(t)' \/ Handled(t)' \/ t \in confirmed
  /\ t \in booting' => t \in booting
  /\ t \in booting /\ t \notin booting' => ~Concerns(t)' \/ Kept(t)'
  /\ t \in confirmed' => t \in confirmed \/ ~Open \/ Kept(t)'
  /\ \A r \in Roles : op'[t][r].pc = "await" => t \in sending'
  /\ op'[t]["boot"] # Idle =>
       phase # "up" /\ (Open => task'[t].status # "delegated")

SameAttended(u) ==
  /\ UNCHANGED <<task[u], op[u], phase>>
  /\ u \in poll' <=> u \in poll
  /\ u \in watching' <=> u \in watching
  /\ u \in suppressed' <=> u \in suppressed
  /\ u \in sending' <=> u \in sending
  /\ u \in confirmed' <=> u \in confirmed
  /\ u \in booting' <=> u \in booting

LEMMA AttendsFollowed ==
  ASSUME NEW t \in Tasks, FollowedFor(t), Attends(t)
  PROVE  FollowedFor(t)'
<1> USE DEF Attends, FollowedFor
<1>1. Open' <=> Open BY DEF Open
<1>2. (Open /\ Concerns(t) /\ t \notin booting => Kept(t) \/ Handled(t))'
  BY <1>1
<1>3. (Open /\ Concerns(t) /\ t \in confirmed => Kept(t))' BY <1>1
<1>4. QED BY <1>1, <1>2, <1>3

LEMMA SameFollowed ==
  ASSUME NEW u, FollowedFor(u), SameAttended(u)
  PROVE  FollowedFor(u)'
BY DEF FollowedFor, SameAttended, Concerns, Kept, Handled, Open

LEMMA BusyPoints ==
  /\ Idle.pc = "idle"
  /\ \A pc, arg, seen : At(pc, arg, seen).pc = pc
  /\ \A pc, arg, seen : pc # "idle" => At(pc, arg, seen) # Idle
  /\ \A r \in {"poll", "boot"} : After(r) # Idle
  /\ \A r \in {"poll", "boot"} : \A record : StopEntry(r, record) # Idle
  /\ \A status : Snapshot(status) # Idle /\ Snapshot(status).pc # "await"
  /\ \A r \in Roles : After(r).pc \notin Applying \cup {"await"}
  /\ \A r \in Roles : \A record :
       StopEntry(r, record).pc \notin Applying \cup {"await"}
<1>1. \A pc, arg, seen : pc # "idle" => At(pc, arg, seen) # Idle
  BY DEF At, Idle
<1>2. \A r \in {"poll", "boot"} : After(r) # Idle
  BY <1>1 DEF After
<1>3. \A r \in {"poll", "boot"} : \A record : StopEntry(r, record) # Idle
  BY <1>1, <1>2 DEF StopEntry
<1>4. \A status : Snapshot(status) # Idle /\ Snapshot(status).pc # "await"
  BY <1>1, PointsReached DEF Snapshot
<1>5. QED BY <1>1, <1>2, <1>3, <1>4, PointsReached DEF Resting, Applying

\* A step on a record concerns no more than before, but where it gives the
\* record its run.
LEMMA ConcernsLess ==
  ASSUME NEW t, Calm(task[t], task'[t]),
         task'[t].run => task[t].run
  PROVE  Concerns(t)' => Concerns(t)
BY DEF Concerns, Calm, Contained, Closed, TaskRecord

\* A step of one operation, or of none, that takes no timer, subscription or
\* suppression away from the others.
LEMMA PutAttends ==
  ASSUME TypeOK, NEW t \in Tasks, FollowedFor(t),
         NEW r \in Roles, NEW o, Put(t, r, o),
         UNCHANGED <<phase, booting>>, confirmed' \subseteq confirmed,
         Concerns(t)' => Concerns(t), task[t].run => task'[t].run,
         r \in {"poll", "boot"} => o # Idle,
         r = "boot" => op[t][r] # Idle,
         r = "dispatch" => o.pc \notin Applying,
         r = "dispatch" /\ o = Idle =>
           t \in confirmed \/ ~Open \/ ~Concerns(t)',
         task'[t].status = "delegated" => task[t].status = "delegated",
         t \in sending => t \in sending',
         o.pc = "await" => t \in sending',
         t \in poll \cup watching \cup suppressed =>
           r = "poll" \/ r = "boot"
             \/ t \in poll' \cup watching' \cup suppressed'
  PROVE  Attends(t)
<1>1. /\ op'[t][r] = o
      /\ \A x \in Roles \ {r} : op'[t][x] = op[t][x]
  BY PutPoint DEF TypeOK
<1>2. {"poll", "boot", "dispatch"} \subseteq Roles BY DEF Roles
<1>3. Kept(t) => Kept(t)' BY <1>1, <1>2 DEF Kept
<1>4. Handled(t) /\ Open /\ Concerns(t)' => Handled(t)' \/ t \in confirmed
  BY <1>1, <1>2 DEF Handled
<1>5. \A x \in Roles : op'[t][x].pc = "await" => t \in sending'
  BY <1>1 DEF FollowedFor
<1>6. op'[t]["boot"] # Idle => op[t]["boot"] # Idle
  BY <1>1, <1>2
<1>7. op'[t]["dispatch"].pc \notin Applying
  BY <1>1, <1>2 DEF FollowedFor
<1>8. QED BY <1>3, <1>4, <1>5, <1>6, <1>7 DEF Attends, FollowedFor

LEMMA OpsKeptAttends ==
  ASSUME NEW t \in Tasks, FollowedFor(t), UNCHANGED <<op, phase, booting>>,
         confirmed' \subseteq confirmed,
         Concerns(t)' => Concerns(t), task[t].run => task'[t].run,
         task'[t].status = "delegated" =>
           task[t].status = "delegated" \/ phase = "up",
         t \in sending => t \in sending',
         t \in poll \cup watching \cup suppressed =>
           ~Concerns(t)' \/ t \in poll' \cup watching' \cup suppressed'
  PROVE  Attends(t)
<1>1. Concerns(t)' /\ Kept(t) => Kept(t)' BY DEF Kept
<1>2. Handled(t) => Handled(t)' BY DEF Handled
<1>3. QED BY <1>1, <1>2 DEF Attends, FollowedFor

\* A stop request settles: a live process polls the task from now on.
LEMMA SettlesAttends ==
  ASSUME TypeOK, NEW t \in Tasks, FollowedFor(t), StopSettles(t), task[t].run,
         UNCHANGED <<phase, booting, watching, suppressed>>,
         Concerns(t)' => Concerns(t), task[t].run => task'[t].run,
         task'[t].status = "delegated" => task[t].status = "delegated",
         poll' = PollArmed(t) \/ (phase = "closing" /\ UNCHANGED poll)
  PROVE  Attends(t)
<1>1. \A r \in Roles : op'[t][r] = IF op[t][r].pc = "await"
                                   THEN After(r) ELSE op[t][r]
  BY DEF StopSettles, TypeOK
<1>2. {"poll", "boot", "dispatch"} \subseteq Roles BY DEF Roles
<1>3. /\ Open => t \in poll' \cup suppressed'
      /\ poll \subseteq poll'
  BY DEF PollArmed, Open
<1>4. \A r \in Roles : op'[t][r].pc # "await" BY <1>1, BusyPoints
<1>5. op'[t]["boot"] # Idle => op[t]["boot"] # Idle
  BY <1>1, <1>2, BusyPoints
<1>6. Open => Kept(t)' BY <1>3 DEF Kept
<1>7. op'[t]["dispatch"].pc \notin Applying
  BY <1>1, <1>2, PointsReached DEF FollowedFor, Applying
<1>8. QED BY <1>4, <1>5, <1>6, <1>7 DEF Attends, FollowedFor

-----------------------------------------------------------------------------
(* The steps. *)

\* Nothing but markDelegated delegates, and it runs in a live process.
LEMMA StatusesReached ==
  ASSUME NEW r \in TaskRecord
  PROVE  /\ \A s \in Statuses : Transitioned(r, s).status \in {r.status, s}
         /\ StopMarked(r).status = r.status
         /\ Contained(r).status = r.status
         /\ \A gone \in BOOLEAN : Unknowned(r, gone).status \in
              {r.status, "unknown", "dispatch_unknown"}
BY DEF Transitioned, StopMarked, Contained, Unknowned, Moved, TaskRecord

LEMMA AttendedElsewhere ==
  ASSUME TypeOK, NEW t \in Tasks,
         \/ Admit(t) \/ CancelStopped(t) \/ AdmitFails(t) \/ Dispatch(t)
         \/ Control(t) \/ Reconcile(t) \/ OwnerCall(t) \/ Upstream(t)
         \/ BootTask(t) \/ BootWatches(t) \/ OperatorContains(t)
  PROVE  \A u \in Tasks \ {t} : SameAttended(u)
<1> USE DEF TypeOK, memory, drainVars, timerVars, stopVars, hermesVars,
            bounds, SameAttended, Put
<1>1. CASE Admit(t) \/ CancelStopped(t) \/ AdmitFails(t)
  BY <1>1 DEF Admit, CancelStopped, AdmitFails
<1>2. CASE Dispatch(t)
  <2>1. CASE StartDispatch(t) \/ SettleRejection(t) \/ SettleAmbiguity(t)
    BY <2>1 DEF StartDispatch, SettleRejection, SettleAmbiguity
  <2>2. CASE PersistAccepted(t) BY <2>2 DEF PersistAccepted, StartWatcher
  <2>3. CASE RunIdArrives(t) \/ AnswerLost(t)
    BY <2>3 DEF RunIdArrives, AnswerLost
  <2>4. CASE RetryTimer(t) \/ RunIdAbandoned(t)
    <3>1. CASE RetryTimer(t) BY <3>1 DEF RetryTimer
    <3>2. CASE RunIdAbandoned(t) BY <3>2 DEF RunIdAbandoned
    <3>3. QED BY <2>4, <3>1, <3>2
  <2>5. CASE \E kind \in {"busy", "refused"} : HermesRejects(t, kind)
    BY <2>5 DEF HermesRejects
  <2>6. QED BY <1>2, <2>1, <2>2, <2>3, <2>4, <2>5 DEF Dispatch
<1>3. CASE Control(t)
  <2>1. CASE \E r \in Roles : MarkStop(t, r) \/ HaltRun(t, r)
    BY <2>1 DEF MarkStop, HaltRun
  <2>2. CASE StopConfirmed(t) \/ StopFails(t)
    <3>1. /\ StopSettles(t) /\ poll' = PollArmed(t)
          /\ confirmed' \in {confirmed \cup {t}, confirmed \ {t}}
          /\ \A u \in Tasks \ {t} : task'[u] = task[u]
          /\ UNCHANGED <<phase, booting, watching, suppressed>>
      BY <2>2 DEF StopConfirmed, StopFails
    <3>2. QED BY <3>1 DEF StopSettles, PollArmed
  <2>3. CASE StopAborted(t) \/ StopReload(t)
    BY <2>3 DEF StopAborted, StopReload, StopSettles
  <2>4. QED BY <1>3, <2>1, <2>2, <2>3 DEF Control
<1>4. CASE Reconcile(t)
  <2>1. CASE PollFires(t) \/ Rearm(t) \/ WatchEnds(t)
    BY <2>1 DEF PollFires, Rearm, WatchEnds, PollArmed
  <2>2. CASE RunEvent(t) \/ RunEventMismatch(t)
    BY <2>2 DEF RunEvent, RunEventMismatch
  <2>3. CASE \E r \in Roles :
               \/ SnapshotArrives(t, r) \/ SnapshotFails(t, r)
               \/ \E gone \in BOOLEAN : SnapshotRefuted(t, r, gone)
    BY <2>3 DEF SnapshotArrives, SnapshotFails, SnapshotRefuted
  <2>4. CASE \E r \in Roles : ApplyRunning(t, r) \/ ApprovalDenied(t, r)
    BY <2>4 DEF ApplyRunning, ApprovalDenied
  <2>5. CASE \E r \in Roles : MoveToStatus(t, r) \/ WriteStatus(t, r)
    BY <2>5 DEF MoveToStatus, WriteStatus, Applied
  <2>6. QED BY <1>4, <2>1, <2>2, <2>3, <2>4, <2>5 DEF Reconcile
<1>5. CASE OwnerCall(t)
  BY <1>5
     DEF OwnerCall, Submit, StopCall, MarkDelegated, ResolveDelegated
<1>6. CASE Upstream(t)
  BY <1>6 DEF Upstream, HermesAccepts, HermesMoves
<1>7. CASE BootTask(t) \/ BootWatches(t) \/ OperatorContains(t)
  BY <1>7 DEF BootTask, BootWatches, OperatorContains, StartWatcher
<1>8. QED BY <1>1, <1>2, <1>3, <1>4, <1>5, <1>6, <1>7

\* Stops: whatever a stop leaves behind is polled.
LEMMA ControlAttends ==
  ASSUME TypeOK, NEW t \in Tasks, AccountedFor(t), FollowedFor(t),
         Calm(task[t], task'[t]), Control(t)
  PROVE  Attends(t)
<1> USE DEF TypeOK, drainVars, timerVars, hermesVars, bounds
<1>0. task[t] \in TaskRecord /\ task'[t].run = task[t].run
  BY ControlContinues DEF Continues, RecordContinues, SameRun
<1>c. /\ Concerns(t)' => Concerns(t)
      /\ task[t].run => task'[t].run
  BY <1>0, ConcernsLess
<1>s. t \in sending => task[t].run BY FollowedRun
<1>d. "stopping" \in Statuses
  BY DEF Statuses, HoldingStatuses, ActiveStatuses
<1>1. ASSUME NEW r \in Roles, MarkStop(t, r) PROVE Attends(t)
  <2> DEFINE o == StopEntry(r, StopMarked(task[t]))
  <2>1. /\ Put(t, r, o) /\ task'[t] = StopMarked(task[t])
        /\ op[t][r].pc = "mark"
        /\ UNCHANGED <<phase, booting, confirmed, sending, poll, watching,
                       suppressed>>
    BY <1>1 DEF MarkStop
  <2>2. /\ o.pc # "await" /\ o.pc \notin Applying
        /\ r \in {"poll", "boot"} => o # Idle
        /\ op[t][r] # Idle
    BY <2>1, BusyPoints
  <2>3. o = Idle => Closed(task'[t])
    <3>1. \A pc, seen : pc # "idle" => At(pc, "none", seen) # Idle
      BY BusyPoints
    <3>2. QED BY <2>1, <3>1 DEF StopEntry
  <2>4. task'[t].status = task[t].status
    BY <1>0, <2>1, StatusesReached
  <2> HIDE DEF o
  <2>5. QED BY <1>c, <2>1, <2>2, <2>3, <2>4, PutAttends DEF Concerns
<1>2. ASSUME NEW r \in Roles, HaltRun(t, r) PROVE Attends(t)
  <2>1. /\ op[t][r].pc = "halt"
        /\ UNCHANGED <<phase, booting, confirmed, poll, watching, suppressed>>
        /\ task'[t] \in {task[t], Transitioned(task[t], "stopping")}
    BY <1>2 DEF HaltRun
  <2>2. task'[t].status = "delegated" => task[t].status = "delegated"
    BY <1>0, <1>d, <2>1, StatusesReached
  <2>3. CASE /\ Put(t, r, At("await", "none", "none"))
             /\ sending' = sending \cup {t}
    <3> DEFINE o == At("await", "none", "none")
    <3>1. o.pc = "await" /\ o.pc \notin Applying /\ o # Idle
          /\ op[t][r] # Idle
      BY <2>1, BusyPoints DEF Applying
    <3> HIDE DEF o
    <3>2. Put(t, r, o) BY <2>3 DEF o
    <3>3. QED BY <1>c, <2>1, <2>2, <2>3, <3>1, <3>2, PutAttends
  <2>4. CASE /\ Put(t, r, After(r)) /\ UNCHANGED sending
             /\ t \in confirmed \/ Closed(task'[t])
    <3>1. /\ After(r).pc # "await" /\ After(r).pc \notin Applying
          /\ op[t][r] # Idle
          /\ r \in {"poll", "boot"} => After(r) # Idle
      BY <2>1, BusyPoints
    <3>2. QED
      BY <1>c, <2>1, <2>2, <2>4, <3>1, PutAttends DEF Concerns
  <2>5. QED BY <1>2, <2>3, <2>4 DEF HaltRun
<1>3. CASE StopConfirmed(t)
  BY <1>3, <1>c, <1>s, SettlesAttends DEF StopConfirmed
<1>4. CASE StopFails(t)
  <2>1. task'[t].status = "delegated" => task[t].status = "delegated"
    BY <1>0, <1>4, StatusesReached DEF StopFails
  <2>2. QED BY <1>4, <1>c, <1>s, <2>1, SettlesAttends DEF StopFails
<1>5. CASE StopAborted(t)
  BY <1>5, <1>c, <1>s, SettlesAttends DEF StopAborted
<1>6. CASE StopReload(t)
  <2> DEFINE o == IF task[t].run THEN StopEntry("stop", task[t]) ELSE Idle
  <2>1. /\ Put(t, "stop", o) /\ "stop" \in Roles /\ o.pc # "await"
        /\ UNCHANGED <<task, phase, booting, confirmed, sending, poll,
                       watching, suppressed>>
    BY <1>6, BusyPoints DEF StopReload, Roles
  <2> HIDE DEF o
  <2>2. QED BY <1>c, <2>1, PutAttends
<1>7. QED BY <1>1, <1>2, <1>3, <1>4, <1>5, <1>6 DEF Control

\* Polls and events: whatever a poll, a startup check or an event leaves
\* behind is polled again.
LEMMA AppliedAttends ==
  ASSUME TypeOK, NEW t \in Tasks, FollowedFor(t),
         Concerns(t)' => Concerns(t), task[t].run => task'[t].run,
         NEW r \in Roles, r # "dispatch", op[t][r] # Idle,
         task'[t].status = "delegated" => task[t].status = "delegated",
         NEW target, NEW record, Applied(t, r, target, record),
         UNCHANGED <<phase, booting, sending, poll, watching, suppressed>>
  PROVE  Attends(t)
<1>0. confirmed' \subseteq confirmed BY DEF Applied
<1>1. CASE Put(t, r, After(r))
  <2>1. /\ After(r).pc # "await" /\ After(r).pc \notin Applying
        /\ r \in {"poll", "boot"} => After(r) # Idle
    BY BusyPoints
  <2>2. QED BY <1>0, <1>1, <2>1, PutAttends
<1>2. CASE op' = [op EXCEPT ![t][r] = At("deny", "none", "none")]
  <2> DEFINE o == At("deny", "none", "none")
  <2>1. o.pc = "deny" /\ o # Idle BY BusyPoints
  <2> HIDE DEF o
  <2>2. /\ op'[t][r] = o
        /\ \A x \in Roles \ {r} : op'[t][x] = op[t][x]
    BY <1>2 DEF o, TypeOK
  <2>3. {"poll", "boot", "dispatch"} \subseteq Roles BY DEF Roles
  <2>4. Kept(t) => Kept(t)' BY <2>1, <2>2, <2>3 DEF Kept
  <2>5. Handled(t) => Handled(t)' BY <2>1, <2>2, <2>3 DEF Handled
  <2>6. \A x \in Roles : op'[t][x].pc = "await" => t \in sending'
    BY <2>1, <2>2 DEF FollowedFor
  <2>7. op'[t]["boot"] # Idle => op[t]["boot"] # Idle
    BY <2>2, <2>3
  <2>8. op'[t]["dispatch"].pc \notin Applying
    BY <2>2, <2>3 DEF FollowedFor
  <2>9. QED
    BY <1>0, <2>4, <2>5, <2>6, <2>7, <2>8 DEF Attends, FollowedFor
<1>3. QED BY <1>1, <1>2 DEF Applied

LEMMA ReconcileAttends ==
  ASSUME TypeOK, NEW t \in Tasks, AccountedFor(t), FollowedFor(t),
         Calm(task[t], task'[t]), Reconcile(t)
  PROVE  Attends(t)
<1> USE DEF TypeOK, drainVars, timerVars, stopVars, hermesVars, memory, bounds
<1>0. task[t] \in TaskRecord /\ task'[t].run = task[t].run
  BY ReconcileContinues DEF Continues, RecordContinues, SameRun
<1>c. /\ Concerns(t)' => Concerns(t)
      /\ task[t].run => task'[t].run
  BY <1>0, ConcernsLess
<1>d. {"poll", "watch", "boot", "dispatch"} \subseteq Roles BY DEF Roles
<1>e. \A r \in Roles : op[t][r].pc \in Following => op[t][r] # Idle
  BY BusyPoints DEF Following
<1>f. op[t]["dispatch"].pc \notin Applying BY DEF FollowedFor
<1>1. CASE PollFires(t)
  <2> DEFINE o == IF task[t].run /\ ~Closed(task[t])
                  THEN At("get", "none", "none") ELSE After("poll")
  <2>1. /\ Put(t, "poll", o) /\ o.pc # "await" /\ o # Idle
        /\ UNCHANGED <<task, phase, booting, confirmed, sending>>
    BY <1>1, <1>d, BusyPoints DEF PollFires
  <2> HIDE DEF o
  <2>2. QED BY <1>c, <1>d, <2>1, PutAttends
<1>2. CASE Rearm(t)
  <2>1. /\ UNCHANGED <<task, phase, booting, confirmed, sending, watching,
                       suppressed>>
        /\ op' = [op EXCEPT ![t]["poll"] = Idle]
    BY <1>2 DEF Rearm
  <2>2. op'[t]["poll"] = Idle /\ \A x \in Roles \ {"poll"} : op'[t][x] = op[t][x]
    BY <1>d, <2>1
  <2>3. Open /\ Concerns(t)' => t \in poll' \cup suppressed'
    BY <1>2, <2>1 DEF Rearm, PollArmed, Concerns
  <2>4. Open /\ Concerns(t)' => Kept(t)' BY <2>3 DEF Kept
  <2>5. Handled(t) => Handled(t)' BY <1>d, <2>1, <2>2 DEF Handled
  <2>6. \A x \in Roles : op'[t][x].pc = "await" => t \in sending'
    BY <2>1, <2>2, BusyPoints DEF FollowedFor
  <2>7. op'[t]["boot"] = op[t]["boot"] /\ op'[t]["dispatch"] = op[t]["dispatch"]
    BY <1>d, <2>2
  <2>8. QED
    BY <1>c, <2>1, <2>4, <2>5, <2>6, <2>7 DEF Attends, FollowedFor
<1>3. CASE WatchEnds(t)
  <2>1. t \in poll' \cup suppressed' BY <1>3 DEF WatchEnds, PollArmed, Open
  <2>2. QED BY <1>3, <1>c, <2>1, OpsKeptAttends DEF WatchEnds
<1>4. CASE RunEvent(t)
  <2>1. /\ Put(t, "watch", Snapshot(run[t])) /\ Snapshot(run[t]).pc # "await"
        /\ UNCHANGED <<task, phase, booting, confirmed, sending, poll,
                       watching, suppressed>>
    BY <1>4, BusyPoints DEF RunEvent
  <2>2. QED BY <1>c, <1>d, <2>1, PutAttends
<1>5. CASE RunEventMismatch(t)
  <2>1. task'[t].status = "delegated" => task[t].status = "delegated"
    BY <1>0, <1>5, StatusesReached DEF RunEventMismatch
  <2>2. QED BY <1>5, <1>c, <2>1, OpsKeptAttends DEF RunEventMismatch
<1>6. ASSUME NEW r \in Roles, SnapshotArrives(t, r) PROVE Attends(t)
  <2> DEFINE o == Snapshot(run[t])
  <2>1. /\ Put(t, r, o) /\ o.pc # "await" /\ o # Idle
        /\ op[t][r] # Idle /\ r \in {"poll", "boot"}
        /\ UNCHANGED <<task, phase, booting, confirmed, sending>>
    BY <1>6, BusyPoints DEF SnapshotArrives
  <2> HIDE DEF o
  <2>2. QED BY <1>c, <2>1, PutAttends
<1>7. ASSUME NEW r \in Roles, SnapshotFails(t, r) PROVE Attends(t)
  <2>1. /\ Put(t, r, After(r)) /\ After(r).pc # "await" /\ After(r) # Idle
        /\ op[t][r] # Idle /\ r \in {"poll", "boot"}
        /\ UNCHANGED <<task, phase, booting, confirmed, sending>>
    BY <1>7, BusyPoints DEF SnapshotFails
  <2>2. QED BY <1>c, <2>1, PutAttends
<1>8. ASSUME NEW r \in Roles, NEW gone \in BOOLEAN, SnapshotRefuted(t, r, gone)
      PROVE Attends(t)
  <2>1. /\ Put(t, r, After(r)) /\ After(r).pc # "await" /\ After(r) # Idle
        /\ op[t][r] # Idle /\ r \in {"poll", "boot"}
        /\ UNCHANGED <<phase, booting, confirmed, sending>>
    BY <1>8, BusyPoints DEF SnapshotRefuted
  <2>2. task'[t].status = "delegated" => task[t].status = "delegated"
    BY <1>0, <1>8, StatusesReached DEF SnapshotRefuted
  <2>3. QED BY <1>c, <2>1, <2>2, PutAttends
<1>9. ASSUME NEW r \in Roles, ApplyRunning(t, r) PROVE Attends(t)
  <2>1. PICK o \in {After(r), StopEntry(r, task[t]),
                    At("move", "running", "none")} : Put(t, r, o)
    BY <1>9 DEF ApplyRunning
  <2>2. r # "dispatch" /\ op[t][r] # Idle
    BY <1>9, <1>e, <1>f DEF ApplyRunning, Applying, Following
  <2>3. /\ o.pc # "await" /\ (r \in {"poll", "boot"} => o # Idle)
        /\ UNCHANGED <<task, phase, booting, confirmed, sending, poll,
                       watching, suppressed>>
    BY <1>9, BusyPoints DEF ApplyRunning
  <2>4. QED BY <1>c, <2>1, <2>2, <2>3, PutAttends
<1>10. ASSUME NEW r \in Roles, MoveToStatus(t, r) PROVE Attends(t)
  <2>1. /\ r # "dispatch" /\ op[t][r] # Idle
        /\ UNCHANGED <<task, phase, booting, sending, poll, watching,
                       suppressed>>
    BY <1>10, <1>e, <1>f DEF MoveToStatus, Applying, Following
  <2>2. CASE Applied(t, r, op[t][r].arg, task[t])
    BY <1>c, <2>1, <2>2, AppliedAttends
  <2>3. CASE Put(t, r, At("write", op[t][r].arg, "none")) /\ UNCHANGED confirmed
    <3> DEFINE o == At("write", op[t][r].arg, "none")
    <3>1. o.pc # "await" /\ o # Idle BY BusyPoints
    <3>2. Put(t, r, o) BY <2>3
    <3> HIDE DEF o
    <3>3. QED BY <1>c, <2>1, <2>3, <3>1, <3>2, PutAttends
  <2>4. QED BY <1>10, <2>2, <2>3 DEF MoveToStatus
<1>11. ASSUME NEW r \in Roles, WriteStatus(t, r) PROVE Attends(t)
  <2>1. /\ r # "dispatch" /\ op[t][r] # Idle
        /\ UNCHANGED <<phase, booting, sending, poll, watching, suppressed>>
        /\ task'[t] = Transitioned(task[t], op[t][r].arg)
        /\ Applied(t, r, op[t][r].arg, Transitioned(task[t], op[t][r].arg))
    BY <1>11, <1>e, <1>f DEF WriteStatus, Applying, Following
  <2>2. op[t][r].arg # "delegated"
    BY DEF Operation, RunStates, Live, Terminal
  <2>3. task'[t].status = "delegated" => task[t].status = "delegated"
    BY <1>0, <2>1, <2>2 DEF Transitioned, Moved, TaskRecord
  <2>4. QED BY <1>c, <2>1, <2>3, AppliedAttends
<1>12. ASSUME NEW r \in Roles, ApprovalDenied(t, r) PROVE Attends(t)
  <2>1. PICK o \in {After(r), StopEntry(r, task[t])} : Put(t, r, o)
    BY <1>12 DEF ApprovalDenied
  <2>2. r # "dispatch" /\ op[t][r] # Idle
    BY <1>12, <1>e, <1>f DEF ApprovalDenied, Applying, Following
  <2>3. /\ o.pc # "await" /\ (r \in {"poll", "boot"} => o # Idle)
        /\ UNCHANGED <<task, phase, booting, confirmed, sending, poll,
                       watching, suppressed>>
    BY <1>12, BusyPoints DEF ApprovalDenied
  <2>4. QED BY <1>c, <2>1, <2>2, <2>3, PutAttends
<1>13. QED
  BY <1>1, <1>2, <1>3, <1>4, <1>5, <1>6, <1>7, <1>8, <1>9, <1>10, <1>11,
     <1>12 DEF Reconcile

\* Nothing need follow a task whose record names no run, or is closed.
LEMMA UnconcernedAttends ==
  ASSUME NEW t \in Tasks, FollowedFor(t), ~Concerns(t)',
         task[t].run => task'[t].run,
         UNCHANGED <<phase, booting, confirmed>>,
         op'[t]["dispatch"].pc \notin Applying,
         \A r \in Roles : op'[t][r].pc = "await" => t \in sending',
         op'[t]["boot"] # Idle => op[t]["boot"] # Idle,
         task'[t].status = "delegated" =>
           task[t].status = "delegated" \/ phase = "up"
  PROVE  Attends(t)
BY DEF Attends, FollowedFor

\* Its run is not accepted yet: dispatchTask is on its way, or through with it.
LEMMA StartingAttends ==
  ASSUME TypeOK, RecordsOK, NEW t \in Tasks, AccountedFor(t), FollowedFor(t),
         NEW o, o.pc \in Starting \cup {"idle"}, Put(t, "dispatch", o),
         ~task[t].run, ~task'[t].run, task'[t].status # "delegated",
         UNCHANGED <<phase, booting, confirmed, sending>>
  PROVE  Attends(t)
<1>1. /\ op'[t]["dispatch"] = o /\ o.pc \notin Applying \cup {"await"}
      /\ \A x \in Roles \ {"dispatch"} : op'[t][x] = op[t][x]
      /\ {"boot", "dispatch"} \subseteq Roles
  BY PutPoint DEF TypeOK, Roles, Starting, Applying
<1>2. \A x \in Roles : op'[t][x].pc = "await" => t \in sending'
  BY <1>1 DEF FollowedFor
<1>3. ~Concerns(t)' BY DEF Concerns
<1>4. op'[t]["boot"] = op[t]["boot"] BY <1>1
<1>5. QED BY <1>1, <1>2, <1>3, <1>4, UnconcernedAttends

LEMMA AcceptedAttends ==
  ASSUME TypeOK, RecordsOK, NEW t \in Tasks, AccountedFor(t), FollowedFor(t),
         PersistAccepted(t)
  PROVE  Attends(t)
<1> USE DEF TypeOK, timerVars, hermesVars, bounds, drainVars
<1> DEFINE record == Accepted(task[t])
<1>1. /\ task[t].status = "dispatching" /\ ~task[t].run
      /\ phase \notin {"init", "down"}
  BY StartingAlone DEF PersistAccepted, Starting
<1>2. record.run /\ ~Closed(record) /\ record.status = "running"
  BY <1>1 DEF Accepted, Moved, TaskRecord, Closed, RecordsOK, Shape, Terminal
<1>3. /\ task'[t] = record
      /\ UNCHANGED <<phase, booting, suppressed, confirmed, sending>>
  BY DEF PersistAccepted
<1>4. PICK o \in {Idle, StopEntry("dispatch", record)} : Put(t, "dispatch", o)
  BY DEF PersistAccepted
<1>5. /\ op'[t]["dispatch"] = o /\ o.pc \notin Applying \cup {"await"}
      /\ \A x \in Roles \ {"dispatch"} : op'[t][x] = op[t][x]
      /\ {"boot", "dispatch", "poll"} \subseteq Roles
  BY <1>4, PutPoint, BusyPoints DEF Roles, Applying
<1>6. \A x \in Roles : op'[t][x].pc = "await" => t \in sending'
  BY <1>3, <1>5 DEF FollowedFor
<1>7. /\ t \notin confirmed' /\ ~Concerns(t)
      /\ op'[t]["boot"] = op[t]["boot"]
      /\ op'[t]["dispatch"].pc \notin Applying
      /\ t \in booting' <=> t \in booting
  BY <1>1, <1>3, <1>5 DEF FollowedFor, Concerns
<1>8. Open => Kept(t)' \/ Handled(t)'
  <2>1. CASE Open /\ record.stop
    <3>1. StopEntry("dispatch", record) # Idle BY <1>2, BusyPoints DEF StopEntry
    <3>2. Put(t, "dispatch", StopEntry("dispatch", record))
      BY <2>1 DEF PersistAccepted
    <3>3. op'[t]["dispatch"] = StopEntry("dispatch", record)
      BY <3>2, <1>5, PutPoint
    <3>4. QED BY <3>1, <3>3 DEF Handled
  <2>2. CASE ~(Open /\ record.stop)
    <3>1. StartWatcher(t) BY <2>2 DEF PersistAccepted
    <3>2. Open => t \in watching' \cup suppressed'
      BY <1>3, <3>1 DEF StartWatcher
    <3>3. QED BY <3>2 DEF Kept
  <2>3. QED BY <2>1, <2>2
<1>9. Kept(t) => Kept(t)'
  <2>1. poll \subseteq poll' /\ watching \subseteq watching'
    BY DEF PersistAccepted, StartWatcher
  <2>2. QED BY <1>3, <1>5, <2>1 DEF Kept
<1> HIDE DEF record
<1>10. QED
  BY <1>1, <1>2, <1>3, <1>6, <1>7, <1>8, <1>9 DEF Attends, FollowedFor

LEMMA DispatchAttends ==
  ASSUME TypeOK, RecordsOK, NEW t \in Tasks, AccountedFor(t), FollowedFor(t),
         AccountedFor(t)', Dispatch(t)
  PROVE  Attends(t)
<1> USE DEF TypeOK, timerVars, stopVars, hermesVars, bounds, drainVars
<1>0. task[t] \in TaskRecord OBVIOUS
<1>i. Idle.pc = "idle" /\ \A pc : At(pc, "none", "none").pc = pc
  BY PointsReached
<1>s. op[t]["dispatch"].pc \in Starting =>
        ~task[t].run /\ task[t].status = "dispatching"
  BY StartingAlone
<1>1. ASSUME op[t]["dispatch"].pc \in Starting, UNCHANGED <<task, phase, booting, confirmed, sending>>,
             NEW pc \in Starting, Put(t, "dispatch", At(pc, "none", "none"))
      PROVE  Attends(t)
  BY <1>1, <1>i, <1>s, StartingAttends
<1>2. ASSUME op[t]["dispatch"].pc \in Starting, UNCHANGED <<phase, booting, confirmed, sending>>,
             Put(t, "dispatch", Idle),
             NEW q, task' = [task EXCEPT ![t] = q], q.run = task[t].run,
             q.status # "delegated"
      PROVE  Attends(t)
  BY <1>2, <1>i, <1>s, StartingAttends
<1>3. CASE StartDispatch(t)
  <2>1. CASE Owner[t] \in owners
    BY <1>1, <1>3, <2>1 DEF StartDispatch, Starting
  <2>2. CASE Owner[t] \notin owners
    <3>1. /\ Transitioned(task[t], "queued").run = task[t].run
          /\ Transitioned(task[t], "queued").status \in {task[t].status, "queued"}
      BY <1>0 DEF Transitioned, Moved, TaskRecord
    <3>2. QED BY <1>2, <1>3, <1>s, <2>2, <3>1 DEF StartDispatch, Starting
  <2>3. QED BY <2>1, <2>2
<1>4. CASE RunIdArrives(t) BY <1>1, <1>4 DEF RunIdArrives, Starting
<1>5. CASE AnswerLost(t) BY <1>1, <1>5 DEF AnswerLost, Starting
<1>6. ASSUME NEW kind \in {"busy", "refused"}, HermesRejects(t, kind)
      PROVE  Attends(t)
  BY <1>1, <1>6 DEF HermesRejects, Starting
<1>7. CASE SettleRejection(t)
  <2> DEFINE q == Rejected(task[t], op[t]["dispatch"].pc = "busy")
  <2>1. q.run = task[t].run
        /\ q.status \in {task[t].status, "cancelled", "queued", "failed"}
    BY <1>0 DEF Rejected, Moved, TaskRecord
  <2>2. op[t]["dispatch"].pc \in Starting /\ task' = [task EXCEPT ![t] = q]
        /\ Put(t, "dispatch", Idle) /\ UNCHANGED <<phase, booting, confirmed, sending>>
    BY <1>7 DEF SettleRejection, Starting
  <2> HIDE DEF q
  <2>3. QED BY <1>2, <1>s, <2>1, <2>2
<1>8. CASE SettleAmbiguity(t)
  <2> DEFINE q == Fenced(task[t])
  <2>1. q.run = task[t].run
        /\ q.status \in {task[t].status, "dispatch_unknown"}
    BY <1>0 DEF Fenced, Transitioned, Moved, TaskRecord
  <2>2. op[t]["dispatch"].pc \in Starting /\ task' = [task EXCEPT ![t] = q]
        /\ Put(t, "dispatch", Idle) /\ UNCHANGED <<phase, booting, confirmed, sending>>
    BY <1>8 DEF SettleAmbiguity, Starting
  <2> HIDE DEF q
  <2>3. QED BY <1>2, <1>s, <2>1, <2>2
<1>9. CASE RetryTimer(t)
  <2>1. UNCHANGED <<task, op, phase, booting, confirmed, sending, poll,
                    watching, suppressed>>
    BY <1>9 DEF RetryTimer
  <2>2. Concerns(t)' <=> Concerns(t) BY <2>1 DEF Concerns
  <2>3. QED BY <2>1, <2>2, OpsKeptAttends
<1>10. CASE PersistAccepted(t) BY <1>10, AcceptedAttends
<1>11. CASE RunIdAbandoned(t)
  <2>1. op[t]["dispatch"].pc \in Starting /\ Put(t, "dispatch", Idle)
        /\ UNCHANGED <<task, phase, booting, confirmed, sending>>
    BY <1>11 DEF RunIdAbandoned, Starting
  <2>2. QED BY <1>i, <1>s, <2>1, StartingAttends
<1>12. QED
  BY <1>3, <1>4, <1>5, <1>6, <1>7, <1>8, <1>9, <1>10, <1>11 DEF Dispatch

\* Admission, the owner's calls, Hermes and startup.
LEMMA AdmissionAttends ==
  ASSUME TypeOK, RecordsOK, NEW t \in Tasks, AccountedFor(t), FollowedFor(t),
         Admit(t) \/ CancelStopped(t) \/ AdmitFails(t)
  PROVE  Attends(t)
<1> USE DEF TypeOK, memory, timerVars, stopVars, hermesVars, bounds, drainVars
<1>0. task[t] \in TaskRecord OBVIOUS
<1>q. /\ "cancelled" \in Statuses
      /\ task[t].status = "queued" => ~task[t].run
  BY StatusSets DEF AccountedFor, RecordAccounted, Statuses, Terminal
<1>1. CASE Admit(t)
  <2> DEFINE o == At("start", "none", "none")
             q == Transitioned(task[t], "dispatching")
  <2>1. /\ task[t].status = "queued" /\ task' = [task EXCEPT ![t] = q]
        /\ Put(t, "dispatch", o)
        /\ UNCHANGED <<phase, booting, confirmed, sending>>
    BY <1>1 DEF Admit, Admissible, Eligible, Queued
  <2>2. o.pc \in Starting BY PointsReached DEF Starting
  <2>3. q.run = task[t].run /\ q.status \in {task[t].status, "dispatching"}
    BY <1>0 DEF Transitioned, Moved, TaskRecord
  <2> HIDE DEF o, q
  <2>4. QED BY <1>q, <2>1, <2>2, <2>3, StartingAttends
<1>2. CASE CancelStopped(t)
  <2>1. /\ task[t].status = "queued"
        /\ task' = [task EXCEPT ![t] = Transitioned(task[t], "cancelled")]
        /\ UNCHANGED <<op, phase, booting, confirmed, sending, poll, watching,
                       suppressed>>
    BY <1>2 DEF CancelStopped, Cancellable, Queued
  <2>2. /\ task'[t].run = task[t].run
        /\ task'[t].status \in {task[t].status, "cancelled"}
    BY <1>0, <2>1 DEF Transitioned, Moved, TaskRecord
  <2>3. ~Concerns(t)' BY <1>q, <2>1, <2>2 DEF Concerns
  <2>4. QED BY <1>q, <2>1, <2>2, <2>3, OpsKeptAttends
<1>3. CASE AdmitFails(t)
  <2>1. UNCHANGED <<task, op, phase, booting, confirmed, sending, poll,
                    watching, suppressed>>
    BY <1>3 DEF AdmitFails
  <2>2. Concerns(t)' <=> Concerns(t) BY <2>1 DEF Concerns
  <2>3. QED BY <2>1, <2>2, OpsKeptAttends
<1>4. QED BY <1>1, <1>2, <1>3

LEMMA OwnerCallAttends ==
  ASSUME TypeOK, RecordsOK, NEW t \in Tasks, AccountedFor(t), FollowedFor(t),
         OwnerCall(t)
  PROVE  Attends(t)
<1> USE DEF TypeOK, timerVars, stopVars, hermesVars, bounds, drainVars
<1>0. task[t] \in TaskRecord OBVIOUS
<1>d. {"dispatch", "boot", "stop"} \subseteq Roles BY DEF Roles
<1>1. CASE Submit(t)
  <2>1. /\ task[t] = Absent
        /\ task'[t] = [Absent EXCEPT !.status = "queued"]
        /\ UNCHANGED <<op, phase, booting, confirmed, sending>>
    BY <1>1 DEF Submit
  <2>2. ~task[t].run /\ ~task'[t].run /\ task'[t].status = "queued"
    BY <2>1 DEF Absent
  <2>3. QED
    BY <1>d, <2>1, <2>2, UnconcernedAttends DEF FollowedFor, Concerns
<1>2. CASE StopCall(t)
  <2> DEFINE record == StopRequested(task[t])
  <2>1. PICK o \in {Idle, At("reload", "none", "none"),
                    StopEntry("stop", record)} : Put(t, "stop", o)
    BY <1>2 DEF StopCall
  <2>2. o.pc # "await" BY <1>d, BusyPoints
  <2>3. /\ task'[t] = record
        /\ UNCHANGED <<phase, booting, confirmed, sending, poll, watching,
                       suppressed>>
    BY <1>2 DEF StopCall
  <2>4. /\ record.run = task[t].run
        /\ record.status \in {task[t].status, "cancelled"}
        /\ Closed(task[t]) => record = task[t]
    BY <1>0 DEF StopRequested, StopMarked, Moved, TaskRecord
  <2>5. Concerns(t)' => Concerns(t) BY <2>3, <2>4 DEF Concerns
  <2> HIDE DEF record
  <2>6. QED BY <1>d, <2>1, <2>2, <2>3, <2>4, <2>5, PutAttends
<1>3. CASE MarkDelegated(t)
  <2>1. /\ task[t].status = "running" /\ phase = "up"
        /\ task'[t] = Transitioned(task[t], "delegated")
        /\ UNCHANGED <<op, phase, booting, confirmed, sending>>
        /\ t \in suppressed'
    BY <1>3 DEF MarkDelegated, Delegated
  <2>2. /\ task'[t].run = task[t].run
        /\ Closed(task[t]) => task'[t] = task[t]
    BY <1>0, <2>1 DEF Transitioned, Moved, TaskRecord
  <2>3. Concerns(t)' => Concerns(t) BY <2>2 DEF Concerns
  <2>4. QED BY <2>1, <2>2, <2>3, OpsKeptAttends
<1>4. ASSUME NEW outcome \in {"completed", "failed"},
             ResolveDelegated(t, outcome)
      PROVE  Attends(t)
  <2>1. /\ task'[t] = Moved(task[t], outcome)
        /\ UNCHANGED <<op, phase, booting, confirmed, sending>>
    BY <1>4 DEF ResolveDelegated
  <2>2. task'[t].run = task[t].run /\ task'[t].status = outcome
    BY <1>0, <2>1 DEF Moved, TaskRecord
  <2>3. ~Concerns(t)' BY <2>2 DEF Concerns, Closed, Terminal
  <2>4. QED BY <2>1, <2>2, <2>3, OpsKeptAttends
<1>5. QED BY <1>1, <1>2, <1>3, <1>4 DEF OwnerCall

LEMMA UpstreamAttends ==
  ASSUME NEW t \in Tasks, FollowedFor(t), Upstream(t)
  PROVE  Attends(t)
<1>1. UNCHANGED <<task, op, phase, booting, confirmed, sending, poll,
                  watching, suppressed>>
  BY DEF Upstream, HermesAccepts, HermesMoves, memory
<1>2. Concerns(t)' <=> Concerns(t) BY <1>1 DEF Concerns
<1>3. QED BY <1>1, <1>2, OpsKeptAttends

LEMMA BootAttends ==
  ASSUME TypeOK, RecordsOK, NEW t \in Tasks, AccountedFor(t), FollowedFor(t),
         BootTask(t) \/ BootWatches(t) \/ OperatorContains(t)
  PROVE  Attends(t)
<1> USE DEF TypeOK, memory, timerVars, stopVars, hermesVars, bounds, drainVars
<1>0. task[t] \in TaskRecord OBVIOUS
<1>d. {"dispatch", "boot", "poll"} \subseteq Roles BY DEF Roles
<1>1. CASE BootTask(t)
  <2>1. /\ phase = "init" /\ UNCHANGED <<phase, confirmed, sending, poll, watching>>
        /\ booting' \subseteq booting
        /\ suppressed \subseteq suppressed'
        /\ task[t].status = "delegated" => t \in suppressed'
    BY <1>1 DEF BootTask
  <2>2. /\ task'[t].run = task[t].run
        /\ task'[t].status \in {task[t].status, "dispatch_unknown"}
        /\ task[t].run => task'[t] = task[t]
    BY <1>0, <1>1 DEF BootTask, Fenced, Transitioned, Moved, TaskRecord
  <2>3. Concerns(t)' => Concerns(t) BY <2>2 DEF Concerns
  <2>4. CASE Concerns(t) /\ task[t].status # "delegated"
    <3> DEFINE o == At("get", "none", "none")
    <3>1. Put(t, "boot", o) BY <1>1, <2>4 DEF BootTask, Concerns
    <3>2. o # Idle /\ o.pc # "await" BY BusyPoints
    <3> HIDE DEF o
    <3>3. /\ op'[t]["boot"] = o
          /\ \A x \in Roles \ {"boot"} : op'[t][x] = op[t][x]
      BY <1>d, <3>1, PutPoint
    <3>4. Kept(t)' BY <3>2, <3>3 DEF Kept
    <3>5. \A x \in Roles : op'[t][x].pc = "await" => t \in sending'
      BY <2>1, <3>2, <3>3 DEF FollowedFor
    <3>6. op'[t]["dispatch"].pc \notin Applying
      BY <1>d, <3>3 DEF FollowedFor
    <3>7. QED
      BY <2>1, <2>2, <2>3, <2>4, <3>4, <3>5, <3>6 DEF Attends, FollowedFor
  <2>5. CASE ~(Concerns(t) /\ task[t].status # "delegated")
    <3>1. UNCHANGED op BY <1>1, <2>5 DEF BootTask, Concerns
    <3>2. Concerns(t)' => t \in suppressed'
      BY <2>1, <2>3, <2>5
    <3>3. Concerns(t)' => Kept(t)' BY <3>2 DEF Kept
    <3>4. QED
      BY <2>1, <2>2, <2>3, <3>1, <3>3 DEF Attends, FollowedFor
  <2>6. QED BY <2>4, <2>5
<1>2. CASE BootWatches(t)
  <2>1. /\ op[t]["boot"] # Idle /\ op' = [op EXCEPT ![t]["boot"] = Idle]
        /\ UNCHANGED <<task, phase, booting, suppressed, confirmed, sending>>
    BY <1>2, BusyPoints DEF BootWatches
  <2>2. /\ op'[t]["boot"] = Idle
        /\ \A x \in Roles \ {"boot"} : op'[t][x] = op[t][x]
    BY <1>d, <2>1
  <2>3. Concerns(t)' <=> Concerns(t) BY <2>1 DEF Concerns
  <2>4. Open /\ Concerns(t) => t \in watching' \cup suppressed'
    <3>1. Open /\ Concerns(t) => StartWatcher(t)
      BY <1>2, <2>1 DEF BootWatches, FollowedFor, Concerns
    <3>2. QED BY <2>1, <3>1 DEF StartWatcher
  <2>5. Open /\ Concerns(t) => Kept(t)' BY <2>4 DEF Kept
  <2>6. \A x \in Roles : op'[t][x].pc = "await" => t \in sending'
    BY <2>1, <2>2, BusyPoints DEF FollowedFor
  <2>7. op'[t]["dispatch"].pc \notin Applying
    BY <1>d, <2>2 DEF FollowedFor
  <2>8. QED
    BY <2>1, <2>2, <2>3, <2>5, <2>6, <2>7 DEF Attends, FollowedFor
<1>3. CASE OperatorContains(t)
  <2>1. /\ task'[t] = Contained(task[t])
        /\ UNCHANGED <<op, phase, booting, confirmed, sending, poll, watching,
                       suppressed>>
    BY <1>3 DEF OperatorContains
  <2>2. /\ task'[t].run = task[t].run /\ task'[t].status = task[t].status
        /\ Closed(task[t]) => Closed(task'[t])
    BY <1>0, <2>1 DEF Contained, Closed, TaskRecord
  <2>3. Concerns(t)' => Concerns(t) BY <2>2 DEF Concerns
  <2>4. QED BY <2>1, <2>2, <2>3, OpsKeptAttends
<1>4. QED BY <1>1, <1>2, <1>3

-----------------------------------------------------------------------------
(* The process. *)

LEMMA DownSteps ==
  ASSUME DownQuiet, phase = "down", NEW t \in Tasks,
         \/ Admit(t) \/ CancelStopped(t) \/ AdmitFails(t) \/ Dispatch(t)
         \/ Control(t) \/ Reconcile(t) \/ OwnerCall(t) \/ Upstream(t)
         \/ BootTask(t) \/ BootWatches(t) \/ OperatorContains(t)
  PROVE  Upstream(t) \/ OperatorContains(t)
<1>1. /\ t \notin sending /\ ~Open
      /\ \A r \in Roles : op[t][r].pc = "idle"
      /\ Roles = {"dispatch", "poll", "watch", "stop", "boot"}
  BY PointsReached DEF DownQuiet, Open, Roles
<1>2. ~Dispatch(t)
  BY <1>1
     DEF Dispatch, StartDispatch, RunIdArrives, AnswerLost, HermesRejects,
         SettleRejection, SettleAmbiguity, RetryTimer, PersistAccepted,
         RunIdAbandoned
<1>3. ~Control(t)
  BY <1>1
     DEF Control, MarkStop, HaltRun, StopConfirmed, StopFails, StopAborted,
         StopReload
<1>4. ~Reconcile(t)
  BY <1>1
     DEF Reconcile, PollFires, Rearm, WatchEnds, RunEvent, RunEventMismatch,
         SnapshotArrives, SnapshotFails, SnapshotRefuted, ApplyRunning,
         MoveToStatus, WriteStatus, ApprovalDenied
<1>5. ~OwnerCall(t)
  BY DEF OwnerCall, Submit, StopCall, MarkDelegated, ResolveDelegated
<1>6. ~Admit(t) /\ ~CancelStopped(t) /\ ~AdmitFails(t) /\ ~BootTask(t)
  BY DEF Admit, CancelStopped, AdmitFails, BootTask
<1>7. ~BootWatches(t) BY <1>1 DEF BootWatches
<1>8. QED BY <1>2, <1>3, <1>4, <1>5, <1>6, <1>7

LEMMA TaskStepFollowed ==
  ASSUME TypeOK, RecordsOK, NEW t \in Tasks, AccountedFor(t), AllFollowed,
         AccountedFor(t)',
         \/ Admit(t) \/ CancelStopped(t) \/ AdmitFails(t) \/ Dispatch(t)
         \/ Control(t) \/ Reconcile(t) \/ OwnerCall(t) \/ Upstream(t)
         \/ BootTask(t) \/ BootWatches(t) \/ OperatorContains(t)
  PROVE  AllFollowed'
<1>0. \A u \in Tasks : FollowedFor(u) BY DEF AllFollowed
<1>c. Control(t) \/ Reconcile(t) => Calm(task[t], task'[t])
  BY ControlCalm, ReconcileCalm DEF Calmly, TypeOK
<1>1. Attends(t)
  BY <1>0, <1>c, AdmissionAttends, DispatchAttends, ControlAttends,
     ReconcileAttends, OwnerCallAttends, UpstreamAttends, BootAttends
<1>2. \A u \in Tasks \ {t} : SameAttended(u) BY AttendedElsewhere
<1>3. ASSUME NEW u \in Tasks PROVE FollowedFor(u)'
  BY <1>0, <1>1, <1>2, <1>3, AttendsFollowed, SameFollowed
<1>4. UNCHANGED phase BY <1>1 DEF Attends
<1>5. DownQuiet'
  <2>1. CASE phase = "down"
    <3>1. UNCHANGED <<op, confirmed, sending>>
      BY <2>1, DownSteps
         DEF AllFollowed, Upstream, HermesAccepts, HermesMoves,
             OperatorContains, memory
    <3>2. QED BY <2>1, <3>1 DEF AllFollowed, DownQuiet
  <2>2. QED BY <1>4, <2>1 DEF DownQuiet
<1>6. QED BY <1>3, <1>5 DEF AllFollowed

LEMMA ProcessFollowed ==
  ASSUME TypeOK, Accounted, AllFollowed, Process
  PROVE  AllFollowed'
<1> USE DEF TypeOK, drainVars, timerVars, stopVars, hermesVars, bounds
<1>0. \A u \in Tasks : FollowedFor(u) /\ AccountedFor(u)
  BY DEF AllFollowed, Accounted
<1>d. {"dispatch", "boot"} \subseteq Roles BY DEF Roles
<1>1. CASE \/ DrainStarts \/ DrainFindsNothing \/ DrainEnds
           \/ \E t \in Tasks : RegisterOwner(Owner[t])
  <2>1. UNCHANGED <<task, op, phase, booting, confirmed, sending, poll,
                    watching, suppressed>>
    BY <1>1 DEF DrainStarts, DrainFindsNothing, DrainEnds, RegisterOwner
  <2>2. \A u \in Tasks : SameAttended(u) BY <2>1 DEF SameAttended
  <2>3. DownQuiet' BY <2>1 DEF AllFollowed, DownQuiet
  <2>4. QED BY <1>0, <2>2, <2>3, SameFollowed DEF AllFollowed
<1>2. CASE Close
  <2>1. /\ phase' = "closing" /\ UNCHANGED <<task, op, confirmed, sending>>
    BY <1>2 DEF Close
  <2>2. ASSUME NEW u \in Tasks PROVE FollowedFor(u)'
    BY <1>0, <2>1 DEF FollowedFor, Open
  <2>3. QED BY <2>1, <2>2 DEF AllFollowed, DownQuiet
<1>3. CASE ShutDown \/ Crash
  <2>1. /\ phase' = "down" /\ confirmed' = {} /\ sending' = {}
        /\ \A u \in Tasks, r \in Roles : op'[u][r] = Idle
    BY <1>3 DEF ShutDown, Crash, Forget
  <2>2. ASSUME NEW u \in Tasks PROVE FollowedFor(u)'
    BY <1>d, <2>1, PointsReached DEF FollowedFor, Open, Applying
  <2>3. QED BY <2>1, <2>2 DEF AllFollowed, DownQuiet
<1>4. CASE Restart
  <2>1. /\ phase = "down" /\ phase' = "init"
        /\ booting' = {t \in Tasks : task[t] # Absent}
        /\ UNCHANGED <<task, op, confirmed, sending>>
    BY <1>4 DEF Restart
  <2>2. \A u \in Tasks :
          u \notin confirmed \cup sending /\ \A r \in Roles : op[u][r] = Idle
    BY <2>1 DEF AllFollowed, DownQuiet
  <2>3. ASSUME NEW u \in Tasks PROVE FollowedFor(u)'
    <3>1. Concerns(u)' => u \in booting'
      BY <2>1 DEF Concerns, Absent
    <3>2. QED
      BY <1>d, <2>1, <2>2, <3>1, PointsReached DEF FollowedFor, Applying
  <2>4. QED BY <2>1, <2>3 DEF AllFollowed, DownQuiet
<1>5. CASE Initialized
  <2>1. /\ phase = "init" /\ phase' = "up" /\ booting = {}
        /\ \A t \in Tasks : op[t]["boot"] = Idle
        /\ UNCHANGED <<task, op, booting, confirmed, sending, poll, watching,
                       suppressed>>
    BY <1>5 DEF Initialized
  <2>2. ASSUME NEW u \in Tasks PROVE FollowedFor(u)'
    <3>1. /\ Concerns(u)' <=> Concerns(u)
          /\ Kept(u)' <=> Kept(u)
          /\ Handled(u)' <=> Handled(u)
      BY <2>1 DEF Concerns, Kept, Handled
    <3>2. Open /\ Open' BY <2>1 DEF Open
    <3>3. QED BY <1>0, <2>1, <3>1, <3>2 DEF FollowedFor
  <2>3. QED BY <2>1, <2>2 DEF AllFollowed, DownQuiet
<1>6. QED BY <1>1, <1>2, <1>3, <1>4, <1>5 DEF Process

LEMMA StepFollowed ==
  ASSUME Sound, Accounted, AllFollowed, [Next]_vars
  PROVE  AllFollowed'
<1> USE DEF Sound
<1>a. Accounted' BY StepAccounted
<1>1. CASE UNCHANGED vars
  <2>1. UNCHANGED <<task, op, phase, booting, confirmed, sending, poll,
                    watching, suppressed>>
    BY <1>1 DEF vars, memory
  <2>2. \A u \in Tasks : SameAttended(u) BY <2>1 DEF SameAttended
  <2>3. DownQuiet' BY <2>1 DEF AllFollowed, DownQuiet
  <2>4. QED BY <2>2, <2>3, SameFollowed DEF AllFollowed
<1>2. CASE Process BY <1>2, ProcessFollowed
<1>3. ASSUME NEW t \in Tasks,
             \/ Admit(t) \/ CancelStopped(t) \/ AdmitFails(t) \/ Dispatch(t)
             \/ Control(t) \/ Reconcile(t) \/ OwnerCall(t) \/ Upstream(t)
             \/ BootTask(t) \/ BootWatches(t) \/ OperatorContains(t)
      PROVE  AllFollowed'
  BY <1>a, <1>3, TaskStepFollowed DEF Accounted
<1>4. QED BY <1>1, <1>2, <1>3 DEF Next

LEMMA InitFollowed == Init => AllFollowed
<1> SUFFICES ASSUME Init PROVE AllFollowed
  OBVIOUS
<1>1. /\ phase = "up" /\ booting = {} /\ confirmed = {}
      /\ {"dispatch", "boot"} \subseteq Roles
      /\ \A t \in Tasks : task[t] = Absent
      /\ \A t \in Tasks, r \in Roles : op[t][r] = Idle
  BY DEF Init, Roles
<1>2. ASSUME NEW t \in Tasks PROVE FollowedFor(t)
  BY <1>1, PointsReached DEF FollowedFor, Concerns, Absent, Applying
<1>3. QED BY <1>1, <1>2 DEF AllFollowed, DownQuiet

\* While the gateway is up every open record with a run is polled, subscribed
\* to, being stopped or worked on, unless polling was suppressed on purpose:
\* no interleaving of polls, events, stops, lost answers, delegation and
\* restarts drops a run.
THEOREM AlwaysFollowed == Spec => []Followed
<1>1. Init => Sound /\ Accounted /\ AllFollowed
  BY InitSound, InitAccounted, InitFollowed
<1>2. Sound /\ Accounted /\ AllFollowed /\ [Next]_vars =>
        (Sound /\ Accounted /\ AllFollowed)'
  BY StepSound, StepAccounted, StepFollowed
<1>3. AllFollowed => Followed
  <2> SUFFICES ASSUME AllFollowed, NEW t \in Tasks, phase = "up", Concerns(t)
               PROVE  \/ t \in poll \cup watching \cup sending \cup suppressed
                      \/ \E r \in Roles : op[t][r] # Idle
    BY DEF Followed, Concerns
  <2>1. FollowedFor(t) /\ Open /\ t \notin booting
    BY DEF AllFollowed, FollowedFor, Open
  <2>2. Kept(t) \/ Handled(t) BY <2>1 DEF FollowedFor
  <2>3. QED BY <2>2 DEF Kept, Handled, Roles
<1>4. QED BY <1>1, <1>2, <1>3, PTL DEF Spec

-----------------------------------------------------------------------------
(* Settled records.  Hermes' run of a task is over:                        *)

Over(t) == run[t] \in Terminal \cup {"gone"}

\* An operation that is about to settle its task.
Settling(o) == o.pc \in {"move", "write"} /\ o.arg \in Terminal

\* A record that names its run was settled by the gateway.
SettledBy(r) == r.run /\ Closed(r) /\ ~r.contained

TruthFor(t) ==
  /\ \A r \in Roles : Settling(op[t][r]) => Over(t)
  /\ task[t].status = "delegated" => t \in Delegable
  /\ t \notin Delegable /\ SettledBy(task[t]) => Over(t)

\* The inductive invariant, beside Sound and Accounted.
Truth == \A t \in Tasks : TruthFor(t)

\* What a step on t may do to it.
OpsTell(t) ==
  \A r \in Roles : Settling(op'[t][r]) => Settling(op[t][r]) \/ Over(t)'

RecordTells(t) ==
  /\ task'[t].status = "delegated" =>
       task[t].status = "delegated" \/ t \in Delegable
  /\ SettledBy(task'[t]) =>
       \/ SettledBy(task[t]) \/ Over(t)'
       \/ task[t].status = "delegated" \/ t \in Delegable

Tells(t) == OpsTell(t) /\ RecordTells(t) /\ (Over(t) => Over(t)')

LEMMA TellsTruth ==
  ASSUME NEW t \in Tasks, TruthFor(t), Tells(t)
  PROVE  TruthFor(t)'
<1>1. \A r \in Roles : Settling(op'[t][r]) => Over(t)'
  BY DEF TruthFor, Tells, OpsTell, RecordTells
<1>2. task'[t].status = "delegated" => t \in Delegable
  BY DEF TruthFor, Tells, OpsTell, RecordTells
<1>3. t \notin Delegable /\ SettledBy(task'[t]) => Over(t)'
  BY DEF TruthFor, Tells, OpsTell, RecordTells
<1>4. QED BY <1>1, <1>2, <1>3 DEF TruthFor

LEMMA SameTruth ==
  ASSUME NEW u, TruthFor(u), UNCHANGED <<task[u], op[u], run[u]>>
  PROVE  TruthFor(u)'
<1>1. Over(u)' <=> Over(u) BY DEF Over
<1>2. QED BY <1>1 DEF TruthFor, Settling, SettledBy

\* A run that is over stays over.
LEMMA OverKept ==
  ASSUME TypeOK, NEW t \in Tasks, AccountedFor(t),
         \/ Admit(t) \/ CancelStopped(t) \/ AdmitFails(t) \/ Dispatch(t)
         \/ Control(t) \/ Reconcile(t) \/ OwnerCall(t) \/ Upstream(t)
         \/ BootTask(t) \/ BootWatches(t) \/ OperatorContains(t)
  PROVE  Over(t) => Over(t)'
<1> USE DEF TypeOK, hermesVars
<1>1. UNCHANGED run => (Over(t) => Over(t)') BY DEF Over
<1>2. ASSUME run' \in {run, [run EXCEPT ![t] =
                         IF @ \in Live THEN "stopping" ELSE @]}
      PROVE  Over(t) => Over(t)'
  BY <1>2 DEF Over, Live, Terminal
<1>3. CASE Admit(t) \/ CancelStopped(t) \/ AdmitFails(t)
  BY <1>1, <1>3 DEF Admit, CancelStopped, AdmitFails
<1>4. CASE Dispatch(t)
  <2>1. UNCHANGED run
    BY <1>4
       DEF Dispatch, StartDispatch, RunIdArrives, AnswerLost, HermesRejects,
           SettleRejection, SettleAmbiguity, RetryTimer, PersistAccepted,
           RunIdAbandoned
  <2>2. QED BY <1>1, <2>1
<1>5. CASE Control(t)
  <2>1. CASE StopConfirmed(t) BY <1>2, <2>1 DEF StopConfirmed
  <2>2. CASE StopFails(t) BY <1>2, <2>2 DEF StopFails
  <2>3. CASE StopAborted(t) BY <1>2, <2>3 DEF StopAborted
  <2>4. CASE StopReload(t) BY <1>1, <2>4 DEF StopReload
  <2>5. CASE \E r \in Roles : MarkStop(t, r) \/ HaltRun(t, r)
    BY <1>1, <2>5 DEF MarkStop, HaltRun
  <2>6. QED BY <1>5, <2>1, <2>2, <2>3, <2>4, <2>5 DEF Control
<1>6. CASE Reconcile(t)
  <2>1. CASE \E r \in Roles : ApprovalDenied(t, r)
    BY <2>1 DEF ApprovalDenied, Over, Terminal
  <2>2. CASE ~\E r \in Roles : ApprovalDenied(t, r)
    <3>1. UNCHANGED run
      BY <1>6, <2>2
         DEF Reconcile, PollFires, Rearm, WatchEnds, RunEvent,
             RunEventMismatch, SnapshotArrives, SnapshotFails,
             SnapshotRefuted, ApplyRunning, MoveToStatus, WriteStatus
    <3>2. QED BY <1>1, <3>1
  <2>3. QED BY <2>1, <2>2
<1>7. CASE OwnerCall(t)
  BY <1>1, <1>7
     DEF OwnerCall, Submit, StopCall, MarkDelegated, ResolveDelegated
<1>8. CASE HermesAccepts(t)
  BY <1>8
     DEF HermesAccepts, AccountedFor, RunsAccounted, Over, Terminal
<1>9. ASSUME NEW status \in RunStates, HermesMoves(t, status)
      PROVE  Over(t) => Over(t)'
  <2>1. run'[t] = status BY <1>9 DEF HermesMoves
  <2>2. Over(t) => status = "gone"
    BY <1>9 DEF HermesMoves, Over, Live, Terminal
  <2>3. QED BY <2>1, <2>2 DEF Over
<1>10. CASE BootTask(t) \/ BootWatches(t) \/ OperatorContains(t)
  BY <1>1, <1>10 DEF BootTask, BootWatches, OperatorContains
<1>11. QED
  BY <1>3, <1>4, <1>5, <1>6, <1>7, <1>8, <1>9, <1>10 DEF Upstream

\* What each rewriting of a record may settle.
LEMMA SettlingRecords ==
  ASSUME NEW r \in TaskRecord
  PROVE  /\ \A s \in Statuses : SettledBy(Transitioned(r, s)) =>
              SettledBy(r) \/ s \in Terminal
         /\ SettledBy(StopMarked(r)) => SettledBy(r)
         /\ SettledBy(StopRequested(r)) =>
              \/ SettledBy(r) \/ r.status = "delegated"
              \/ r.status = "queued" /\ r.run
         /\ \A gone \in BOOLEAN : SettledBy(Unknowned(r, gone)) =>
              SettledBy(r) \/ gone
         /\ SettledBy(Contained(r)) => SettledBy(r)
<1> USE DEF SettledBy
<1>1. ASSUME NEW s \in Statuses, SettledBy(Transitioned(r, s))
      PROVE  SettledBy(r) \/ s \in Terminal
  BY <1>1 DEF Transitioned, Moved, TaskRecord, Closed
<1>2. SettledBy(StopMarked(r)) => SettledBy(r)
  BY DEF StopMarked, TaskRecord, Closed
<1>3. SettledBy(StopRequested(r)) =>
        \/ SettledBy(r) \/ r.status = "delegated"
        \/ r.status = "queued" /\ r.run
  BY <1>2 DEF StopRequested, Moved, TaskRecord
<1>4. ASSUME NEW gone \in BOOLEAN, SettledBy(Unknowned(r, gone))
      PROVE  SettledBy(r) \/ gone
  BY <1>4 DEF Unknowned, Moved, TaskRecord, Closed, Terminal
<1>5. SettledBy(Contained(r)) => SettledBy(r)
  BY DEF Contained, TaskRecord, Closed
<1> HIDE DEF SettledBy
<1>6. QED BY <1>1, <1>2, <1>3, <1>4, <1>5

LEMMA UnsettlingPoints ==
  /\ ~Settling(Idle)
  /\ \A r \in Roles : ~Settling(After(r))
  /\ \A r \in Roles : \A record : ~Settling(StopEntry(r, record))
  /\ \A pc, seen : ~Settling(At(pc, "none", seen))
  /\ ~Settling(At("move", "running", "none"))
BY DEF Idle, At, After, StopEntry, Settling, Terminal, Roles

LEMMA PutTells ==
  ASSUME TypeOK, NEW t \in Tasks, NEW r \in Roles, NEW o, Put(t, r, o),
         Settling(o) => Settling(op[t][r]) \/ Over(t)'
  PROVE  OpsTell(t)
<1>1. op'[t][r] = o /\ \A x \in Roles \ {r} : op'[t][x] = op[t][x]
  BY PutPoint DEF TypeOK
<1>2. ASSUME NEW x \in Roles, Settling(op'[t][x])
      PROVE  Settling(op[t][x]) \/ Over(t)'
  BY <1>1, <1>2
<1>3. QED BY <1>2 DEF OpsTell

\* A doubt settles nothing, unless Hermes forgot the run.
LEMMA DoubtTells ==
  ASSUME NEW t, task[t] \in TaskRecord, NEW gone \in BOOLEAN,
         gone => Over(t)', task'[t] = Unknowned(task[t], gone)
  PROVE  RecordTells(t)
<1>1. task'[t].status \in {task[t].status, "unknown", "dispatch_unknown"}
  BY StatusesReached
<1>2. SettledBy(task'[t]) => SettledBy(task[t]) \/ gone
  BY SettlingRecords
<1>3. QED BY <1>1, <1>2 DEF RecordTells

LEMMA SameTells ==
  ASSUME NEW t
  PROVE  /\ UNCHANGED op => OpsTell(t)
         /\ UNCHANGED task => RecordTells(t)
BY DEF OpsTell, RecordTells

LEMMA DispatchTells ==
  ASSUME TypeOK, RecordsOK, NEW t \in Tasks, AccountedFor(t), Dispatch(t)
  PROVE  OpsTell(t) /\ RecordTells(t)
<1> USE DEF TypeOK, timerVars, stopVars, hermesVars, bounds, drainVars
<1>0. task[t] \in TaskRecord /\ "dispatch" \in Roles BY DEF Roles
<1>1. OpsTell(t)
  <2>1. CASE UNCHANGED op BY <2>1, SameTells
  <2>2. CASE \E o : Put(t, "dispatch", o) /\ ~Settling(o)
    BY <1>0, <2>2, PutTells
  <2>3. CASE PersistAccepted(t)
    BY <1>0, <2>2, <2>3, UnsettlingPoints DEF PersistAccepted
  <2>4. CASE RetryTimer(t) BY <2>1, <2>4 DEF RetryTimer
  <2>5. CASE StartDispatch(t) BY <2>2, <2>5, UnsettlingPoints DEF StartDispatch
  <2>6. CASE SettleRejection(t) \/ SettleAmbiguity(t) \/ RunIdAbandoned(t)
    BY <2>2, <2>6, UnsettlingPoints
       DEF SettleRejection, SettleAmbiguity, RunIdAbandoned
  <2>7. CASE RunIdArrives(t) \/ AnswerLost(t)
             \/ \E kind \in {"busy", "refused"} : HermesRejects(t, kind)
    BY <2>2, <2>7, UnsettlingPoints DEF RunIdArrives, AnswerLost, HermesRejects
  <2>8. QED BY <2>3, <2>4, <2>5, <2>6, <2>7 DEF Dispatch
<1>2. RecordTells(t)
  <2>0. op[t]["dispatch"].pc \in Starting =>
          ~task[t].run /\ task[t].status = "dispatching" /\ ~Closed(task[t])
    BY StartingAlone
  <2>1. CASE UNCHANGED task BY <2>1, SameTells
  <2>2. CASE PersistAccepted(t)
    <3>1. task'[t].status = "running" /\ ~Closed(task'[t])
      BY <1>0, <2>0, <2>2
         DEF PersistAccepted, Starting, Accepted, Moved, TaskRecord, Closed,
             Terminal
    <3>2. QED BY <3>1 DEF RecordTells, SettledBy
  <2>3. CASE StartDispatch(t) \/ SettleRejection(t) \/ SettleAmbiguity(t)
    <3>1. op[t]["dispatch"].pc \in Starting
      BY <2>3 DEF StartDispatch, SettleRejection, SettleAmbiguity, Starting
    <3>2. /\ task'[t].run = task[t].run
          /\ task'[t].status # "delegated"
      <4>1. CASE StartDispatch(t)
        <5>1. task'[t] \in {task[t], Moved(task[t], "queued")}
          BY <4>1 DEF StartDispatch, Transitioned
        <5>2. QED BY <1>0, <2>0, <3>1, <5>1 DEF Moved, TaskRecord
      <4>2. CASE SettleRejection(t)
        BY <1>0, <2>0, <3>1, <4>2
           DEF SettleRejection, Rejected, Moved, TaskRecord
      <4>3. CASE SettleAmbiguity(t)
        BY <1>0, <2>0, <3>1, <4>3
           DEF SettleAmbiguity, Fenced, Transitioned, Moved, TaskRecord
      <4>4. QED BY <2>3, <4>1, <4>2, <4>3
    <3>3. QED BY <2>0, <3>1, <3>2 DEF RecordTells, SettledBy
  <2>4. CASE RunIdArrives(t) \/ AnswerLost(t) \/ RetryTimer(t)
             \/ RunIdAbandoned(t)
             \/ \E kind \in {"busy", "refused"} : HermesRejects(t, kind)
    BY <2>1, <2>4
       DEF RunIdArrives, AnswerLost, RetryTimer, RunIdAbandoned, HermesRejects
  <2>5. QED BY <2>2, <2>3, <2>4 DEF Dispatch
<1>3. QED BY <1>1, <1>2

LEMMA ControlTells ==
  ASSUME TypeOK, RecordsOK, NEW t \in Tasks, Control(t)
  PROVE  OpsTell(t) /\ RecordTells(t)
<1> USE DEF TypeOK, timerVars, hermesVars, bounds, drainVars
<1>0. task[t] \in TaskRecord /\ "stop" \in Roles BY DEF Roles
<1>s. "stopping" \in Statuses \ Terminal
  BY DEF Statuses, HoldingStatuses, ActiveStatuses, Terminal
<1>a. StopSettles(t) => OpsTell(t)
  BY UnsettlingPoints DEF StopSettles, OpsTell
<1>1. ASSUME NEW r \in Roles, MarkStop(t, r)
      PROVE  OpsTell(t) /\ RecordTells(t)
  <2>1. /\ task'[t] = StopMarked(task[t])
        /\ Put(t, r, StopEntry(r, StopMarked(task[t])))
    BY <1>1 DEF MarkStop
  <2>2. OpsTell(t) BY <2>1, PutTells, UnsettlingPoints
  <2>3. QED
    BY <1>0, <2>1, <2>2, SettlingRecords, StatusesReached DEF RecordTells
<1>2. ASSUME NEW r \in Roles, HaltRun(t, r)
      PROVE  OpsTell(t) /\ RecordTells(t)
  <2>1. PICK o \in {After(r), At("await", "none", "none")} : Put(t, r, o)
    BY <1>2 DEF HaltRun
  <2>2. task'[t] \in {task[t], Transitioned(task[t], "stopping")}
    BY <1>2 DEF HaltRun
  <2>3. OpsTell(t) BY <2>1, PutTells, UnsettlingPoints
  <2>4. QED
    BY <1>0, <1>s, <2>2, <2>3, SettlingRecords, StatusesReached
       DEF RecordTells
<1>3. CASE StopConfirmed(t)
  BY <1>3, <1>a, SameTells DEF StopConfirmed
<1>4. CASE StopFails(t)
  <2>1. task'[t] = Unknowned(task[t], FALSE) BY <1>4 DEF StopFails
  <2>2. OpsTell(t) BY <1>4, <1>a DEF StopFails
  <2>3. QED
    BY <1>0, <2>1, <2>2, DoubtTells
<1>5. CASE StopAborted(t) BY <1>5, <1>a, SameTells DEF StopAborted
<1>6. CASE StopReload(t)
  <2>1. PICK o \in {Idle, StopEntry("stop", task[t])} : Put(t, "stop", o)
    BY <1>6 DEF StopReload
  <2>2. OpsTell(t) BY <1>0, <2>1, PutTells, UnsettlingPoints
  <2>3. QED BY <1>6, <2>2, SameTells DEF StopReload
<1>7. QED BY <1>1, <1>2, <1>3, <1>4, <1>5, <1>6 DEF Control

LEMMA ReconcileTells ==
  ASSUME TypeOK, RecordsOK, NEW t \in Tasks, TruthFor(t),
         Over(t) => Over(t)', Reconcile(t)
  PROVE  OpsTell(t) /\ RecordTells(t)
<1> USE DEF TypeOK, timerVars, stopVars, hermesVars, memory, bounds, drainVars
<1>0. task[t] \in TaskRecord /\ {"poll", "watch"} \subseteq Roles
  BY DEF Roles
<1>a. ASSUME UNCHANGED <<task, run>>, NEW r \in Roles,
             Put(t, r, Snapshot(run[t]))
      PROVE  OpsTell(t) /\ RecordTells(t)
  <2>1. Settling(Snapshot(run[t])) => Over(t)'
    BY <1>a DEF Settling, Snapshot, At, Over
  <2>2. QED BY <1>a, <2>1, PutTells, SameTells
<1>b. ASSUME NEW gone \in BOOLEAN, gone => Over(t)',
             task'[t] = Unknowned(task[t], gone)
      PROVE  RecordTells(t)
  BY <1>0, <1>b, DoubtTells
<1>c. ASSUME NEW r \in Roles, NEW o, Put(t, r, o),
             o \in {After(r), StopEntry(r, task[t]), Idle,
                    At("get", "none", "none"), At("deny", "none", "none"),
                    At("move", "running", "none")}
      PROVE  OpsTell(t)
  BY <1>c, PutTells, UnsettlingPoints
<1>d. ASSUME NEW r \in Roles, NEW target, NEW record,
             Applied(t, r, target, record)
      PROVE  OpsTell(t)
  <2>1. CASE Put(t, r, After(r)) BY <1>c, <2>1
  <2>2. CASE op' = [op EXCEPT ![t][r] = At("deny", "none", "none")]
    BY <2>2, UnsettlingPoints DEF OpsTell
  <2>3. QED BY <1>d, <2>1, <2>2 DEF Applied
<1>1. CASE PollFires(t)
  <2>1. \E o \in {At("get", "none", "none"), After("poll")} : Put(t, "poll", o)
    BY <1>1 DEF PollFires
  <2>2. QED BY <1>0, <1>1, <1>c, <2>1, SameTells DEF PollFires
<1>2. CASE Rearm(t)
  <2>1. op' = [op EXCEPT ![t]["poll"] = Idle] BY <1>2 DEF Rearm
  <2>2. OpsTell(t) BY <1>0, <2>1, UnsettlingPoints DEF OpsTell
  <2>3. QED BY <1>2, <2>2, SameTells DEF Rearm
<1>3. CASE WatchEnds(t) BY <1>3, SameTells DEF WatchEnds
<1>4. CASE RunEvent(t) BY <1>0, <1>4, <1>a DEF RunEvent
<1>5. CASE RunEventMismatch(t)
  <2>1. task'[t] = Unknowned(task[t], FALSE) /\ UNCHANGED op
    BY <1>5 DEF RunEventMismatch
  <2>2. QED BY <1>b, <2>1, SameTells
<1>6. ASSUME NEW r \in Roles, SnapshotArrives(t, r)
      PROVE  OpsTell(t) /\ RecordTells(t)
  BY <1>6, <1>a DEF SnapshotArrives
<1>7. ASSUME NEW r \in Roles, SnapshotFails(t, r)
      PROVE  OpsTell(t) /\ RecordTells(t)
  BY <1>7, <1>c, SameTells DEF SnapshotFails
<1>8. ASSUME NEW r \in Roles, NEW gone \in BOOLEAN, SnapshotRefuted(t, r, gone)
      PROVE  OpsTell(t) /\ RecordTells(t)
  <2>1. task'[t] = Unknowned(task[t], gone) /\ UNCHANGED run
        /\ Put(t, r, After(r)) /\ (gone => run[t] = "gone")
    BY <1>8 DEF SnapshotRefuted
  <2>2. gone => Over(t)' BY <2>1 DEF Over
  <2>3. QED BY <1>b, <1>c, <2>1, <2>2
<1>9. ASSUME NEW r \in Roles, ApplyRunning(t, r)
      PROVE  OpsTell(t) /\ RecordTells(t)
  <2>1. \E o \in {After(r), StopEntry(r, task[t]),
                  At("move", "running", "none")} : Put(t, r, o)
    BY <1>9 DEF ApplyRunning
  <2>2. QED BY <1>9, <1>c, <2>1, SameTells DEF ApplyRunning
<1>10. ASSUME NEW r \in Roles, MoveToStatus(t, r)
       PROVE  OpsTell(t) /\ RecordTells(t)
  <2>1. CASE Applied(t, r, op[t][r].arg, task[t])
    BY <1>10, <1>d, <2>1, SameTells DEF MoveToStatus
  <2>2. CASE Put(t, r, At("write", op[t][r].arg, "none"))
    <3>1. Settling(At("write", op[t][r].arg, "none")) => Settling(op[t][r])
      BY <1>10 DEF MoveToStatus, Settling, At
    <3>2. QED BY <1>10, <2>2, <3>1, PutTells, SameTells DEF MoveToStatus
  <2>3. QED BY <1>10, <2>1, <2>2 DEF MoveToStatus
<1>11. ASSUME NEW r \in Roles, WriteStatus(t, r)
       PROVE  OpsTell(t) /\ RecordTells(t)
  <2> DEFINE arg == op[t][r].arg
  <2>1. /\ task'[t] = Transitioned(task[t], arg) /\ OpsTell(t)
        /\ op[t][r].pc = "write"
    BY <1>11, <1>d DEF WriteStatus
  <2>2. arg \in Terminal => Over(t)' BY <2>1 DEF TruthFor, Settling
  <2>3. CASE arg \in Statuses /\ arg # "delegated"
    <3>1. /\ SettledBy(task'[t]) => SettledBy(task[t]) \/ arg \in Terminal
          /\ task'[t].status \in {task[t].status, arg}
      BY <1>0, <2>1, <2>3, SettlingRecords, StatusesReached
    <3>2. QED BY <2>1, <2>2, <2>3, <3>1 DEF RecordTells
  <2>4. CASE ~(arg \in Statuses /\ arg # "delegated")
    <3>1. arg \in RunStates BY DEF Operation
    <3>2. arg \notin Statuses
      BY <2>4, <3>1 DEF RunStates, Live, Terminal, Statuses
    <3>3. arg \notin Allowed[task[t].status]
      BY <1>0, <3>2, AllowedByStatus DEF Statuses, HoldingStatuses,
         ActiveStatuses, Terminal, TaskRecord
    <3>4. task'[t] = task[t] BY <2>1, <3>3 DEF Transitioned
    <3>5. QED BY <2>1, <3>4 DEF RecordTells
  <2>5. QED BY <2>3, <2>4
<1>12. ASSUME NEW r \in Roles, ApprovalDenied(t, r)
       PROVE  OpsTell(t) /\ RecordTells(t)
  <2>1. \E o \in {After(r), StopEntry(r, task[t])} : Put(t, r, o)
    BY <1>12 DEF ApprovalDenied
  <2>2. QED BY <1>12, <1>c, <2>1, SameTells DEF ApprovalDenied
<1>13. QED
  BY <1>1, <1>2, <1>3, <1>4, <1>5, <1>6, <1>7, <1>8, <1>9, <1>10, <1>11,
     <1>12 DEF Reconcile

LEMMA OwnerCallTells ==
  ASSUME TypeOK, RecordsOK, NEW t \in Tasks, AccountedFor(t), OwnerCall(t)
  PROVE  OpsTell(t) /\ RecordTells(t)
<1> USE DEF TypeOK, timerVars, stopVars, hermesVars, bounds, drainVars
<1>0. task[t] \in TaskRecord /\ "stop" \in Roles BY DEF Roles
<1>1. CASE Submit(t)
  <2>1. /\ task'[t] = [Absent EXCEPT !.status = "queued"]
        /\ UNCHANGED op
    BY <1>1 DEF Submit
  <2>2. QED BY <2>1, SameTells DEF RecordTells, Absent, SettledBy
<1>2. CASE StopCall(t)
  <2> DEFINE record == StopRequested(task[t])
  <2>1. PICK o \in {Idle, At("reload", "none", "none"),
                    StopEntry("stop", record)} : Put(t, "stop", o)
    BY <1>2 DEF StopCall
  <2>2. OpsTell(t) BY <1>0, <2>1, PutTells, UnsettlingPoints
  <2>3. record.status \in {task[t].status, "cancelled"}
    BY <1>0 DEF StopRequested, StopMarked, Moved, TaskRecord
  <2>4. task[t].status = "queued" => ~task[t].run
    BY StatusSets DEF AccountedFor, RecordAccounted
  <2>5. SettledBy(record) => SettledBy(task[t]) \/ task[t].status = "delegated"
    BY <1>0, <2>4, SettlingRecords
  <2>6. task'[t] = record BY <1>2 DEF StopCall
  <2> HIDE DEF record
  <2>7. QED BY <2>2, <2>3, <2>5, <2>6 DEF RecordTells
<1>3. CASE \/ MarkDelegated(t)
           \/ \E outcome \in {"completed", "failed"} :
                ResolveDelegated(t, outcome)
  <2>1. t \in Delegable /\ UNCHANGED op
    BY <1>3 DEF MarkDelegated, ResolveDelegated
  <2>2. QED BY <2>1, SameTells DEF RecordTells
<1>4. QED BY <1>1, <1>2, <1>3 DEF OwnerCall

LEMMA OtherTells ==
  ASSUME TypeOK, RecordsOK, NEW t \in Tasks, AccountedFor(t),
         \/ Admit(t) \/ CancelStopped(t) \/ AdmitFails(t) \/ Upstream(t)
         \/ BootTask(t) \/ BootWatches(t) \/ OperatorContains(t)
  PROVE  OpsTell(t) /\ RecordTells(t)
<1> USE DEF TypeOK, memory, timerVars, stopVars, hermesVars, bounds, drainVars
<1>0. /\ task[t] \in TaskRecord
      /\ {"dispatch", "boot"} \subseteq Roles
      /\ {"dispatching", "cancelled", "dispatch_unknown"} \subseteq Statuses
  BY DEF Roles, Statuses, HoldingStatuses, ActiveStatuses, Terminal
<1>q. task[t].status \in {"queued", "dispatching"} => ~task[t].run
  BY StatusSets DEF AccountedFor, RecordAccounted
<1>a. ASSUME NEW s \in {"dispatching", "cancelled", "dispatch_unknown"},
             task[t].status \in {"queued", "dispatching"},
             task'[t] = Transitioned(task[t], s)
      PROVE  RecordTells(t)
  <2>1. task'[t].run = task[t].run /\ task'[t].status \in {task[t].status, s}
    BY <1>0, <1>a DEF Transitioned, Moved, TaskRecord
  <2>2. QED BY <1>q, <1>a, <2>1 DEF RecordTells, SettledBy
<1>1. CASE Admit(t)
  <2>1. /\ task[t].status = "queued"
        /\ task'[t] = Transitioned(task[t], "dispatching")
        /\ Put(t, "dispatch", At("start", "none", "none"))
    BY <1>1 DEF Admit, Admissible, Eligible, Queued
  <2>2. QED BY <1>0, <1>a, <2>1, PutTells, UnsettlingPoints
<1>2. CASE CancelStopped(t)
  <2>1. /\ task[t].status = "queued" /\ UNCHANGED op
        /\ task'[t] = Transitioned(task[t], "cancelled")
    BY <1>2 DEF CancelStopped, Cancellable, Queued
  <2>2. QED BY <1>a, <2>1, SameTells
<1>3. CASE AdmitFails(t) BY <1>3, SameTells DEF AdmitFails
<1>4. CASE Upstream(t)
  BY <1>4, SameTells DEF Upstream, HermesAccepts, HermesMoves
<1>5. CASE BootTask(t)
  <2>1. RecordTells(t)
    <3>1. CASE task[t].status = "dispatching" /\ ~task[t].run
      <4>1. task'[t] = Transitioned(task[t], "dispatch_unknown")
        BY <1>5, <3>1 DEF BootTask, Fenced
      <4>2. QED BY <1>a, <3>1, <4>1
    <3>2. CASE ~(task[t].status = "dispatching" /\ ~task[t].run)
      BY <1>5, <3>2, SameTells DEF BootTask
    <3>3. QED BY <3>1, <3>2
  <2>2. CASE UNCHANGED op BY <2>1, <2>2, SameTells
  <2>3. CASE Put(t, "boot", At("get", "none", "none"))
    BY <1>0, <2>1, <2>3, PutTells, UnsettlingPoints
  <2>4. QED BY <1>5, <2>2, <2>3 DEF BootTask
<1>6. CASE BootWatches(t)
  <2>1. op' = [op EXCEPT ![t]["boot"] = Idle] /\ UNCHANGED task
    BY <1>6 DEF BootWatches
  <2>2. OpsTell(t) BY <1>0, <2>1, UnsettlingPoints DEF OpsTell
  <2>3. QED BY <2>1, <2>2, SameTells
<1>7. CASE OperatorContains(t)
  <2>1. task'[t] = Contained(task[t]) /\ UNCHANGED op
    BY <1>7 DEF OperatorContains
  <2>2. /\ task'[t].status = task[t].status
        /\ SettledBy(task'[t]) => SettledBy(task[t])
    BY <1>0, <2>1, SettlingRecords, StatusesReached
  <2>3. QED BY <2>1, <2>2, SameTells DEF RecordTells
<1>8. QED BY <1>1, <1>2, <1>3, <1>4, <1>5, <1>6, <1>7

LEMMA StepTruth ==
  ASSUME Sound, Accounted, Truth, [Next]_vars
  PROVE  Truth'
<1> USE DEF Sound
<1> SUFFICES ASSUME NEW u \in Tasks PROVE TruthFor(u)'
  BY DEF Truth
<1>0. TruthFor(u) /\ {"dispatch"} \subseteq Roles BY DEF Truth, Roles
<1>1. CASE UNCHANGED vars BY <1>0, <1>1, SameTruth DEF vars, memory
<1>2. CASE Process
  <2>1. UNCHANGED <<task, run>>
    BY <1>2
       DEF Process, DrainStarts, DrainFindsNothing, DrainEnds, Close,
           ShutDown, Crash, Restart, Initialized, RegisterOwner, hermesVars
  <2>2. CASE UNCHANGED op BY <1>0, <2>1, <2>2, SameTruth
  <2>3. CASE ShutDown \/ Crash
    <3>1. \A r \in Roles : op'[u][r] = Idle
      BY <2>3 DEF ShutDown, Crash, Forget
    <3>2. Over(u)' <=> Over(u) BY <2>1 DEF Over
    <3>3. QED
      BY <1>0, <2>1, <3>1, <3>2, UnsettlingPoints DEF TruthFor, SettledBy
  <2>4. QED
    BY <1>2, <2>2, <2>3
       DEF Process, DrainStarts, DrainFindsNothing, DrainEnds, Close, Restart,
           Initialized, RegisterOwner
<1>3. ASSUME NEW t \in Tasks,
             \/ Admit(t) \/ CancelStopped(t) \/ AdmitFails(t) \/ Dispatch(t)
             \/ Control(t) \/ Reconcile(t) \/ OwnerCall(t) \/ Upstream(t)
             \/ BootTask(t) \/ BootWatches(t) \/ OperatorContains(t)
      PROVE  TruthFor(u)'
  <2>0. AccountedFor(t) /\ TruthFor(t) BY DEF Accounted, Truth
  <2>1. Elsewhere(t) BY <1>3, <2>0, TaskStepAccounted
  <2>2. CASE u # t BY <1>0, <2>1, <2>2, SameTruth DEF Elsewhere, Same
  <2>3. CASE u = t
    <3>1. Over(t) => Over(t)' BY <1>3, <2>0, OverKept
    <3>2. OpsTell(t) /\ RecordTells(t)
      BY <1>3, <2>0, <3>1, DispatchTells, ControlTells, ReconcileTells,
         OwnerCallTells, OtherTells
    <3>3. QED BY <2>0, <2>3, <3>1, <3>2, TellsTruth DEF Tells
  <2>4. QED BY <2>2, <2>3
<1>4. QED BY <1>1, <1>2, <1>3 DEF Next

LEMMA InitTruth == Init => Truth
<1> SUFFICES ASSUME Init, NEW t \in Tasks PROVE TruthFor(t)
  BY DEF Truth
<1>1. task[t] = Absent /\ \A r \in Roles : op[t][r] = Idle BY DEF Init
<1>2. QED BY <1>1, UnsettlingPoints DEF TruthFor, Absent, SettledBy

\* A record settled otherwise than by an owner's disposition of delegated
\* work, or by the operator, tells the truth about its run: it is over, however
\* old the snapshot was that a poll, an event or a restart settled it by.
THEOREM SettledTruthfully == Spec => []SettledRunIsOver
<1>1. Init => Sound /\ Accounted /\ Truth
  BY InitSound, InitAccounted, InitTruth
<1>2. Sound /\ Accounted /\ Truth /\ [Next]_vars =>
        (Sound /\ Accounted /\ Truth)'
  BY StepSound, StepAccounted, StepTruth
<1>3. Truth => SettledRunIsOver
  BY DEF Truth, TruthFor, SettledBy, SettledRunIsOver, Over
<1>4. QED BY <1>1, <1>2, <1>3, PTL DEF Spec

-----------------------------------------------------------------------------
(* The queue.  A task that was submitted has one place in the order of      *)
(* submission, and no other task has one.                                   *)

Listed(t) == \E i \in 1..Len(order) : order[i] = t

Ordered ==
  /\ \A i, j \in 1..Len(order) : order[i] = order[j] => i = j
  /\ \A t \in Tasks : Listed(t) <=> task[t].status # "absent"

LEMMA OrderKept ==
  ASSUME NEW t, ~Submit(t),
         \/ Admit(t) \/ CancelStopped(t) \/ AdmitFails(t) \/ Dispatch(t)
         \/ Control(t) \/ Reconcile(t) \/ OwnerCall(t) \/ Upstream(t)
         \/ BootTask(t) \/ BootWatches(t) \/ OperatorContains(t)
  PROVE  UNCHANGED order
<1>1. CASE Dispatch(t)
  BY <1>1
     DEF Dispatch, StartDispatch, RunIdArrives, AnswerLost, HermesRejects,
         SettleRejection, SettleAmbiguity, RetryTimer, PersistAccepted,
         RunIdAbandoned
<1>2. CASE Control(t)
  BY <1>2
     DEF Control, MarkStop, HaltRun, StopConfirmed, StopFails, StopAborted,
         StopReload
<1>3. CASE Reconcile(t)
  BY <1>3
     DEF Reconcile, PollFires, Rearm, WatchEnds, RunEvent, RunEventMismatch,
         SnapshotArrives, SnapshotFails, SnapshotRefuted, ApplyRunning,
         MoveToStatus, WriteStatus, ApprovalDenied
<1>4. CASE OwnerCall(t)
  BY <1>4 DEF OwnerCall, StopCall, MarkDelegated, ResolveDelegated
<1>5. QED
  BY <1>1, <1>2, <1>3, <1>4
     DEF Admit, CancelStopped, AdmitFails, Upstream, HermesAccepts,
         HermesMoves, BootTask, BootWatches, OperatorContains

\* Nothing but submit brings a task into being, and nothing undoes it.
LEMMA StaysListed ==
  ASSUME TypeOK, RecordsOK, NEW t \in Tasks, AccountedFor(t), ~Submit(t),
         \/ Admit(t) \/ CancelStopped(t) \/ AdmitFails(t) \/ Dispatch(t)
         \/ Control(t) \/ Reconcile(t) \/ OwnerCall(t) \/ Upstream(t)
         \/ BootTask(t) \/ BootWatches(t) \/ OperatorContains(t)
  PROVE  task'[t].status # "absent" <=> task[t].status # "absent"
<1> USE DEF TypeOK, memory, hermesVars
<1>0. /\ task[t] \in TaskRecord
      /\ {"queued", "dispatching", "cancelled"} \subseteq Statuses \ {"absent"}
      /\ "absent" \notin Statuses
  BY DEF Statuses, HoldingStatuses, ActiveStatuses, Terminal
<1>r. task[t].status = "absent" => ~task[t].run
  BY StatusSets DEF AccountedFor, RecordAccounted
<1>a. ASSUME SameRun(task[t], task'[t])
      PROVE  task'[t].status # "absent" <=> task[t].status # "absent"
  BY <1>r, <1>a, StatusSets DEF SameRun
<1>1. CASE Admit(t)
  <2>1. /\ task[t].status = "queued"
        /\ task'[t] = Transitioned(task[t], "dispatching")
    BY <1>1 DEF Admit, Admissible, Eligible, Queued
  <2>2. QED BY <1>0, <2>1, StatusesReached
<1>2. CASE CancelStopped(t)
  <2>1. /\ task[t].status = "queued"
        /\ task'[t] = Transitioned(task[t], "cancelled")
    BY <1>2 DEF CancelStopped, Cancellable, Queued
  <2>2. task'[t].status \in {"queued", "cancelled"}
    BY <1>0, <2>1, StatusesReached
  <2>3. QED BY <2>1, <2>2
<1>3. CASE AdmitFails(t) BY <1>3 DEF AdmitFails
<1>4. CASE Dispatch(t)
  <2>1. CASE op[t]["dispatch"].pc \in Starting
    <3>1. task[t].status = "dispatching" BY <2>1, StartingAlone
    <3>2. Moves(task[t], task'[t]) BY <1>4, DispatchRecordMoves
    <3>3. QED BY <3>1, <3>2, StatusSets DEF Moves, SameRun
  <2>2. CASE op[t]["dispatch"].pc \notin Starting
    <3>1. UNCHANGED task
      BY <1>4, <2>2
         DEF Dispatch, StartDispatch, RunIdArrives, AnswerLost, HermesRejects,
             SettleRejection, SettleAmbiguity, RetryTimer, PersistAccepted,
             RunIdAbandoned, Starting
    <3>2. QED BY <3>1
  <2>3. QED BY <2>1, <2>2
<1>5. CASE Control(t)
  BY <1>5, <1>a, ControlContinues DEF Continues, RecordContinues
<1>6. CASE Reconcile(t)
  BY <1>6, <1>a, ReconcileContinues DEF Continues, RecordContinues
<1>7. CASE OwnerCall(t)
  <2>1. CASE StopCall(t)
    <3>1. /\ task'[t] = StopRequested(task[t])
      BY <2>1 DEF StopCall
    <3>2. \/ task'[t].status = task[t].status
          \/ task[t].status \in {"queued", "delegated"}
               /\ task'[t].status = "cancelled"
      BY <1>0, <3>1 DEF StopRequested, StopMarked, Moved, TaskRecord
    <3>3. QED BY <3>2
  <2>2. CASE MarkDelegated(t)
    <3>1. /\ task[t].status = "running"
          /\ task'[t] = Transitioned(task[t], "delegated")
      BY <2>2 DEF MarkDelegated, Delegated
    <3>2. "delegated" \in Statuses BY DEF Statuses, HoldingStatuses
    <3>3. task'[t].status \in {"running", "delegated"}
      BY <1>0, <3>1, <3>2, StatusesReached
    <3>4. QED BY <3>1, <3>3
  <2>3. ASSUME NEW outcome \in {"completed", "failed"},
               ResolveDelegated(t, outcome)
        PROVE  task'[t].status # "absent" <=> task[t].status # "absent"
    <3>1. /\ task[t].status = "delegated" /\ task'[t] = Moved(task[t], outcome)
      BY <2>3 DEF ResolveDelegated
    <3>2. task'[t].status = outcome
      BY <1>0, <3>1 DEF Moved, TaskRecord
    <3>3. QED BY <3>1, <3>2
  <2>4. QED BY <1>7, <2>1, <2>2, <2>3 DEF OwnerCall
<1>8. CASE Upstream(t) BY <1>8 DEF Upstream, HermesAccepts, HermesMoves
<1>9. CASE BootTask(t)
  <2>1. \/ task'[t] = task[t]
        \/ /\ task[t].status = "dispatching"
           /\ task'[t] = Transitioned(task[t], "dispatch_unknown")
    BY <1>9 DEF BootTask, Fenced
  <2>2. "dispatch_unknown" \in Statuses
    BY DEF Statuses, HoldingStatuses, ActiveStatuses
  <2>3. QED BY <1>0, <2>1, <2>2, StatusesReached
<1>10. CASE BootWatches(t) BY <1>10 DEF BootWatches
<1>11. CASE OperatorContains(t)
  BY <1>0, <1>11, StatusesReached DEF OperatorContains
<1>12. QED
  BY <1>1, <1>2, <1>3, <1>4, <1>5, <1>6, <1>7, <1>8, <1>9, <1>10, <1>11

LEMMA StepOrdered ==
  ASSUME Sound, Accounted, Ordered, [Next]_vars
  PROVE  Ordered'
<1> USE DEF Sound, TypeOK
<1>a. ASSUME UNCHANGED order,
             \A t \in Tasks : task'[t].status # "absent" <=>
                                task[t].status # "absent"
      PROVE  Ordered'
  BY <1>a DEF Ordered, Listed
<1>1. CASE UNCHANGED vars BY <1>1, <1>a DEF vars
<1>2. CASE Process
  <2>1. UNCHANGED <<task, order>>
    BY <1>2
       DEF Process, DrainStarts, DrainFindsNothing, DrainEnds, Close,
           ShutDown, Crash, Restart, Initialized, RegisterOwner
  <2>2. QED BY <1>a, <2>1
<1>3. ASSUME NEW t \in Tasks, Submit(t) PROVE Ordered'
  <2>1. /\ task[t] = Absent /\ order' = Append(order, t)
        /\ task'[t].status = "queued"
        /\ \A u \in Tasks \ {t} : task'[u] = task[u]
    BY <1>3 DEF Submit, Absent
  <2>2. /\ Len(order') = Len(order) + 1 /\ Len(order) \in Nat
        /\ order'[Len(order) + 1] = t
        /\ \A i \in 1..Len(order) : order'[i] = order[i]
        /\ 1..Len(order') = 1..Len(order) \cup {Len(order) + 1}
    BY <2>1
  <2>3. \A i \in 1..Len(order) : order[i] # t
    BY <2>1 DEF Ordered, Listed, Absent
  <2>4. \A i, j \in 1..Len(order') : order'[i] = order'[j] => i = j
    BY <2>2, <2>3 DEF Ordered
  <2>5. ASSUME NEW u \in Tasks
        PROVE  Listed(u)' <=> task'[u].status # "absent"
    <3>1. CASE u = t BY <2>1, <2>2, <3>1 DEF Listed
    <3>2. CASE u # t
      <4>1. (\E i \in 1..Len(order') : order'[i] = u) <=>
              (\E i \in 1..Len(order) : order[i] = u)
        BY <2>2, <3>2
      <4>2. QED BY <2>1, <3>2, <4>1 DEF Ordered, Listed
    <3>3. QED BY <3>1, <3>2
  <2>6. QED BY <2>4, <2>5 DEF Ordered
<1>4. ASSUME NEW t \in Tasks,
             \/ Admit(t) \/ CancelStopped(t) \/ AdmitFails(t) \/ Dispatch(t)
             \/ Control(t) \/ Reconcile(t) \/ OwnerCall(t) \/ Upstream(t)
             \/ BootTask(t) \/ BootWatches(t) \/ OperatorContains(t),
             ~Submit(t)
      PROVE  Ordered'
  <2>0. AccountedFor(t) /\ task[t] \in TaskRecord BY DEF Accounted
  <2>1. \A u \in Tasks \ {t} : task'[u] = task[u]
    BY <1>4, <2>0, TaskStepAccounted DEF Elsewhere, Same
  <2>2. UNCHANGED order BY <1>4, OrderKept
  <2>3. task'[t].status # "absent" <=> task[t].status # "absent"
    BY <1>4, <2>0, StaysListed
  <2>4. QED BY <1>a, <2>1, <2>2, <2>3
<1>5. QED BY <1>1, <1>2, <1>3, <1>4 DEF Next

LEMMA InitOrdered == Init => Ordered
BY DEF Init, Ordered, Listed, Absent

\* An owner who is told that a queued task waits for another one is told the
\* truth: admission would not pass it now.  And no two of them are told the
\* same place.
THEOREM QueueToldTruly == Spec => []QueueTold
<1>1. ASSUME TypeOK PROVE BlockedIsBlocked
  <2> SUFFICES ASSUME NEW t \in Queued, BlockedBy(t) # {}, Admissible(t)
               PROVE  FALSE
    BY DEF BlockedIsBlocked
  <2>1. Blocking = ActiveTasks BY DEF Blocking, ActiveTasks, Active, ActiveStatuses
  <2>2. CASE \E s \in Blocking : Root[s] = Root[t]
    <3>1. \E h \in Holders : Root[h] = Root[t]
      BY <2>1, <2>2 DEF ActiveTasks, Holders, Active, Holding, HoldingStatuses
    <3>2. QED BY <3>1 DEF Admissible, CanAdmit
  <2>3. CASE ~\E s \in Blocking : Root[s] = Root[t]
    <3>1. ~AdmittingParallel(t) BY <2>3 DEF BlockedBy
    <3>2. QED BY <2>1, <3>1 DEF AdmittingParallel, Admissible, Reached
  <2>4. QED BY <2>2, <2>3
<1>2. ASSUME Sound, Ordered PROVE PlacesDiffer
  <2> DEFINE Before(t) == {s \in Queued : s = t \/ Older(s, t)}
  <2>0. /\ \A t \in Tasks : Before(t) \subseteq Tasks
        /\ Queued \subseteq Tasks
        /\ \A t \in Queued : Listed(t)
        /\ IsFiniteSet(Tasks) /\ Len(order) \in Nat
    BY <1>2, SupervisorAssumption DEF Queued, Ordered, Sound, TypeOK
  <2>1. ASSUME NEW s \in Queued, NEW t \in Queued, Older(s, t)
        PROVE  Cardinality(Before(s)) # Cardinality(Before(t))
    <3>1. Before(s) \subseteq Before(t)
      BY <1>2, <2>0, <2>1 DEF Ordered, Older
    <3>2. t \in Before(t) /\ t \notin Before(s)
      BY <1>2, <2>0, <2>1 DEF Ordered, Older
    <3>3. IsFiniteSet(Before(t)) BY <2>0, FS_Subset
    <3> HIDE DEF Before
    <3>4. QED BY <3>1, <3>2, <3>3, FS_Subset
  <2>2. ASSUME NEW s \in Queued, NEW t \in Queued, s # t
        PROVE  Older(s, t) \/ Older(t, s)
    BY <2>0, <2>2 DEF Listed, Older
  <2>3. \A t \in Queued : Position(t) = Cardinality(Before(t)) BY DEF Position
  <2> HIDE DEF Before
  <2>4. QED BY <2>1, <2>2, <2>3 DEF PlacesDiffer
<1>3. Init => Sound /\ Accounted /\ Ordered
  BY InitSound, InitAccounted, InitOrdered
<1>4. Sound /\ Accounted /\ Ordered /\ [Next]_vars =>
        (Sound /\ Accounted /\ Ordered)'
  BY StepSound, StepAccounted, StepOrdered
<1>5. Sound /\ Accounted /\ Ordered => QueueTold
  BY <1>1, <1>2 DEF QueueTold, Sound
<1>6. QED BY <1>3, <1>4, <1>5, PTL DEF Spec

-----------------------------------------------------------------------------
(* The drain loop.  It has come to rest, or comes to rest with its next     *)
(* step.                                                                    *)

Rested ==
  /\ phase = "up"
  /\ drain = "idle" \/ (drain = "ending" /\ ~again)

\* A poll that closed its record wakes the loop when it ends.
Waking(t) == op[t]["poll"].pc = "rearm" /\ Closed(task[t])

\* What the loop left behind cannot be admitted, until somebody wakes it.
NothingLeft ==
  \/ \A t \in Tasks : ~Admissible(t)
  \/ \E t \in Tasks : Waking(t)

\* The inductive invariant, beside Sound, Accounted and AllFollowed: a task
\* that is being started has its owner's session key.
Awake ==
  /\ Rested => NothingLeft
  /\ \A t \in Tasks :
       phase = "up" /\ op[t]["dispatch"].pc = "start" => Owner[t] \in owners

\* Two records that admission cannot tell apart.
SameShare(r, q) ==
  /\ Active(r) <=> Active(q)
  /\ Holding(r) <=> Holding(q)
  /\ r.status = "queued" <=> q.status = "queued"
  /\ r.status = "delegated" <=> q.status = "delegated"
  /\ r.status = "queued" => (r.stop <=> q.stop)

\* A step that admission does not notice, except for the task it wakes for.
Unnoticed(t) ==
  /\ UNCHANGED <<order, owners, drain, again, phase>>
  /\ SameShare(task[t], task'[t])
  /\ task[t].status = "queued" => (t \in backoff' <=> t \in backoff)
  /\ Waking(t) => Waking(t)'

LEMMA UnnoticedShare ==
  ASSUME NEW r \in TaskRecord
  PROVE  /\ SameShare(r, r)
         /\ \A s \in {"running", "waiting_for_approval", "stopping"} :
              SameShare(r, Transitioned(r, s))
         /\ r.status \in RunStatuses => SameShare(r, StopMarked(r))
         /\ r.run => SameShare(r, Unknowned(r, FALSE))
         /\ r.run => SameShare(r, Unknowned(r, TRUE)) \/ Closed(Unknowned(r, TRUE))
<1>1. SameShare(r, r) BY DEF SameShare
<1>2. ASSUME NEW s \in {"running", "waiting_for_approval", "stopping"}
      PROVE  SameShare(r, Transitioned(r, s))
  <2>1. CASE Closed(r) \/ s \notin Allowed[r.status]
    BY <1>1, <2>1 DEF Transitioned
  <2>2. CASE ~Closed(r) /\ s \in Allowed[r.status]
    <3>1. r.status \in {"dispatching", "running", "waiting_for_approval",
                        "unknown", "dispatch_unknown"}
      BY <2>2, AllowedByStatus DEF TaskRecord, Statuses, HoldingStatuses,
         ActiveStatuses, Terminal
    <3>2. /\ Transitioned(r, s).status = s
          /\ ~Transitioned(r, s).missing /\ ~Transitioned(r, s).contained
      BY <2>2 DEF Transitioned, Moved, TaskRecord, Closed
    <3>3. ~r.missing /\ ~r.contained BY <2>2 DEF Closed
    <3>4. QED
      BY <3>1, <3>2, <3>3
         DEF SameShare, Active, Holding, HoldingStatuses, ActiveStatuses
  <2>3. QED BY <2>1, <2>2
<1>3. ASSUME r.status \in RunStatuses PROVE SameShare(r, StopMarked(r))
  BY <1>3, StatusSets
     DEF StopMarked, SameShare, Active, Holding, TaskRecord
<1>4. ASSUME r.run PROVE SameShare(r, Unknowned(r, FALSE))
  <2>1. CASE Unknowned(r, FALSE) = r BY <1>1, <2>1
  <2>2. CASE Unknowned(r, FALSE) # r
    <3>1. /\ ~Closed(r) /\ r.status \in ActiveStatuses
          /\ Unknowned(r, FALSE) = [r EXCEPT !.status = "unknown", !.missing = FALSE]
      BY <1>4, <2>2, AllowedByStatus
         DEF Unknowned, TaskRecord, Statuses, HoldingStatuses, ActiveStatuses,
             Terminal
    <3>2. QED
      BY <3>1 DEF SameShare, Active, Holding, HoldingStatuses, ActiveStatuses,
                  TaskRecord, Closed
  <2>3. QED BY <2>1, <2>2
<1>5. ASSUME r.run
      PROVE  SameShare(r, Unknowned(r, TRUE)) \/ Closed(Unknowned(r, TRUE))
  <2>1. CASE Unknowned(r, TRUE) = r BY <1>1, <2>1
  <2>2. CASE Unknowned(r, TRUE) # r
    BY <1>5, <2>2 DEF Unknowned, TaskRecord, Closed
  <2>3. QED BY <2>1, <2>2
<1>6. QED BY <1>1, <1>2, <1>3, <1>4, <1>5

\* Admission decides by nothing else.
LEMMA AdmissionUnnoticed ==
  ASSUME UNCHANGED <<order, owners>>,
         \A u \in Tasks : SameShare(task[u], task'[u]),
         \A u \in Tasks : task[u].status = "queued" =>
                            (u \in backoff' <=> u \in backoff)
  PROVE  \A u \in Tasks : Admissible(u)' <=> Admissible(u)
<1>1. ActiveTasks' = ActiveTasks /\ Holders' = Holders /\ Queued' = Queued
  BY DEF ActiveTasks, Holders, Queued, SameShare
<1>2. ASSUME NEW u \in Tasks PROVE CanAdmit(u)' <=> CanAdmit(u)
  <2>1. \A h \in Holders : task'[h].status = "delegated" <=> task[h].status = "delegated"
    BY DEF Holders, SameShare
  <2>2. QED BY <1>1, <2>1 DEF CanAdmit
<1>3. ASSUME NEW u \in Tasks PROVE Eligible(u)' <=> Eligible(u)
  BY <1>1 DEF Eligible, Queued, SameShare
<1>4. ASSUME NEW u \in Tasks PROVE Barrier(u)' <=> Barrier(u)
  BY <1>2, <1>3 DEF Barrier
<1>5. \A u, v : Older(u, v)' <=> Older(u, v) BY DEF Older
<1>6. ASSUME NEW u \in Tasks PROVE Reached(u)' <=> Reached(u)
  <2>1. Queued \subseteq Tasks BY DEF Queued
  <2>2. QED BY <1>1, <1>2, <1>3, <1>4, <1>5, <2>1 DEF Reached
<1>7. QED BY <1>2, <1>3, <1>6 DEF Admissible

\* Whoever wakes the loop keeps it from resting.
LEMMA Woken ==
  ASSUME TypeOK, ScheduleDrain, UNCHANGED phase
  PROVE  ~Rested'
BY DEF ScheduleDrain, Rested, TypeOK, drainVars

\* What a step on t does to the loop: it wakes it, goes unnoticed, or leaves
\* the loop a poll that will wake it.
Notices(t) ==
  \/ ~Rested'
  \/ Unnoticed(t)
  \/ UNCHANGED phase /\ Waking(t)'

LEMMA NoticesAwake ==
  ASSUME Awake, NEW t \in Tasks, Notices(t), Elsewhere(t),
         \A u \in Tasks \ {t} : u \in backoff' <=> u \in backoff
  PROVE  Rested' => NothingLeft'
<1>1. CASE ~Rested' BY <1>1
<1>2. CASE Waking(t)' BY <1>2 DEF NothingLeft
<1>3. CASE Unnoticed(t)
  <2>1. \A u \in Tasks \ {t} : task'[u] = task[u] /\ op'[u] = op[u]
    BY DEF Elsewhere, Same
  <2>2. \A u \in Tasks : SameShare(task[u], task'[u])
    BY <1>3, <2>1 DEF Unnoticed, SameShare
  <2>3. \A u \in Tasks : task[u].status = "queued" => (u \in backoff' <=> u \in backoff)
    BY <1>3 DEF Unnoticed
  <2>4. UNCHANGED <<order, owners>> BY <1>3 DEF Unnoticed
  <2>5. \A u \in Tasks : Admissible(u)' <=> Admissible(u)
    BY <2>2, <2>3, <2>4, AdmissionUnnoticed
  <2>6. \A u \in Tasks : Waking(u) => Waking(u)'
    BY <1>3, <2>1 DEF Unnoticed, Waking
  <2>7. Rested' => Rested BY <1>3 DEF Unnoticed, Rested
  <2>8. QED BY <2>5, <2>6, <2>7 DEF Awake, NothingLeft
<1>4. QED BY <1>1, <1>2, <1>3 DEF Notices

\* A step that rewrites no record and leaves the poll of its task alone, or
\* not yet at its end.
LEMMA QuietStep ==
  ASSUME TypeOK, NEW t \in Tasks,
         UNCHANGED <<order, owners, drain, again, phase>>,
         t \in backoff' <=> t \in backoff,
         SameShare(task[t], task'[t]),
         Closed(task[t]) => Closed(task'[t]),
         op[t]["poll"].pc = "rearm" => op'[t]["poll"].pc = "rearm"
  PROVE  Notices(t)
BY DEF Notices, Unnoticed, Waking

\* An operation that is not at the end of a poll may be put elsewhere.
LEMMA PutQuiet ==
  ASSUME TypeOK, NEW t \in Tasks, NEW r \in Roles, NEW o, Put(t, r, o),
         op[t][r].pc # "rearm"
  PROVE  op[t]["poll"].pc = "rearm" => op'[t]["poll"].pc = "rearm"
<1>1. "poll" \in Roles BY DEF Roles
<1>2. QED BY <1>1, PutPoint DEF TypeOK

LEMMA ClosedKept ==
  ASSUME NEW r \in TaskRecord, NEW q, Calm(r, q)
  PROVE  Closed(r) => Closed(q)
BY DEF Calm, Contained, Closed, TaskRecord


LEMMA DispatchNotices ==
  ASSUME TypeOK, RecordsOK, Awake, NEW t \in Tasks, AccountedFor(t),
         Dispatch(t)
  PROVE  Notices(t)
<1> USE DEF TypeOK, timerVars, stopVars, hermesVars, bounds, drainVars
<1>0. task[t] \in TaskRecord /\ "dispatch" \in Roles /\ UNCHANGED <<order, owners, phase>>
  BY DEF Roles, Dispatch, StartDispatch, RunIdArrives, AnswerLost, HermesRejects,
         SettleRejection, SettleAmbiguity, RetryTimer, PersistAccepted,
         RunIdAbandoned
<1>a. Closed(task[t]) => Closed(task'[t])
  BY <1>0, DispatchCalm, ClosedKept DEF Calmly
<1>b. op[t]["dispatch"].pc \in Starting =>
        /\ ~task[t].run /\ task[t].status = "dispatching" /\ ~Closed(task[t])
        /\ ~task[t].missing /\ ~task[t].contained
  BY StartingAlone DEF Closed
<1>c. ASSUME NEW o, Put(t, "dispatch", o)
      PROVE  op[t]["poll"].pc = "rearm" => op'[t]["poll"].pc = "rearm"
  <2>1. "poll" \in Roles \ {"dispatch"} BY DEF Roles
  <2>2. QED BY <1>0, <1>c, <2>1, PutPoint
<1>d. UNCHANGED task => SameShare(task[t], task'[t]) BY <1>0, UnnoticedShare
<1>1. CASE StartDispatch(t)
  <2>1. CASE ~Rested' BY <2>1 DEF Notices
  <2>2. CASE Rested'
    <3>1. Owner[t] \in owners
      BY <1>0, <1>1, <2>2 DEF StartDispatch, Awake, Rested
    <3>2. UNCHANGED task BY <1>1, <3>1 DEF StartDispatch
    <3>3. op[t]["poll"].pc = "rearm" => op'[t]["poll"].pc = "rearm"
      BY <1>1, <1>c DEF StartDispatch
    <3>4. QED BY <1>0, <1>1, <1>d, <3>2, <3>3, QuietStep DEF StartDispatch
  <2>3. QED BY <2>1, <2>2
<1>2. CASE SettleRejection(t) \/ RetryTimer(t)
  BY <1>0, <1>2, Woken DEF SettleRejection, RetryTimer, Notices
<1>3. CASE SettleAmbiguity(t)
  <2>1. /\ op[t]["dispatch"].pc \in Starting
        /\ task'[t] = Transitioned(task[t], "dispatch_unknown")
    BY <1>3 DEF SettleAmbiguity, Starting, Fenced
  <2>2. /\ task'[t].status = "dispatch_unknown"
        /\ ~task'[t].missing /\ ~task'[t].contained
    BY <1>0, <1>b, <2>1, AllowedByStatus DEF Transitioned, Moved, TaskRecord
  <2>3. SameShare(task[t], task'[t])
    BY <1>b, <2>1, <2>2
       DEF SameShare, Active, Holding, HoldingStatuses, ActiveStatuses
  <2>4. QED BY <1>0, <1>3, <1>a, <1>c, <2>3, QuietStep DEF SettleAmbiguity
<1>4. CASE PersistAccepted(t)
  <2>1. /\ op[t]["dispatch"].pc \in Starting
        /\ task'[t] = Accepted(task[t])
    BY <1>4 DEF PersistAccepted, Starting
  <2>2. /\ task'[t].status = "running"
        /\ ~task'[t].missing /\ ~task'[t].contained
    BY <1>0, <1>b, <2>1 DEF Accepted, Moved, TaskRecord
  <2>3. SameShare(task[t], task'[t])
    BY <1>b, <2>1, <2>2
       DEF SameShare, Active, Holding, HoldingStatuses, ActiveStatuses
  <2>4. op[t]["poll"].pc = "rearm" => op'[t]["poll"].pc = "rearm"
    BY <1>4, <1>c DEF PersistAccepted
  <2>5. Waking(t) => Waking(t)' BY <1>a, <2>4 DEF Waking
  <2>6. UNCHANGED <<drain, again>> BY <1>4 DEF PersistAccepted
  <2>7. task[t].status # "queued" BY <1>b, <2>1
  <2>8. QED BY <1>0, <2>3, <2>5, <2>6, <2>7 DEF Notices, Unnoticed
<1>5. CASE RunIdArrives(t) \/ AnswerLost(t) \/ RunIdAbandoned(t)
           \/ \E kind \in {"busy", "refused"} : HermesRejects(t, kind)
  <2>1. UNCHANGED <<task, drain, again, backoff>>
    BY <1>5 DEF RunIdArrives, AnswerLost, RunIdAbandoned, HermesRejects
  <2>2. \E o : Put(t, "dispatch", o)
    BY <1>5 DEF RunIdArrives, AnswerLost, RunIdAbandoned, HermesRejects
  <2>3. QED BY <1>0, <1>c, <1>d, <2>1, <2>2, QuietStep
<1>6. QED BY <1>1, <1>2, <1>3, <1>4, <1>5 DEF Dispatch

LEMMA ControlNotices ==
  ASSUME TypeOK, RecordsOK, NEW t \in Tasks, AccountedFor(t), Control(t)
  PROVE  Notices(t)
<1> USE DEF TypeOK, timerVars, hermesVars, bounds, drainVars
<1>0. /\ task[t] \in TaskRecord /\ {"stop", "poll"} \subseteq Roles
      /\ UNCHANGED <<order, owners, phase, drain, again, backoff>>
  BY DEF Roles, Control, MarkStop, HaltRun, StopConfirmed, StopFails,
         StopAborted, StopReload
<1>a. Closed(task[t]) => Closed(task'[t])
  BY <1>0, ControlCalm, ClosedKept DEF Calmly
<1>b. ASSUME StopSettles(t)
      PROVE  op[t]["poll"].pc = "rearm" => op'[t]["poll"].pc = "rearm"
  BY <1>0, <1>b DEF StopSettles
<1>d. UNCHANGED task => SameShare(task[t], task'[t]) BY <1>0, UnnoticedShare
<1>1. ASSUME NEW r \in Roles, MarkStop(t, r) PROVE Notices(t)
  <2>1. /\ op[t][r].pc = "mark" /\ task'[t] = StopMarked(task[t])
        /\ \E o : Put(t, r, o)
    BY <1>1 DEF MarkStop
  <2>2. task[t].status \in RunStatuses
    BY <2>1 DEF AccountedFor, FollowersAccounted, RecordAccounted, Following
  <2>3. SameShare(task[t], task'[t]) BY <1>0, <2>1, <2>2, UnnoticedShare
  <2>4. QED BY <1>0, <1>a, <2>1, <2>3, PutQuiet, QuietStep
<1>2. ASSUME NEW r \in Roles, HaltRun(t, r) PROVE Notices(t)
  <2>1. /\ op[t][r].pc = "halt" /\ \E o : Put(t, r, o)
        /\ task'[t] \in {task[t], Transitioned(task[t], "stopping")}
    BY <1>2 DEF HaltRun
  <2>2. SameShare(task[t], task'[t]) BY <1>0, <2>1, UnnoticedShare
  <2>3. QED BY <1>0, <1>a, <2>1, <2>2, PutQuiet, QuietStep
<1>3. CASE StopConfirmed(t)
  BY <1>0, <1>3, <1>b, <1>d, QuietStep DEF StopConfirmed
<1>4. CASE StopFails(t)
  <2>1. /\ task[t].run /\ StopSettles(t)
        /\ task'[t] = Unknowned(task[t], FALSE)
    BY <1>4 DEF StopFails, AccountedFor, FollowersAccounted
  <2>2. SameShare(task[t], task'[t]) BY <1>0, <2>1, UnnoticedShare
  <2>3. QED BY <1>0, <1>a, <1>b, <2>1, <2>2, QuietStep
<1>5. CASE StopAborted(t)
  BY <1>0, <1>5, <1>b, <1>d, QuietStep DEF StopAborted
<1>6. CASE StopReload(t)
  <2>1. UNCHANGED task /\ op[t]["stop"].pc = "reload" /\ \E o : Put(t, "stop", o)
    BY <1>6 DEF StopReload
  <2>2. QED BY <1>0, <1>d, <2>1, PutQuiet, QuietStep
<1>7. QED BY <1>1, <1>2, <1>3, <1>4, <1>5, <1>6 DEF Control

LEMMA ReconcileNotices ==
  ASSUME TypeOK, RecordsOK, NEW t \in Tasks, AccountedFor(t), FollowedFor(t),
         Reconcile(t)
  PROVE  Notices(t)
<1> USE DEF TypeOK, timerVars, stopVars, hermesVars, memory, bounds, drainVars
<1>0. /\ task[t] \in TaskRecord /\ {"poll", "watch", "boot"} \subseteq Roles
      /\ UNCHANGED <<order, owners, phase, backoff>>
  BY DEF Roles, Reconcile, PollFires, Rearm, WatchEnds, RunEvent,
         RunEventMismatch, SnapshotArrives, SnapshotFails, SnapshotRefuted,
         ApplyRunning, MoveToStatus, WriteStatus, ApprovalDenied
<1>a. Closed(task[t]) => Closed(task'[t])
  BY <1>0, ReconcileCalm, ClosedKept DEF Calmly
<1>d. UNCHANGED task => SameShare(task[t], task'[t]) BY <1>0, UnnoticedShare
<1>p. ASSUME UNCHANGED <<drain, again>>, SameShare(task[t], task'[t]),
             NEW r \in Roles, op[t][r].pc # "rearm", \E o : Put(t, r, o)
      PROVE  Notices(t)
  BY <1>0, <1>a, <1>p, PutQuiet, QuietStep
<1>e. ASSUME NEW r \in Roles, op[t][r].pc # "rearm", NEW target, NEW record,
             Applied(t, r, target, record),
             SameShare(task[t], task'[t]) \/ target \in Terminal
      PROVE  Notices(t)
  <2>1. CASE target \in Terminal
    BY <1>0, <1>e, <2>1, Woken DEF Applied, Notices
  <2>2. CASE target \notin Terminal
    <3>1. UNCHANGED <<drain, again>> BY <1>e, <2>2 DEF Applied
    <3>2. op[t]["poll"].pc = "rearm" => op'[t]["poll"].pc = "rearm"
      <4>1. CASE Put(t, r, After(r)) BY <1>e, <4>1, PutQuiet
      <4>2. CASE op' = [op EXCEPT ![t][r] = At("deny", "none", "none")]
        BY <1>0, <1>e, <4>2
      <4>3. QED BY <1>e, <4>1, <4>2 DEF Applied
    <3>3. QED BY <1>0, <1>a, <1>e, <2>2, <3>1, <3>2, QuietStep
  <2>3. QED BY <2>1, <2>2
<1>1. CASE PollFires(t)
  <2>1. /\ UNCHANGED <<task, drain, again>> /\ op[t]["poll"] = Idle
        /\ \E o : Put(t, "poll", o)
    BY <1>1 DEF PollFires
  <2>2. QED BY <1>0, <1>d, <1>p, <2>1, PointsReached
<1>2. CASE Rearm(t)
  <2>1. CASE Closed(task[t]) BY <1>0, <1>2, <2>1, Woken DEF Rearm, Notices
  <2>2. CASE ~Closed(task[t])
    BY <1>0, <1>2, <1>d, <2>2 DEF Rearm, Notices, Unnoticed, Waking
  <2>3. QED BY <2>1, <2>2
<1>3. CASE WatchEnds(t) BY <1>0, <1>3, <1>d, QuietStep DEF WatchEnds
<1>4. CASE RunEvent(t)
  <2>1. /\ UNCHANGED <<task, drain, again>> /\ op[t]["watch"] = Idle
        /\ \E o : Put(t, "watch", o)
    BY <1>4 DEF RunEvent
  <2>2. QED BY <1>0, <1>d, <1>p, <2>1, PointsReached
<1>5. CASE RunEventMismatch(t)
  <2>1. /\ task[t].run /\ task'[t] = Unknowned(task[t], FALSE)
        /\ UNCHANGED <<op, drain, again>>
    BY <1>5 DEF RunEventMismatch, AccountedFor, FollowersAccounted
  <2>2. SameShare(task[t], task'[t]) BY <1>0, <2>1, UnnoticedShare
  <2>3. QED BY <1>0, <1>a, <2>1, <2>2, QuietStep
<1>6. ASSUME NEW r \in Roles, SnapshotArrives(t, r) PROVE Notices(t)
  BY <1>6, <1>d, <1>p DEF SnapshotArrives
<1>7. ASSUME NEW r \in Roles, SnapshotFails(t, r) PROVE Notices(t)
  BY <1>7, <1>d, <1>p DEF SnapshotFails
<1>8. ASSUME NEW r \in Roles, NEW gone \in BOOLEAN, SnapshotRefuted(t, r, gone)
      PROVE Notices(t)
  <2>1. /\ r \in {"poll", "boot"} /\ op[t][r].pc = "get"
        /\ task'[t] = Unknowned(task[t], gone) /\ Put(t, r, After(r))
        /\ UNCHANGED <<drain, again>>
    BY <1>8 DEF SnapshotRefuted
  <2>2. task[t].run
    BY <2>1 DEF AccountedFor, FollowersAccounted, Following
  <2>3. CASE SameShare(task[t], task'[t]) BY <1>p, <2>1, <2>3
  <2>4. CASE ~SameShare(task[t], task'[t])
    <3>1. Closed(task'[t]) BY <1>0, <2>1, <2>2, <2>4, UnnoticedShare
    <3>2. CASE r = "boot"
      <4>1. phase # "up" BY <1>0, <2>1, <3>2, PointsReached DEF FollowedFor
      <4>2. QED BY <1>0, <4>1 DEF Notices, Rested
    <3>3. CASE r = "poll"
      <4>1. op'[t]["poll"] = After("poll") BY <1>0, <2>1, <3>3, PutPoint
      <4>2. After("poll").pc = "rearm" BY DEF After, At
      <4>3. QED BY <1>0, <3>1, <4>1, <4>2 DEF Notices, Waking
    <3>4. QED BY <2>1, <3>2, <3>3
  <2>5. QED BY <2>3, <2>4
<1>9. ASSUME NEW r \in Roles, ApplyRunning(t, r) PROVE Notices(t)
  BY <1>9, <1>d, <1>p DEF ApplyRunning
<1>10. ASSUME NEW r \in Roles, MoveToStatus(t, r) PROVE Notices(t)
  <2>1. UNCHANGED task /\ op[t][r].pc = "move" BY <1>10 DEF MoveToStatus
  <2>2. CASE Applied(t, r, op[t][r].arg, task[t]) BY <1>d, <1>e, <2>1, <2>2
  <2>3. CASE Put(t, r, At("write", op[t][r].arg, "none")) /\ UNCHANGED drainVars
    BY <1>d, <1>p, <2>1, <2>3
  <2>4. QED BY <1>10, <2>2, <2>3 DEF MoveToStatus
<1>11. ASSUME NEW r \in Roles, WriteStatus(t, r) PROVE Notices(t)
  <2>1. /\ op[t][r].pc = "write"
        /\ task'[t] = Transitioned(task[t], op[t][r].arg)
        /\ Applied(t, r, op[t][r].arg, Transitioned(task[t], op[t][r].arg))
    BY <1>11 DEF WriteStatus
  <2>2. op[t][r].arg \in Terminal \cup {"running", "waiting_for_approval",
                                          "stopping", "none", "gone"}
    BY DEF Operation, RunStates, Live
  <2>3. CASE op[t][r].arg \in {"none", "gone"}
    <3>0. op[t][r].arg \notin Allowed[task[t].status]
      <4>1. \A s \in Statuses \cup {"absent"} : {"none", "gone"} \cap Allowed[s] = {}
        BY AllowedByStatus
           DEF Statuses, HoldingStatuses, ActiveStatuses, Terminal
      <4>2. QED BY <1>0, <2>3, <4>1 DEF TaskRecord
    <3>1. task'[t] = task[t] BY <2>1, <3>0 DEF Transitioned
    <3>2. QED BY <1>0, <1>e, <2>1, <3>1, UnnoticedShare
  <2>4. CASE op[t][r].arg \in {"running", "waiting_for_approval", "stopping"}
    <3>1. SameShare(task[t], task'[t]) BY <1>0, <2>1, <2>4, UnnoticedShare
    <3>2. QED BY <1>e, <2>1, <3>1
  <2>5. CASE op[t][r].arg \in Terminal BY <1>e, <2>1, <2>5
  <2>6. QED BY <2>2, <2>3, <2>4, <2>5
<1>12. ASSUME NEW r \in Roles, ApprovalDenied(t, r) PROVE Notices(t)
  BY <1>12, <1>d, <1>p DEF ApprovalDenied
<1>13. QED
  BY <1>1, <1>2, <1>3, <1>4, <1>5, <1>6, <1>7, <1>8, <1>9, <1>10, <1>11,
     <1>12 DEF Reconcile


LEMMA OtherNotices ==
  ASSUME TypeOK, RecordsOK, NEW t \in Tasks, FollowedFor(t),
         Delegable = {}, Stoppable = {}, "admit" \notin Faults,
         \/ Admit(t) \/ CancelStopped(t) \/ AdmitFails(t) \/ OwnerCall(t)
         \/ Upstream(t) \/ BootTask(t) \/ BootWatches(t) \/ OperatorContains(t)
  PROVE  Notices(t)
<1> USE DEF TypeOK, memory, drainVars
<1>0. task[t] \in TaskRecord /\ "boot" \in Roles BY DEF Roles
<1>1. CASE Admit(t) \/ CancelStopped(t)
  BY <1>1 DEF Admit, CancelStopped, Notices, Rested
<1>2. CASE AdmitFails(t) BY <1>2 DEF AdmitFails, Fault
<1>3. CASE OwnerCall(t)
  <2>1. CASE Submit(t) BY <2>1, Woken DEF Submit, Notices
  <2>2. ASSUME NEW outcome \in {"completed", "failed"},
               ResolveDelegated(t, outcome)
        PROVE  Notices(t)
    BY <2>2, Woken DEF ResolveDelegated, Notices
  <2>3. ~StopCall(t) /\ ~MarkDelegated(t) BY DEF StopCall, MarkDelegated
  <2>4. QED BY <1>3, <2>1, <2>2, <2>3 DEF OwnerCall
<1>4. CASE Upstream(t)
  <2>1. UNCHANGED <<task, order, phase, memory>>
    BY <1>4 DEF Upstream, HermesAccepts, HermesMoves
  <2>2. SameShare(task[t], task'[t]) BY <1>0, <2>1, UnnoticedShare
  <2>3. QED BY <2>1, <2>2, QuietStep
<1>5. CASE BootTask(t) \/ OperatorContains(t)
  BY <1>5 DEF BootTask, OperatorContains, Notices, Rested
<1>6. CASE BootWatches(t)
  <2>1. op[t]["boot"].pc = "bootend" /\ UNCHANGED phase BY <1>6 DEF BootWatches
  <2>2. phase # "up" BY <2>1, PointsReached DEF FollowedFor
  <2>3. QED BY <2>1, <2>2 DEF Notices, Rested
<1>7. QED BY <1>1, <1>2, <1>3, <1>4, <1>5, <1>6

\* A step on one task leaves the retry timers of the others, and no owner
\* loses a key while the process is open.
LEMMA TimersElsewhere ==
  ASSUME NEW t \in Tasks,
         \/ Admit(t) \/ CancelStopped(t) \/ AdmitFails(t) \/ Dispatch(t)
         \/ Control(t) \/ Reconcile(t) \/ OwnerCall(t) \/ Upstream(t)
         \/ BootTask(t) \/ BootWatches(t) \/ OperatorContains(t)
  PROVE  /\ \A u \in Tasks \ {t} : u \in backoff' <=> u \in backoff
         /\ owners \subseteq owners' /\ UNCHANGED phase
<1> USE DEF memory, timerVars
<1>1. CASE Dispatch(t)
  BY <1>1
     DEF Dispatch, StartDispatch, RunIdArrives, AnswerLost, HermesRejects,
         SettleRejection, SettleAmbiguity, RetryTimer, PersistAccepted,
         RunIdAbandoned
<1>2. CASE Control(t)
  BY <1>2
     DEF Control, MarkStop, HaltRun, StopConfirmed, StopFails, StopAborted,
         StopReload
<1>3. CASE Reconcile(t)
  BY <1>3
     DEF Reconcile, PollFires, Rearm, WatchEnds, RunEvent, RunEventMismatch,
         SnapshotArrives, SnapshotFails, SnapshotRefuted, ApplyRunning,
         MoveToStatus, WriteStatus, ApprovalDenied
<1>4. CASE OwnerCall(t)
  BY <1>4 DEF OwnerCall, Submit, StopCall, MarkDelegated, ResolveDelegated
<1>5. QED
  BY <1>1, <1>2, <1>3, <1>4
     DEF Admit, CancelStopped, AdmitFails, Upstream, HermesAccepts,
         HermesMoves, BootTask, BootWatches, OperatorContains

\* Only admission begins to start a task, and the owner's key is there.
LEMMA StartsKeyed ==
  ASSUME TypeOK, Awake, NEW t \in Tasks, FollowedFor(t),
         \/ Admit(t) \/ CancelStopped(t) \/ AdmitFails(t) \/ Dispatch(t)
         \/ Control(t) \/ Reconcile(t) \/ OwnerCall(t) \/ Upstream(t)
         \/ BootTask(t) \/ BootWatches(t) \/ OperatorContains(t)
  PROVE  op'[t]["dispatch"].pc = "start" =>
           op[t]["dispatch"].pc = "start" \/ Owner[t] \in owners
<1> USE DEF TypeOK, memory
<1>0. {"dispatch", "poll", "boot", "stop", "watch"} \subseteq Roles BY DEF Roles
<1>s. /\ Idle.pc # "start"
      /\ \A r \in Roles : After(r).pc # "start"
      /\ \A r \in Roles : \A record : StopEntry(r, record).pc # "start"
      /\ \A status : Snapshot(status).pc # "start"
      /\ \A pc, arg, seen : At(pc, arg, seen).pc = pc
  BY DEF Idle, After, At, StopEntry, Snapshot, Roles
<1>p. ASSUME NEW r \in Roles, NEW o, Put(t, r, o), o.pc # "start"
      PROVE  op'[t]["dispatch"].pc = "start" => op[t]["dispatch"].pc = "start"
  BY <1>0, <1>p, PutPoint
<1>1. CASE Admit(t) BY <1>1 DEF Admit, Admissible, Eligible
<1>2. CASE Dispatch(t)
  <2>1. CASE UNCHANGED op BY <2>1
  <2>2. CASE \E o : Put(t, "dispatch", o) /\ o.pc # "start"
    BY <1>0, <1>p, <2>2
  <2>3. CASE PersistAccepted(t) BY <1>0, <1>s, <2>2, <2>3 DEF PersistAccepted
  <2>4. CASE StartDispatch(t) BY <1>s, <2>2, <2>4 DEF StartDispatch
  <2>5. CASE SettleRejection(t) \/ SettleAmbiguity(t) \/ RunIdAbandoned(t)
    BY <1>s, <2>2, <2>5
       DEF SettleRejection, SettleAmbiguity, RunIdAbandoned
  <2>6. CASE RunIdArrives(t) \/ AnswerLost(t)
    <3>1. \E kind \in {"accepted", "ambiguous"} :
            Put(t, "dispatch", At(kind, "none", "none"))
      BY <2>6 DEF RunIdArrives, AnswerLost
    <3>2. \A kind \in {"accepted", "ambiguous"} : At(kind, "none", "none").pc # "start"
      BY DEF At
    <3>3. QED BY <1>0, <1>p, <3>1, <3>2
  <2>r. ASSUME NEW kind \in {"busy", "refused"}, HermesRejects(t, kind)
        PROVE  op'[t]["dispatch"].pc = "start" => op[t]["dispatch"].pc = "start"
    <3>1. Put(t, "dispatch", At(kind, "none", "none")) BY <2>r DEF HermesRejects
    <3>2. At(kind, "none", "none").pc # "start" BY DEF At
    <3>3. QED BY <1>0, <1>p, <3>1, <3>2
  <2>7. CASE RetryTimer(t) BY <2>1, <2>7 DEF RetryTimer
  <2>8. QED BY <1>2, <2>3, <2>4, <2>5, <2>6, <2>r, <2>7 DEF Dispatch
<1>3. CASE Control(t)
  <2>0. ASSUME StopSettles(t)
        PROVE  op'[t]["dispatch"].pc = "start" => op[t]["dispatch"].pc = "start"
    BY <1>0, <1>s, <2>0 DEF StopSettles
  <2>1. ASSUME NEW r \in Roles, MarkStop(t, r) \/ HaltRun(t, r)
        PROVE  op'[t]["dispatch"].pc = "start" => op[t]["dispatch"].pc = "start"
    <3>1. \E o \in {StopEntry(r, StopMarked(task[t])), After(r),
                    At("await", "none", "none")} : Put(t, r, o)
      BY <2>1 DEF MarkStop, HaltRun
    <3>2. QED BY <1>p, <1>s, <3>1
  <2>2. CASE StopReload(t)
    <3>1. \E o : Put(t, "stop", o) /\ o.pc # "start"
      BY <1>0, <1>s, <2>2 DEF StopReload
    <3>2. QED BY <1>0, <1>p, <3>1
  <2>3. CASE StopConfirmed(t) \/ StopFails(t) \/ StopAborted(t)
    BY <2>0, <2>3 DEF StopConfirmed, StopFails, StopAborted
  <2>4. QED BY <1>3, <2>1, <2>2, <2>3 DEF Control
<1>4. CASE Reconcile(t)
  <2>1. CASE UNCHANGED op BY <2>1
  <2>2. CASE \E r \in Roles : \E o : Put(t, r, o) /\ o.pc # "start"
    BY <1>p, <2>2
  <2>3. ASSUME NEW r \in Roles,
               op' = [op EXCEPT ![t][r] = At("deny", "none", "none")]
        PROVE  op'[t]["dispatch"].pc = "start" => op[t]["dispatch"].pc = "start"
    BY <1>0, <2>3 DEF At
  <2>4. CASE Rearm(t)
    BY <1>0, <1>s, <2>4 DEF Rearm
  <2>5. CASE PollFires(t) BY <1>0, <1>s, <2>2, <2>5 DEF PollFires
  <2>6. CASE WatchEnds(t) \/ RunEventMismatch(t)
    BY <2>1, <2>6 DEF WatchEnds, RunEventMismatch
  <2>7. CASE RunEvent(t) BY <1>0, <1>s, <2>2, <2>7 DEF RunEvent
  <2>8. ASSUME NEW r \in Roles,
               \/ SnapshotArrives(t, r) \/ SnapshotFails(t, r)
               \/ \E gone \in BOOLEAN : SnapshotRefuted(t, r, gone)
        PROVE  op'[t]["dispatch"].pc = "start" => op[t]["dispatch"].pc = "start"
    <3>1. \E o : Put(t, r, o) /\ o.pc # "start"
      BY <1>s, <2>8 DEF SnapshotArrives, SnapshotFails, SnapshotRefuted
    <3>2. QED BY <1>p, <3>1
  <2>9. ASSUME NEW r \in Roles, ApplyRunning(t, r) \/ ApprovalDenied(t, r)
        PROVE  op'[t]["dispatch"].pc = "start" => op[t]["dispatch"].pc = "start"
    <3>1. \E o \in {After(r), StopEntry(r, task[t]),
                    At("move", "running", "none")} : Put(t, r, o)
      BY <2>9 DEF ApplyRunning, ApprovalDenied
    <3>2. QED BY <1>p, <1>s, <3>1
  <2>10. ASSUME NEW r \in Roles, MoveToStatus(t, r) \/ WriteStatus(t, r)
         PROVE  op'[t]["dispatch"].pc = "start" => op[t]["dispatch"].pc = "start"
    <3>1. \/ \E o \in {After(r), At("write", op[t][r].arg, "none")} : Put(t, r, o)
          \/ op' = [op EXCEPT ![t][r] = At("deny", "none", "none")]
      BY <2>10 DEF MoveToStatus, WriteStatus, Applied
    <3>2. At("write", op[t][r].arg, "none").pc # "start" BY DEF At
    <3>3. After(r).pc # "start" BY <1>s
    <3>4. CASE Put(t, r, After(r)) BY <1>p, <3>3, <3>4
    <3>5. CASE Put(t, r, At("write", op[t][r].arg, "none")) BY <1>p, <3>2, <3>5
    <3>6. CASE op' = [op EXCEPT ![t][r] = At("deny", "none", "none")]
      BY <2>3, <3>6
    <3>7. QED BY <3>1, <3>4, <3>5, <3>6
  <2>11. QED
    BY <1>4, <2>4, <2>5, <2>6, <2>7, <2>8, <2>9, <2>10 DEF Reconcile
<1>5. CASE OwnerCall(t)
  <2>1. CASE StopCall(t)
    <3>1. \E o : Put(t, "stop", o) /\ o.pc # "start"
      BY <1>0, <1>s, <2>1 DEF StopCall
    <3>2. QED BY <1>0, <1>p, <3>1
  <2>2. CASE ~StopCall(t)
    BY <1>5, <2>2 DEF OwnerCall, Submit, MarkDelegated, ResolveDelegated
  <2>3. QED BY <2>1, <2>2
<1>6. CASE CancelStopped(t) \/ AdmitFails(t) \/ Upstream(t) \/ OperatorContains(t)
  BY <1>6 DEF CancelStopped, AdmitFails, Upstream, HermesAccepts, HermesMoves,
              OperatorContains
<1>7. CASE BootTask(t)
  <2>1. CASE UNCHANGED op BY <2>1
  <2>2. CASE Put(t, "boot", At("get", "none", "none"))
    BY <1>0, <1>p, <1>s, <2>2
  <2>3. QED BY <1>7, <2>1, <2>2 DEF BootTask
<1>8. CASE BootWatches(t) BY <1>0, <1>8 DEF BootWatches
<1>9. QED BY <1>1, <1>2, <1>3, <1>4, <1>5, <1>6, <1>7, <1>8

LEMMA StepAwake ==
  ASSUME Sound, Accounted, AllFollowed, Awake, [Next]_vars,
         Delegable = {}, Stoppable = {}, "admit" \notin Faults
  PROVE  Awake'
<1> USE DEF Sound
<1>a. ASSUME UNCHANGED <<task, order, owners, backoff>>
      PROVE  \A u \in Tasks : Admissible(u)' <=> Admissible(u)
  <2>1. \A u \in Tasks : SameShare(task[u], task'[u])
    BY <1>a, UnnoticedShare DEF TypeOK
  <2>2. QED BY <1>a, <2>1, AdmissionUnnoticed
<1>b. ASSUME UNCHANGED <<task, order, owners, backoff, op>>
      PROVE  NothingLeft => NothingLeft'
  BY <1>a, <1>b DEF NothingLeft, Waking
<1>1. CASE UNCHANGED vars
  BY <1>1, <1>b DEF vars, memory, Awake, Rested
<1>2. CASE Process
  <2> USE DEF timerVars, drainVars
  <2>1. CASE DrainStarts
    BY <2>1 DEF DrainStarts, Awake, Rested
  <2>2. CASE DrainFindsNothing
    <3>1. \A u \in Tasks : ~Admissible(u)' BY <1>a, <2>2 DEF DrainFindsNothing
    <3>2. QED BY <2>2, <3>1 DEF DrainFindsNothing, Awake, NothingLeft
  <2>3. CASE DrainEnds
    <3>1. Rested' => Rested BY <2>3 DEF DrainEnds, Rested
    <3>2. QED BY <1>b, <2>3, <3>1 DEF DrainEnds, Awake
  <2>4. CASE Close \/ ShutDown \/ Crash \/ Restart
    BY <2>4 DEF Close, ShutDown, Crash, Restart, Awake, Rested
  <2>5. CASE Initialized
    <3>1. \A u \in Tasks : op[u]["dispatch"] = Idle
      BY <2>5 DEF Initialized, Accounted, AccountedFor, DispatchAccounted
    <3>2. QED BY <2>5, <3>1, PointsReached DEF Initialized, Awake, Rested
  <2>6. ASSUME NEW t \in Tasks, RegisterOwner(Owner[t]) PROVE Awake'
    <3>1. ~Rested' BY <2>6, Woken DEF RegisterOwner
    <3>2. QED BY <2>6, <3>1 DEF RegisterOwner, Awake
  <2>7. QED BY <1>2, <2>1, <2>2, <2>3, <2>4, <2>5, <2>6 DEF Process
<1>3. ASSUME NEW t \in Tasks,
             \/ Admit(t) \/ CancelStopped(t) \/ AdmitFails(t) \/ Dispatch(t)
             \/ Control(t) \/ Reconcile(t) \/ OwnerCall(t) \/ Upstream(t)
             \/ BootTask(t) \/ BootWatches(t) \/ OperatorContains(t)
      PROVE  Awake'
  <2>0. AccountedFor(t) /\ FollowedFor(t) BY DEF Accounted, AllFollowed
  <2>1. Elsewhere(t) BY <1>3, <2>0, TaskStepAccounted
  <2>2. /\ \A u \in Tasks \ {t} : u \in backoff' <=> u \in backoff
        /\ owners \subseteq owners' /\ UNCHANGED phase
    BY <1>3, TimersElsewhere
  <2>3. Notices(t)
    BY <1>3, <2>0, DispatchNotices, ControlNotices, ReconcileNotices,
       OtherNotices
  <2>4. Rested' => NothingLeft' BY <2>1, <2>2, <2>3, NoticesAwake
  <2>5. ASSUME NEW u \in Tasks, phase' = "up", op'[u]["dispatch"].pc = "start"
        PROVE  Owner[u] \in owners'
    <3>1. op[u]["dispatch"].pc = "start" \/ Owner[u] \in owners
      BY <1>3, <2>0, <2>1, <2>5, StartsKeyed DEF Elsewhere, Same
    <3>2. QED BY <2>2, <2>5, <3>1 DEF Awake
  <2>6. QED BY <2>4, <2>5 DEF Awake
<1>4. QED BY <1>1, <1>2, <1>3 DEF Next

LEMMA InitAwake == Init => Awake
<1> SUFFICES ASSUME Init PROVE Awake
  OBVIOUS
<1>1. \A t \in Tasks : ~Admissible(t)
  BY DEF Init, Admissible, Eligible, Queued, Absent
<1>2. \A t \in Tasks : op[t]["dispatch"] = Idle BY DEF Init, Roles
<1>3. QED BY <1>1, <1>2, PointsReached DEF Awake, NothingLeft

\* Whatever frees capacity wakes the drain loop: when it and every operation
\* rest, no queued task could be admitted, for every order in which answers,
\* polls, retries, lost requests and restarts free slots and reservations.
\* Three steps do not wake it, and the hypotheses say that they do not happen:
\* markDelegated, stop() of a queued task, and a write of admission that fails.
THEOREM QueueNeverStalls ==
  ASSUME Delegable = {}, Stoppable = {}, "admit" \notin Faults
  PROVE  Spec => []NoStalledQueue
<1>1. Init => Sound /\ Accounted /\ AllFollowed /\ Awake
  BY InitSound, InitAccounted, InitFollowed, InitAwake
<1>2. Sound /\ Accounted /\ AllFollowed /\ Awake /\ [Next]_vars =>
        (Sound /\ Accounted /\ AllFollowed /\ Awake)'
  BY StepSound, StepAccounted, StepFollowed, StepAwake
<1>3. Awake => NoStalledQueue
  <2> SUFFICES ASSUME Awake, phase = "up", drain = "idle",
                      \A t \in Tasks, r \in Roles : op[t][r] = Idle
               PROVE  \A t \in Tasks : ~Admissible(t)
    BY DEF NoStalledQueue
  <2>1. NothingLeft BY DEF Awake, Rested
  <2>2. \A t \in Tasks : ~Waking(t) BY PointsReached DEF Waking, Roles
  <2>3. QED BY <2>1, <2>2 DEF NothingLeft
<1>4. QED BY <1>1, <1>2, <1>3, PTL DEF Spec
==============================================================================
