----------------------------- MODULE TaskRecords -----------------------------
(***************************************************************************)
(* The durable task record and the pure functions that rewrite it          *)
(* (domain/tasks/task-transition.ts, and the updaters the supervisor hands *)
(* to its serialized store write).  A record keeps what admission,         *)
(* dispatch, control and recovery decide on; texts, timestamps, usage and  *)
(* the retained event log are left out.  "run" says that the record holds  *)
(* the Hermes run id, "missing" and "contained" that upstreamRunMissingAt  *)
(* and operatorContainedAt are set.                                        *)
(***************************************************************************)

Terminal == {"completed", "failed", "cancelled"}

\* Statuses that occupy one of the maxConcurrent Hermes slots.
ActiveStatuses ==
  {"dispatching", "running", "waiting_for_approval", "stopping", "unknown",
   "dispatch_unknown"}

\* Delegated work gave its slot back but keeps its reservations.
HoldingStatuses == ActiveStatuses \cup {"delegated"}

Statuses == HoldingStatuses \cup Terminal \cup {"queued"}

\* "absent" is a task that was not submitted yet.
TaskRecord ==
  [status : Statuses \cup {"absent"}, stop : BOOLEAN, run : BOOLEAN,
   missing : BOOLEAN, contained : BOOLEAN]

Absent ==
  [status |-> "absent", stop |-> FALSE, run |-> FALSE, missing |-> FALSE,
   contained |-> FALSE]

\* What ALLOWED_TASK_TRANSITIONS lets a record move to.
Allowed ==
  [s \in Statuses \cup {"absent"} |->
    CASE s = "queued"      -> {"dispatching", "cancelled"}
      [] s = "dispatching" -> {"queued", "running", "failed", "cancelled",
                               "dispatch_unknown"}
      [] s = "running"     -> {"delegated", "waiting_for_approval",
                               "stopping", "completed", "failed",
                               "cancelled", "unknown"}
      [] s = "delegated"   -> {"completed", "failed", "cancelled", "unknown"}
      [] s = "waiting_for_approval" ->
                              {"running", "stopping", "failed", "cancelled",
                               "unknown"}
      [] s = "stopping"    -> {"completed", "failed", "cancelled", "unknown"}
      [] s = "unknown"     -> {"running", "waiting_for_approval", "stopping",
                               "completed", "failed", "cancelled"}
      [] s = "dispatch_unknown" ->
                              {"running", "stopping", "completed", "failed",
                               "cancelled", "unknown"}
      [] OTHER             -> {}]

\* isTaskOperationallyClosed: nothing may reopen or mutate such a record.
Closed(r) == r.status \in Terminal \/ r.missing \/ r.contained

Active(r) == r.status \in ActiveStatuses /\ ~r.missing /\ ~r.contained

Holding(r) == r.status \in HoldingStatuses /\ ~r.missing /\ ~r.contained

\* transitionTask to another status: every target but "unknown" clears the
\* missing-run mark.
Moved(r, s) == [r EXCEPT !.status = s, !.missing = r.missing /\ s = "unknown"]

\* Mutant: a late write reopens a record that was closed as missing.
TransitionedUnchecked(r, s) == IF s \notin Allowed[r.status] THEN r ELSE Moved(r, s)

\* transitionPersist's updater: a closed record and a move the table does not
\* allow are left as they are.
Transitioned(r, s) ==
  IF Closed(r) \/ s \notin Allowed[r.status] THEN r ELSE Moved(r, s)

\* markTaskStopRequested behind the guard of every caller.
StopMarked(r) == IF Closed(r) THEN r ELSE [r EXCEPT !.stop = TRUE]

\* stop()'s updater: queued and delegated records are cancelled on the spot,
\* any other open record keeps the intent.
StopRequested(r) ==
  IF Closed(r) THEN r
  ELSE IF r.status \in {"queued", "delegated"} THEN Moved(r, "cancelled")
  ELSE StopMarked(r)

\* Mutant: every doubt about a run counts as a proof that it is gone.
UnknownedAsGone(r, gone) ==
  IF Closed(r) \/ r.status = "delegated" THEN r
  ELSE IF r.status = "unknown" \/ "unknown" \in Allowed[r.status]
    THEN [r EXCEPT !.status = "unknown", !.missing = TRUE]
  ELSE r

\* markUnknown's updater; gone is its upstreamRunMissing argument.
Unknowned(r, gone) ==
  IF Closed(r) \/ r.status = "delegated" THEN r
  ELSE IF r.status = "unknown" \/ "unknown" \in Allowed[r.status]
    THEN [r EXCEPT !.status = "unknown", !.missing = gone]
  ELSE IF r.status = "dispatching" /\ ~r.run THEN Moved(r, "dispatch_unknown")
  ELSE r

\* persistAcceptedRun's updater.
Accepted(r) ==
  IF r.status = "dispatching" /\ ~r.run
  THEN [Moved(r, "running") EXCEPT !.run = TRUE]
  ELSE r

\* Mutant: a lost answer is taken for a rejection.
FencedByRequeue(r) == Transitioned(r, "queued")

\* An unknown dispatch outcome, met in flight or found after a restart.
Fenced(r) == Transitioned(r, "dispatch_unknown")

\* Mutant: the rejection itself becomes the status.
RejectedVerbatim(r, retryable) ==
  IF Closed(r) \/ r.status # "dispatching" THEN r
  ELSE Moved(r, IF retryable THEN "queued" ELSE "rejected")

\* handleDispatchStartFailure's updater for a definitive rejection.
Rejected(r, retryable) ==
  IF Closed(r) \/ r.status # "dispatching" THEN r
  ELSE IF r.stop THEN Moved(r, "cancelled")
  ELSE IF retryable THEN Moved(r, "queued")
  ELSE Moved(r, "failed")

\* markDelegated's updater; the call throws where the table has no such move.
Delegated(r) == Transitioned(r, "delegated")

\* containIndeterminateTask, the offline operator's disposition.
Contained(r) ==
  IF r.status \in {"unknown", "dispatch_unknown"}
  THEN [r EXCEPT !.contained = TRUE] ELSE r
=============================================================================
