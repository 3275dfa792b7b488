--------------------------- MODULE QueueSupervision ---------------------------
(***************************************************************************)
(* What an owner is told of a queued task: its place and what holds it     *)
(* back (application/task-supervisor/task-queue-supervision.ts), computed  *)
(* from the same records as admission, by rules of its own.                *)
(***************************************************************************)
EXTENDS TaskSupervisor

\* The tasks the view takes for running: neither delegated ones nor those
\* whose run Hermes lost or the operator contained.
Blocking ==
  {t \in Tasks :
     /\ task[t].status \in {"dispatching", "running", "waiting_for_approval", "stopping",
                            "unknown", "dispatch_unknown"}
     /\ ~task[t].missing /\ ~task[t].contained}

Position(t) == Cardinality({s \in Queued : s = t \/ Older(s, t)})

Oldest(S, n) == {t \in S : Cardinality({s \in S : Older(s, t)}) < n}

Overlapping(t) == {s \in Blocking : ~Disjoint(t, s)}

\* Mutant: free slots count for nothing.
AdmittingReaders(t) ==
  /\ Trust /\ ExecutionMode(t) = "parallel_read_only"
  /\ \A s \in Blocking : ExecutionMode(s) = "parallel_read_only" /\ Disjoint(t, s)

AdmittingParallel(t) ==
  \/ Cardinality(Blocking) < MaxConcurrent
  \/ /\ Trust /\ ExecutionMode(t) = "parallel_read_only"
     /\ \A s \in Blocking : ExecutionMode(s) = "parallel_read_only" /\ Disjoint(t, s)

\* Blockers of one's own lineage are named before all others.
BlockedBy(t) ==
  LET lineage == {s \in Blocking : Root[s] = Root[t]}
  IN  CASE lineage # {} -> {[task |-> s, reason |-> "conflicting_write"] : s \in lineage}
        [] lineage = {} /\ AdmittingParallel(t) -> {}
        [] OTHER ->
             IF Trust /\ ExecutionMode(t) = "parallel_read_only"
             THEN {[task |-> s, reason |-> "conflicting_write"] : s \in Overlapping(t)}
             ELSE {[task |-> s, reason |-> "capacity"] : s \in Oldest(Blocking, MaxConcurrent)}

-----------------------------------------------------------------------------
\* A queued task that is said to wait for another one does wait: the next
\* pass of the admission loop would not dispatch it, whatever the rules that
\* named the blocker left out.
BlockedIsBlocked == \A t \in Queued : BlockedBy(t) # {} => ~Admissible(t)

\* No two queued tasks are told the same place.
PlacesDiffer == \A s, t \in Queued : Position(s) = Position(t) => s = t

\* Queued tasks are told the truth about their place and what holds them back.
QueueTold == BlockedIsBlocked /\ PlacesDiffer
=============================================================================
