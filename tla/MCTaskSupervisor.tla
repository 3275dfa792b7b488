-------------------------- MODULE MCTaskSupervisor --------------------------
(***************************************************************************)
(* Small instances of TaskSupervisor for TLC: tasks a, b and c of one      *)
(* owner.                                                                  *)
(***************************************************************************)
EXTENDS QueueSupervision, TLC

CONSTANTS a, b, c, none

OneOwner == [t \in Tasks |-> "alice"]
NoParents == [t \in Tasks |-> none]
OwnRoots == [t \in Tasks |-> t]
\* c follows up a.
FollowUp == [t \in Tasks |-> IF t = c THEN a ELSE none]
FollowUpRoots == [t \in Tasks |-> IF t = c THEN a ELSE t]
\* a and b only read, on overlapping keys; c writes.
TwoReaders ==
  [t \in Tasks |-> IF t = c THEN "exclusive" ELSE "parallel_read_only"]
TwoRepos ==
  [t \in Tasks |-> IF t = a THEN {"repo:x"} ELSE IF t = b THEN {"repo:y"}
                   ELSE {"repo:x"}]
AllExclusive == [t \in Tasks |-> "exclusive"]
NoKeys == [t \in Tasks |-> {}]

\* Where no constant tells the tasks apart.
Alike == Permutations(Tasks)
=============================================================================
