----------------------------- MODULE AgentWatches -----------------------------
(***************************************************************************)
(* The durable watch over an agent on another host                         *)
(* (domain/external-work/agent-watch.ts): what its owner, the poll of its  *)
(* host and the sessions that speak of it write.  "announced" stands for   *)
(* one announcement of the watch, "revision" for the parity of its         *)
(* revision; excerpts, cursors, timestamps and retained events are left    *)
(* out.                                                                    *)
(***************************************************************************)
EXTENDS Naturals

CONSTANT MaxFailures  \* the schema's limit of consecutiveFailures

ASSUME WatchAssumption == MaxFailures \in Nat /\ MaxFailures >= 3

\* What a host's agent list says of the watched pane: a status of the agent,
\* "gone" without the pane, "foreign" when it runs another session.
Runtime == {"idle", "working", "blocked", "done", "unknown"}
Sightings == Runtime \cup {"gone", "foreign"}

Watch ==
  [status : {"absent", "watching", "mismatched", "stopped"},
   state : Runtime \cup {"none", "missing", "offline"},
   failures : 0..MaxFailures, announced : BOOLEAN, revision : {0, 1}]

NoWatch ==
  [status |-> "absent", state |-> "none", failures |-> 0,
   announced |-> FALSE, revision |-> 0]

\* createAgentWatchRecord
Created == [NoWatch EXCEPT !.status = "watching", !.revision = 1]

Revised(w) == [w EXCEPT !.revision = 1 - @]

\* Mutant: an observation is folded into a watch whatever became of it.
ObservedAnyway(w, s) == [Revised(w) EXCEPT !.state = s, !.failures = 0]

\* recordWatchObservation
Observed(w, s) ==
  IF w.status # "watching" THEN w
  ELSE [Revised(w) EXCEPT !.state = s, !.failures = 0]

\* markWatchMismatched
Mismatched(w) ==
  IF w.status # "watching" THEN w
  ELSE [Revised(w) EXCEPT !.status = "mismatched"]

\* Mutant: one failure too many.
HostFailedLate(w) ==
  IF w.status # "watching" THEN w
  ELSE [Revised(w) EXCEPT
          !.failures = @ + 1,
          !.state = IF w.failures = 3 /\ @ # "none" THEN "offline" ELSE @]

\* recordWatchHostFailure: the third failure in a row flips what was observed.
HostFailed(w) ==
  IF w.status # "watching" THEN w
  ELSE [Revised(w) EXCEPT
          !.failures = @ + 1,
          !.state = IF w.failures = 2 /\ @ # "none" THEN "offline" ELSE @]

\* stopWatch
Stopped(w) ==
  IF w.status = "stopped" THEN w ELSE [Revised(w) EXCEPT !.status = "stopped"]

\* noteWatchAnnounced
Announced(w) == [Revised(w) EXCEPT !.announced = TRUE]

\* What a sighting of its pane makes of a watch.
Sighted(w, sighting) ==
  IF sighting = "foreign" THEN Mismatched(w)
  ELSE Observed(w, IF sighting = "gone" THEN "missing" ELSE sighting)

\* The store takes the next revision of a record that its schema admits: an
\* updater that leaves the record as it is makes the update fail.
Takes(w, new) == new.revision # w.revision /\ new.failures <= MaxFailures
===============================================================================
