---------------------------- MODULE WorkExecution ----------------------------
(***************************************************************************)
(* What the task supervisor promises of the work it accepts, without polls,*)
(* events, timers, requests or restarts: work waits, claims one of a few   *)
(* slots, is started at most once upstream, and is over once.  Work whose  *)
(* start is in doubt is fenced: it keeps its slot and never waits again,   *)
(* until an operator writes it off.                                        *)
(***************************************************************************)
EXTENDS Naturals, FiniteSets

CONSTANTS Work, Slots

VARIABLES state, started

States ==
  {"new", "waiting", "claimed", "fenced", "tracked", "handed", "over",
   "written_off"}

Occupied == {w \in Work : state[w] \in {"claimed", "fenced", "tracked"}}

Init ==
  /\ state = [w \in Work |-> "new"]
  /\ started = [w \in Work |-> 0]

\* Work w moves to a state without being started.
Becomes(w, s) == state' = [state EXCEPT ![w] = s] /\ UNCHANGED started

Enter(w) == state[w] = "new" /\ Becomes(w, "waiting")

Claim(w) ==
  /\ state[w] = "waiting"
  /\ Cardinality(Occupied) < Slots
  /\ Becomes(w, "claimed")

\* Upstream starts it, perhaps after its answer was given up on.
Start(w) ==
  /\ state[w] \in {"claimed", "fenced", "written_off"}
  /\ started[w] = 0
  /\ started' = [started EXCEPT ![w] = 1]
  /\ UNCHANGED state

\* Only work that was certainly not started waits again.
Return(w) ==
  state[w] = "claimed" /\ started[w] = 0 /\ Becomes(w, "waiting")

Fence(w) == state[w] = "claimed" /\ Becomes(w, "fenced")

Track(w) ==
  state[w] = "claimed" /\ started[w] = 1 /\ Becomes(w, "tracked")

HandOff(w) == state[w] = "tracked" /\ Becomes(w, "handed")

Finish(w) ==
  /\ \/ state[w] \in {"waiting", "tracked", "handed"}
     \/ state[w] = "claimed" /\ started[w] = 0
  /\ Becomes(w, "over")

WriteOff(w) == state[w] = "fenced" /\ Becomes(w, "written_off")

Next ==
  \E w \in Work :
    \/ Enter(w) \/ Claim(w) \/ Start(w) \/ Return(w) \/ Fence(w)
    \/ Track(w) \/ HandOff(w) \/ Finish(w) \/ WriteOff(w)

Spec == Init /\ [][Next]_<<state, started>>
=============================================================================
