---------------------------- MODULE TaskNarration ----------------------------
(***************************************************************************)
(* The task log of the voice page and the narrations it asks the gateway   *)
(* for (clients/browser/task-narrator.js, renderTaskEntry of voice.js):    *)
(* one request per revision of a finished task, its answer or failure      *)
(* cached, and the log painted again when it comes.  One task is followed  *)
(* through its revisions; the endpoint behind the request is external.     *)
(***************************************************************************)
EXTENDS Naturals

CONSTANTS
  MaxRevisions, \* bounds: revisions of the task,
  MaxPaints,    \* paints of the log not due to a narration,
  MaxExpiries   \* failures that are forgotten after negativeTtlMs

ASSUME NarrationAssumption == MaxRevisions \in Nat \ {0}

VARIABLES
  drawer,   \* open; the revision the page shows; narration switched off (503)
  note,     \* of each revision: what the cache says, and whether it is asked for
  repaints, \* paints that wait for an answer, for each revision
  ghost     \* per revision: requests, failures forgotten; other paints

narrationVars == <<drawer, note, repaints, ghost>>

Revisions == 1..MaxRevisions

NarrationInit ==
  /\ drawer = [open |-> FALSE, revision |-> 1, disabled |-> FALSE]
  /\ note = [r \in Revisions |-> [cached |-> "nothing", inflight |-> FALSE]]
  /\ repaints = [r \in Revisions |-> 0]
  /\ ghost = [requests |-> [r \in Revisions |-> 0], expiries |-> [r \in Revisions |-> 0],
              paints |-> 0]

\* renderTaskLog, and narrate() for a revision of which nothing is cached: it
\* joins the request in flight or sends one.
Paints(open) ==
  LET r == drawer.revision
      asks == open /\ ~drawer.disabled /\ note[r].cached = "nothing"
  IN  /\ note' = IF asks THEN [note EXCEPT ![r].inflight = TRUE] ELSE note
      /\ repaints' = IF asks THEN [repaints EXCEPT ![r] = @ + 1] ELSE repaints
      /\ ghost' = [ghost EXCEPT
                     !.requests[r] = IF asks /\ ~note[r].inflight THEN @ + 1 ELSE @,
                     !.paints = @ + 1]

MayPaint == ghost.paints < MaxPaints

DrawerToggled ==
  /\ MayPaint
  /\ drawer' = [drawer EXCEPT !.open = ~@]
  /\ Paints(~drawer.open)

\* A change of any task paints the log; one of this task is a revision.
TasksChange ==
  /\ MayPaint /\ drawer.open
  /\ Paints(TRUE) /\ UNCHANGED drawer

Revised ==
  /\ drawer.revision < MaxRevisions
  /\ drawer' = [drawer EXCEPT !.revision = @ + 1]
  /\ UNCHANGED <<note, repaints, ghost>>

\* The answer comes, fails, or is too late; a 503 switches narration off.
NarrationSettles(r) ==
  /\ note[r].inflight
  /\ \E outcome \in {"text", "failed", "unavailable"} :
       /\ note' = [note EXCEPT ![r] = [cached |-> IF outcome = "text" THEN "text" ELSE "failed",
                                       inflight |-> FALSE]]
       /\ drawer' = [drawer EXCEPT !.disabled = @ \/ outcome = "unavailable"]
  /\ UNCHANGED <<repaints, ghost>>

\* The paints that waited for it, one by one.
Repainted(r) ==
  /\ repaints[r] > 0 /\ ~note[r].inflight
  /\ LET q == drawer.revision
         asks == drawer.open /\ ~drawer.disabled /\ note[q].cached = "nothing"
     IN  /\ note' = IF asks THEN [note EXCEPT ![q].inflight = TRUE] ELSE note
         /\ repaints' = [s \in Revisions |->
              repaints[s] + (IF asks /\ s = q THEN 1 ELSE 0) - (IF s = r THEN 1 ELSE 0)]
         /\ ghost' = [ghost EXCEPT !.requests[q] =
                        IF asks /\ ~note[q].inflight THEN @ + 1 ELSE @]
  /\ UNCHANGED drawer

FailureForgotten(r) ==
  /\ note[r].cached = "failed" /\ ghost.expiries[r] < MaxExpiries
  /\ note' = [note EXCEPT ![r].cached = "nothing"]
  /\ ghost' = [ghost EXCEPT !.expiries[r] = @ + 1]
  /\ UNCHANGED <<drawer, repaints>>

NarrationNext ==
  \/ DrawerToggled \/ TasksChange \/ Revised
  \/ \E r \in Revisions : NarrationSettles(r) \/ Repainted(r) \/ FailureForgotten(r)

NarrationSpec == NarrationInit /\ [][NarrationNext]_narrationVars

-----------------------------------------------------------------------------
\* However often the log is painted, a revision is asked for once, and again
\* only after its failure was forgotten.
AskedOnce == \A r \in Revisions : ghost.requests[r] <= 1 + ghost.expiries[r]

\* While the log says an answer is on its way, one is, or the log is about to
\* be painted again.
PendingIsPending ==
  \A r \in Revisions : note[r].inflight => repaints[r] > 0 /\ note[r].cached = "nothing"

\* Narrations cost one request each and always come to the screen.
NarrationKept == AskedOnce /\ PendingIsPending
=============================================================================
