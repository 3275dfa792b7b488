---------------------------- MODULE TaskDocuments ----------------------------
(***************************************************************************)
(* The documents of the task store as values: what a record weighs, which  *)
(* room is kept free for the ends of admitted work, and which history a    *)
(* write may drop to fit.                                                  *)
(***************************************************************************)
EXTENDS Integers, FiniteSets

CONSTANTS
  Tasks,
  MaxRecords,   \* records of the live document
  MaxUnits,     \* its size limit; a record weighs a unit, its output another
  Migration,    \* how far a legacy document may exceed the limit
  Slots,        \* admitted tasks whose end is provided for
  Control       \* room every admission leaves for later bookkeeping

ASSUME DocumentsAssumption ==
  /\ IsFiniteSet(Tasks)
  /\ MaxRecords \in Nat \ {0} /\ MaxUnits \in Nat \ {0}
  /\ Migration \in Nat /\ Slots \in Nat \ {0} /\ Control \in Nat

Absent == "absent"
\* "contained" stands for the open records an operator closed and for the
\* ones whose run is gone; "unread" and "read" for the terminal ones.
Stored == {"queued", "active", "contained", "unread", "read"}
Terminal == {"unread", "read"}
Prunable == Terminal \cup {"contained"}
Document == [Tasks -> Stored \cup {Absent}]
Empty == [t \in Tasks |-> Absent]

Having(doc, statuses) == {t \in Tasks : doc[t] \in statuses}
Records(doc) == Having(doc, Stored)
Without(doc, gone) == [t \in Tasks |-> IF t \in gone THEN Absent ELSE doc[t]]

\* A terminal record carries its output.
Size(doc) == Cardinality(Records(doc)) + Cardinality(Having(doc, Terminal))

\* The room for the ends of the admitted tasks, and of the queued ones that
\* the next writes may admit.
Reserve(doc, queuedToo, control) ==
  LET active == Cardinality(Having(doc, {"active"}))
      coming == active + Cardinality(Having(doc, {"queued"}))
      slots == IF coming < Slots THEN coming ELSE Slots
  IN  (IF queuedToo /\ slots > active THEN slots ELSE active)
      + (IF control THEN Control ELSE 0)

\* How a write asks for its room: the tasks it may not drop, its limit, and
\* which reserves it leaves.
Fits(doc, ask) ==
  LET reserve == IF ask.auto THEN Reserve(doc, ask.queued, ask.control) ELSE 0
  IN  reserve < ask.limit /\ Size(doc) <= ask.limit - reserve

\* What is left of doc once candidates were dropped until it is enough: what
\* the owner has read first, and the rest by age.  All of them, if need be.
\* enough: the sets of candidates whose drop is enough.
Dropped(doc, candidates, enough) ==
  LET unread == candidates \cap Having(doc, {"unread", "contained"})
      InOrder(gone) == gone \cap unread # {} => candidates \ unread \subseteq gone
      Needed(gone) ==
        \E last \in gone : /\ gone \cap unread # {} => last \in unread
                           /\ gone \ {last} \notin enough
  IN  {Without(doc, gone) : gone \in
        {k \in SUBSET candidates :
           /\ InOrder(k)
           /\ k # {} => Needed(k)
           /\ k \in enough \/ k = candidates}}

\* What fits of doc: nothing if even its history is in the way.
Fitted(doc, ask) ==
  LET old == Having(doc, Prunable) \ ask.kept
  IN  IF Fits(doc, ask) THEN {doc}
      ELSE IF ~ask.auto THEN {}
      ELSE {d \in Dropped(doc, old, {k \in SUBSET old : Fits(Without(doc, k), ask)}) :
              Fits(d, ask)}

\* The closed records past their retention, then what exceeds the count.
Pruned(doc, max) ==
  LET Few(d) == Cardinality(Records(d)) <= max
      Past(fresh) == LET old == Having(fresh, Prunable)
                     IN  Dropped(fresh, old, {k \in SUBSET old : Few(Without(fresh, k))})
  IN  UNION {Past(Without(doc, expired)) : expired \in SUBSET Having(doc, Prunable)}

\* How far a record is: nothing leads back.
Rank(status) ==
  CASE status = Absent -> 0 [] status = "queued" -> 1 [] status = "active" -> 2
    [] status \in {"contained", "unread"} -> 3 [] status = "read" -> 4

\* The updates of a record's domain that the store accepts.
Moves(from) ==
  CASE from = "queued" -> {"active", "unread"}
    [] from = "active" -> {"unread", "contained"}
    [] from = "unread" -> {"read"}
    [] OTHER -> {}
=============================================================================
