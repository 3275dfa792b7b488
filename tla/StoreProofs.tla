----------------------------- MODULE StoreProofs -----------------------------
(***************************************************************************)
(* Theorems about the task store and the file of the agent watches, for    *)
(* any number of tasks, processes, crashes and faults, and any limits.     *)
(***************************************************************************)
EXTENDS FileTaskStore, AgentWatchFile, FiniteSetTheorems, WellFoundedInduction, TLAPS

(* Documents: what fitting and pruning may take from one *)

LEMMA WithoutTyped ==
  ASSUME NEW doc \in Document, NEW gone
  PROVE  Without(doc, gone) \in Document
BY DEF Without, Document

LEMMA EmptyTyped == Empty \in Document
BY DEF Empty, Document

LEMMA HavingFinite ==
  ASSUME NEW doc, NEW statuses
  PROVE  /\ Having(doc, statuses) \subseteq Tasks
         /\ IsFiniteSet(Having(doc, statuses))
         /\ Cardinality(Having(doc, statuses)) \in Nat
<1>1. Having(doc, statuses) \subseteq Tasks BY DEF Having
<1>2. IsFiniteSet(Having(doc, statuses))
  BY <1>1, FS_Subset, DocumentsAssumption
<1>3. QED BY <1>1, <1>2, FS_CardinalityType

\* A document that another one was cut down to.
Thinned(small, doc, kept) ==
  /\ small \in Document
  /\ \A t \in Tasks :
       \/ small[t] = doc[t]
       \/ small[t] = Absent /\ doc[t] \in Prunable /\ t \notin kept

LEMMA DroppedThins ==
  ASSUME NEW doc \in Document, NEW kept, NEW old, NEW enough,
         old \subseteq Having(doc, Prunable) \ kept,
         NEW d \in Dropped(doc, old, enough)
  PROVE  Thinned(d, doc, kept)
<1>1. PICK gone \in SUBSET old : d = Without(doc, gone)
  BY DEF Dropped
<1>2. d \in Document BY <1>1, WithoutTyped
<1>3. QED BY <1>1, <1>2 DEF Thinned, Without, Having

LEMMA FittedThins ==
  ASSUME NEW doc \in Document, NEW ask \in Request, NEW d \in Fitted(doc, ask)
  PROVE  Thinned(d, doc, ask.kept) /\ Fits(d, ask)
<1>1. CASE Fits(doc, ask)
  BY <1>1 DEF Fitted, Thinned
<1>2. CASE ~Fits(doc, ask)
  <2> DEFINE old == Having(doc, Prunable) \ ask.kept
             enough == {k \in SUBSET old : Fits(Without(doc, k), ask)}
  <2>1. d \in Dropped(doc, old, enough) /\ Fits(d, ask)
    BY <1>2 DEF Fitted
  <2> HIDE DEF enough
  <2>2. QED BY <2>1, DroppedThins
<1>3. QED BY <1>1, <1>2

LEMMA PrunedThins ==
  ASSUME NEW doc \in Document, NEW max, NEW d \in Pruned(doc, max)
  PROVE  Thinned(d, doc, {})
<1>1. PICK expired \in SUBSET Having(doc, Prunable) :
        \E enough : d \in Dropped(Without(doc, expired),
                                Having(Without(doc, expired), Prunable), enough)
  BY DEF Pruned
<1>2. Without(doc, expired) \in Document BY WithoutTyped
<1>3. Thinned(d, Without(doc, expired), {}) BY <1>1, <1>2, DroppedThins
<1>4. QED BY <1>3 DEF Thinned, Without, Having

LEMMA RoomThins ==
  ASSUME NEW doc \in Document, NEW g \in Gateways, NEW d \in Room(g, doc)
  PROVE  Thinned(d, doc, {})
<1>1. CASE gw[g].auto BY <1>1, PrunedThins DEF Room
<1>2. CASE ~gw[g].auto BY <1>2 DEF Room, Thinned
<1>3. QED BY <1>1, <1>2

(* Documents: the room for the ends of admitted work *)

\* The room that the ends of the admitted and the queued tasks need.
Roomy(doc, limit) ==
  2 * Cardinality(Having(doc, {"active"})) + Cardinality(Having(doc, {"queued"}))
    <= limit

\* What fits with its reserves has room for the end of every admitted task.
LEMMA FittingIsRoomy ==
  ASSUME NEW doc \in Document, NEW ask \in Request, ask.auto, Fits(doc, ask)
  PROVE  Roomy(doc, ask.limit)
<1> DEFINE active == Having(doc, {"active"})
           queued == Having(doc, {"queued"})
<1>1. /\ IsFiniteSet(active) /\ IsFiniteSet(queued) /\ IsFiniteSet(Records(doc))
      /\ Cardinality(active) \in Nat /\ Cardinality(queued) \in Nat
      /\ Cardinality(Records(doc)) \in Nat
      /\ Cardinality(Having(doc, Terminal)) \in Nat
  BY HavingFinite DEF Records
<1>2. active \cup queued \subseteq Records(doc) BY DEF Having, Records, Stored
<1>3. active \cap queued = {} BY DEF Having
<1>4. Cardinality(active) + Cardinality(queued) <= Cardinality(Records(doc))
  <2> HIDE DEF active, queued
  <2>1. Cardinality(active \cap queued) = 0 BY <1>3, FS_EmptySet
  <2>2. Cardinality(active \cup queued) =
          Cardinality(active) + Cardinality(queued) - Cardinality(active \cap queued)
    BY <1>1, FS_Union
  <2>3. Cardinality(active \cup queued) <= Cardinality(Records(doc))
    BY <1>1, <1>2, FS_Subset
  <2>4. QED BY <1>1, <2>1, <2>2, <2>3
<1>5. /\ Reserve(doc, ask.queued, ask.control) \in Nat
      /\ Reserve(doc, ask.queued, ask.control) >= Cardinality(active)
  BY <1>1, DocumentsAssumption DEF Reserve, Request
<1>6. ask.limit \in Int
  BY DocumentsAssumption DEF Request, Maximum
<1>7. Size(doc) <= ask.limit - Reserve(doc, ask.queued, ask.control)
  BY DEF Fits
<1> HIDE DEF active, queued
<1>8. Size(doc) = Cardinality(Records(doc)) + Cardinality(Having(doc, Terminal))
  BY DEF Size
<1>9. 2 * Cardinality(active) + Cardinality(queued) <= ask.limit
  BY <1>1, <1>4, <1>5, <1>6, <1>7, <1>8
<1>10. QED BY <1>9 DEF Roomy, active, queued

LEMMA LeastNumber ==
  ASSUME NEW T \in SUBSET Nat, T # {}
  PROVE  \E n \in T : \A m \in T : n <= m
<1>1. \E n \in T : \A m \in T : ~(<<m, n>> \in OpToRel(<, Nat))
  BY WFMin, NatLessThanWellFounded, Zenon
<1>2. PICK n \in T : \A m \in T : ~(<<m, n>> \in OpToRel(<, Nat)) BY <1>1
<1>3. \A m \in T : ~(m < n) BY <1>2, Zenon DEF OpToRel
<1>4. QED BY <1>3

\* If the drop of all the history is enough, then some part of it is enough
\* that the rules of dropping lead to.
LEMMA DroppedSuffices ==
  ASSUME NEW doc, NEW old, IsFiniteSet(old), NEW enough \in SUBSET SUBSET old,
         old \in enough
  PROVE  \E k \in enough : Without(doc, k) \in Dropped(doc, old, enough)
<1> DEFINE unread == old \cap Having(doc, {"unread", "contained"})
           InOrder(gone) == gone \cap unread # {} => old \ unread \subseteq gone
           S == {k \in enough : InOrder(k)}
           Counts == {Cardinality(k) : k \in S}
<1>1. old \in S OBVIOUS
<1>2. \A k \in S : IsFiniteSet(k) /\ Cardinality(k) \in Nat
  BY FS_Subset, FS_CardinalityType
<1>3. Counts \in SUBSET Nat /\ Counts # {} BY <1>1, <1>2
<1>4. PICK k \in S : \A j \in S : Cardinality(k) <= Cardinality(j)
  <2> HIDE DEF Counts
  <2>1. PICK n \in Counts : \A m \in Counts : n <= m BY <1>3, LeastNumber
  <2>2. QED BY <2>1 DEF Counts
<1>5. \A last \in k : InOrder(k \ {last}) => k \ {last} \notin enough
  <2> SUFFICES ASSUME NEW last \in k, InOrder(k \ {last}), k \ {last} \in enough
               PROVE  FALSE
    OBVIOUS
  <2>1. k \ {last} \in S OBVIOUS
  <2>2. Cardinality(k \ {last}) = Cardinality(k) - 1
    BY <1>2, FS_RemoveElement
  <2> HIDE DEF S
  <2>3. QED BY <1>2, <1>4, <2>1, <2>2
<1>6. ASSUME k # {}
      PROVE  \E last \in k : /\ k \cap unread # {} => last \in unread
                             /\ k \ {last} \notin enough
  <2>1. CASE k \cap unread # {}
    <3>1. PICK last \in k : last \in unread BY <2>1
    <3>2. InOrder(k \ {last}) BY <2>1, <3>1
    <3>3. QED BY <1>5, <3>1, <3>2
  <2>2. CASE k \cap unread = {}
    BY <1>5, <1>6, <2>2
  <2>3. QED BY <2>1, <2>2
<1>7. k \in SUBSET old /\ k \in enough /\ InOrder(k) OBVIOUS
<1>8. Without(doc, k) \in Dropped(doc, old, enough)
  BY <1>6, <1>7 DEF Dropped
<1>9. QED BY <1>7, <1>8

\* A document with room for its ends can take any one of them.
LEMMA RoomyCanFinish ==
  ASSUME NEW doc \in Document, NEW limit \in Nat, Roomy(doc, limit),
         NEW t \in Tasks, doc[t] = "active", NEW ask \in Request,
         ask.auto, ask.kept = {t}, ask.limit = limit, ~ask.queued, ~ask.control
  PROVE  Fitted([doc EXCEPT ![t] = "unread"], ask) # {}
<1> DEFINE next == [doc EXCEPT ![t] = "unread"]
           old == Having(next, Prunable) \ ask.kept
           enough == {k \in SUBSET old : Fits(Without(next, k), ask)}
           least == Without(next, old)
           active == Having(doc, {"active"})
           queued == Having(doc, {"queued"})
<1>3. /\ IsFiniteSet(active) /\ IsFiniteSet(queued) /\ IsFiniteSet(old)
      /\ Cardinality(active) \in Nat /\ Cardinality(queued) \in Nat
  <2>1. old \subseteq Having(next, Prunable) OBVIOUS
  <2>2. QED BY <2>1, HavingFinite, FS_Subset
<1>4. /\ Having(least, {"active"}) = active \ {t}
      /\ Records(least) = active \cup queued
      /\ Having(least, Terminal) = {t}
      /\ t \in active /\ active \cap queued = {}
  <2>1. \A u \in Tasks \ {t} : least[u] =
          IF doc[u] \in Prunable THEN Absent ELSE doc[u]
    BY DEF Without, Having, Document
  <2>2. least[t] = "unread" BY DEF Without, Having, Document
  <2>3. Having(least, {"active"}) = active \ {t}
    BY <2>1, <2>2 DEF Having, Prunable, Terminal, Absent
  <2>4. \A u \in Tasks : least[u] \in Stored <=> doc[u] \in {"active", "queued"}
    BY <2>1, <2>2 DEF Prunable, Terminal, Absent, Stored, Document
  <2>5. Records(least) = active \cup queued
    BY <2>4 DEF Records, Having
  <2>6. Having(least, Terminal) = {t}
    BY <2>1, <2>2 DEF Having, Prunable, Terminal, Absent
  <2>7. QED BY <2>3, <2>5, <2>6 DEF Having
<1> HIDE DEF active, queued
<1>5. /\ Cardinality(Having(least, {"active"})) = Cardinality(active) - 1
      /\ Cardinality(Records(least)) = Cardinality(active) + Cardinality(queued)
      /\ Cardinality(Having(least, Terminal)) = 1
  <2>1. Cardinality(active \cap queued) = 0 BY <1>4, FS_EmptySet
  <2>2. Cardinality(active \ {t}) = Cardinality(active) - 1
    BY <1>3, <1>4, FS_RemoveElement
  <2>3. Cardinality(active \cup queued) =
          Cardinality(active) + Cardinality(queued) - Cardinality(active \cap queued)
    BY <1>3, FS_Union
  <2>4. Cardinality({t}) = 1 BY FS_Singleton
  <2> HIDE DEF least
  <2>5. Cardinality(Having(least, {"active"})) = Cardinality(active) - 1
    BY <1>4, <2>2
  <2>6. Cardinality(Records(least)) = Cardinality(active) + Cardinality(queued)
    BY <1>3, <1>4, <2>1, <2>3
  <2>7. Cardinality(Having(least, Terminal)) = 1 BY <1>4, <2>4
  <2>8. QED BY <2>5, <2>6, <2>7
<1>6. /\ Size(least) = Cardinality(active) + Cardinality(queued) + 1
      /\ Reserve(least, ask.queued, ask.control) = Cardinality(active) - 1
  BY <1>3, <1>5 DEF Size, Reserve
<1>7. 2 * Cardinality(active) + Cardinality(queued) <= limit
  BY DEF Roomy, active, queued
<1>8. Fits(least, ask)
  BY <1>3, <1>6, <1>7 DEF Fits
<1> HIDE DEF next, least
<1>9. CASE Fits(next, ask) BY <1>9 DEF Fitted, next
<1>10. CASE ~Fits(next, ask)
  <2>1. old \in enough BY <1>8 DEF least
  <2>2. enough \in SUBSET SUBSET old OBVIOUS
  <2>3. PICK k \in enough : Without(next, k) \in Dropped(next, old, enough)
    <3> HIDE DEF enough, old
    <3>1. QED BY <1>3, <2>1, <2>2, DroppedSuffices
  <2>4. Fits(Without(next, k), ask) BY <2>3
  <2>5. Fitted(next, ask) =
          {d \in Dropped(next, old, enough) : Fits(d, ask)}
    BY <1>10 DEF Fitted
  <2> HIDE DEF enough, old
  <2>6. QED BY <2>3, <2>4, <2>5 DEF next
<1>11. QED BY <1>9, <1>10

-----------------------------------------------------------------------------
(* Types *)

Busy(g) == op[g] \in Plan
Signing == [kind |-> "lock"]

LEMMA LockChanges ==
  /\ Free \in LockState
  /\ \A g \in Gateways : [by |-> g, owner |-> FALSE] \in LockState
  /\ \A was \in LockState :
       [was EXCEPT !.owner = TRUE] \in LockState /\ [was EXCEPT !.by = Dead] \in LockState
BY DEF LockState, Free

LEMMA PlanOrNot ==
  /\ Idle \notin Plan /\ Signing \notin Plan /\ Idle # Signing
  /\ \A plan \in Plan : plan.kind \notin {"idle", "lock"}
  /\ Idle.kind = "idle" /\ Signing.kind = "lock"
BY DEF Idle, Signing, Plan

\* The operations that a gateway may begin.
BeginsOne(g) ==
  \/ Prunes(g) \/ Archives(g)
  \/ \E t \in Tasks :
       Puts(g, t) \/ Updates(g, t) \/ Deletes(g, t) \/ Restores(g, t) \/ DeletesArchived(g, t)

Writes(g) ==
  \/ LiveReplaced(g) \/ ArchiveReplaced(g) \/ WriteFails(g) \/ WriteDisowned(g)
  \/ LiveSyncFails(g) \/ ArchiveSyncFails(g)
  \/ \E which \in {"live", "archive"} : WriteLands(g, which)

Processes(g) ==
  \/ Starts(g) \/ MakesLock(g) \/ SignsLock(g) \/ LosesLock(g) \/ Closes(g)
  \/ Leaves(g) \/ Crashes(g)

LEMMA Steps ==
  StoreNext <=>
    \/ \E g \in Gateways : Processes(g) \/ Loads(g) \/ BeginsOne(g) \/ Writes(g)
    \/ Unlocks \/ PowerFails
BY DEF StoreNext, Processes, BeginsOne, Writes

LEMMA AskTyped ==
  ASSUME StoreTypeOK, NEW g \in Gateways
  PROVE  /\ Plain(g) \in Request
         /\ \A kept \in SUBSET Tasks : Strict(g, kept) \in Request
         /\ \A limit \in {MaxUnits, Maximum} : Ask(g, {}, limit, TRUE, TRUE) \in Request
         /\ \A t \in Tasks, status \in Stored : UpdateAsks(g, t, status) \in Request
BY DEF StoreTypeOK, Plain, Strict, Ask, UpdateAsks, Request, Gateway

\* What an operation plans when it begins: which files it goes through, and
\* what it means to do to the tasks.
Archiving == {"archive", "restore", "undouble", "delete archived"}

TodoOf(kind) ==
  CASE kind = "archive" -> <<"archive", "live">>
    [] kind = "restore" -> <<"live", "archive">>
    [] kind \in {"undouble", "delete archived"} -> <<"archive">>
    [] OTHER -> <<"live">>

\* What is told at its end is a record.
Tells(plan) ==
  /\ plan.kind \in {"put", "update", "restore"} =>
       plan.ask.kept = plan.tasks /\ \A t \in plan.tasks : plan.next[t] # Absent
  /\ plan.kind = "archive" => \A t \in plan.tasks : plan.archived[t] # Absent

Advances(plan, mem, archive) ==
  \A t \in Tasks : plan.next[t] # Absent =>
    \/ plan.next[t] = mem[t]
    \/ /\ t \in plan.tasks
       /\ \/ plan.kind = "put" /\ told[t] = "new"
          \/ /\ plan.kind = "update" /\ mem[t] # Absent
             /\ Rank(plan.next[t]) >= Rank(mem[t])
          \/ /\ plan.kind = "restore" /\ mem[t] = Absent
             /\ plan.next[t] = archive[t]

Moved(plan, mem, archive) ==
  /\ \A t \in Tasks \ plan.tasks :
       plan.archived[t] = IF plan.kind \in Archiving THEN archive[t] ELSE Absent
  /\ plan.kind # "archive" => \A t \in plan.tasks : plan.archived[t] = Absent
  /\ plan.kind = "archive" => \A t \in plan.tasks :
       mem[t] \in Terminal /\ plan.archived[t] = mem[t] /\ plan.next[t] = Absent
  /\ plan.kind \in {"undouble", "delete archived"} => plan.next = mem
  /\ plan.kind = "undouble" => \A t \in plan.tasks : mem[t] # Absent

Provides(plan, g) ==
  /\ plan.ask.auto = gw[g].auto /\ plan.ask.limit \in {MaxUnits, gw[g].limit}
  /\ plan.kind = "restore" =>
       /\ plan.ask.limit = MaxUnits
       /\ \A t \in plan.tasks : gw[g].mem[t] = Absent
       /\ \A t \in Tasks \ plan.tasks : \A s \in {"active", "queued"} :
            plan.next[t] = s <=> gw[g].mem[t] = s

NewPlan(g, plan) ==
  /\ plan \in Plan /\ plan.kind # "load" /\ plan.at = "write"
  /\ plan.todo = TodoOf(plan.kind)
  /\ Tells(plan) /\ Advances(plan, gw[g].mem, Archive)
  /\ Moved(plan, gw[g].mem, Archive) /\ Provides(plan, g)

LEMMA Typings ==
  ASSUME StoreTypeOK, NEW g \in Gateways, gw[g].mem # NotLoaded
  PROVE  /\ gw[g].mem \in Document /\ Archive \in Document /\ Empty \in Document
         /\ gw[g].auto \in BOOLEAN /\ gw[g].limit \in {MaxUnits, Maximum}
BY EmptyTyped DEF StoreTypeOK, Gateway, Archive, StoreFiles

\* An operation begins with such a plan, and changes nothing else.
LEMMA Plans ==
  ASSUME StoreTypeOK, NEW g \in Gateways, BeginsOne(g)
  PROVE  /\ Serves(g) /\ Unchanged(g)
         /\ \E plan : op' = [op EXCEPT ![g] = plan] /\ NewPlan(g, plan)
<1> DEFINE mem == gw[g].mem
           Made(kind, tasks, todo, next, archived, ask) ==
             [kind |-> kind, tasks |-> tasks, todo |-> todo, next |-> next,
              archived |-> archived, ask |-> ask, at |-> "write"]
           Goal == \E plan : op' = [op EXCEPT ![g] = plan] /\ NewPlan(g, plan)
<1>1. Serves(g) /\ Unchanged(g)
  BY DEF BeginsOne, Prunes, Archives, Puts, Updates, Deletes, Restores, DeletesArchived
<1>2. mem \in Document /\ Archive \in Document /\ Empty \in Document
  BY <1>1, Typings DEF Serves
<1>3. /\ Plain(g) \in Request /\ Plain(g).auto = gw[g].auto
      /\ Plain(g).limit \in {MaxUnits, gw[g].limit} /\ Plain(g).kept = {}
      /\ \A t \in Tasks :
           /\ Strict(g, {t}) \in Request /\ Strict(g, {t}).auto = gw[g].auto
           /\ Strict(g, {t}).limit = MaxUnits /\ Strict(g, {t}).kept = {t}
      /\ \A t \in Tasks, status \in Stored :
           /\ UpdateAsks(g, t, status) \in Request
           /\ UpdateAsks(g, t, status).auto = gw[g].auto
           /\ UpdateAsks(g, t, status).limit = gw[g].limit
           /\ UpdateAsks(g, t, status).kept = {t}
  BY AskTyped DEF Plain, Strict, UpdateAsks, Ask
<1>4. \A t \in Tasks : Empty[t] = Absent BY DEF Empty
<1>5. CASE Prunes(g)
  <2>1. PICK d \in Pruned(mem, MaxRecords) :
          Begins(g, "prune", {}, <<"live">>, d, Empty, Plain(g))
    BY <1>5 DEF Prunes
  <2>2. Thinned(d, mem, {}) BY <1>2, PrunedThins
  <2> DEFINE plan == Made("prune", {}, <<"live">>, d, Empty, Plain(g))
  <2>3. NewPlan(g, plan)
    BY <1>2, <1>3, <1>4, <2>2
       DEF NewPlan, Plan, Todos, TodoOf, Tells, Advances, Moved, Provides, Archiving,
           Thinned
  <2>4. QED BY <1>1, <2>1, <2>3 DEF Begins
<1>6. CASE Archives(g)
  <2>1. PICK moved \in SUBSET Having(mem, Terminal) :
          Begins(g, "archive", moved, ArchiveOrder, Without(mem, moved),
                 [t \in Tasks |-> IF t \in moved THEN mem[t] ELSE Archive[t]], Plain(g))
    BY <1>6 DEF Archives, Swept, Having, Terminal
  <2> DEFINE all == [t \in Tasks |-> IF t \in moved THEN mem[t] ELSE Archive[t]]
             plan == Made("archive", moved, <<"archive", "live">>, Without(mem, moved), all,
                          Plain(g))
  <2>2. all \in Document BY <1>2 DEF Document
  <2>3. Without(mem, moved) \in Document BY <1>2, WithoutTyped
  <2>4. plan \in Plan BY <1>3, <2>2, <2>3 DEF Plan, Todos, Having
  <2>5. \A t \in Tasks :
          /\ t \in moved => /\ mem[t] \in Terminal /\ all[t] = mem[t] /\ mem[t] # Absent
                            /\ Without(mem, moved)[t] = Absent
          /\ t \notin moved => all[t] = Archive[t] /\ Without(mem, moved)[t] = mem[t]
    BY DEF Having, Terminal, Absent, Without
  <2> HIDE DEF all
  <2>6. NewPlan(g, plan)
    BY <1>3, <2>4, <2>5
       DEF NewPlan, TodoOf, Tells, Advances, Moved, Provides, Archiving, Having
  <2>7. QED BY <1>1, <2>1, <2>6 DEF Begins, ArchiveOrder, all
<1>7. ASSUME NEW t \in Tasks, Puts(g, t) PROVE Goal
  <2>1. PICK d \in Room(g, mem) :
          Begins(g, "put", {t}, <<"live">>, [d EXCEPT ![t] = "queued"], Empty, Strict(g, {t}))
    BY <1>7 DEF Puts
  <2>2. Thinned(d, mem, {}) /\ told[t] = "new" BY <1>2, <1>7, RoomThins DEF Puts
  <2> DEFINE next == [d EXCEPT ![t] = "queued"]
             plan == Made("put", {t}, <<"live">>, next, Empty, Strict(g, {t}))
  <2>3. next \in Document /\ next[t] # Absent /\ \A u \in Tasks \ {t} : next[u] = d[u]
    BY <2>2 DEF Thinned, Document, Stored, Absent
  <2> HIDE DEF next
  <2>4. plan \in Plan BY <1>2, <1>3, <2>3 DEF Plan, Todos
  <2>5. NewPlan(g, plan)
    BY <1>3, <1>4, <2>2, <2>3, <2>4
       DEF NewPlan, TodoOf, Tells, Advances, Moved, Provides, Archiving, Thinned
  <2>6. QED BY <2>1, <2>5 DEF Begins, next
<1>8. ASSUME NEW t \in Tasks, Updates(g, t) PROVE Goal
  <2>1. PICK status \in Moves(mem[t]) :
          Begins(g, "update", {t}, <<"live">>, [mem EXCEPT ![t] = status], Empty,
                 UpdateAsks(g, t, status))
    BY <1>8 DEF Updates
  <2>2. status \in Stored /\ mem[t] # Absent /\ Rank(status) >= Rank(mem[t])
    BY <2>1 DEF Moves, Stored, Absent, Rank
  <2> DEFINE next == [mem EXCEPT ![t] = status]
             plan == Made("update", {t}, <<"live">>, next, Empty, UpdateAsks(g, t, status))
  <2>3. next \in Document /\ next[t] = status /\ \A u \in Tasks \ {t} : next[u] = mem[u]
    BY <1>2, <2>2 DEF Document
  <2> HIDE DEF next
  <2>4. plan \in Plan BY <1>2, <1>3, <2>2, <2>3 DEF Plan, Todos
  <2>5. status # Absent BY <2>2 DEF Stored, Absent
  <2>6. NewPlan(g, plan)
    BY <1>3, <1>4, <2>2, <2>3, <2>4, <2>5
       DEF NewPlan, TodoOf, Tells, Advances, Moved, Provides, Archiving
  <2>7. QED BY <2>1, <2>6 DEF Begins, next
<1>9. ASSUME NEW t \in Tasks, Deletes(g, t) PROVE Goal
  <2> DEFINE next == Without(mem, {t})
             plan == Made("delete", {t}, <<"live">>, next, Empty, Plain(g))
  <2>1. next \in Document /\ \A u \in Tasks : next[u] \in {mem[u], Absent}
    BY <1>2, WithoutTyped DEF Without
  <2> HIDE DEF next
  <2>2. plan \in Plan BY <1>2, <1>3, <2>1 DEF Plan, Todos
  <2>3. NewPlan(g, plan)
    BY <1>3, <1>4, <2>1, <2>2
       DEF NewPlan, TodoOf, Tells, Advances, Moved, Provides, Archiving
  <2>4. QED BY <1>9, <2>3 DEF Begins, Deletes, next
<1>a. ASSUME NEW t \in Tasks
      PROVE  /\ Without(Archive, {t}) \in Document /\ Without(Archive, {t})[t] = Absent
             /\ \A u \in Tasks \ {t} : Without(Archive, {t})[u] = Archive[u]
  BY <1>2, WithoutTyped DEF Without
<1>10. ASSUME NEW t \in Tasks, Restores(g, t) PROVE Goal
  <2>0. Archive[t] # Absent BY <1>10 DEF Restores
  <2>1. CASE /\ mem[t] # Absent
             /\ Begins(g, "undouble", {t}, <<"archive">>, mem, Without(Archive, {t}), Plain(g))
    <3> DEFINE plan == Made("undouble", {t}, <<"archive">>, mem, Without(Archive, {t}), Plain(g))
    <3>1. plan \in Plan BY <1>2, <1>3, <1>a DEF Plan, Todos
    <3>2. NewPlan(g, plan)
      BY <1>3, <1>a, <2>1, <3>1
         DEF NewPlan, TodoOf, Tells, Advances, Moved, Provides, Archiving
    <3>3. QED BY <2>1, <3>2 DEF Begins
  <2>2. ASSUME mem[t] = Absent, NEW d \in Room(g, mem),
               Begins(g, "restore", {t}, <<"live", "archive">>, [d EXCEPT ![t] = Archive[t]],
                      Without(Archive, {t}), Strict(g, {t}))
        PROVE  Goal
    <3> DEFINE next == [d EXCEPT ![t] = Archive[t]]
               plan == Made("restore", {t}, <<"live", "archive">>, next, Without(Archive, {t}),
                            Strict(g, {t}))
    <3>1. Thinned(d, mem, {}) BY <1>2, RoomThins
    <3>2. /\ next \in Document /\ next[t] = Archive[t]
          /\ \A u \in Tasks \ {t} : next[u] = d[u]
      BY <1>2, <3>1 DEF Thinned, Document
    <3>3. \A u \in Tasks, s \in {"active", "queued"} : d[u] = s <=> mem[u] = s
      BY <3>1 DEF Thinned, Prunable, Terminal, Absent
    <3> HIDE DEF next
    <3>4. plan \in Plan BY <1>3, <1>a, <3>2 DEF Plan, Todos
    <3>5. Advances(plan, mem, Archive) BY <2>2, <3>1, <3>2 DEF Advances, Thinned
    <3>a. \A u \in Tasks \ {t}, s \in {"active", "queued"} : next[u] = s <=> mem[u] = s
      BY <3>2, <3>3
    <3>b. Provides(plan, g) BY <1>3, <2>2, <3>a DEF Provides, mem
    <3>c. Moved(plan, mem, Archive) BY <1>a DEF Moved, Archiving
    <3>d. Tells(plan) BY <1>3, <2>0, <3>2 DEF Tells
    <3>6. NewPlan(g, plan)
      BY <3>4, <3>5, <3>b, <3>c, <3>d DEF NewPlan, TodoOf, mem
    <3>7. QED BY <2>2, <3>6 DEF Begins, next
  <2>3. QED BY <1>10, <2>1, <2>2 DEF Restores
<1>11. ASSUME NEW t \in Tasks, DeletesArchived(g, t) PROVE Goal
  <2> DEFINE plan == Made("delete archived", {t}, <<"archive">>, mem, Without(Archive, {t}),
                          Plain(g))
  <2>1. plan \in Plan BY <1>2, <1>3, <1>a DEF Plan, Todos
  <2>2. NewPlan(g, plan)
    BY <1>3, <1>a, <2>1
       DEF NewPlan, TodoOf, Tells, Advances, Moved, Provides, Archiving
  <2>3. QED BY <1>11, <2>2 DEF Begins, DeletesArchived
<1>12. QED
  BY <1>1, <1>5, <1>6, <1>7, <1>8, <1>9, <1>10, <1>11 DEF BeginsOne

LEMMA InitTyped == StoreInit => StoreTypeOK
<1> SUFFICES ASSUME StoreInit PROVE StoreTypeOK OBVIOUS
<1>1. docs \in StoreFiles /\ told \in [Tasks -> Stored \cup {"new", "gone"}]
  BY EmptyTyped DEF StoreInit, StoreFiles, Document
<1>2. Down \in Gateway BY DEF Down, Gateway
<1>3. QED
  BY <1>1, <1>2, LockChanges, StoreAssumption DEF StoreInit, StoreTypeOK

\* What an operation tells at its end is a record, not the lack of one.
TellsRecords == \A g \in Gateways : Busy(g) => Tells(op[g])

LEMMA WritersBusy ==
  ASSUME StoreTypeOK, NEW g \in Gateways, Writes(g)
  PROVE  /\ Busy(g) /\ op[g] \in Plan
         /\ gw[g] \in Gateway /\ docs \in StoreFiles
         /\ Archive \in Document /\ Live \in Document
<1>1. op[g].kind \notin {"idle", "lock"}
  BY DEF Writes, LiveReplaced, ArchiveReplaced, WriteFails, WriteDisowned,
         LiveSyncFails, ArchiveSyncFails, WriteLands, Writing, Syncing
<1>2. QED BY <1>1, PlanOrNot DEF Busy, Signing, StoreTypeOK, StoreFiles, Archive, Live

LEMMA GatewayChanges ==
  ASSUME NEW was \in Gateway
  PROVE  /\ [was EXCEPT !.poisoned = TRUE] \in Gateway
         /\ [was EXCEPT !.closed = TRUE] \in Gateway
         /\ \A held \in BOOLEAN : [was EXCEPT !.held = held] \in Gateway
         /\ \A limit \in {MaxUnits, Maximum} :
              /\ [was EXCEPT !.limit = limit] \in Gateway
              /\ \A mem \in Document :
                   /\ [was EXCEPT !.limit = limit, !.mem = mem] \in Gateway
                   /\ [was EXCEPT !.mem = mem, !.limit = limit] \in Gateway
BY DEF Gateway

LEMMA TodosEnd ==
  /\ Len(<<"live">>) = 1 /\ Len(<<"archive">>) = 1
  /\ Len(<<"archive", "live">>) = 2 /\ Len(<<"live", "archive">>) = 2
  /\ Tail(<<"archive", "live">>) = <<"live">>
  /\ Tail(<<"live", "archive">>) = <<"archive">>
  /\ Head(<<"live">>) = "live" /\ Head(<<"archive">>) = "archive"
  /\ Head(<<"archive", "live">>) = "archive" /\ Head(<<"live", "archive">>) = "live"
  /\ \A todo \in Todos : Len(todo) # 1 => Tail(todo) \in Todos
<1>1. /\ Len(<<"live">>) = 1 /\ Len(<<"archive">>) = 1
      /\ Len(<<"archive", "live">>) = 2 /\ Len(<<"live", "archive">>) = 2
  OBVIOUS
<1>2. Tail(<<"archive", "live">>) = <<"live">>
  OBVIOUS
<1>3. Tail(<<"live", "archive">>) = <<"archive">>
  OBVIOUS
<1>4. \A todo \in Todos : Len(todo) # 1 => Tail(todo) \in Todos
  BY <1>1, <1>2, <1>3 DEF Todos
<1>5. QED BY <1>1, <1>2, <1>3, <1>4

\* The ends that leave nothing written.
LEMMA GivesUp ==
  ASSUME StoreTypeOK, NEW g \in Gateways, Rejects(g) \/ Poisons(g)
  PROVE  /\ gw' \in [Gateways -> Gateway]
         /\ op' = [op EXCEPT ![g] = Idle]
         /\ lock' \in LockState
<1>0. gw[g] \in Gateway BY DEF StoreTypeOK
<1>1. /\ [gw[g] EXCEPT !.poisoned = TRUE] \in Gateway
      /\ Released(g) \in Gateway
  BY <1>0, GatewayChanges DEF Released
<1>2. CASE Rejects(g)
  <2>1. op' = [op EXCEPT ![g] = Idle] BY <1>2 DEF Rejects
  <2>2. \/ gw' = [gw EXCEPT ![g] = Released(g)] /\ lock' = Free
        \/ UNCHANGED <<gw, lock>>
    BY <1>2 DEF Rejects
  <2>3. lock' \in LockState
    BY <2>2, LockChanges DEF StoreTypeOK
  <2>4. gw' \in [Gateways -> Gateway] BY <1>1, <2>2 DEF StoreTypeOK
  <2>5. QED BY <2>1, <2>3, <2>4
<1>3. CASE Poisons(g) BY <1>1, <1>3 DEF Poisons, StoreTypeOK
<1>4. QED BY <1>2, <1>3

LEMMA FaultsTyped ==
  ASSUME StoreTypeOK, NEW kind, MayFail(kind)
  PROVE  storeFaults' \in 0..MaxStoreFaults
BY StoreAssumption DEF StoreTypeOK, MayFail

LEMMA WritesTyped ==
  ASSUME StoreTypeOK, TellsRecords, NEW g \in Gateways, Writes(g)
  PROVE  StoreTypeOK' /\ TellsRecords'
<1>0. /\ Busy(g) /\ op[g] \in Plan /\ Tells(op[g])
      /\ gw[g] \in Gateway /\ docs \in StoreFiles
      /\ Archive \in Document /\ Live \in Document
  BY WritersBusy DEF TellsRecords
<1>1. ASSUME NEW plan, plan \in Plan => Tells(plan), op' = [op EXCEPT ![g] = plan]
      PROVE  TellsRecords'
  BY <1>1 DEF TellsRecords, Busy, StoreTypeOK
<1>2. Idle \notin Plan BY PlanOrNot
<1>4. CASE LiveReplaced(g)
  <2>1. PICK next \in Fitted(op[g].next, op[g].ask) :
          /\ docs' = [docs EXCEPT !.live = next]
          /\ op' = [op EXCEPT ![g].at = "sync", ![g].next = next]
          /\ told' = [t \in Tasks |-> IF t \in Forgotten(g, next) THEN "gone" ELSE told[t]]
    BY <1>4 DEF LiveReplaced
  <2> DEFINE plan == [op[g] EXCEPT !.at = "sync", !.next = next]
  <2>2. Thinned(next, op[g].next, op[g].ask.kept)
    BY <1>0, FittedThins DEF Plan
  <2>3. docs' \in StoreFiles BY <1>0, <2>1, <2>2 DEF StoreFiles, Thinned
  <2>4. plan \in Plan BY <1>0, <2>2 DEF Plan, Thinned
  <2>5. told' \in [Tasks -> Stored \cup {"new", "gone"}] BY <2>1 DEF StoreTypeOK
  <2>6. op' = [op EXCEPT ![g] = plan] BY <2>1
  <2>7. Tells(plan)
    <3>1. op[g].tasks \subseteq Tasks BY <1>0 DEF Plan
    <3>2. QED BY <1>0, <2>2, <3>1 DEF Tells, Plan, Thinned
  <2> HIDE DEF plan
  <2>8. TellsRecords' BY <1>1, <2>6, <2>7
  <2>9. QED BY <1>4, <2>3, <2>4, <2>5, <2>6, <2>8 DEF LiveReplaced, StoreTypeOK
<1>5. CASE ArchiveReplaced(g)
  <2> DEFINE plan == [op[g] EXCEPT !.at = "sync"]
  <2>1. /\ docs' \in StoreFiles /\ plan \in Plan
        /\ op' = [op EXCEPT ![g] = plan] /\ Tells(plan)
    BY <1>0, <1>5 DEF ArchiveReplaced, StoreFiles, Plan, Tells
  <2>2. told' \in [Tasks -> Stored \cup {"new", "gone"}]
    BY <1>5 DEF ArchiveReplaced, StoreTypeOK
  <2> HIDE DEF plan
  <2>3. TellsRecords' BY <1>1, <2>1
  <2>4. /\ docs' \in durable' /\ durable' \subseteq StoreFiles
        /\ UNCHANGED <<lock, gw, storeFaults, outages>>
    BY <1>5, <2>1 DEF ArchiveReplaced, StoreTypeOK
  <2>5. QED BY <2>1, <2>2, <2>3, <2>4 DEF StoreTypeOK
<1>6. CASE WriteFails(g)
  <2>1. storeFaults' \in 0..MaxStoreFaults
    BY <1>6, FaultsTyped DEF WriteFails, StoreTypeOK
  <2>2. Rejects(g) /\ UNCHANGED <<docs, durable, told, outages>> BY <1>6 DEF WriteFails
  <2>3. TellsRecords' BY <1>1, <1>2, <2>2, GivesUp
  <2>4. QED BY <2>1, <2>2, <2>3, GivesUp DEF StoreTypeOK
<1>7. CASE WriteDisowned(g)
  <2>1. Poisons(g) /\ UNCHANGED <<docs, durable, told, storeFaults, outages>>
    BY <1>7 DEF WriteDisowned
  <2>2. TellsRecords' BY <1>1, <1>2, <2>1, GivesUp
  <2>3. QED BY <2>1, <2>2, GivesUp DEF StoreTypeOK
<1>8. CASE LiveSyncFails(g) \/ ArchiveSyncFails(g)
  <2>1. storeFaults' \in 0..MaxStoreFaults
    BY <1>8, FaultsTyped DEF LiveSyncFails, ArchiveSyncFails
  <2>2. (Rejects(g) \/ Poisons(g)) /\ UNCHANGED <<docs, durable, told, outages>>
    BY <1>8 DEF LiveSyncFails, ArchiveSyncFails
  <2>3. TellsRecords' BY <1>1, <1>2, <2>2, GivesUp
  <2>4. QED BY <2>1, <2>2, <2>3, GivesUp DEF StoreTypeOK
<1>9. ASSUME NEW which \in {"live", "archive"}, WriteLands(g, which)
      PROVE  StoreTypeOK' /\ TellsRecords'
  <2> DEFINE last == Len(op[g].todo) = 1
             after == IF last THEN Idle
                      ELSE [op[g] EXCEPT !.todo = Tail(@), !.at = "write"]
             limit == IF which = "live" THEN LimitAfter(g) ELSE gw[g].limit
             mine == [gw[g] EXCEPT !.limit = limit, !.mem = IF last THEN op[g].next ELSE @]
  <2>1. limit \in {MaxUnits, Maximum} /\ op[g].next \in Document
    BY <1>0 DEF LimitAfter, Gateway, Plan
  <2> HIDE DEF limit
  <2>2. mine \in Gateway BY <1>0, <2>1 DEF Gateway
  <2>3. gw' = [gw EXCEPT ![g] = mine] BY <1>9 DEF WriteLands, limit, StoreTypeOK, Gateway
  <2>4. ~last => Tail(op[g].todo) \in Todos BY <1>0, TodosEnd DEF Plan
  <2>5. after \in Plan \cup {Idle} /\ (~last => Tells(after))
    <3>1. CASE last BY <3>1
    <3>2. CASE ~last BY <1>0, <2>4, <3>2 DEF Plan, Tells
    <3>3. QED BY <3>1, <3>2
  <2>6. op' = [op EXCEPT ![g] = after] BY <1>9 DEF WriteLands
  <2>7. told' \in [Tasks -> Stored \cup {"new", "gone"}]
    <3>1. ASSUME NEW t \in Tasks PROVE ToldOf(g, t) \in Stored \cup {"new", "gone"}
      <4>1. /\ told[t] \in Stored \cup {"new", "gone"}
            /\ op[g].next[t] \in Stored \cup {Absent}
            /\ op[g].archived[t] \in Stored \cup {Absent}
        BY <1>0 DEF StoreTypeOK, Plan, Document
      <4>2. CASE t \notin op[g].tasks BY <4>1, <4>2 DEF ToldOf
      <4>3. CASE t \in op[g].tasks /\ op[g].kind \in {"put", "update", "restore"}
        <5>1. ToldOf(g, t) = op[g].next[t] BY <4>3 DEF ToldOf
        <5>2. op[g].next[t] # Absent BY <1>0, <4>3 DEF Tells
        <5>3. QED BY <4>1, <5>1, <5>2
      <4>4. CASE t \in op[g].tasks /\ op[g].kind = "archive"
        <5>1. ToldOf(g, t) = op[g].archived[t] BY <4>4 DEF ToldOf
        <5>2. op[g].archived[t] # Absent BY <1>0, <4>4 DEF Tells
        <5>3. QED BY <4>1, <5>1, <5>2
      <4>5. CASE /\ t \in op[g].tasks
                 /\ op[g].kind \notin {"put", "update", "restore", "archive"}
        <5>1. ToldOf(g, t) = told[t] BY <4>5 DEF ToldOf
        <5>2. QED BY <4>1, <5>1
      <4>6. QED BY <4>2, <4>3, <4>4, <4>5
    <3>2. QED BY <3>1, <1>9 DEF WriteLands, StoreTypeOK
  <2>8. TellsRecords'
    <3>1. after \in Plan => Tells(after) BY <1>2, <2>5
    <3> HIDE DEF after
    <3>2. QED BY <1>1, <2>6, <3>1
  <2> HIDE DEF after, mine
  <2>9. /\ gw' \in [Gateways -> Gateway]
        /\ op' \in [Gateways -> Plan \cup {Idle, [kind |-> "lock"]}]
    BY <2>2, <2>3, <2>5, <2>6 DEF StoreTypeOK
  <2>10. durable' = {docs} /\ UNCHANGED <<docs, lock, storeFaults, outages>>
    BY <1>9 DEF WriteLands
  <2>11. QED BY <2>7, <2>8, <2>9, <2>10 DEF StoreTypeOK
<1>10. QED BY <1>4, <1>5, <1>6, <1>7, <1>8, <1>9 DEF Writes

LEMMA ProcessesTyped ==
  ASSUME StoreTypeOK, TellsRecords, NEW g \in Gateways, Processes(g)
  PROVE  StoreTypeOK' /\ TellsRecords'
<1>0. gw[g] \in Gateway /\ Down \in Gateway BY DEF StoreTypeOK, Down, Gateway
<1>1. op' = op \/ op' = [op EXCEPT ![g] = Idle] \/ op' = [op EXCEPT ![g] = Signing]
  BY DEF Processes, Starts, MakesLock, SignsLock, LosesLock, Closes, Leaves, Crashes, Signing
<1>2. /\ op' \in [Gateways -> Plan \cup {Idle, [kind |-> "lock"]}] /\ TellsRecords'
  BY <1>1, PlanOrNot DEF StoreTypeOK, TellsRecords, Busy, Signing
<1>3. UNCHANGED <<docs, durable, told>>
  BY DEF Processes, Starts, MakesLock, SignsLock, LosesLock, Closes, Leaves, Crashes
<1>4. gw' \in [Gateways -> Gateway]
  <2>1. CASE Starts(g)
    <3>1. PICK auto \in BOOLEAN : gw' = [gw EXCEPT ![g] = [Down EXCEPT !.up = TRUE, !.auto = auto]]
      BY <2>1 DEF Starts
    <3>2. [Down EXCEPT !.up = TRUE, !.auto = auto] \in Gateway BY DEF Down, Gateway
    <3>3. QED BY <3>1, <3>2 DEF StoreTypeOK
  <2>2. CASE MakesLock(g) BY <2>2 DEF MakesLock, StoreTypeOK
  <2>3. CASE SignsLock(g)
    <3>1. gw' = gw \/ gw' = [gw EXCEPT ![g] = [gw[g] EXCEPT !.held = TRUE]]
      BY <2>3 DEF SignsLock
    <3>2. QED BY <1>0, <3>1, GatewayChanges DEF StoreTypeOK
  <2>4. CASE LosesLock(g)
    <3>1. gw' = [gw EXCEPT ![g] = [gw[g] EXCEPT !.poisoned = TRUE]] BY <2>4 DEF LosesLock
    <3>2. QED BY <1>0, <3>1, GatewayChanges DEF StoreTypeOK
  <2>5. CASE Closes(g)
    <3>1. gw' = [gw EXCEPT ![g] = [gw[g] EXCEPT !.closed = TRUE]] BY <2>5 DEF Closes
    <3>2. QED BY <1>0, <3>1, GatewayChanges DEF StoreTypeOK
  <2>6. CASE Leaves(g) BY <1>0, <2>6 DEF Leaves, StoreTypeOK
  <2>7. CASE Crashes(g) BY <1>0, <2>7 DEF Crashes, StoreTypeOK
  <2>8. QED BY <2>1, <2>2, <2>3, <2>4, <2>5, <2>6, <2>7 DEF Processes
<1>5. lock' \in LockState
  <2>1. \/ lock' \in {lock, Free, [lock EXCEPT !.owner = TRUE], [lock EXCEPT !.by = Dead]}
        \/ lock' = [by |-> g, owner |-> FALSE]
    BY DEF Gone, Processes, Starts, MakesLock, SignsLock, LosesLock, Closes, Leaves, Crashes
  <2>2. lock \in LockState BY DEF StoreTypeOK
  <2>3. QED BY <2>1, <2>2, LockChanges
<1>6. storeFaults' \in 0..MaxStoreFaults
  <2>1. storeFaults' = storeFaults \/ MayFail("write")
    BY DEF Processes, Starts, MakesLock, SignsLock, LosesLock, Closes, Leaves, Crashes
  <2>2. QED BY <2>1, FaultsTyped DEF StoreTypeOK
<1>7. outages' \in 0..MaxOutages
  <2>1. outages' = outages \/ (outages < MaxOutages /\ outages' = outages + 1)
    <3>1. CASE Crashes(g) BY <3>1 DEF Crashes
    <3>2. CASE SignsLock(g) \/ Leaves(g) BY <3>2 DEF SignsLock, Leaves
    <3>3. CASE Starts(g) \/ MakesLock(g) \/ LosesLock(g) \/ Closes(g)
      BY <3>3 DEF Starts, MakesLock, LosesLock, Closes
    <3>4. QED BY <3>1, <3>2, <3>3 DEF Processes
  <2>2. QED BY <2>1, StoreAssumption DEF StoreTypeOK
<1>8. QED BY <1>2, <1>3, <1>4, <1>5, <1>6, <1>7 DEF StoreTypeOK

\* A load gives the lock back, fills the memory, or plans to write what it
\* has cut down to size.
LoadPlan(g, plan) ==
  /\ plan \in Plan /\ plan.kind = "load" /\ plan.at = "write" /\ plan.todo = <<"live">>
  /\ \A t \in Tasks : plan.next[t] \in {Live[t], Absent}
  /\ \A t \in Tasks : plan.archived[t] = Absent
  /\ plan.ask.auto = gw[g].auto

LEMMA LoadsEnds ==
  ASSUME StoreTypeOK, NEW g \in Gateways, Loads(g)
  PROVE  /\ Ready(g) /\ gw[g].mem = NotLoaded /\ Owns(g)
         /\ UNCHANGED <<docs, durable, told, storeFaults, outages>>
         /\ \/ /\ gw' = [gw EXCEPT ![g] = Released(g)] /\ lock' = Free
               /\ UNCHANGED op
            \/ \E limit \in {MaxUnits, Maximum} :
                 /\ UNCHANGED lock
                 /\ \/ /\ gw' = [gw EXCEPT ![g].mem = Live, ![g].limit = limit]
                       /\ gw[g].auto => Roomy(Live, limit)
                       /\ UNCHANGED op
                    \/ /\ gw' = [gw EXCEPT ![g].limit = limit]
                       /\ \E plan : /\ op' = [op EXCEPT ![g] = plan] /\ LoadPlan(g, plan)
                                    /\ plan.ask.limit = limit
<1> DEFINE Wide == Ask(g, {}, Maximum, TRUE, TRUE)
           Candidates(d) ==
             IF gw[g].auto /\ Fitted(d, Strict(g, {})) # {}
             THEN Fitted(d, Strict(g, {})) \X {MaxUnits} ELSE Fitted(d, Wide) \X {Maximum}
<1>1. /\ Ready(g) /\ gw[g].mem = NotLoaded /\ Owns(g)
      /\ UNCHANGED <<docs, durable, told, storeFaults, outages>>
  BY DEF Loads
<1>2. Live \in Document /\ Empty \in Document
  BY EmptyTyped DEF StoreTypeOK, StoreFiles, Live
<1>3. PICK d \in IF gw[g].auto THEN Pruned(Live, MaxRecords) ELSE {Live} :
        \/ /\ gw' = [gw EXCEPT ![g] = Released(g)] /\ lock' = Free
           /\ UNCHANGED op
        \/ /\ UNCHANGED lock
           /\ \E c \in Candidates(d) :
                IF c[1] = Live
                THEN gw' = [gw EXCEPT ![g].mem = c[1], ![g].limit = c[2]] /\ UNCHANGED op
                ELSE /\ gw' = [gw EXCEPT ![g].limit = c[2]]
                     /\ Begins(g, "load", {}, <<"live">>, c[1], Empty,
                               Ask(g, {}, c[2], TRUE, TRUE))
  BY DEF Loads
<1>4. Thinned(d, Live, {})
  BY <1>2, <1>3, PrunedThins DEF Thinned
<1>5. d \in Document BY <1>4 DEF Thinned
<1>6. /\ Wide \in Request /\ Strict(g, {}) \in Request
      /\ Wide.limit = Maximum /\ Strict(g, {}).limit = MaxUnits
      /\ Wide.auto = gw[g].auto /\ Strict(g, {}).auto = gw[g].auto
      /\ \A limit \in {MaxUnits, Maximum} :
           /\ Ask(g, {}, limit, TRUE, TRUE) \in Request
           /\ Ask(g, {}, limit, TRUE, TRUE).auto = gw[g].auto
           /\ Ask(g, {}, limit, TRUE, TRUE).limit = limit
  BY AskTyped DEF Strict, Ask
<1>7. ASSUME NEW c \in Candidates(d)
      PROVE  /\ c[2] \in {MaxUnits, Maximum} /\ c[1] \in Document
             /\ \A t \in Tasks : c[1][t] \in {Live[t], Absent}
             /\ gw[g].auto => Roomy(c[1], c[2])
  <2>1. PICK ask \in {Wide, Strict(g, {})} : c[1] \in Fitted(d, ask) /\ c[2] = ask.limit
    <3> HIDE DEF Wide
    <3>1. QED BY <1>6
  <2>2. ask \in Request /\ ask.auto = gw[g].auto /\ ask.limit \in {MaxUnits, Maximum}
    BY <1>6, <2>1
  <2> HIDE DEF Wide, Candidates
  <2>3. Thinned(c[1], d, ask.kept) /\ Fits(c[1], ask) BY <1>5, <2>1, <2>2, FittedThins
  <2>4. gw[g].auto => Roomy(c[1], c[2])
    BY <2>1, <2>2, <2>3, FittingIsRoomy DEF Thinned
  <2>5. QED BY <1>4, <2>1, <2>2, <2>3, <2>4 DEF Thinned
<1> HIDE DEF Candidates, Wide
<1>8. CASE gw' = [gw EXCEPT ![g] = Released(g)] /\ lock' = Free /\ UNCHANGED op
  BY <1>1, <1>8
<1>9. ASSUME UNCHANGED lock, NEW c \in Candidates(d), c[1] = Live,
             gw' = [gw EXCEPT ![g].mem = c[1], ![g].limit = c[2]] /\ UNCHANGED op
      PROVE  \E limit \in {MaxUnits, Maximum} :
               /\ gw' = [gw EXCEPT ![g].mem = Live, ![g].limit = limit]
               /\ gw[g].auto => Roomy(Live, limit)
               /\ UNCHANGED op
  BY <1>7, <1>9
<1>10. ASSUME NEW c \in Candidates(d),
              gw' = [gw EXCEPT ![g].limit = c[2]],
              Begins(g, "load", {}, <<"live">>, c[1], Empty, Ask(g, {}, c[2], TRUE, TRUE))
       PROVE  \E limit \in {MaxUnits, Maximum} :
                /\ gw' = [gw EXCEPT ![g].limit = limit]
                /\ \E plan : /\ op' = [op EXCEPT ![g] = plan] /\ LoadPlan(g, plan)
                             /\ plan.ask.limit = limit
  <2> DEFINE plan == [kind |-> "load", tasks |-> {}, todo |-> <<"live">>, next |-> c[1],
                      archived |-> Empty, ask |-> Ask(g, {}, c[2], TRUE, TRUE),
                      at |-> "write"]
  <2>1. /\ c[2] \in {MaxUnits, Maximum} /\ c[1] \in Document
        /\ \A t \in Tasks : c[1][t] \in {Live[t], Absent}
    BY <1>7
  <2>2. plan \in Plan BY <1>2, <1>6, <2>1 DEF Plan, Todos
  <2>3. \A t \in Tasks : Empty[t] = Absent BY DEF Empty
  <2>4. LoadPlan(g, plan) /\ plan.ask.limit = c[2]
    BY <1>6, <2>1, <2>2, <2>3 DEF LoadPlan
  <2>5. op' = [op EXCEPT ![g] = plan] BY <1>10 DEF Begins
  <2> HIDE DEF plan
  <2>6. QED BY <1>10, <2>1, <2>4, <2>5
<1>11. QED BY <1>1, <1>3, <1>8, <1>9, <1>10

LEMMA StepTyped ==
  ASSUME StoreTypeOK, TellsRecords, [StoreNext]_storeVars
  PROVE  StoreTypeOK' /\ TellsRecords'
<1>1. CASE UNCHANGED storeVars
  BY <1>1 DEF storeVars, StoreTypeOK, TellsRecords, Busy
<1>2. CASE Unlocks
  BY <1>2, LockChanges DEF Unlocks, StoreTypeOK, TellsRecords, Busy
<1>3. CASE PowerFails
  <2>1. lock' \in LockState
    BY <1>3, LockChanges DEF PowerFails, Gone, StoreTypeOK
  <2>2. Down \in Gateway BY DEF Down, Gateway
  <2>3. outages' \in 0..MaxOutages BY <1>3, StoreAssumption DEF PowerFails, StoreTypeOK
  <2>4. TellsRecords' BY <1>3, PlanOrNot DEF PowerFails, TellsRecords, Busy
  <2>5. QED BY <1>3, <2>1, <2>2, <2>3, <2>4 DEF PowerFails, StoreTypeOK
<1>4. ASSUME NEW g \in Gateways, Processes(g) PROVE StoreTypeOK' /\ TellsRecords'
  BY <1>4, ProcessesTyped
<1>5. ASSUME NEW g \in Gateways, Writes(g) PROVE StoreTypeOK' /\ TellsRecords'
  BY <1>5, WritesTyped
<1>6. ASSUME NEW g \in Gateways, BeginsOne(g) PROVE StoreTypeOK' /\ TellsRecords'
  <2>1. PICK plan : op' = [op EXCEPT ![g] = plan] /\ NewPlan(g, plan) BY <1>6, Plans
  <2>2. Unchanged(g) BY <1>6, Plans
  <2>3. plan \in Plan /\ Tells(plan) BY <2>1 DEF NewPlan
  <2>4. TellsRecords' BY <2>1, <2>3 DEF TellsRecords, Busy, StoreTypeOK
  <2>5. QED BY <2>1, <2>2, <2>3, <2>4 DEF StoreTypeOK, Unchanged
<1>7. ASSUME NEW g \in Gateways, Loads(g) PROVE StoreTypeOK' /\ TellsRecords'
  <2>0. /\ gw[g] \in Gateway /\ Live \in Document /\ Released(g) \in Gateway
    BY GatewayChanges DEF StoreTypeOK, StoreFiles, Live, Released
  <2>1. /\ UNCHANGED <<docs, durable, told, storeFaults, outages>>
        /\ lock' = lock \/ lock' = Free
        /\ op' = op \/ \E plan \in Plan : plan.kind = "load" /\ op' = [op EXCEPT ![g] = plan]
    BY <1>7, LoadsEnds DEF LoadPlan
  <2>2. \/ gw' = [gw EXCEPT ![g] = Released(g)]
        \/ \E limit \in {MaxUnits, Maximum} :
             \/ gw' = [gw EXCEPT ![g] = [gw[g] EXCEPT !.mem = Live, !.limit = limit]]
             \/ gw' = [gw EXCEPT ![g] = [gw[g] EXCEPT !.limit = limit]]
    <3>1. \/ gw' = [gw EXCEPT ![g] = Released(g)]
          \/ \E limit \in {MaxUnits, Maximum} :
               \/ gw' = [gw EXCEPT ![g].mem = Live, ![g].limit = limit]
               \/ gw' = [gw EXCEPT ![g].limit = limit]
      BY <1>7, LoadsEnds
    <3>2. QED BY <3>1, Zenon
  <2>3. \E mine \in Gateway : gw' = [gw EXCEPT ![g] = mine]
    BY <2>0, <2>2, GatewayChanges
  <2>a. gw' \in [Gateways -> Gateway] BY <2>3 DEF StoreTypeOK
  <2>4. lock' \in LockState
    BY <2>1, LockChanges DEF StoreTypeOK
  <2>5. TellsRecords' BY <2>1 DEF TellsRecords, Tells, Busy, StoreTypeOK
  <2>6. op' \in [Gateways -> Plan \cup {Idle, [kind |-> "lock"]}]
    BY <2>1 DEF StoreTypeOK
  <2>7. QED BY <2>1, <2>a, <2>4, <2>5, <2>6 DEF StoreTypeOK
<1>8. QED BY <1>1, <1>2, <1>3, <1>4, <1>5, <1>6, <1>7, Steps

LEMMA InitTells == StoreInit => TellsRecords
BY PlanOrNot DEF StoreInit, TellsRecords, Busy

\* Documents, lock, processes and plans stay what they are meant to be.
THEOREM StoreTyped == StoreSpec => []StoreTypeOK
<1>1. StoreInit => StoreTypeOK /\ TellsRecords BY InitTyped, InitTells
<1>2. StoreTypeOK /\ TellsRecords /\ [StoreNext]_storeVars => (StoreTypeOK /\ TellsRecords)'
  BY StepTyped
<1>3. QED BY <1>1, <1>2, PTL DEF StoreSpec

-----------------------------------------------------------------------------
(* The writer lock *)

\* A process that takes itself for the writer has its name in the lock, and
\* whoever has its name there is the writer or is about to sign.
LockFor(g) ==
  /\ gw[g].held => gw[g].up /\ Owns(g)
  /\ ~gw[g].held => gw[g].mem = NotLoaded
  /\ ~gw[g].up => op[g] = Idle
  /\ op[g] = Signing => lock = [by |-> g, owner |-> FALSE] /\ ~gw[g].held
  /\ Busy(g) => gw[g].held /\ ~gw[g].poisoned
  /\ lock.by = g => gw[g].held \/ op[g] = Signing

LockKept == \A g \in Gateways : LockFor(g)

\* A step of one process that is about its own name in the lock.
LEMMA OthersLocked ==
  ASSUME StoreTypeOK, LockKept, NEW g \in Gateways, LockFor(g)',
         \A h \in Gateways \ {g} :
           /\ gw'[h] = gw[h] /\ op'[h] = op[h]
           /\ lock' = lock \/ (lock.by # h /\ lock'.by # h)
  PROVE  LockKept'
<1> SUFFICES ASSUME NEW h \in Gateways \ {g} PROVE LockFor(h)'
  BY DEF LockKept
<1>1. LockFor(h) /\ gw'[h] = gw[h] /\ op'[h] = op[h] BY DEF LockKept
<1>2. CASE lock' = lock BY <1>1, <1>2 DEF LockFor, Owns, Busy
<1>3. CASE lock.by # h /\ lock'.by # h
  <2>1. ~gw[h].held /\ op[h] # Signing BY <1>1, <1>3 DEF LockFor, Owns
  <2>2. QED BY <1>1, <1>3, <2>1 DEF LockFor, Owns, Busy
<1>4. QED BY <1>2, <1>3

LEMMA NamesDiffer ==
  /\ \A g \in Gateways : g # Nobody /\ g # Dead
  /\ Free.by = Nobody /\ Nobody # Dead
BY StoreAssumption DEF Free, Nobody, Dead

LEMMA ProcessesLocked ==
  ASSUME StoreTypeOK, LockKept, NEW g \in Gateways, Processes(g)
  PROVE  LockKept'
<1>0. /\ LockFor(g) /\ gw[g] \in Gateway /\ Down \in Gateway
      /\ lock \in LockState
  BY DEF LockKept, StoreTypeOK, Down, Gateway
<1>1. /\ \A h \in Gateways \ {g} : gw'[h] = gw[h] /\ op'[h] = op[h]
      /\ \E mine : gw' = [gw EXCEPT ![g] = mine]
      /\ \E mine : op' = [op EXCEPT ![g] = mine]
  <2>1. \/ gw' = gw
        \/ gw' = [gw EXCEPT ![g] = Down]
        \/ \E auto \in BOOLEAN : gw' = [gw EXCEPT ![g] = [Down EXCEPT !.up = TRUE, !.auto = auto]]
        \/ gw' = [gw EXCEPT ![g] = [gw[g] EXCEPT !.held = TRUE]]
        \/ gw' = [gw EXCEPT ![g] = [gw[g] EXCEPT !.poisoned = TRUE]]
        \/ gw' = [gw EXCEPT ![g] = [gw[g] EXCEPT !.closed = TRUE]]
    BY DEF Processes, Starts, MakesLock, SignsLock, LosesLock, Closes, Leaves, Crashes
  <2>2. op' = op \/ op' = [op EXCEPT ![g] = Idle] \/ op' = [op EXCEPT ![g] = Signing]
    BY DEF Processes, Starts, MakesLock, SignsLock, LosesLock, Closes, Leaves, Crashes, Signing
  <2>3. gw = [gw EXCEPT ![g] = gw[g]] /\ op = [op EXCEPT ![g] = op[g]]
    BY DEF StoreTypeOK
  <2>4. \E mine : gw' = [gw EXCEPT ![g] = mine] BY <2>1, <2>3
  <2>5. \E mine : op' = [op EXCEPT ![g] = mine] BY <2>2, <2>3
  <2>6. QED BY <2>4, <2>5 DEF StoreTypeOK
<1> USE PlanOrNot DEF Busy
<1>2. CASE Starts(g)
  <2>1. gw'[g].up /\ ~gw'[g].held /\ gw'[g].mem = NotLoaded
    BY <1>0, <1>2 DEF Starts, Down, StoreTypeOK
  <2>2. LockFor(g)' BY <1>0, <1>2, <2>1 DEF Starts, LockFor, Owns
  <2>3. QED BY <1>1, <1>2, <2>2, OthersLocked DEF Starts
<1>3. CASE MakesLock(g)
  <2>1. op'[g] = Signing BY <1>3 DEF MakesLock, StoreTypeOK, Signing
  <2>2. LockFor(g)' BY <1>0, <1>3, <2>1 DEF MakesLock, LockFor, Owns
  <2>3. \A h \in Gateways \ {g} : lock.by # h /\ lock'.by # h
    BY <1>3, NamesDiffer DEF MakesLock
  <2>4. QED BY <1>1, <2>2, <2>3, OthersLocked
<1>4. CASE SignsLock(g)
  <2>0. op[g] = Signing BY <1>4 DEF SignsLock, StoreTypeOK, Plan, Idle, Signing
  <2>1. lock = [by |-> g, owner |-> FALSE] /\ ~gw[g].held /\ gw[g].up /\ gw[g].mem = NotLoaded
    BY <1>0, <2>0 DEF LockFor
  <2>2. op'[g] = Idle BY <1>4 DEF SignsLock, StoreTypeOK
  <2>3. CASE lock' = [lock EXCEPT !.owner = TRUE] /\ gw' = [gw EXCEPT ![g].held = TRUE]
    <3>1. gw'[g] = [gw[g] EXCEPT !.held = TRUE] BY <2>3 DEF StoreTypeOK
    <3>2. lock' = [by |-> g, owner |-> TRUE] BY <2>1, <2>3
    <3>3. gw'[g].held /\ gw'[g].up BY <1>0, <2>1, <3>1 DEF Gateway
    <3>4. LockFor(g)' BY <2>2, <3>2, <3>3 DEF LockFor, Owns
    <3>5. \A h \in Gateways \ {g} : lock.by # h /\ lock'.by # h BY <2>1, <3>2
    <3>6. QED BY <1>1, <3>4, <3>5, OthersLocked
  <2>4. CASE lock' = Free /\ gw' = gw
    <3>1. LockFor(g)' BY <2>1, <2>2, <2>4, NamesDiffer DEF LockFor, Owns
    <3>2. \A h \in Gateways \ {g} : lock.by # h /\ lock'.by # h
      BY <2>1, <2>4, NamesDiffer
    <3>3. QED BY <1>1, <3>1, <3>2, OthersLocked
  <2>5. QED BY <1>4, <2>1, <2>3, <2>4 DEF SignsLock
<1>5. CASE LosesLock(g)
  <2>1. Ready(g) /\ ~Owns(g) BY <1>5 DEF LosesLock
  <2>2. QED BY <1>0, <2>1 DEF Ready, LockFor
<1>6. CASE Closes(g)
  <2>1. gw'[g] = [gw[g] EXCEPT !.closed = TRUE] BY <1>6 DEF Closes, StoreTypeOK
  <2>2. /\ gw'[g].held = gw[g].held /\ gw'[g].up = gw[g].up
        /\ gw'[g].mem = gw[g].mem /\ gw'[g].poisoned = gw[g].poisoned
    BY <1>0, <2>1 DEF Gateway
  <2>3. lock' = lock /\ op' = op BY <1>6 DEF Closes
  <2>4. LockFor(g)' BY <1>0, <2>2, <2>3 DEF LockFor, Owns
  <2>5. QED BY <1>1, <2>3, <2>4, OthersLocked
<1>7. CASE Leaves(g)
  <2>1. /\ gw'[g] = Down /\ op'[g] = Idle /\ op[g] = Idle
    BY <1>7 DEF Leaves, StoreTypeOK
  <2>2. lock'.by # g /\ (lock' = lock \/ (lock.by = g /\ lock'.by \in {Nobody, Dead}))
    <3>1. CASE Owns(g)
      BY <1>0, <1>7, <3>1, NamesDiffer DEF Leaves, Owns, LockState
    <3>2. CASE ~Owns(g)
      BY <1>0, <1>7, <2>1, <3>2 DEF Leaves, LockFor, Idle, Signing
    <3>3. QED BY <3>1, <3>2
  <2>3. LockFor(g)' BY <2>1, <2>2 DEF LockFor, Down
  <2>4. \A h \in Gateways \ {g} : lock' = lock \/ (lock.by # h /\ lock'.by # h)
    BY <2>2, NamesDiffer
  <2>5. QED BY <1>1, <2>3, <2>4, OthersLocked
<1>8. CASE Crashes(g)
  <2>1. gw'[g] = Down /\ op'[g] = Idle BY <1>8 DEF Crashes, StoreTypeOK
  <2>2. lock'.by # g /\ (lock' = lock \/ (lock.by = g /\ lock'.by \in {Nobody, Dead}))
    BY <1>0, <1>8, NamesDiffer DEF Crashes, Gone, LockState
  <2>3. LockFor(g)' BY <2>1, <2>2 DEF LockFor, Down
  <2>4. \A h \in Gateways \ {g} : lock' = lock \/ (lock.by # h /\ lock'.by # h)
    BY <2>2, NamesDiffer
  <2>5. QED BY <1>1, <2>3, <2>4, OthersLocked
<1>9. QED BY <1>2, <1>3, <1>4, <1>5, <1>6, <1>7, <1>8 DEF Processes

\* A step of a writer in an operation: it goes on, fails, or loses faith.
LEMMA WritesMove ==
  ASSUME StoreTypeOK, NEW g \in Gateways, Writes(g)
  PROVE  /\ \A h \in Gateways \ {g} : gw'[h] = gw[h] /\ op'[h] = op[h]
         /\ op'[g] = Idle \/ (op'[g] \in Plan /\ lock' = lock /\ gw'[g].held = gw[g].held
                               /\ gw'[g].poisoned = gw[g].poisoned)
         /\ gw'[g].up = gw[g].up
         /\ gw'[g].auto = gw[g].auto
         /\ \/ /\ lock' = lock /\ gw'[g].held = gw[g].held
            \/ /\ Owns(g) /\ lock' = Free /\ ~gw'[g].held
               /\ gw[g].mem = NotLoaded /\ gw'[g].mem = NotLoaded
<1>0. /\ gw[g] \in Gateway /\ op[g] \in Plan BY WritersBusy
<1>1. CASE LiveReplaced(g)
  <2>1. PICK next \in Fitted(op[g].next, op[g].ask) :
          op' = [op EXCEPT ![g].at = "sync", ![g].next = next]
    BY <1>1 DEF LiveReplaced
  <2>2. next \in Document BY <1>0, FittedThins DEF Plan, Thinned
  <2>3. /\ op'[g] \in Plan /\ \A h \in Gateways \ {g} : op'[h] = op[h]
    BY <1>0, <2>1, <2>2 DEF Plan, StoreTypeOK
  <2>4. QED BY <1>1, <2>3 DEF LiveReplaced
<1>2. CASE ArchiveReplaced(g)
  <2>1. /\ op'[g] \in Plan /\ \A h \in Gateways \ {g} : op'[h] = op[h]
    BY <1>0, <1>2 DEF ArchiveReplaced, Plan, StoreTypeOK
  <2>2. QED BY <1>2, <2>1 DEF ArchiveReplaced
<1>3. CASE Rejects(g)
  <2>1. op' = [op EXCEPT ![g] = Idle] BY <1>3 DEF Rejects
  <2>2. CASE gw' = gw /\ lock' = lock BY <2>1, <2>2 DEF StoreTypeOK
  <2>3. CASE /\ gw[g].mem = NotLoaded /\ Owns(g)
             /\ gw' = [gw EXCEPT ![g] = Released(g)] /\ lock' = Free
    <3>1. gw'[g] = [gw[g] EXCEPT !.held = FALSE] BY <2>3 DEF Released, StoreTypeOK
    <3>2. /\ ~gw'[g].held /\ gw'[g].mem = gw[g].mem /\ gw'[g].up = gw[g].up
          /\ gw'[g].auto = gw[g].auto
      BY <1>0, <3>1 DEF Gateway
    <3>3. QED BY <2>1, <2>3, <3>2 DEF StoreTypeOK
  <2>4. QED BY <1>3, <2>2, <2>3 DEF Rejects
<1>4. CASE Poisons(g)
  <2>1. gw'[g] = [gw[g] EXCEPT !.poisoned = TRUE] /\ op'[g] = Idle /\ lock' = lock
    BY <1>4 DEF Poisons, StoreTypeOK
  <2>2. gw'[g].held = gw[g].held /\ gw'[g].up = gw[g].up /\ gw'[g].auto = gw[g].auto
    BY <1>0, <2>1 DEF Gateway
  <2>3. QED BY <1>4, <2>1, <2>2 DEF Poisons, StoreTypeOK
<1>5. ASSUME NEW which \in {"live", "archive"}, WriteLands(g, which)
      PROVE  /\ \A h \in Gateways \ {g} : gw'[h] = gw[h] /\ op'[h] = op[h]
             /\ op'[g] \in Plan \cup {Idle} /\ lock' = lock
             /\ gw'[g].held = gw[g].held /\ gw'[g].up = gw[g].up
             /\ gw'[g].poisoned = gw[g].poisoned /\ gw'[g].auto = gw[g].auto
  <2> DEFINE last == Len(op[g].todo) = 1
             after == IF last THEN Idle
                      ELSE [op[g] EXCEPT !.todo = Tail(op[g].todo), !.at = "write"]
             limit == IF which = "live" THEN LimitAfter(g) ELSE gw[g].limit
             mine == [gw[g] EXCEPT !.limit = limit,
                                   !.mem = IF last THEN op[g].next ELSE gw[g].mem]
  <2>1. gw' = [gw EXCEPT ![g] = mine]
    BY <1>5 DEF WriteLands, StoreTypeOK
  <2>2. op' = [op EXCEPT ![g] = after] BY <1>5 DEF WriteLands
  <2>3. after \in Plan \cup {Idle}
    <3>1. CASE last BY <3>1
    <3>2. CASE ~last
      <4>1. Tail(op[g].todo) \in Todos BY <1>0, <3>2, TodosEnd DEF Plan
      <4>2. QED BY <1>0, <3>2, <4>1 DEF Plan
    <3>3. QED BY <3>1, <3>2
  <2>4. /\ mine.held = gw[g].held /\ mine.up = gw[g].up
        /\ mine.poisoned = gw[g].poisoned /\ mine.auto = gw[g].auto
    <3> HIDE DEF limit, last
    <3>1. QED BY <1>0 DEF Gateway
  <2> HIDE DEF mine, after
  <2>5. QED BY <1>5, <2>1, <2>2, <2>3, <2>4 DEF WriteLands, StoreTypeOK
<1>6. QED
  BY <1>1, <1>2, <1>3, <1>4, <1>5
     DEF Writes, WriteFails, WriteDisowned, LiveSyncFails, ArchiveSyncFails

LEMMA WritesLocked ==
  ASSUME StoreTypeOK, LockKept, NEW g \in Gateways, Writes(g)
  PROVE  LockKept'
<1>0. LockFor(g) /\ Busy(g) BY WritersBusy DEF LockKept
<1>1. gw[g].held /\ gw[g].up /\ Owns(g) /\ ~gw[g].poisoned /\ lock.by = g
  BY <1>0 DEF LockFor, Owns
<1>2. LockFor(g)'
  <2>1. CASE lock' = lock /\ gw'[g].held = gw[g].held
    BY <1>1, <2>1, WritesMove, PlanOrNot DEF LockFor, Owns, Busy
  <2>2. CASE /\ lock' = Free /\ ~gw'[g].held /\ gw'[g].mem = NotLoaded
    <3>1. op'[g] = Idle BY <1>1, <2>2, WritesMove
    <3>2. QED BY <2>2, <3>1, PlanOrNot, NamesDiffer DEF LockFor, Busy
  <2>3. QED BY <2>1, <2>2, WritesMove
<1>3. \A h \in Gateways \ {g} :
        /\ gw'[h] = gw[h] /\ op'[h] = op[h]
        /\ lock' = lock \/ (lock.by # h /\ lock'.by # h)
  BY <1>1, WritesMove, NamesDiffer
<1>4. QED BY <1>2, <1>3, OthersLocked

LEMMA StepLocked ==
  ASSUME StoreTypeOK, LockKept, [StoreNext]_storeVars
  PROVE  LockKept'
<1>1. CASE UNCHANGED storeVars
  BY <1>1 DEF storeVars, LockKept, LockFor, Owns, Busy
<1>2. CASE Unlocks
  <2>1. Abandoned /\ lock' = Free /\ UNCHANGED <<gw, op>> BY <1>2 DEF Unlocks
  <2>2. ASSUME NEW g \in Gateways PROVE LockFor(g)'
    <3>1. LockFor(g) BY DEF LockKept
    <3>3. ~gw[g].held /\ op[g] # Signing
      <4>1. CASE lock.owner
        BY <2>1, <3>1, <4>1, NamesDiffer DEF Abandoned, LockFor, Owns
      <4>2. CASE ~lock.owner
        <5>1. ~gw[g].up BY <2>1, <4>2 DEF Abandoned
        <5>2. QED BY <3>1, <5>1, PlanOrNot DEF LockFor
      <4>3. QED BY <4>1, <4>2
    <3>4. QED BY <2>1, <3>1, <3>3, NamesDiffer DEF LockFor, Owns, Busy
  <2>3. QED BY <2>2 DEF LockKept
<1>3. CASE PowerFails
  <2>1. ASSUME NEW g \in Gateways PROVE LockFor(g)'
    <3>1. gw'[g] = Down /\ op'[g] = Idle /\ lock' = Gone(Gateways)
      BY <1>3 DEF PowerFails
    <3>2. lock'.by # g
      <4>1. lock \in LockState BY DEF StoreTypeOK
      <4>2. CASE lock.by \in Gateways
        <5>1. lock' = [lock EXCEPT !.by = Dead] BY <3>1, <4>2 DEF Gone
        <5>2. lock'.by = Dead BY <4>1, <5>1 DEF LockState
        <5>3. QED BY <5>2, NamesDiffer
      <4>3. CASE lock.by \notin Gateways BY <3>1, <4>3 DEF Gone
      <4>4. QED BY <4>2, <4>3
    <3>3. QED BY <3>1, <3>2, PlanOrNot DEF LockFor, Down, Busy
  <2>2. QED BY <2>1 DEF LockKept
<1>4. ASSUME NEW g \in Gateways, Processes(g) PROVE LockKept'
  BY <1>4, ProcessesLocked
<1>5. ASSUME NEW g \in Gateways, Writes(g) PROVE LockKept'
  BY <1>5, WritesLocked
<1>6. ASSUME NEW g \in Gateways, BeginsOne(g) PROVE LockKept'
  <2>1. PICK plan : op' = [op EXCEPT ![g] = plan] /\ NewPlan(g, plan) BY <1>6, Plans
  <2>2. Serves(g) /\ Unchanged(g) BY <1>6, Plans
  <2>3. op'[g] \in Plan /\ \A h \in Gateways \ {g} : op'[h] = op[h]
    BY <2>1 DEF NewPlan, StoreTypeOK
  <2>4. LockFor(g) BY DEF LockKept
  <2>5. LockFor(g)'
    BY <2>2, <2>3, <2>4, PlanOrNot DEF LockFor, Owns, Busy, Unchanged, Serves, Ready
  <2>6. QED BY <2>2, <2>3, <2>5, OthersLocked DEF Unchanged
<1>7. ASSUME NEW g \in Gateways, Loads(g) PROVE LockKept'
  <2>0. LockFor(g) /\ gw[g] \in Gateway BY DEF LockKept, StoreTypeOK
  <2>1. /\ gw[g].held /\ gw[g].up /\ ~gw[g].poisoned /\ op[g] = Idle
        /\ Owns(g) /\ lock.by = g /\ gw[g].mem = NotLoaded
    BY <1>7 DEF Loads, Ready, Owns
  <2>2. CASE gw' = [gw EXCEPT ![g] = Released(g)] /\ lock' = Free /\ UNCHANGED op
    <3>1. gw'[g] = [gw[g] EXCEPT !.held = FALSE] /\ op'[g] = Idle
      BY <2>1, <2>2 DEF Released, StoreTypeOK
    <3>2. ~gw'[g].held /\ gw'[g].mem = NotLoaded BY <2>0, <2>1, <3>1 DEF Gateway
    <3>3. LockFor(g)'
      BY <2>2, <3>1, <3>2, PlanOrNot, NamesDiffer DEF LockFor, Busy
    <3>4. \A h \in Gateways \ {g} :
            gw'[h] = gw[h] /\ op'[h] = op[h] /\ lock.by # h /\ lock'.by # h
      BY <2>1, <2>2, NamesDiffer DEF StoreTypeOK
    <3>5. QED BY <3>3, <3>4, OthersLocked
  <2>3. ASSUME UNCHANGED lock, NEW limit \in {MaxUnits, Maximum},
               \/ gw' = [gw EXCEPT ![g].mem = Live, ![g].limit = limit] /\ UNCHANGED op
               \/ /\ gw' = [gw EXCEPT ![g].limit = limit]
                  /\ \E plan : op' = [op EXCEPT ![g] = plan] /\ LoadPlan(g, plan)
        PROVE  LockKept'
    <3>1. /\ gw'[g].held /\ gw'[g].up /\ ~gw'[g].poisoned
          /\ \A h \in Gateways \ {g} : gw'[h] = gw[h]
      BY <2>0, <2>1, <2>3 DEF StoreTypeOK, Gateway
    <3>2. /\ op'[g] = Idle \/ op'[g] \in Plan
          /\ \A h \in Gateways \ {g} : op'[h] = op[h]
      BY <2>1, <2>3 DEF StoreTypeOK, LoadPlan
    <3>3. LockFor(g)'
      BY <2>1, <2>3, <3>1, <3>2, PlanOrNot DEF LockFor, Owns, Busy
    <3>4. QED BY <2>3, <3>1, <3>2, <3>3, OthersLocked
  <2>4. QED BY <1>7, <2>2, <2>3, LoadsEnds
<1>8. QED BY <1>1, <1>2, <1>3, <1>4, <1>5, <1>6, <1>7, Steps

LEMMA InitLocked == StoreInit => LockKept
BY PlanOrNot, NamesDiffer DEF StoreInit, LockKept, LockFor, Down, Busy

\* There is one writer at a time, whatever crashes, power losses, failed
\* signatures and unlocks went before.
THEOREM OneWriter == StoreSpec => []OneHolder
<1>1. StoreInit => StoreTypeOK /\ TellsRecords /\ LockKept
  BY InitTyped, InitTells, InitLocked
<1>2. StoreTypeOK /\ TellsRecords /\ LockKept /\ [StoreNext]_storeVars =>
        (StoreTypeOK /\ TellsRecords /\ LockKept)'
  BY StepTyped, StepLocked
<1>3. LockKept => OneHolder BY DEF LockKept, LockFor, Owns, OneHolder
<1>4. QED BY <1>1, <1>2, <1>3, PTL DEF StoreSpec

-----------------------------------------------------------------------------
(* Plans *)

TodosOf(kind) ==
  CASE kind = "archive" -> {<<"archive", "live">>, <<"live">>}
    [] kind = "restore" -> {<<"live", "archive">>, <<"archive">>}
    [] kind \in {"undouble", "delete archived"} -> {<<"archive">>}
    [] OTHER -> {<<"live">>}

\* What stays true of an operation under way, whatever it has written.
PlanFor(g) ==
  LET plan == op[g]
      mem == gw[g].mem
  IN  /\ plan.kind = "load" <=> mem = NotLoaded
      /\ plan.todo \in TodosOf(plan.kind)
      /\ Tells(plan)
      /\ plan.kind # "archive" => \A t \in plan.tasks : plan.archived[t] = Absent
      /\ plan.kind = "archive" => \A t \in plan.tasks :
           mem[t] \in Terminal /\ plan.archived[t] = mem[t] /\ plan.next[t] = Absent
      /\ plan.kind \in {"undouble", "delete archived"} => plan.next = mem
      /\ plan.kind = "undouble" => \A t \in plan.tasks : mem[t] # Absent
      /\ Provides(plan, g)

Planned == \A g \in Gateways : Busy(g) => PlanFor(g)

\* Which write an operation is at.
LEMMA Todo ==
  ASSUME StoreTypeOK, NEW g \in Gateways, Busy(g), PlanFor(g)
  PROVE  /\ Head(op[g].todo) = "live" =>
              \/ op[g].todo = <<"live">> /\ op[g].kind \notin {"restore", "undouble", "delete archived"}
              \/ op[g].todo = <<"live", "archive">> /\ op[g].kind = "restore"
         /\ Head(op[g].todo) = "archive" =>
              \/ op[g].todo = <<"archive">> /\ op[g].kind \in {"restore", "undouble", "delete archived"}
              \/ op[g].todo = <<"archive", "live">> /\ op[g].kind = "archive"
         /\ Head(op[g].todo) \in {"live", "archive"}
         /\ op[g].todo = <<"archive", "live">> => op[g].kind = "archive"
         /\ op[g].todo = <<"live", "archive">> => op[g].kind = "restore"
<1>1. /\ op[g].kind = "archive" => op[g].todo \in {<<"archive", "live">>, <<"live">>}
      /\ op[g].kind = "restore" => op[g].todo \in {<<"live", "archive">>, <<"archive">>}
      /\ op[g].kind \in {"undouble", "delete archived"} => op[g].todo = <<"archive">>
      /\ op[g].kind \notin {"archive", "restore", "undouble", "delete archived"} =>
           op[g].todo = <<"live">>
  BY DEF PlanFor, TodosOf
<1>2. /\ <<"archive", "live">> # <<"live">> /\ <<"archive", "live">> # <<"archive">>
      /\ <<"live", "archive">> # <<"live">> /\ <<"live", "archive">> # <<"archive">>
      /\ <<"archive", "live">> # <<"live", "archive">> /\ <<"live">> # <<"archive">>
  BY TodosEnd
<1> DEFINE todo == op[g].todo
           kind == op[g].kind
<1> HIDE DEF todo, kind
<1>3. \/ kind = "archive" /\ todo \in {<<"archive", "live">>, <<"live">>}
      \/ kind = "restore" /\ todo \in {<<"live", "archive">>, <<"archive">>}
      \/ kind \in {"undouble", "delete archived"} /\ todo = <<"archive">>
      \/ /\ kind \notin {"archive", "restore", "undouble", "delete archived"}
         /\ todo = <<"live">>
  BY <1>1 DEF todo, kind
<1>4. /\ Head(todo) = "live" <=> todo \in {<<"live">>, <<"live", "archive">>}
      /\ Head(todo) = "archive" <=> todo \in {<<"archive">>, <<"archive", "live">>}
      /\ Head(todo) \in {"live", "archive"}
  <2>1. todo \in {<<"live">>, <<"archive">>, <<"archive", "live">>, <<"live", "archive">>}
    BY <1>3
  <2>2. QED BY <1>2, <2>1, TodosEnd
<1>5. /\ todo = <<"archive", "live">> => kind = "archive"
      /\ todo = <<"live", "archive">> => kind = "restore"
  BY <1>2, <1>3
<1>6. Head(todo) = "live" =>
        \/ todo = <<"live">> /\ kind \notin {"restore", "undouble", "delete archived"}
        \/ todo = <<"live", "archive">> /\ kind = "restore"
  BY <1>2, <1>3, <1>4
<1>7. Head(todo) = "archive" =>
        \/ todo = <<"archive">> /\ kind \in {"restore", "undouble", "delete archived"}
        \/ todo = <<"archive", "live">> /\ kind = "archive"
  BY <1>2, <1>3, <1>4
<1>8. QED BY <1>4, <1>5, <1>6, <1>7 DEF todo, kind

\* What each of the writes makes of its plan.
LEMMA WritesPlan ==
  ASSUME StoreTypeOK, NEW g \in Gateways, Busy(g), PlanFor(g)
  PROVE  /\ LiveReplaced(g) => \E next :
              /\ Thinned(next, op[g].next, op[g].ask.kept) /\ Fits(next, op[g].ask)
              /\ op'[g] = [op[g] EXCEPT !.at = "sync", !.next = next]
              /\ docs' = [docs EXCEPT !.live = next]
              /\ told' = [t \in Tasks |-> IF t \in Forgotten(g, next) THEN "gone" ELSE told[t]]
              /\ Head(op[g].todo) = "live" /\ op[g].at = "write" /\ gw' = gw
         /\ ArchiveReplaced(g) =>
              /\ op'[g] = [op[g] EXCEPT !.at = "sync"] /\ gw' = gw
              /\ Head(op[g].todo) = "archive" /\ op[g].at = "write"
         /\ \A which \in {"live", "archive"} : WriteLands(g, which) =>
              /\ Head(op[g].todo) = which /\ op[g].at = "sync"
              /\ \/ /\ op[g].todo = <<which>> /\ op'[g] = Idle
                    /\ gw'[g].mem = op[g].next
                 \/ /\ op[g].todo = <<"archive", "live">> /\ which = "archive"
                    /\ op'[g] = [op[g] EXCEPT !.todo = <<"live">>, !.at = "write"]
                    /\ gw'[g].mem = gw[g].mem
                 \/ /\ op[g].todo = <<"live", "archive">> /\ which = "live"
                    /\ op'[g] = [op[g] EXCEPT !.todo = <<"archive">>, !.at = "write"]
                    /\ gw'[g].mem = gw[g].mem
              /\ gw'[g].limit = IF which = "live" THEN LimitAfter(g) ELSE gw[g].limit
<1>0. /\ op[g] \in Plan /\ gw[g] \in Gateway
      /\ op[g].next \in Document /\ op[g].ask \in Request
  BY DEF Busy, StoreTypeOK, Plan
<1>1. ASSUME LiveReplaced(g)
      PROVE  \E next :
              /\ Thinned(next, op[g].next, op[g].ask.kept) /\ Fits(next, op[g].ask)
              /\ op'[g] = [op[g] EXCEPT !.at = "sync", !.next = next]
              /\ docs' = [docs EXCEPT !.live = next]
              /\ told' = [t \in Tasks |-> IF t \in Forgotten(g, next) THEN "gone" ELSE told[t]]
              /\ Head(op[g].todo) = "live" /\ op[g].at = "write" /\ gw' = gw
  <2>1. PICK next \in Fitted(op[g].next, op[g].ask) :
          /\ docs' = [docs EXCEPT !.live = next]
          /\ op' = [op EXCEPT ![g].at = "sync", ![g].next = next]
          /\ told' = [t \in Tasks |-> IF t \in Forgotten(g, next) THEN "gone" ELSE told[t]]
    BY <1>1 DEF LiveReplaced
  <2>2. Thinned(next, op[g].next, op[g].ask.kept) /\ Fits(next, op[g].ask)
    BY <1>0, FittedThins
  <2>3. Head(op[g].todo) = "live" /\ op[g].at = "write" /\ gw' = gw
    BY <1>1 DEF LiveReplaced, Writing
  <2>4. op'[g] = [op[g] EXCEPT !.at = "sync", !.next = next] BY <2>1 DEF StoreTypeOK
  <2>5. QED BY <2>1, <2>2, <2>3, <2>4
<1>2. ASSUME ArchiveReplaced(g)
      PROVE  /\ op'[g] = [op[g] EXCEPT !.at = "sync"] /\ gw' = gw
             /\ Head(op[g].todo) = "archive" /\ op[g].at = "write"
  BY <1>2 DEF ArchiveReplaced, Writing, StoreTypeOK
<1>3. ASSUME NEW which \in {"live", "archive"}, WriteLands(g, which)
      PROVE  /\ Head(op[g].todo) = which /\ op[g].at = "sync"
             /\ \/ /\ op[g].todo = <<which>> /\ op'[g] = Idle
                   /\ gw'[g].mem = op[g].next
                \/ /\ op[g].todo = <<"archive", "live">> /\ which = "archive"
                   /\ op'[g] = [op[g] EXCEPT !.todo = <<"live">>, !.at = "write"]
                   /\ gw'[g].mem = gw[g].mem
                \/ /\ op[g].todo = <<"live", "archive">> /\ which = "live"
                   /\ op'[g] = [op[g] EXCEPT !.todo = <<"archive">>, !.at = "write"]
                   /\ gw'[g].mem = gw[g].mem
             /\ gw'[g].limit = IF which = "live" THEN LimitAfter(g) ELSE gw[g].limit
  <2> DEFINE last == Len(op[g].todo) = 1
             after == IF last THEN Idle
                      ELSE [op[g] EXCEPT !.todo = Tail(op[g].todo), !.at = "write"]
             limit == IF which = "live" THEN LimitAfter(g) ELSE gw[g].limit
             mine == [gw[g] EXCEPT !.limit = limit,
                                   !.mem = IF last THEN op[g].next ELSE gw[g].mem]
  <2>1. Head(op[g].todo) = which /\ op[g].at = "sync" BY <1>3 DEF WriteLands, Syncing
  <2>2. gw' = [gw EXCEPT ![g] = mine] BY <1>3 DEF WriteLands, StoreTypeOK
  <2>3. op' = [op EXCEPT ![g] = after] BY <1>3 DEF WriteLands
  <2>4. gw'[g] = mine /\ op'[g] = after
    <3> HIDE DEF mine, after
    <3>1. QED BY <2>2, <2>3 DEF StoreTypeOK
  <2>5. /\ mine.limit = limit
        /\ mine.mem = IF last THEN op[g].next ELSE gw[g].mem
    <3> HIDE DEF limit, last
    <3>1. QED BY <1>0 DEF Gateway
  <2>6. \/ op[g].todo = <<which>>
        \/ op[g].todo = <<"archive", "live">> /\ which = "archive"
        \/ op[g].todo = <<"live", "archive">> /\ which = "live"
    BY <2>1, Todo
  <2> HIDE DEF mine, limit
  <2>7. CASE op[g].todo = <<which>>
    <3>1. last /\ after = Idle BY <2>7
    <3>2. QED BY <2>1, <2>4, <2>5, <2>7, <3>1 DEF limit
  <2>8. CASE op[g].todo = <<"archive", "live">> /\ which = "archive"
    <3>1. ~last /\ Tail(op[g].todo) = <<"live">> BY <2>8, TodosEnd
    <3>2. QED BY <2>1, <2>4, <2>5, <2>8, <3>1 DEF limit
  <2>9. CASE op[g].todo = <<"live", "archive">> /\ which = "live"
    <3>1. ~last /\ Tail(op[g].todo) = <<"archive">> BY <2>9, TodosEnd
    <3>2. QED BY <2>1, <2>4, <2>5, <2>9, <3>1 DEF limit
  <2>10. QED BY <2>6, <2>7, <2>8, <2>9
<1>4. QED BY <1>1, <1>2, <1>3

\* An operation under way is either one that goes on or one that begins.
Continues(g) ==
  /\ Busy(g) /\ op'[g] \in Plan
  /\ LiveReplaced(g) \/ ArchiveReplaced(g)
       \/ \E which \in {"live", "archive"} : WriteLands(g, which)

\* No operation is under way, and memory is what it was.
Rests(g) ==
  \/ gw'[g].mem = NotLoaded
  \/ /\ gw'[g].mem = gw[g].mem /\ gw'[g].limit = gw[g].limit /\ gw'[g].auto = gw[g].auto

\* Where a step leaves the operation and the memory of a process.
LEMMA StepOfEach ==
  ASSUME StoreTypeOK, LockKept, [StoreNext]_storeVars, NEW g \in Gateways
  PROVE  \/ op'[g] = op[g] /\ gw'[g].mem = gw[g].mem /\ gw'[g].limit = gw[g].limit
              /\ gw'[g].auto = gw[g].auto
         \/ Continues(g) /\ gw'[g].auto = gw[g].auto
         \/ op'[g] \notin Plan /\ Rests(g)
         \/ op'[g] \notin Plan /\ gw'[g].auto = gw[g].auto
              /\ \E which \in {"live", "archive"} : WriteLands(g, which)
         \/ BeginsOne(g) \/ Loads(g)
<1>1. CASE UNCHANGED storeVars BY <1>1 DEF storeVars
<1>2. CASE Unlocks BY <1>2 DEF Unlocks
<1>3. CASE PowerFails BY <1>3, PlanOrNot DEF PowerFails, Rests, Down
<1>4. ASSUME NEW h \in Gateways, Processes(h), h # g
      PROVE  op'[g] = op[g] /\ gw'[g] = gw[g]
  BY <1>4 DEF Processes, Starts, MakesLock, SignsLock, LosesLock, Closes, Leaves, Crashes,
         StoreTypeOK
<1>5. ASSUME Processes(g)
      PROVE  \/ op'[g] \notin Plan /\ Rests(g)
             \/ op'[g] = op[g] /\ gw'[g].mem = gw[g].mem /\ gw'[g].limit = gw[g].limit
                  /\ gw'[g].auto = gw[g].auto
  <2>0. gw[g] \in Gateway BY DEF StoreTypeOK
  <2>1. CASE Starts(g)
    <3>1. op'[g] = Idle BY <2>1 DEF Starts, LockKept, LockFor
    <3>2. Rests(g)
      <4>1. PICK auto \in BOOLEAN :
              gw' = [gw EXCEPT ![g] = [Down EXCEPT !.up = TRUE, !.auto = auto]]
        BY <2>1 DEF Starts
      <4>2. gw'[g] = [Down EXCEPT !.up = TRUE, !.auto = auto] BY <4>1 DEF StoreTypeOK
      <4>3. QED BY <4>2 DEF Rests, Down
    <3>3. QED BY <3>1, <3>2, PlanOrNot
  <2>2. CASE MakesLock(g) \/ SignsLock(g) \/ Leaves(g) \/ Crashes(g)
    <3>1. op'[g] \in {Idle, Signing}
      BY <2>2 DEF MakesLock, SignsLock, Leaves, Crashes, StoreTypeOK, Signing
    <3>2. gw'[g] \in {Down, gw[g], [gw[g] EXCEPT !.held = TRUE]}
      BY <2>2 DEF MakesLock, SignsLock, Leaves, Crashes, StoreTypeOK
    <3>3. Rests(g) BY <2>0, <3>2 DEF Rests, Down, Gateway
    <3>4. QED BY <3>1, <3>3, PlanOrNot
  <2>3. CASE LosesLock(g) \/ Closes(g)
    <3>1. /\ op' = op
          /\ \/ gw'[g] = [gw[g] EXCEPT !.poisoned = TRUE]
             \/ gw'[g] = [gw[g] EXCEPT !.closed = TRUE]
      BY <2>3 DEF LosesLock, Closes, StoreTypeOK
    <3>2. QED BY <2>0, <3>1 DEF Gateway
  <2>4. QED BY <1>5, <2>1, <2>2, <2>3 DEF Processes
<1>6. ASSUME NEW h \in Gateways, Writes(h), h # g
      PROVE  op'[g] = op[g] /\ gw'[g] = gw[g]
  BY <1>6, WritesMove
<1>7. ASSUME Writes(g)
      PROVE  \/ op'[g] \notin Plan /\ Rests(g)
             \/ op'[g] \notin Plan /\ gw'[g].auto = gw[g].auto
                  /\ \E which \in {"live", "archive"} : WriteLands(g, which)
             \/ Continues(g) /\ gw'[g].auto = gw[g].auto
  <2>1. CASE WriteFails(g) \/ WriteDisowned(g) \/ LiveSyncFails(g) \/ ArchiveSyncFails(g)
    <3>1. Rejects(g) \/ Poisons(g)
      BY <2>1 DEF WriteFails, WriteDisowned, LiveSyncFails, ArchiveSyncFails
    <3>2. op'[g] = Idle BY <3>1 DEF Rejects, Poisons, StoreTypeOK
    <3>3. gw[g] \in Gateway BY DEF StoreTypeOK
    <3>4. gw'[g] \in {gw[g], [gw[g] EXCEPT !.held = FALSE], [gw[g] EXCEPT !.poisoned = TRUE]}
      BY <3>1 DEF Rejects, Released, Poisons, StoreTypeOK
    <3>5. Rests(g) BY <3>3, <3>4 DEF Rests, Gateway
    <3>6. QED BY <3>2, <3>5, PlanOrNot
  <2>2. CASE LiveReplaced(g) \/ ArchiveReplaced(g)
    <3>1. op'[g] # Idle
      <4>1. op[g] \in Plan BY <1>7, WritersBusy
      <4>2. \/ \E next : op'[g] = [op[g] EXCEPT !.at = "sync", !.next = next]
            \/ op'[g] = [op[g] EXCEPT !.at = "sync"]
        BY <2>2 DEF LiveReplaced, ArchiveReplaced, StoreTypeOK
      <4>3. op'[g].kind = op[g].kind BY <4>1, <4>2 DEF Plan
      <4>4. QED BY <4>1, <4>3, PlanOrNot
    <3>2. QED BY <1>7, <2>2, <3>1, WritersBusy, WritesMove DEF Continues
  <2>3. CASE \E which \in {"live", "archive"} : WriteLands(g, which)
    BY <1>7, <2>3, WritersBusy, WritesMove, PlanOrNot DEF Continues
  <2>4. QED BY <1>7, <2>1, <2>2, <2>3 DEF Writes
<1>8. ASSUME NEW h \in Gateways, BeginsOne(h), h # g
      PROVE  op'[g] = op[g] /\ gw'[g] = gw[g]
  BY <1>8, Plans DEF Unchanged, StoreTypeOK
<1>9. ASSUME NEW h \in Gateways, Loads(h), h # g
      PROVE  op'[g] = op[g] /\ gw'[g] = gw[g]
  BY <1>9, LoadsEnds DEF StoreTypeOK
<1>10. QED BY <1>1, <1>2, <1>3, <1>4, <1>5, <1>6, <1>7, <1>8, <1>9, Steps

LEMMA StepPlanned ==
  ASSUME StoreTypeOK, LockKept, Planned, [StoreNext]_storeVars
  PROVE  Planned'
<1> SUFFICES ASSUME NEW g \in Gateways, op'[g] \in Plan PROVE PlanFor(g)'
  BY DEF Planned, Busy
<1>1. CASE /\ op'[g] = op[g] /\ gw'[g].mem = gw[g].mem /\ gw'[g].limit = gw[g].limit
           /\ gw'[g].auto = gw[g].auto
  <2>1. PlanFor(g) /\ Tells(op[g]) /\ Provides(op[g], g)
    BY <1>1 DEF Planned, PlanFor, Busy
  <2>2. Tells(op[g])' BY <1>1, <2>1 DEF Tells
  <2>3. Provides(op[g], g)' BY <1>1, <2>1 DEF Provides
  <2>4. QED BY <1>1, <2>1, <2>2, <2>3 DEF PlanFor
<1>2. CASE BeginsOne(g)
  <2>1. PICK plan : op' = [op EXCEPT ![g] = plan] /\ NewPlan(g, plan) BY <1>2, Plans
  <2>2. op'[g] = plan /\ gw' = gw /\ gw[g].mem # NotLoaded
    BY <1>2, <2>1, Plans DEF StoreTypeOK, Unchanged, Serves
  <2>3. plan.todo \in TodosOf(plan.kind) BY <2>1 DEF NewPlan, TodoOf, TodosOf
  <2>4. Provides(plan, g)' BY <2>1, <2>2 DEF NewPlan, Provides
  <2>5. QED BY <2>1, <2>2, <2>3, <2>4 DEF PlanFor, NewPlan, Moved
<1>3. CASE Loads(g)
  <2>0. gw[g] \in Gateway /\ op[g] \notin Plan /\ gw[g].mem = NotLoaded
    BY <1>3, PlanOrNot DEF StoreTypeOK, Loads, Ready
  <2>a. PICK limit \in {MaxUnits, Maximum} :
          /\ gw' = [gw EXCEPT ![g].limit = limit]
          /\ \E plan : /\ op' = [op EXCEPT ![g] = plan] /\ LoadPlan(g, plan)
                       /\ plan.ask.limit = limit
    BY <1>3, <2>0, LoadsEnds
  <2>1. PICK plan :
          /\ gw' = [gw EXCEPT ![g].limit = limit] /\ op' = [op EXCEPT ![g] = plan]
          /\ LoadPlan(g, plan) /\ plan.ask.limit = limit
    BY <2>a
  <2>2. /\ op'[g] = plan /\ gw'[g] = [gw[g] EXCEPT !.limit = limit]
    BY <2>1 DEF StoreTypeOK
  <2>3. gw'[g].mem = NotLoaded /\ gw'[g].auto = gw[g].auto /\ gw'[g].limit = limit
    BY <2>0, <2>2 DEF Gateway
  <2>4. /\ plan.kind = "load" /\ plan.todo \in TodosOf(plan.kind) /\ plan \in Plan
        /\ \A t \in Tasks : plan.archived[t] = Absent
    BY <2>1 DEF LoadPlan, TodosOf
  <2>5. Provides(plan, g)' BY <2>1, <2>3, <2>4 DEF LoadPlan, Provides
  <2>6. \A t \in plan.tasks : plan.archived[t] = Absent BY <2>4 DEF Plan
  <2>7. QED BY <2>2, <2>3, <2>4, <2>5, <2>6 DEF PlanFor, Tells
<1>4. CASE Continues(g) /\ gw'[g].auto = gw[g].auto
  <2>0. /\ Busy(g) /\ PlanFor(g) /\ op[g] \in Plan BY <1>4 DEF Continues, Planned, Busy
  <2>1. op[g].tasks \subseteq Tasks /\ op[g].next \in Document BY <2>0 DEF Plan
  <2>a. Tells(op[g]) /\ Provides(op[g], g) BY <2>0 DEF PlanFor
  <2>2. CASE LiveReplaced(g)
    <3>1. PICK next :
            /\ Thinned(next, op[g].next, op[g].ask.kept)
            /\ op'[g] = [op[g] EXCEPT !.at = "sync", !.next = next]
            /\ Head(op[g].todo) = "live" /\ gw' = gw
      BY <2>0, <2>2, WritesPlan
    <3>2. /\ op'[g].next = next /\ op'[g].kind = op[g].kind /\ op'[g].todo = op[g].todo
          /\ op'[g].tasks = op[g].tasks /\ op'[g].archived = op[g].archived
          /\ op'[g].ask = op[g].ask
      BY <2>0, <3>1 DEF Plan
    <3>3. op[g].kind \notin {"undouble", "delete archived"} BY <2>0, <3>1, Todo
    <3>4. /\ \A t \in Tasks : next[t] \in {op[g].next[t], Absent}
          /\ \A t \in op[g].ask.kept \cap Tasks : next[t] = op[g].next[t]
          /\ \A t \in Tasks, s \in {"active", "queued"} : next[t] = s <=> op[g].next[t] = s
      BY <3>1 DEF Thinned, Prunable, Terminal, Absent
    <3>5. Tells(op[g])' BY <2>1, <2>a, <3>2, <3>4 DEF Tells
    <3>6. Provides(op[g], g)' BY <2>1, <2>a, <3>1, <3>2, <3>4 DEF Provides
    <3>7. op[g].kind = "archive" => \A t \in op[g].tasks : next[t] = Absent
      BY <2>0, <2>1, <3>4 DEF PlanFor
    <3>8. QED BY <2>0, <3>1, <3>2, <3>3, <3>5, <3>6, <3>7 DEF PlanFor
  <2>3. CASE ArchiveReplaced(g)
    <3>1. op'[g] = [op[g] EXCEPT !.at = "sync"] /\ gw' = gw
      BY <2>0, <2>3, WritesPlan
    <3>2. /\ op'[g].next = op[g].next /\ op'[g].kind = op[g].kind /\ op'[g].todo = op[g].todo
          /\ op'[g].tasks = op[g].tasks /\ op'[g].archived = op[g].archived
          /\ op'[g].ask = op[g].ask
      BY <2>0, <3>1 DEF Plan
    <3>3. Tells(op[g])' BY <2>a, <3>1, <3>2 DEF Tells
    <3>4. Provides(op[g], g)' BY <2>a, <3>1, <3>2 DEF Provides
    <3>5. gw'[g].mem = gw[g].mem BY <3>1
    <3>6. QED BY <2>0, <3>2, <3>3, <3>4, <3>5 DEF PlanFor
  <2>4. ASSUME NEW which \in {"live", "archive"}, WriteLands(g, which)
        PROVE  PlanFor(g)'
    <3>1. op'[g] # Idle BY PlanOrNot
    <3>2. PICK todo \in {<<"live">>, <<"archive">>} :
            /\ op'[g] = [op[g] EXCEPT !.todo = todo, !.at = "write"]
            /\ \/ op[g].todo = <<"archive", "live">> /\ todo = <<"live">> /\ which = "archive"
               \/ op[g].todo = <<"live", "archive">> /\ todo = <<"archive">> /\ which = "live"
            /\ gw'[g].mem = gw[g].mem
            /\ gw'[g].limit = IF which = "live" THEN LimitAfter(g) ELSE gw[g].limit
      BY <2>0, <2>4, <3>1, WritesPlan
    <3>3. /\ op'[g].next = op[g].next /\ op'[g].kind = op[g].kind /\ op'[g].todo = todo
          /\ op'[g].tasks = op[g].tasks /\ op'[g].archived = op[g].archived
          /\ op'[g].ask = op[g].ask
      BY <2>0, <3>2 DEF Plan
    <3>4. \/ op[g].kind = "archive" /\ which = "archive"
          \/ op[g].kind = "restore" /\ which = "live"
      <4>2. CASE op[g].todo = <<"archive", "live">> /\ which = "archive"
        BY <2>0, <4>2, Todo
      <4>3. CASE op[g].todo = <<"live", "archive">> /\ which = "live"
        BY <2>0, <4>3, Todo
      <4>4. QED BY <3>2, <4>2, <4>3
    <3>5. todo \in TodosOf(op[g].kind) BY <3>2, <3>4 DEF TodosOf
    <3>6. op[g].ask.limit \in {MaxUnits, gw'[g].limit}
      BY <2>a, <3>2, <3>4 DEF Provides
    <3>7. Provides(op[g], g)'
      BY <1>4, <2>a, <3>2, <3>3, <3>6 DEF Provides
    <3>8. Tells(op[g])' BY <2>a, <3>3 DEF Tells
    <3>9. QED BY <2>0, <3>2, <3>3, <3>4, <3>5, <3>7, <3>8 DEF PlanFor
  <2>5. QED BY <1>4, <2>2, <2>3, <2>4 DEF Continues
<1>5. QED BY <1>1, <1>2, <1>3, <1>4, StepOfEach

LEMMA InitPlanned == StoreInit => Planned
BY PlanOrNot DEF StoreInit, Planned, Busy

-----------------------------------------------------------------------------
(* The room for the ends of admitted work *)

\* Only records that are over are in the archive.
OnlyEnded(doc) == \A t \in Tasks : doc[t] \in Terminal \cup {Absent}

ArchivesEnded ==
  /\ \A d \in durable : OnlyEnded(d.archive)
  /\ \A g \in Gateways : Busy(g) =>
       /\ OnlyEnded(op[g].archived)
       /\ op[g].kind = "restore" =>
            \A t \in op[g].tasks : op[g].next[t] \in Terminal \cup {Absent}

\* What a step does to the files and to what callers know.
LEMMA StepOfFiles ==
  ASSUME StoreTypeOK, [StoreNext]_storeVars
  PROVE  \/ UNCHANGED <<docs, durable, told>>
         \/ \E g \in Gateways :
              \/ LiveReplaced(g) \/ ArchiveReplaced(g)
              \/ \E which \in {"live", "archive"} : WriteLands(g, which)
         \/ PowerFails
<1>1. ASSUME NEW g \in Gateways, Processes(g) PROVE UNCHANGED <<docs, durable, told>>
  BY <1>1 DEF Processes, Starts, MakesLock, SignsLock, LosesLock, Closes, Leaves, Crashes
<1>2. ASSUME NEW g \in Gateways, BeginsOne(g) PROVE UNCHANGED <<docs, durable, told>>
  BY <1>2, Plans DEF Unchanged
<1>3. ASSUME NEW g \in Gateways, Loads(g) PROVE UNCHANGED <<docs, durable, told>>
  BY <1>3 DEF Loads
<1>4. ASSUME NEW g \in Gateways, Writes(g)
      PROVE  \/ UNCHANGED <<docs, durable, told>>
             \/ LiveReplaced(g) \/ ArchiveReplaced(g)
             \/ \E which \in {"live", "archive"} : WriteLands(g, which)
  BY <1>4 DEF Writes, WriteFails, WriteDisowned, LiveSyncFails, ArchiveSyncFails
<1>5. CASE UNCHANGED storeVars \/ Unlocks
  BY <1>5 DEF storeVars, Unlocks
<1>6. QED BY <1>1, <1>2, <1>3, <1>4, <1>5, Steps

LEMMA StepEnded ==
  ASSUME StoreTypeOK, LockKept, Planned, ArchivesEnded, [StoreNext]_storeVars
  PROVE  ArchivesEnded'
<1>0. OnlyEnded(Archive) BY DEF ArchivesEnded, StoreTypeOK, Archive
<1>1. ASSUME NEW d \in durable' PROVE OnlyEnded(d.archive)
  <2>1. CASE UNCHANGED <<docs, durable, told>> BY <1>1, <2>1 DEF ArchivesEnded
  <2>2. CASE PowerFails BY <1>1, <2>2 DEF PowerFails, ArchivesEnded
  <2>3. ASSUME NEW g \in Gateways, LiveReplaced(g) PROVE OnlyEnded(d.archive)
    <3>1. docs'.archive = docs.archive /\ durable' = durable \cup {docs'}
      BY <2>3 DEF LiveReplaced, StoreTypeOK, StoreFiles
    <3>2. QED BY <1>0, <1>1, <3>1 DEF ArchivesEnded, Archive
  <2>4. ASSUME NEW g \in Gateways, ArchiveReplaced(g) PROVE OnlyEnded(d.archive)
    <3>1. docs'.archive = op[g].archived /\ durable' = durable \cup {docs'} /\ Busy(g)
      BY <2>4, WritersBusy DEF ArchiveReplaced, StoreTypeOK, StoreFiles, Writes
    <3>2. QED BY <1>1, <3>1 DEF ArchivesEnded
  <2>5. ASSUME NEW g \in Gateways, NEW which \in {"live", "archive"}, WriteLands(g, which)
        PROVE  OnlyEnded(d.archive)
    BY <1>0, <1>1, <2>5 DEF WriteLands, Archive
  <2>6. QED BY <2>1, <2>2, <2>3, <2>4, <2>5, StepOfFiles
<1>2. ASSUME NEW g \in Gateways, op'[g] \in Plan
      PROVE  /\ OnlyEnded(op'[g].archived)
             /\ op'[g].kind = "restore" =>
                  \A t \in op'[g].tasks : op'[g].next[t] \in Terminal \cup {Absent}
  <2>1. CASE op'[g] = op[g] BY <1>2, <2>1 DEF ArchivesEnded, Busy
  <2>2. CASE BeginsOne(g)
    <3>1. PICK plan : op' = [op EXCEPT ![g] = plan] /\ NewPlan(g, plan) BY <2>2, Plans
    <3>2. op'[g] = plan /\ plan.tasks \subseteq Tasks
      BY <3>1 DEF NewPlan, Plan, StoreTypeOK
    <3>3. /\ Moved(plan, gw[g].mem, Archive) /\ Advances(plan, gw[g].mem, Archive)
          /\ Provides(plan, g)
      BY <3>1 DEF NewPlan
    <3>4. OnlyEnded(plan.archived) BY <1>0, <3>3 DEF Moved, OnlyEnded
    <3>5. plan.kind = "restore" =>
            \A t \in plan.tasks : plan.next[t] \in Terminal \cup {Absent}
      BY <1>0, <3>2, <3>3 DEF Advances, Provides, OnlyEnded
    <3>6. QED BY <3>2, <3>4, <3>5
  <2>3. CASE Loads(g)
    <3>1. \A t \in Tasks : op'[g].archived[t] = Absent /\ op'[g].kind = "load"
      <4>1. op[g] \notin Plan BY <2>3, PlanOrNot DEF Loads, Ready
      <4>2. PICK plan : op' = [op EXCEPT ![g] = plan] /\ LoadPlan(g, plan)
        BY <1>2, <2>3, <4>1, LoadsEnds
      <4>3. QED BY <4>2 DEF LoadPlan, StoreTypeOK
    <3>2. op'[g].tasks \subseteq Tasks BY <1>2 DEF Plan
    <3>3. QED BY <3>1, <3>2 DEF OnlyEnded
  <2>4. CASE Continues(g)
    <3>1. Busy(g) /\ op[g] \in Plan /\ PlanFor(g) BY <2>4 DEF Continues, Busy, Planned
    <3>2. /\ op'[g].archived = op[g].archived /\ op'[g].kind = op[g].kind
          /\ op'[g].tasks = op[g].tasks /\ op[g].tasks \subseteq Tasks
          /\ \A t \in Tasks : op'[g].next[t] \in {op[g].next[t], Absent}
      <4>0. op[g].tasks \subseteq Tasks BY <3>1 DEF Plan
      <4>1. CASE LiveReplaced(g)
        <5>1. PICK next : /\ Thinned(next, op[g].next, op[g].ask.kept)
                          /\ op'[g] = [op[g] EXCEPT !.at = "sync", !.next = next]
          BY <3>1, <4>1, WritesPlan
        <5>2. /\ op'[g].archived = op[g].archived /\ op'[g].kind = op[g].kind
              /\ op'[g].tasks = op[g].tasks /\ op'[g].next = next
          BY <3>1, <5>1 DEF Plan
        <5>3. \A t \in Tasks : next[t] \in {op[g].next[t], Absent} BY <5>1 DEF Thinned
        <5>4. QED BY <4>0, <5>2, <5>3
      <4>2. CASE ArchiveReplaced(g)
        <5>1. op'[g] = [op[g] EXCEPT !.at = "sync"] BY <3>1, <4>2, WritesPlan
        <5>2. QED BY <3>1, <4>0, <5>1 DEF Plan
      <4>3. CASE \E which \in {"live", "archive"} : WriteLands(g, which)
        <5>1. \E todo : op'[g] = [op[g] EXCEPT !.todo = todo, !.at = "write"]
          BY <1>2, <3>1, <4>3, WritesPlan, PlanOrNot
        <5>2. QED BY <3>1, <4>0, <5>1 DEF Plan
      <4>4. QED BY <2>4, <4>1, <4>2, <4>3 DEF Continues
    <3>3. QED BY <3>1, <3>2 DEF ArchivesEnded
  <2>5. QED BY <1>2, <2>1, <2>2, <2>3, <2>4, StepOfEach
<1>3. QED BY <1>1, <1>2 DEF ArchivesEnded, Busy

LEMMA InitEnded == StoreInit => ArchivesEnded
BY PlanOrNot DEF StoreInit, ArchivesEnded, OnlyEnded, Busy, Empty

\* The live document of an operation is in its file.
LiveRewritten(g) ==
  \/ op[g].at = "sync" /\ Head(op[g].todo) = "live"
  \/ op[g].kind = "restore" /\ op[g].todo = <<"archive">>

\* What an automatic store has in memory, and what it has written over, has
\* the room that admission keeps.
RoomFor(g) ==
  /\ gw[g].auto /\ gw[g].mem # NotLoaded => Roomy(gw[g].mem, gw[g].limit)
  /\ Busy(g) /\ gw[g].auto /\ LiveRewritten(g) => Roomy(op[g].next, op[g].ask.limit)

RoomKept == \A g \in Gateways : RoomFor(g)

LEMMA RoomGrows ==
  ASSUME NEW doc, Roomy(doc, MaxUnits), NEW limit \in {MaxUnits, Maximum}
  PROVE  Roomy(doc, limit)
<1>1. /\ Cardinality(Having(doc, {"active"})) \in Nat
      /\ Cardinality(Having(doc, {"queued"})) \in Nat
  BY HavingFinite
<1>2. QED BY <1>1, DocumentsAssumption DEF Roomy, Maximum

LEMMA RoomOfSame ==
  ASSUME NEW doc, NEW other, NEW limit, Roomy(doc, limit),
         \A t \in Tasks : \A s \in {"active", "queued"} : doc[t] = s <=> other[t] = s
  PROVE  Roomy(other, limit)
<1>1. /\ Having(other, {"active"}) = Having(doc, {"active"})
      /\ Having(other, {"queued"}) = Having(doc, {"queued"})
  BY DEF Having
<1>2. QED BY <1>1 DEF Roomy

\* What lies in the files after a write has room at the limit that memory goes
\* on with.
LEMMA LandedRoom ==
  ASSUME StoreTypeOK, NEW g \in Gateways, Busy(g), Provides(op[g], g), gw[g].auto,
         Roomy(op[g].next, op[g].ask.limit)
  PROVE  Roomy(op[g].next, LimitAfter(g)) /\ Roomy(op[g].next, gw[g].limit)
<1>1. /\ op[g].next \in Document /\ gw[g].limit \in {MaxUnits, Maximum}
      /\ op[g].ask.limit \in {MaxUnits, gw[g].limit}
  BY DEF Busy, Plan, StoreTypeOK, Gateway, Provides
<1>2. Strict(g, {}) \in Request /\ Strict(g, {}).auto = gw[g].auto
      /\ Strict(g, {}).limit = MaxUnits
  BY AskTyped DEF Strict, Ask
<1>3. Roomy(op[g].next, gw[g].limit) BY <1>1, RoomGrows
<1>4. Fits(op[g].next, Strict(g, {})) => Roomy(op[g].next, MaxUnits)
  BY <1>1, <1>2, FittingIsRoomy
<1>5. QED BY <1>1, <1>3, <1>4 DEF LimitAfter

LEMMA StepRoom ==
  ASSUME StoreTypeOK, LockKept, Planned, ArchivesEnded, RoomKept, [StoreNext]_storeVars
  PROVE  RoomKept'
<1> SUFFICES ASSUME NEW g \in Gateways PROVE RoomFor(g)'
  BY DEF RoomKept
<1>0. RoomFor(g) /\ gw[g] \in Gateway BY DEF RoomKept, StoreTypeOK
<1>1. CASE /\ op'[g] = op[g] /\ gw'[g].mem = gw[g].mem /\ gw'[g].limit = gw[g].limit
           /\ gw'[g].auto = gw[g].auto
  BY <1>0, <1>1 DEF RoomFor, Busy, LiveRewritten
<1>2. CASE op'[g] \notin Plan /\ Rests(g)
  BY <1>0, <1>2 DEF RoomFor, Busy, Rests
<1>3. CASE BeginsOne(g)
  <2>1. PICK plan : op' = [op EXCEPT ![g] = plan] /\ NewPlan(g, plan) BY <1>3, Plans
  <2>2. op'[g] = plan /\ gw' = gw BY <1>3, <2>1, Plans DEF StoreTypeOK, Unchanged
  <2>3. plan.at = "write" /\ (plan.kind = "restore" => plan.todo = <<"live", "archive">>)
    BY <2>1 DEF NewPlan, TodoOf
  <2>4. ~LiveRewritten(g)' BY <2>2, <2>3, TodosEnd DEF LiveRewritten
  <2>5. QED BY <1>0, <2>2, <2>4 DEF RoomFor
<1>4. CASE Loads(g)
  <2>1. op[g] = Idle /\ gw[g].mem = NotLoaded BY <1>4 DEF Loads, Ready
  <2>2. CASE gw' = [gw EXCEPT ![g] = Released(g)] /\ UNCHANGED op
    <3>1. gw'[g] = [gw[g] EXCEPT !.held = FALSE] BY <2>2 DEF Released, StoreTypeOK
    <3>2. gw'[g].mem = NotLoaded BY <1>0, <2>1, <3>1 DEF Gateway
    <3>3. QED BY <2>1, <2>2, <3>2, PlanOrNot DEF RoomFor, Busy
  <2>3. ASSUME NEW limit \in {MaxUnits, Maximum},
               gw' = [gw EXCEPT ![g].mem = Live, ![g].limit = limit],
               gw[g].auto => Roomy(Live, limit), UNCHANGED op
        PROVE  RoomFor(g)'
    <3>1. gw'[g] = [gw[g] EXCEPT !.mem = Live, !.limit = limit]
      BY <2>3 DEF StoreTypeOK
    <3>2. gw'[g].mem = Live /\ gw'[g].limit = limit /\ gw'[g].auto = gw[g].auto
      BY <1>0, <3>1 DEF Gateway
    <3>3. QED BY <2>1, <2>3, <3>2, PlanOrNot DEF RoomFor, Busy
  <2>4. ASSUME NEW limit \in {MaxUnits, Maximum}, gw' = [gw EXCEPT ![g].limit = limit],
               NEW plan, op' = [op EXCEPT ![g] = plan], LoadPlan(g, plan)
        PROVE  RoomFor(g)'
    <3>1. gw'[g] = [gw[g] EXCEPT !.limit = limit] /\ op'[g] = plan
      BY <2>4 DEF StoreTypeOK
    <3>2. gw'[g].mem = NotLoaded BY <1>0, <2>1, <3>1 DEF Gateway
    <3>3. ~LiveRewritten(g)' BY <2>4, <3>1 DEF LiveRewritten, LoadPlan
    <3>4. QED BY <3>2, <3>3 DEF RoomFor
  <2>5. \/ gw' = [gw EXCEPT ![g] = Released(g)] /\ UNCHANGED op
        \/ \E limit \in {MaxUnits, Maximum} :
             \/ /\ gw' = [gw EXCEPT ![g].mem = Live, ![g].limit = limit]
                /\ gw[g].auto => Roomy(Live, limit)
                /\ UNCHANGED op
             \/ /\ gw' = [gw EXCEPT ![g].limit = limit]
                /\ \E plan : op' = [op EXCEPT ![g] = plan] /\ LoadPlan(g, plan)
    BY <1>4, LoadsEnds
  <2>6. QED BY <2>2, <2>3, <2>4, <2>5
<1>5. ASSUME NEW which \in {"live", "archive"}, WriteLands(g, which), gw'[g].auto = gw[g].auto
      PROVE  RoomFor(g)'
  <2>0. /\ Busy(g) /\ PlanFor(g) /\ op[g] \in Plan
    BY <1>5, WritersBusy DEF Planned, Busy, Writes
  <2>1. Provides(op[g], g) BY <2>0 DEF PlanFor
  <2>2. /\ Head(op[g].todo) = which /\ op[g].at = "sync"
        /\ gw'[g].limit = IF which = "live" THEN LimitAfter(g) ELSE gw[g].limit
    BY <1>5, <2>0, WritesPlan
  <2>3. CASE op[g].todo = <<which>> /\ op'[g] = Idle /\ gw'[g].mem = op[g].next
    <3>1. ~Busy(g)' BY <2>3, PlanOrNot DEF Busy
    <3>2. CASE LiveRewritten(g)
      <4>1. gw[g].auto => Roomy(op[g].next, LimitAfter(g)) /\ Roomy(op[g].next, gw[g].limit)
        BY <1>0, <2>0, <2>1, <3>2, LandedRoom DEF RoomFor
      <4>2. QED BY <1>5, <2>2, <2>3, <3>1, <4>1 DEF RoomFor
    <3>3. CASE ~LiveRewritten(g)
      <4>1. which = "archive" /\ op[g].kind \in {"undouble", "delete archived"}
        <5>1. which = "archive" BY <2>2, <3>3 DEF LiveRewritten
        <5>2. op[g].todo = <<"archive">> /\ Head(op[g].todo) = "archive" BY <2>2, <2>3, <5>1
        <5>3. op[g].todo # <<"archive", "live">> BY <5>2, TodosEnd
        <5>4. op[g].kind \in {"restore", "undouble", "delete archived"}
          BY <2>0, <5>2, <5>3, Todo
        <5>5. op[g].kind # "restore" BY <3>3, <5>2 DEF LiveRewritten
        <5>6. QED BY <5>1, <5>4, <5>5
      <4>2. gw[g].mem = op[g].next /\ gw[g].mem # NotLoaded
        BY <2>0, <4>1 DEF PlanFor
      <4>3. QED BY <1>0, <1>5, <2>2, <2>3, <3>1, <4>1, <4>2 DEF RoomFor
    <3>4. QED BY <3>2, <3>3
  <2>4. CASE /\ op[g].todo = <<"archive", "live">> /\ which = "archive"
             /\ op'[g] = [op[g] EXCEPT !.todo = <<"live">>, !.at = "write"]
             /\ gw'[g].mem = gw[g].mem
    <3>1. op[g].kind = "archive" BY <2>0, <2>4, Todo
    <3>2. op'[g].at = "write" /\ op'[g].kind = "archive" BY <2>0, <2>4, <3>1 DEF Plan
    <3>3. ~LiveRewritten(g)' BY <3>2 DEF LiveRewritten
    <3>4. QED BY <1>0, <1>5, <2>2, <2>4, <3>3 DEF RoomFor
  <2>5. CASE /\ op[g].todo = <<"live", "archive">> /\ which = "live"
             /\ op'[g] = [op[g] EXCEPT !.todo = <<"archive">>, !.at = "write"]
             /\ gw'[g].mem = gw[g].mem
    <3>1. op[g].kind = "restore" BY <2>0, <2>5, Todo
    <3>2. op'[g].next = op[g].next /\ op'[g].ask = op[g].ask BY <2>0, <2>5 DEF Plan
    <3>3. LiveRewritten(g) BY <2>2, <2>5 DEF LiveRewritten
    <3>4. gw[g].auto => /\ Roomy(op[g].next, LimitAfter(g))
                        /\ Roomy(op[g].next, op[g].ask.limit)
      BY <1>0, <2>0, <2>1, <3>3, LandedRoom DEF RoomFor
    <3>5. \A t \in Tasks : \A s \in {"active", "queued"} :
            op[g].next[t] = s <=> gw[g].mem[t] = s
      <4>1. \A t \in op[g].tasks : gw[g].mem[t] = Absent /\ op[g].next[t] # Absent
        BY <2>0, <2>1, <3>1 DEF Provides, PlanFor, Tells
      <4>2. \A t \in op[g].tasks : op[g].next[t] \in Terminal \cup {Absent}
        BY <3>1, <2>0 DEF ArchivesEnded
      <4>3. QED BY <2>1, <3>1, <4>1, <4>2 DEF Provides, Terminal, Absent
    <3>6. gw[g].auto => Roomy(gw[g].mem, LimitAfter(g)) BY <3>4, <3>5, RoomOfSame
    <3>7. QED BY <1>5, <2>2, <2>5, <3>2, <3>4, <3>6 DEF RoomFor
  <2>6. QED BY <1>5, <2>0, <2>3, <2>4, <2>5, WritesPlan
<1>6. CASE Continues(g) /\ gw'[g].auto = gw[g].auto
  <2>0. Busy(g) /\ PlanFor(g) /\ op[g] \in Plan BY <1>6 DEF Continues, Planned, Busy
  <2>1. op[g].ask \in Request /\ op[g].ask.auto = gw[g].auto
    BY <2>0 DEF Plan, PlanFor, Provides
  <2>2. CASE LiveReplaced(g)
    <3>1. PICK next :
            /\ next \in Document /\ Fits(next, op[g].ask)
            /\ op'[g] = [op[g] EXCEPT !.at = "sync", !.next = next] /\ gw' = gw
      BY <2>0, <2>2, WritesPlan DEF Thinned
    <3>2. op'[g].next = next /\ op'[g].ask = op[g].ask BY <2>0, <3>1 DEF Plan
    <3>3. gw[g].auto => Roomy(next, op[g].ask.limit)
      BY <2>1, <3>1, FittingIsRoomy
    <3>4. QED BY <1>0, <3>1, <3>2, <3>3 DEF RoomFor
  <2>3. CASE ArchiveReplaced(g)
    <3>1. /\ op'[g] = [op[g] EXCEPT !.at = "sync"] /\ gw' = gw
          /\ Head(op[g].todo) = "archive"
      BY <2>0, <2>3, WritesPlan
    <3>2. /\ op'[g].next = op[g].next /\ op'[g].ask = op[g].ask
          /\ op'[g].todo = op[g].todo /\ op'[g].kind = op[g].kind
      BY <2>0, <3>1 DEF Plan
    <3>3. LiveRewritten(g)' => LiveRewritten(g) BY <3>1, <3>2 DEF LiveRewritten
    <3>4. QED BY <1>0, <2>0, <3>1, <3>2, <3>3 DEF RoomFor
  <2>4. QED BY <1>5, <1>6, <2>2, <2>3 DEF Continues
<1>7. QED BY <1>1, <1>2, <1>3, <1>4, <1>5, <1>6, StepOfEach

LEMMA InitRoom == StoreInit => RoomKept
BY PlanOrNot DEF StoreInit, RoomKept, RoomFor, Busy, Down

LEMMA RoomFinishes ==
  ASSUME StoreTypeOK, RoomKept
  PROVE  WorkCanFinish
<1> SUFFICES ASSUME NEW g \in Gateways, gw[g].auto, gw[g].mem # NotLoaded,
                    NEW t \in Having(gw[g].mem, {"active"})
             PROVE  Fitted([gw[g].mem EXCEPT ![t] = "unread"], UpdateAsks(g, t, "unread")) # {}
  BY DEF WorkCanFinish
<1> DEFINE ask == UpdateAsks(g, t, "unread")
<1>1. gw[g].mem \in Document /\ gw[g].limit \in {MaxUnits, Maximum} BY Typings
<1>2. gw[g].limit \in Nat BY <1>1, DocumentsAssumption DEF Maximum
<1>3. t \in Tasks /\ gw[g].mem[t] = "active" BY DEF Having
<1>4. Roomy(gw[g].mem, gw[g].limit) BY DEF RoomKept, RoomFor
<1>5. /\ ask \in Request /\ ask.auto /\ ask.kept = {t} /\ ask.limit = gw[g].limit
      /\ ~ask.queued /\ ~ask.control
  BY <1>3, AskTyped DEF UpdateAsks, Ask, Prunable, Terminal, Stored
<1> HIDE DEF ask
<1>6. Fitted([gw[g].mem EXCEPT ![t] = "unread"], ask) # {}
  BY <1>1, <1>2, <1>3, <1>4, <1>5, RoomyCanFinish
<1>7. QED BY <1>6 DEF ask

\* What the proofs below know of every state of the store.
StoreInv ==
  StoreTypeOK /\ TellsRecords /\ LockKept /\ Planned /\ ArchivesEnded /\ RoomKept

LEMMA StoreInvInit == StoreInit => StoreInv
BY InitTyped, InitTells, InitLocked, InitPlanned, InitEnded, InitRoom DEF StoreInv

LEMMA StoreInvStep == StoreInv /\ [StoreNext]_storeVars => StoreInv'
BY StepTyped, StepLocked, StepPlanned, StepEnded, StepRoom DEF StoreInv

\* There is one writer, and what it wrote or read has room for the end of
\* every task that is at work, however large the document it found, whatever
\* was dropped from it and whichever of the two limits is in force.
THEOREM StoreAlwaysKept == StoreSpec => []StoreKept
<1>1. StoreInit => StoreInv BY StoreInvInit
<1>2. StoreInv /\ [StoreNext]_storeVars => StoreInv' BY StoreInvStep
<1>3. StoreInv => StoreKept
  <2>1. LockKept => OneHolder BY DEF LockKept, LockFor, Owns, OneHolder
  <2>2. QED BY <2>1, RoomFinishes DEF StoreInv, StoreKept
<1>4. QED BY <1>1, <1>2, <1>3, PTL DEF StoreSpec

-----------------------------------------------------------------------------
(* What callers were told is kept *)

\* The archive document of an operation is in its file.
ArchiveRewritten(g) ==
  \/ op[g].at = "sync" /\ Head(op[g].todo) = "archive"
  \/ op[g].kind = "archive" /\ op[g].todo = <<"live">>

\* The record that a reader of both files finds.
Found(live, archive, t) == IF live[t] # Absent THEN live[t] ELSE archive[t]

\* It is as far as callers were told.
Meets(t, status) == told[t] \in Stored => Rank(status) >= Rank(told[t])

\* Whatever a power loss leaves.
FilesKept == \A d \in durable : \A t \in Tasks : Meets(t, Found(d.live, d.archive, t))

LEMMA RankNumber ==
  /\ \A status \in Stored \cup {Absent} : Rank(status) \in Nat /\ Rank(status) >= Rank(status)
  /\ \A status \in Stored : Rank(status) > Rank(Absent)
BY DEF Rank, Stored, Absent

\* An operation goes on from what lies in the files, and takes nothing back.
PlanSafe(g) ==
  /\ LiveRewritten(g) => docs.live = op[g].next
  /\ ArchiveRewritten(g) => docs.archive = op[g].archived
  /\ ~ArchiveRewritten(g) /\ op[g].kind \in Archiving =>
       \A t \in Tasks \ op[g].tasks : op[g].archived[t] = docs.archive[t]
  /\ ~LiveRewritten(g) /\ op[g].kind = "load" =>
       \A t \in Tasks : op[g].next[t] \in {docs.live[t], Absent}
  /\ \A t \in Tasks : op[g].next[t] # Absent => Meets(t, op[g].next[t])

\* A record on its way whose second write is not synced yet.
Restoring(g, t) ==
  /\ Busy(g) /\ op[g].kind = "restore" /\ t \in op[g].tasks
  /\ op[g].todo = <<"archive">> /\ op[g].at = "sync"
Leaving(g, t) ==
  /\ Busy(g) /\ op[g].kind = "archive" /\ t \in op[g].tasks
  /\ op[g].todo = <<"live">> /\ op[g].at = "sync"

\* Memory knows what callers were told, and what it has is in the file.
MemoryKnows(g) ==
  \A t \in Tasks : told[t] \in Stored =>
    /\ ~Restoring(g, t) => Rank(Found(gw[g].mem, docs.archive, t)) >= Rank(told[t])
    /\ ~Leaving(g, t) /\ gw[g].mem[t] # Absent => docs.live[t] # Absent

SafeFor(g) ==
  /\ Busy(g) => PlanSafe(g)
  /\ ~gw[g].poisoned /\ gw[g].mem # NotLoaded => MemoryKnows(g)

\* Who does not own the lock has nothing in memory and nothing to write.
LEMMA OthersSafe ==
  ASSUME LockKept, NEW g \in Gateways, Owns(g), NEW h \in Gateways \ {g}
  PROVE  ~Busy(h) /\ gw[h].mem = NotLoaded
BY DEF LockKept, LockFor, Owns

LEMMA LiveReplacedKeeps ==
  ASSUME StoreInv, FilesKept, NEW g \in Gateways, SafeFor(g), LiveReplaced(g)
  PROVE  FilesKept' /\ SafeFor(g)'
<1> DEFINE kind == op[g].kind
           tasks == op[g].tasks
           mem == gw[g].mem
<1>0. /\ Busy(g) /\ op[g] \in Plan /\ PlanFor(g) /\ PlanSafe(g) /\ ~gw[g].poisoned
      /\ StoreTypeOK /\ docs \in StoreFiles /\ docs \in durable
  BY WritersBusy DEF StoreInv, Planned, SafeFor, LockKept, LockFor, Writes, StoreTypeOK
<1>1. PICK next :
        /\ Thinned(next, op[g].next, op[g].ask.kept)
        /\ op'[g] = [op[g] EXCEPT !.at = "sync", !.next = next]
        /\ docs' = [docs EXCEPT !.live = next]
        /\ told' = [t \in Tasks |-> IF t \in Forgotten(g, next) THEN "gone" ELSE told[t]]
        /\ Head(op[g].todo) = "live" /\ op[g].at = "write" /\ gw' = gw
  BY <1>0, WritesPlan
<1>2. /\ op'[g].kind = kind /\ op'[g].tasks = tasks /\ op'[g].todo = op[g].todo
      /\ op'[g].archived = op[g].archived /\ op'[g].next = next /\ op'[g].at = "sync"
      /\ docs'.live = next /\ docs'.archive = docs.archive
      /\ durable' = durable \cup {docs'}
  BY <1>0, <1>1 DEF Plan, StoreFiles, LiveReplaced
<1>3. /\ \A t \in Tasks : next[t] # Absent => next[t] = op[g].next[t]
      /\ \A t \in Tasks : told'[t] \in Stored => told'[t] = told[t] /\ t \notin Forgotten(g, next)
  BY <1>1 DEF Thinned, Stored
<1>4. mem # NotLoaded => \A t \in Tasks : told[t] \in Stored =>
        /\ Rank(Found(mem, docs.archive, t)) >= Rank(told[t])
        /\ mem[t] # Absent => docs.live[t] # Absent
  BY <1>0, <1>1 DEF SafeFor, MemoryKnows, Restoring, Leaving
<1>5. /\ kind = "load" <=> mem = NotLoaded
      /\ kind = "archive" => \A t \in tasks :
           mem[t] \in Terminal /\ op[g].archived[t] = mem[t]
  BY <1>0 DEF PlanFor
<1>6. kind = "archive" => op[g].todo = <<"live">> /\ docs.archive = op[g].archived
  BY <1>0, <1>1, Todo, TodosEnd DEF PlanSafe, ArchiveRewritten
<1>7. \A t \in Tasks : told'[t] \in Stored /\ next[t] # Absent => Rank(next[t]) >= Rank(told[t])
  BY <1>0, <1>3 DEF PlanSafe, Meets
<1>8. ASSUME NEW t \in Tasks, told'[t] \in Stored, next[t] = Absent
      PROVE  Rank(docs.archive[t]) >= Rank(told[t])
  <2>1. told[t] \in Stored /\ t \notin Forgotten(g, next) BY <1>3, <1>8
  <2>2. next[t] \notin Stored BY <1>8 DEF Stored, Absent
  <2>3. CASE kind = "load"
    <3>1. docs.live[t] \notin Stored
      BY <2>1, <2>2, <2>3 DEF Forgotten, Records, Having, Live
    <3>2. docs.live[t] = Absent BY <1>0, <3>1 DEF StoreFiles, Document
    <3>3. QED BY <1>0, <2>1, <3>2 DEF FilesKept, Meets, Found
  <2>4. CASE kind = "archive" /\ t \in tasks
    <3>1. mem[t] # Absent /\ docs.archive[t] = mem[t]
      BY <1>5, <1>6, <2>4 DEF Terminal, Absent
    <3>2. QED BY <1>4, <1>5, <2>1, <2>4, <3>1 DEF Found
  <2>5. CASE kind # "load" /\ ~(kind = "archive" /\ t \in tasks)
    <3>1. mem[t] \notin Stored
      BY <2>1, <2>2, <2>5 DEF Forgotten, Records, Having
    <3>2. mem \in Document BY <1>0, <1>5, <2>5, Typings
    <3>3. mem[t] = Absent BY <3>1, <3>2 DEF Document
    <3>4. QED BY <1>4, <1>5, <2>1, <2>5, <3>3 DEF Found
  <2>6. QED BY <2>3, <2>4, <2>5
<1>9. FilesKept'
  <2> SUFFICES ASSUME NEW d \in durable', NEW t \in Tasks, told'[t] \in Stored
               PROVE  Rank(Found(d.live, d.archive, t)) >= Rank(told'[t])
    BY DEF FilesKept, Meets
  <2>1. CASE d \in durable BY <1>3, <2>1 DEF FilesKept, Meets
  <2>2. CASE d = docs' BY <1>2, <1>3, <1>7, <1>8, <2>2 DEF Found
  <2>3. QED BY <1>2, <2>1, <2>2
<1>10. PlanSafe(g)'
  <2>1. ArchiveRewritten(g)' <=> ArchiveRewritten(g)
    BY <1>1, <1>2 DEF ArchiveRewritten
  <2>2. LiveRewritten(g)' BY <1>1, <1>2 DEF LiveRewritten
  <2>3. \A t \in Tasks : next[t] # Absent /\ told'[t] \in Stored =>
          Rank(next[t]) >= Rank(told'[t])
    BY <1>3, <1>7
  <2>4. /\ ArchiveRewritten(g) => docs.archive = op[g].archived
        /\ ~ArchiveRewritten(g) /\ kind \in Archiving =>
             \A t \in Tasks \ tasks : op[g].archived[t] = docs.archive[t]
    BY <1>0 DEF PlanSafe
  <2>5. QED BY <1>2, <2>1, <2>2, <2>3, <2>4 DEF PlanSafe, Meets
<1>11. ASSUME mem # NotLoaded, NEW t \in Tasks, told'[t] \in Stored
       PROVE  /\ Rank(Found(mem, docs'.archive, t)) >= Rank(told'[t])
              /\ ~Leaving(g, t)' /\ mem[t] # Absent => docs'.live[t] # Absent
  <2>1. Rank(Found(mem, docs'.archive, t)) >= Rank(told'[t])
    BY <1>2, <1>3, <1>4, <1>11
  <2>2. ASSUME ~Leaving(g, t)', mem[t] # Absent, next[t] = Absent PROVE FALSE
    <3>1. ~(kind = "archive" /\ t \in tasks)
      <4>1. op'[g] \in Plan BY <1>0, <1>1 DEF Plan, Thinned
      <4>2. QED BY <1>2, <1>6, <2>2, <4>1 DEF Leaving, Busy
    <3>2. mem \in Document BY <1>0, <1>11, Typings
    <3>3. mem[t] \in Stored BY <2>2, <3>2 DEF Document
    <3>4. next[t] \notin Stored BY <2>2 DEF Stored, Absent
    <3>5. t \in Forgotten(g, next)
      BY <1>5, <1>11, <3>1, <3>3, <3>4 DEF Forgotten, Records, Having
    <3>6. QED BY <1>3, <1>11, <3>5
  <2>3. QED BY <1>2, <2>1, <2>2
<1>12. SafeFor(g)'
  <2>1. gw'[g].mem = mem BY <1>1
  <2>2. mem # NotLoaded => MemoryKnows(g)' BY <1>11, <2>1 DEF MemoryKnows
  <2>3. QED BY <1>10, <2>1, <2>2 DEF SafeFor
<1>13. QED BY <1>9, <1>12

LEMMA ArchiveReplacedKeeps ==
  ASSUME StoreInv, FilesKept, NEW g \in Gateways, SafeFor(g), ArchiveReplaced(g)
  PROVE  FilesKept' /\ SafeFor(g)'
<1> DEFINE kind == op[g].kind
           tasks == op[g].tasks
           mem == gw[g].mem
           archived == op[g].archived
           next == op[g].next
<1>0. /\ Busy(g) /\ op[g] \in Plan /\ PlanFor(g) /\ PlanSafe(g) /\ ~gw[g].poisoned
      /\ StoreTypeOK /\ docs \in StoreFiles /\ docs \in durable
  BY WritersBusy DEF StoreInv, Planned, SafeFor, LockKept, LockFor, Writes, StoreTypeOK
<1>1. /\ op'[g] = [op[g] EXCEPT !.at = "sync"] /\ gw' = gw
      /\ Head(op[g].todo) = "archive" /\ op[g].at = "write"
  BY <1>0, WritesPlan
<1>2. /\ op'[g].kind = kind /\ op'[g].tasks = tasks /\ op'[g].todo = op[g].todo
      /\ op'[g].archived = archived /\ op'[g].next = next /\ op'[g].at = "sync"
      /\ op'[g] \in Plan
      /\ docs'.live = docs.live /\ docs'.archive = archived
      /\ durable' = durable \cup {docs'}
  <2>1. docs' = [docs EXCEPT !.archive = archived] /\ durable' = durable \cup {docs'}
    BY DEF ArchiveReplaced
  <2>2. docs'.live = docs.live /\ docs'.archive = archived BY <1>0, <2>1 DEF StoreFiles
  <2>3. op'[g] \in Plan BY <1>0, <1>1 DEF Plan
  <2>4. /\ op'[g].kind = kind /\ op'[g].tasks = tasks /\ op'[g].todo = op[g].todo
        /\ op'[g].archived = archived /\ op'[g].next = next /\ op'[g].at = "sync"
    BY <1>0, <1>1 DEF Plan
  <2>5. QED BY <2>1, <2>2, <2>3, <2>4
<1>3. \A t \in Tasks : told'[t] \in Stored =>
        /\ told'[t] = told[t]
        /\ ~(kind = "delete archived" /\ t \in tasks /\ next[t] = Absent)
  <2>1. told' = [t \in Tasks |->
          IF kind = "delete archived" /\ t \in tasks /\ next[t] = Absent
          THEN "gone" ELSE told[t]]
    BY DEF ArchiveReplaced
  <2> HIDE DEF kind, tasks, next
  <2>2. QED BY <2>1 DEF Stored
<1>4. /\ kind \in Archiving /\ kind # "load"
      /\ kind = "archive" => op[g].todo = <<"archive", "live">>
      /\ kind = "restore" => op[g].todo = <<"archive">>
  BY <1>0, <1>1, Todo DEF Archiving
<1>5. ~ArchiveRewritten(g)
  <2>1. kind = "archive" => op[g].todo # <<"live">> BY <1>4, TodosEnd
  <2>2. QED BY <1>1, <2>1 DEF ArchiveRewritten
<1>6. \A t \in Tasks \ tasks : archived[t] = docs.archive[t]
  BY <1>0, <1>4, <1>5 DEF PlanSafe
<1>7. mem # NotLoaded /\ mem \in Document
  BY <1>0, <1>4, Typings DEF PlanFor
<1>8. \A t \in Tasks : told[t] \in Stored =>
        /\ Rank(Found(mem, docs.archive, t)) >= Rank(told[t])
        /\ mem[t] # Absent => docs.live[t] # Absent
  BY <1>0, <1>1, <1>7 DEF SafeFor, MemoryKnows, Restoring, Leaving
<1>9. /\ kind = "archive" => \A t \in tasks : mem[t] \in Terminal /\ archived[t] = mem[t]
      /\ kind = "restore" => \A t \in tasks : docs.live[t] # Absent
      /\ kind = "undouble" => \A t \in tasks : mem[t] # Absent
      /\ kind = "delete archived" => next = mem
  <2>1. kind = "restore" => docs.live = next
    BY <1>0, <1>4 DEF PlanSafe, LiveRewritten
  <2>2. kind = "restore" => \A t \in tasks : next[t] # Absent
    BY <1>0 DEF PlanFor, Tells
  <2>3. QED BY <1>0, <2>1, <2>2 DEF PlanFor
<1>10. ASSUME NEW t \in Tasks, told'[t] \in Stored
       PROVE  Rank(Found(docs.live, archived, t)) >= Rank(told[t])
  <2>1. told[t] \in Stored BY <1>3, <1>10
  <2>2. Rank(Found(docs.live, docs.archive, t)) >= Rank(told[t])
    BY <1>0, <2>1 DEF FilesKept, Meets
  <2>3. CASE docs.live[t] # Absent \/ t \notin tasks BY <1>6, <2>2, <2>3 DEF Found
  <2>4. CASE docs.live[t] = Absent /\ t \in tasks
    <3>1. mem[t] = Absent \/ kind = "archive" BY <1>8, <2>1, <2>4
    <3>2. kind = "archive"
      BY <1>3, <1>4, <1>9, <1>10, <2>4, <3>1 DEF Archiving
    <3>3. mem[t] # Absent /\ archived[t] = mem[t]
      BY <1>9, <2>4, <3>2 DEF Terminal, Absent
    <3>4. QED BY <1>8, <2>1, <2>4, <3>3 DEF Found
  <2>5. QED BY <2>3, <2>4
<1>11. FilesKept'
  <2> SUFFICES ASSUME NEW d \in durable', NEW t \in Tasks, told'[t] \in Stored
               PROVE  Rank(Found(d.live, d.archive, t)) >= Rank(told'[t])
    BY DEF FilesKept, Meets
  <2>1. CASE d \in durable BY <1>3, <2>1 DEF FilesKept, Meets
  <2>2. CASE d = docs' BY <1>2, <1>3, <1>10, <2>2 DEF Found
  <2>3. QED BY <1>2, <2>1, <2>2
<1>12. PlanSafe(g)'
  <2>1. ArchiveRewritten(g)' BY <1>1, <1>2 DEF ArchiveRewritten
  <2>2. LiveRewritten(g)' => LiveRewritten(g) BY <1>1, <1>2 DEF LiveRewritten
  <2>3. LiveRewritten(g) => docs.live = next BY <1>0 DEF PlanSafe
  <2>4. \A t \in Tasks : next[t] # Absent /\ told'[t] \in Stored =>
          Rank(next[t]) >= Rank(told'[t])
    BY <1>0, <1>3 DEF PlanSafe, Meets
  <2> HIDE DEF next, archived, kind
  <2>5. QED BY <1>2, <1>4, <2>1, <2>2, <2>3, <2>4 DEF PlanSafe, Meets
<1>13. ASSUME NEW t \in Tasks, told'[t] \in Stored
       PROVE  /\ ~Restoring(g, t)' => Rank(Found(mem, archived, t)) >= Rank(told'[t])
              /\ mem[t] # Absent => docs.live[t] # Absent
  <2>1. told[t] \in Stored /\ told'[t] = told[t] BY <1>3, <1>13
  <2>2. CASE mem[t] # Absent \/ t \notin tasks BY <1>6, <1>8, <2>1, <2>2 DEF Found
  <2>3. CASE mem[t] = Absent /\ t \in tasks
    <3>1. kind = "restore"
      BY <1>3, <1>4, <1>9, <1>13, <2>3 DEF Archiving, Terminal, Absent
    <3>2. Restoring(g, t)' BY <1>2, <1>4, <2>3, <3>1 DEF Restoring, Busy
    <3>3. QED BY <1>8, <2>1, <3>2
  <2>4. QED BY <2>2, <2>3
<1>14. SafeFor(g)'
  <2>1. gw'[g].mem = mem BY <1>1
  <2>2. MemoryKnows(g)' BY <1>2, <1>13, <2>1 DEF MemoryKnows
  <2>3. QED BY <1>12, <2>2 DEF SafeFor
<1>15. QED BY <1>11, <1>14

LEMMA LandingKeeps ==
  ASSUME StoreInv, FilesKept, NEW g \in Gateways, SafeFor(g),
         NEW which \in {"live", "archive"}, WriteLands(g, which)
  PROVE  FilesKept' /\ SafeFor(g)'
<1> DEFINE kind == op[g].kind
           tasks == op[g].tasks
           mem == gw[g].mem
           archived == op[g].archived
           next == op[g].next
<1>0. /\ Busy(g) /\ op[g] \in Plan /\ PlanFor(g) /\ PlanSafe(g) /\ ~gw[g].poisoned
      /\ StoreTypeOK /\ docs \in StoreFiles /\ docs \in durable
  BY WritersBusy DEF StoreInv, Planned, SafeFor, LockKept, LockFor, Writes, StoreTypeOK
<1>1. /\ Head(op[g].todo) = which /\ op[g].at = "sync"
      /\ UNCHANGED docs /\ durable' = {docs}
      /\ told' = [t \in Tasks |-> IF Len(op[g].todo) = 1 THEN ToldOf(g, t) ELSE told[t]]
  BY <1>0, WritesPlan DEF WriteLands
<1>3. \A t \in Tasks : told[t] \in Stored =>
        Rank(Found(docs.live, docs.archive, t)) >= Rank(told[t])
  BY <1>0 DEF FilesKept, Meets
<1>4. which = "live" => docs.live = next BY <1>0, <1>1 DEF PlanSafe, LiveRewritten
<1>5. CASE op[g].todo = <<which>> /\ op'[g] = Idle /\ gw'[g].mem = next
  <2>0. told' = [t \in Tasks |-> ToldOf(g, t)] BY <1>1, <1>5
  <2>1. kind = "restore" => docs.live = next
    BY <1>0, <1>1, <1>4, <1>5 DEF PlanSafe, LiveRewritten
  <2>2. which = "live" \/ kind \in {"restore", "undouble", "delete archived"}
    <3>1. CASE which = "archive"
      <4>1. Head(op[g].todo) = "archive" /\ op[g].todo = <<"archive">> BY <1>1, <1>5, <3>1
      <4>2. op[g].todo # <<"archive", "live">> BY <4>1, TodosEnd
      <4>3. QED BY <1>0, <4>1, <4>2, Todo
    <3>2. QED BY <3>1
  <2>3. kind \in {"put", "update", "restore", "archive"} =>
          docs.live = next /\ (kind = "archive" => docs.archive = archived)
    <3>1. kind = "archive" => which = "live" BY <2>2
    <3>2. kind = "archive" => docs.archive = archived
      BY <1>0, <1>5, <3>1 DEF PlanSafe, ArchiveRewritten
    <3>3. kind \in {"put", "update"} => which = "live" BY <2>2
    <3>4. QED BY <1>4, <2>1, <3>1, <3>2, <3>3
  <2>4. /\ kind \in {"put", "update", "restore"} => \A t \in tasks : next[t] # Absent
        /\ kind = "archive" => \A t \in tasks : next[t] = Absent
    BY <1>0 DEF PlanFor, Tells
  <2>5. ASSUME NEW t \in Tasks, told'[t] \in Stored
        PROVE  Rank(Found(docs.live, docs.archive, t)) >= Rank(told'[t])
    <3>1. told'[t] = ToldOf(g, t) BY <2>0
    <3>2. CASE t \in tasks /\ kind \in {"put", "update", "restore"}
      <4>1. told'[t] = next[t] BY <3>1, <3>2 DEF ToldOf
      <4>2. Found(docs.live, docs.archive, t) = next[t] BY <2>3, <2>4, <3>2 DEF Found
      <4>3. QED BY <2>5, <4>1, <4>2, RankNumber
    <3>3. CASE t \in tasks /\ kind = "archive"
      <4>1. told'[t] = archived[t] BY <3>1, <3>3 DEF ToldOf
      <4>2. Found(docs.live, docs.archive, t) = archived[t] BY <2>3, <2>4, <3>3 DEF Found
      <4>3. QED BY <2>5, <4>1, <4>2, RankNumber
    <3>4. CASE ~(t \in tasks /\ kind \in {"put", "update", "restore", "archive"})
      <4>1. told'[t] = told[t] BY <3>1, <3>4 DEF ToldOf
      <4>2. QED BY <1>3, <2>5, <4>1
    <3>5. QED BY <3>2, <3>3, <3>4
  <2>6. FilesKept' BY <1>1, <2>5 DEF FilesKept, Meets
  <2>7. CASE docs.live = next
    <3>1. MemoryKnows(g)' BY <1>1, <1>5, <2>5, <2>7 DEF MemoryKnows
    <3>2. QED BY <1>5, <2>6, <3>1, PlanOrNot DEF SafeFor, Busy
  <2>8. CASE docs.live # next
    <3>1. kind \in {"undouble", "delete archived"} /\ which = "archive"
      BY <1>4, <2>1, <2>2, <2>8
    <3>2. next = mem /\ mem # NotLoaded BY <1>0, <3>1 DEF PlanFor
    <3>3. \A t \in Tasks : told'[t] = told[t] BY <2>0, <3>1 DEF ToldOf
    <3>4. MemoryKnows(g) /\ \A t \in Tasks : ~Restoring(g, t) /\ ~Leaving(g, t)
      BY <1>0, <3>1, <3>2 DEF SafeFor, Restoring, Leaving
    <3>5. MemoryKnows(g)' BY <1>1, <1>5, <3>2, <3>3, <3>4 DEF MemoryKnows
    <3>6. QED BY <1>5, <2>6, <3>5, PlanOrNot DEF SafeFor, Busy
  <2>9. QED BY <2>7, <2>8
<1>6. ASSUME NEW todo \in {<<"live">>, <<"archive">>},
             \/ op[g].todo = <<"archive", "live">> /\ which = "archive" /\ todo = <<"live">>
             \/ op[g].todo = <<"live", "archive">> /\ which = "live" /\ todo = <<"archive">>,
             op'[g] = [op[g] EXCEPT !.todo = todo, !.at = "write"], gw'[g].mem = mem
      PROVE  FilesKept' /\ SafeFor(g)'
  <2>1. told' = [t \in Tasks |-> told[t]] BY <1>1, <1>6, TodosEnd
  <2>2. FilesKept' BY <1>1, <1>3, <2>1 DEF FilesKept, Meets
  <2>3. /\ op'[g].kind = kind /\ op'[g].tasks = tasks /\ op'[g].next = next
        /\ op'[g].archived = archived /\ op'[g].todo = todo /\ op'[g].at = "write"
    BY <1>0, <1>6 DEF Plan
  <2>4. \/ kind = "archive" /\ which = "archive" /\ todo = <<"live">>
        \/ kind = "restore" /\ which = "live" /\ todo = <<"archive">>
    BY <1>0, <1>6, Todo
  <2>5. op[g].todo # <<"live">> /\ op[g].todo # <<"archive">> BY <1>6, TodosEnd
  <2>6. kind = "archive" => docs.archive = archived
    BY <1>0, <1>1, <2>4 DEF PlanSafe, ArchiveRewritten
  <2>7. kind = "restore" => \A t \in Tasks \ tasks : archived[t] = docs.archive[t]
    <3>1. kind = "restore" => ~ArchiveRewritten(g)
      BY <1>1, <2>4 DEF ArchiveRewritten
    <3>2. QED BY <1>0, <3>1 DEF PlanSafe, Archiving
  <2>8. \A t \in Tasks : next[t] # Absent => Meets(t, next[t])
    BY <1>0 DEF PlanSafe
  <2>9. /\ LiveRewritten(g)' => kind = "restore"
        /\ ArchiveRewritten(g)' <=> kind = "archive"
    BY <2>3, <2>4 DEF LiveRewritten, ArchiveRewritten
  <2> HIDE DEF next, archived, kind, tasks
  <2>10. PlanSafe(g)'
    BY <1>1, <1>4, <2>1, <2>3, <2>4, <2>6, <2>7, <2>8, <2>9 DEF PlanSafe, Meets
  <2>11. mem # NotLoaded => MemoryKnows(g)'
    <3>1. \A t \in Tasks : ~Restoring(g, t) /\ ~Leaving(g, t)
      BY <2>5 DEF Restoring, Leaving
    <3>2. mem # NotLoaded => MemoryKnows(g) BY <1>0 DEF SafeFor
    <3>3. QED BY <1>1, <1>6, <2>1, <3>1, <3>2 DEF MemoryKnows
  <2>12. QED BY <1>6, <2>2, <2>10, <2>11 DEF SafeFor
<1>7. QED BY <1>0, <1>5, <1>6, WritesPlan

\* A write that fails leaves memory and files in step, unless the store says
\* that it no longer knows; but for the archive write of a restore.
LEMMA FailingKeeps ==
  ASSUME StoreInv, FilesKept, "restore" \notin StoreFaults, NEW g \in Gateways, SafeFor(g),
         WriteFails(g) \/ WriteDisowned(g) \/ LiveSyncFails(g) \/ ArchiveSyncFails(g)
  PROVE  FilesKept' /\ SafeFor(g)'
<1>0. /\ Busy(g) /\ op[g] \in Plan /\ gw[g] \in Gateway /\ StoreTypeOK
      /\ UNCHANGED <<docs, durable, told>>
  BY WritersBusy
     DEF StoreInv, Writes, StoreTypeOK, WriteFails, WriteDisowned, LiveSyncFails,
         ArchiveSyncFails
<1>1. FilesKept' BY <1>0 DEF FilesKept, Meets
<1>2. CASE Poisons(g)
  <2>1. op'[g] = Idle /\ gw'[g] = [gw[g] EXCEPT !.poisoned = TRUE]
    BY <1>0, <1>2 DEF Poisons, StoreTypeOK
  <2>2. gw'[g].poisoned BY <1>0, <2>1 DEF Gateway
  <2>3. QED BY <1>1, <2>1, <2>2, PlanOrNot DEF SafeFor, Busy
<1>3. CASE Rejects(g) /\ (WriteFails(g) \/ ArchiveSyncFails(g))
  <2>1. op'[g] = Idle /\ gw'[g] \in {gw[g], [gw[g] EXCEPT !.held = FALSE]}
    BY <1>0, <1>3 DEF Rejects, Released, StoreTypeOK
  <2>2. gw'[g].mem = gw[g].mem /\ gw'[g].poisoned = gw[g].poisoned
    BY <1>0, <2>1 DEF Gateway
  <2>3. \A t \in Tasks : ~Restoring(g, t) /\ ~Leaving(g, t)
    <3>1. CASE WriteFails(g)
      <4>1. op[g].at = "write" BY <3>1 DEF WriteFails, Writing
      <4>2. QED BY <4>1 DEF Restoring, Leaving
    <3>2. CASE ArchiveSyncFails(g)
      <4>1. op[g].kind # "restore" /\ Head(op[g].todo) = "archive"
        BY <3>2 DEF ArchiveSyncFails, MayFail, Syncing
      <4>2. op[g].todo # <<"live">> BY <4>1, TodosEnd
      <4>3. QED BY <4>1, <4>2 DEF Restoring, Leaving
    <3>3. QED BY <1>3, <3>1, <3>2
  <2>4. ~gw[g].poisoned /\ gw[g].mem # NotLoaded => MemoryKnows(g) BY DEF SafeFor
  <2>5. ~gw'[g].poisoned /\ gw'[g].mem # NotLoaded => MemoryKnows(g)'
    BY <1>0, <2>2, <2>3, <2>4 DEF MemoryKnows
  <2>6. QED BY <1>1, <2>1, <2>5, PlanOrNot DEF SafeFor, Busy
<1>4. QED BY <1>2, <1>3 DEF WriteFails, WriteDisowned, LiveSyncFails, ArchiveSyncFails

LEMMA SameSafe ==
  ASSUME NEW g \in Gateways, SafeFor(g), UNCHANGED <<docs, told>>, op'[g] = op[g],
         gw'[g].mem = gw[g].mem, gw'[g].poisoned = gw[g].poisoned \/ gw'[g].poisoned
  PROVE  SafeFor(g)'
<1>1. Busy(g)' => PlanSafe(g)'
  BY DEF SafeFor, Busy, PlanSafe, LiveRewritten, ArchiveRewritten, Meets
<1>2. ~gw'[g].poisoned /\ gw'[g].mem # NotLoaded => MemoryKnows(g)'
  BY DEF SafeFor, MemoryKnows, Restoring, Leaving, Busy
<1>3. QED BY <1>1, <1>2 DEF SafeFor

LEMMA ProcessesKeep ==
  ASSUME StoreInv, NEW g \in Gateways, SafeFor(g), Processes(g)
  PROVE  SafeFor(g)'
<1>0. gw[g] \in Gateway /\ StoreTypeOK /\ LockFor(g)
  BY DEF StoreInv, StoreTypeOK, LockKept
<1>1. CASE Starts(g)
  <2>1. PICK auto \in BOOLEAN :
          gw' = [gw EXCEPT ![g] = [Down EXCEPT !.up = TRUE, !.auto = auto]]
    BY <1>1 DEF Starts
  <2>2. gw'[g] = [Down EXCEPT !.up = TRUE, !.auto = auto] BY <1>0, <2>1 DEF StoreTypeOK
  <2>3. gw'[g].mem = NotLoaded BY <2>2 DEF Down
  <2>4. op'[g] = Idle BY <1>0, <1>1 DEF Starts, LockFor
  <2>5. QED BY <2>3, <2>4, PlanOrNot DEF SafeFor, Busy
<1>2. CASE MakesLock(g) \/ SignsLock(g)
  <2>1. op'[g] \in {Idle, Signing} /\ gw'[g] \in {gw[g], [gw[g] EXCEPT !.held = TRUE]}
    BY <1>0, <1>2 DEF MakesLock, SignsLock, StoreTypeOK, Signing
  <2>2. gw[g].mem = NotLoaded
    <3>1. ~gw[g].held \/ op[g] = Signing
      BY <1>0, <1>2 DEF MakesLock, SignsLock, StoreTypeOK, Plan, Idle, Signing
    <3>2. QED BY <1>0, <3>1 DEF LockFor
  <2>3. gw'[g].mem = NotLoaded BY <1>0, <2>1, <2>2 DEF Gateway
  <2>4. QED BY <2>1, <2>3, PlanOrNot DEF SafeFor, Busy
<1>3. CASE Leaves(g) \/ Crashes(g)
  <2>1. gw'[g] = Down /\ op'[g] = Idle BY <1>0, <1>3 DEF Leaves, Crashes, StoreTypeOK
  <2>2. QED BY <2>1, PlanOrNot DEF SafeFor, Busy, Down
<1>4. CASE LosesLock(g) \/ Closes(g)
  <2>1. /\ UNCHANGED <<docs, told, op>>
        /\ gw'[g] \in {[gw[g] EXCEPT !.poisoned = TRUE], [gw[g] EXCEPT !.closed = TRUE]}
    BY <1>0, <1>4 DEF LosesLock, Closes, StoreTypeOK
  <2>2. /\ gw'[g].mem = gw[g].mem
        /\ gw'[g].poisoned = gw[g].poisoned \/ gw'[g].poisoned
    BY <1>0, <2>1 DEF Gateway
  <2>3. QED BY <2>1, <2>2, SameSafe
<1>5. QED BY <1>1, <1>2, <1>3, <1>4 DEF Processes

LEMMA BeginningKeeps ==
  ASSUME StoreInv, NEW g \in Gateways, SafeFor(g), BeginsOne(g)
  PROVE  SafeFor(g)'
<1> DEFINE mem == gw[g].mem
<1>0. StoreTypeOK BY DEF StoreInv
<1>1. PICK plan : op' = [op EXCEPT ![g] = plan] /\ NewPlan(g, plan) BY <1>0, Plans
<1>2. /\ Serves(g) /\ UNCHANGED <<docs, told, gw>> BY <1>0, Plans DEF Unchanged
<1>3. /\ op[g] = Idle /\ ~gw[g].poisoned /\ mem # NotLoaded /\ ~Busy(g)
      /\ MemoryKnows(g) /\ op'[g] = plan
  BY <1>0, <1>1, <1>2, PlanOrNot DEF Serves, Ready, SafeFor, Busy, StoreTypeOK
<1>4. \A t \in Tasks : told[t] \in Stored =>
        /\ Rank(Found(mem, docs.archive, t)) >= Rank(told[t])
        /\ mem[t] # Absent => docs.live[t] # Absent
  BY <1>3 DEF MemoryKnows, Restoring, Leaving
<1>5. /\ plan \in Plan /\ plan.kind # "load" /\ plan.at = "write"
      /\ plan.kind = "archive" => plan.todo = <<"archive", "live">>
      /\ plan.kind = "restore" => plan.todo = <<"live", "archive">>
      /\ Advances(plan, mem, Archive) /\ Moved(plan, mem, Archive)
  BY <1>1 DEF NewPlan, TodoOf
<1>6. ~LiveRewritten(g)' /\ ~ArchiveRewritten(g)'
  BY <1>3, <1>5, TodosEnd DEF LiveRewritten, ArchiveRewritten
<1>7. ASSUME NEW t \in Tasks, plan.next[t] # Absent, told[t] \in Stored
      PROVE  Rank(plan.next[t]) >= Rank(told[t])
  <2>1. CASE plan.next[t] = mem[t] BY <1>4, <1>7, <2>1 DEF Found
  <2>2. CASE mem[t] # Absent /\ Rank(plan.next[t]) >= Rank(mem[t])
    <3>1. Rank(mem[t]) >= Rank(told[t]) BY <1>4, <1>7, <2>2 DEF Found
    <3>2. mem \in Document BY <1>0, <1>3, Typings
    <3>3. /\ plan.next[t] \in Stored \cup {Absent} /\ mem[t] \in Stored \cup {Absent}
      BY <1>5, <3>2 DEF Plan, Document
    <3>4. QED BY <1>7, <2>2, <3>1, <3>3, RankNumber
  <2>3. CASE mem[t] = Absent /\ plan.next[t] = Archive[t]
    BY <1>4, <1>7, <2>3 DEF Found, Archive
  <2>4. told[t] # "new" BY <1>7 DEF Stored
  <2>5. QED BY <1>5, <1>7, <2>1, <2>2, <2>3, <2>4 DEF Advances
<1>8. plan.kind \in Archiving => \A t \in Tasks \ plan.tasks : plan.archived[t] = docs.archive[t]
  BY <1>5 DEF Moved, Archive
<1>9. PlanSafe(g)'
  BY <1>2, <1>3, <1>5, <1>6, <1>7, <1>8 DEF PlanSafe, Meets
<1>10. MemoryKnows(g)' BY <1>2, <1>4 DEF MemoryKnows
<1>11. QED BY <1>9, <1>10 DEF SafeFor

LEMMA LoadingKeeps ==
  ASSUME StoreInv, FilesKept, NEW g \in Gateways, SafeFor(g), Loads(g)
  PROVE  SafeFor(g)'
<1>0. StoreTypeOK /\ gw[g] \in Gateway /\ docs \in durable BY DEF StoreInv, StoreTypeOK
<1>1. /\ op[g] = Idle /\ gw[g].mem = NotLoaded /\ ~gw[g].poisoned
      /\ UNCHANGED <<docs, durable, told>>
  BY <1>0, LoadsEnds DEF Ready
<1>2. \A t \in Tasks : told[t] \in Stored =>
        Rank(Found(docs.live, docs.archive, t)) >= Rank(told[t])
  BY <1>0 DEF FilesKept, Meets
<1>3. CASE gw' = [gw EXCEPT ![g] = Released(g)] /\ UNCHANGED op
  <2>1. gw'[g] = [gw[g] EXCEPT !.held = FALSE] BY <1>0, <1>3 DEF Released, StoreTypeOK
  <2>2. gw'[g].mem = NotLoaded BY <1>0, <1>1, <2>1 DEF Gateway
  <2>3. QED BY <1>1, <1>3, <2>2, PlanOrNot DEF SafeFor, Busy
<1>4. ASSUME NEW limit, gw' = [gw EXCEPT ![g].mem = Live, ![g].limit = limit], UNCHANGED op
      PROVE  SafeFor(g)'
  <2>1. gw'[g] = [gw[g] EXCEPT !.mem = Live, !.limit = limit] BY <1>0, <1>4 DEF StoreTypeOK
  <2>2. gw'[g].mem = docs.live BY <1>0, <2>1 DEF Gateway, Live
  <2>3. MemoryKnows(g)' BY <1>1, <1>2, <2>2 DEF MemoryKnows
  <2>4. QED BY <1>1, <1>4, <2>3, PlanOrNot DEF SafeFor, Busy
<1>5. ASSUME NEW limit, gw' = [gw EXCEPT ![g].limit = limit],
             NEW plan, op' = [op EXCEPT ![g] = plan], LoadPlan(g, plan)
      PROVE  SafeFor(g)'
  <2>1. gw'[g] = [gw[g] EXCEPT !.limit = limit] /\ op'[g] = plan
    BY <1>0, <1>5 DEF StoreTypeOK
  <2>2. gw'[g].mem = NotLoaded BY <1>0, <1>1, <2>1 DEF Gateway
  <2>3. /\ plan.kind = "load" /\ plan.at = "write"
        /\ \A t \in Tasks : plan.next[t] \in {docs.live[t], Absent}
    BY <1>5 DEF LoadPlan, Live
  <2>4. ~LiveRewritten(g)' /\ ~ArchiveRewritten(g)'
    BY <2>1, <2>3 DEF LiveRewritten, ArchiveRewritten
  <2>5. \A t \in Tasks : plan.next[t] # Absent /\ told[t] \in Stored =>
          Rank(plan.next[t]) >= Rank(told[t])
    BY <1>2, <2>3 DEF Found
  <2>6. PlanSafe(g)'
    BY <1>1, <2>1, <2>3, <2>4, <2>5 DEF PlanSafe, Meets, Archiving
  <2>7. QED BY <2>2, <2>6 DEF SafeFor
<1>6. \/ gw' = [gw EXCEPT ![g] = Released(g)] /\ UNCHANGED op
      \/ \E limit : gw' = [gw EXCEPT ![g].mem = Live, ![g].limit = limit] /\ UNCHANGED op
      \/ \E limit : /\ gw' = [gw EXCEPT ![g].limit = limit]
                    /\ \E plan : op' = [op EXCEPT ![g] = plan] /\ LoadPlan(g, plan)
  BY <1>0, LoadsEnds
<1>7. QED BY <1>3, <1>4, <1>5, <1>6

AllSafe == FilesKept /\ \A g \in Gateways : SafeFor(g)

LEMMA StepSafe ==
  ASSUME StoreInv, AllSafe, "restore" \notin StoreFaults, [StoreNext]_storeVars
  PROVE  AllSafe'
<1>0. /\ StoreTypeOK /\ LockKept /\ FilesKept /\ \A g \in Gateways : SafeFor(g)
  BY DEF StoreInv, AllSafe
<1>1. ASSUME NEW g \in Gateways, Writes(g) PROVE AllSafe'
  <2>1. FilesKept' /\ SafeFor(g)'
    BY <1>0, <1>1, LiveReplacedKeeps, ArchiveReplacedKeeps, LandingKeeps, FailingKeeps
       DEF Writes
  <2>2. ASSUME NEW h \in Gateways \ {g} PROVE SafeFor(h)'
    <3>1. Owns(g) BY <1>0, <1>1, WritersBusy DEF LockKept, LockFor
    <3>2. ~Busy(h) /\ gw[h].mem = NotLoaded BY <1>0, <3>1, OthersSafe
    <3>3. gw'[h] = gw[h] /\ op'[h] = op[h] BY <1>0, <1>1, WritesMove
    <3>4. QED BY <3>2, <3>3 DEF SafeFor, Busy
  <2>3. QED BY <2>1, <2>2 DEF AllSafe
<1>2. CASE PowerFails
  <2>1. FilesKept' BY <1>0, <1>2 DEF PowerFails, FilesKept, Meets
  <2>2. ASSUME NEW g \in Gateways PROVE SafeFor(g)'
    BY <1>2, PlanOrNot DEF PowerFails, SafeFor, Busy, Down
  <2>3. QED BY <2>1, <2>2 DEF AllSafe
<1>3. ASSUME UNCHANGED <<docs, durable, told>>, \A g \in Gateways : SafeFor(g)'
      PROVE  AllSafe'
  BY <1>0, <1>3 DEF AllSafe, FilesKept, Meets
<1>4. CASE UNCHANGED storeVars \/ Unlocks
  <2>1. UNCHANGED <<docs, durable, told, gw, op>> BY <1>4 DEF storeVars, Unlocks
  <2>2. \A g \in Gateways : SafeFor(g)' BY <1>0, <2>1, SameSafe
  <2>3. QED BY <1>3, <2>1, <2>2
<1>5. ASSUME NEW g \in Gateways, Processes(g) PROVE AllSafe'
  <2>1. UNCHANGED <<docs, durable, told>>
    BY <1>5 DEF Processes, Starts, MakesLock, SignsLock, LosesLock, Closes, Leaves, Crashes
  <2>2. \A h \in Gateways \ {g} : gw'[h] = gw[h] /\ op'[h] = op[h]
    BY <1>0, <1>5 DEF Processes, Starts, MakesLock, SignsLock, LosesLock, Closes, Leaves,
                      Crashes, StoreTypeOK
  <2>3. \A h \in Gateways \ {g} : SafeFor(h)' BY <1>0, <2>1, <2>2, SameSafe
  <2>4. SafeFor(g)' BY <1>0, <1>5, ProcessesKeep
  <2>5. QED BY <1>3, <2>1, <2>3, <2>4
<1>6. ASSUME NEW g \in Gateways, BeginsOne(g) PROVE AllSafe'
  <2>1. UNCHANGED <<docs, durable, told, gw>> BY <1>0, <1>6, Plans DEF Unchanged
  <2>2. \A h \in Gateways \ {g} : op'[h] = op[h]
    BY <1>0, <1>6, Plans DEF StoreTypeOK
  <2>3. \A h \in Gateways \ {g} : SafeFor(h)' BY <1>0, <2>1, <2>2, SameSafe
  <2>4. SafeFor(g)' BY <1>0, <1>6, BeginningKeeps
  <2>5. QED BY <1>3, <2>1, <2>3, <2>4
<1>7. ASSUME NEW g \in Gateways, Loads(g) PROVE AllSafe'
  <2>1. UNCHANGED <<docs, durable, told>> BY <1>7 DEF Loads
  <2>2. ASSUME NEW h \in Gateways \ {g} PROVE gw'[h] = gw[h] /\ op'[h] = op[h]
    <3>1. /\ \/ gw' = [gw EXCEPT ![g] = Released(g)]
             \/ \E limit : gw' = [gw EXCEPT ![g].mem = Live, ![g].limit = limit]
             \/ \E limit : gw' = [gw EXCEPT ![g].limit = limit]
          /\ op' = op \/ \E plan : op' = [op EXCEPT ![g] = plan]
      BY <1>0, <1>7, LoadsEnds
    <3>2. QED BY <1>0, <3>1 DEF StoreTypeOK
  <2>3. \A h \in Gateways \ {g} : SafeFor(h)' BY <1>0, <2>1, <2>2, SameSafe
  <2>4. SafeFor(g)' BY <1>0, <1>7, LoadingKeeps
  <2>5. QED BY <1>3, <2>1, <2>3, <2>4
<1>8. QED BY <1>1, <1>2, <1>4, <1>5, <1>6, <1>7, Steps

LEMMA InitSafe == StoreInit => AllSafe
<1> SUFFICES ASSUME StoreInit PROVE AllSafe OBVIOUS
<1>1. PICK legacy \in Document :
        /\ docs = [live |-> legacy, archive |-> Empty]
        /\ told = [t \in Tasks |-> IF legacy[t] = Absent THEN "new" ELSE legacy[t]]
  BY DEF StoreInit
<1>2. ASSUME NEW t \in Tasks, told[t] \in Stored
      PROVE  Rank(Found(docs.live, docs.archive, t)) >= Rank(told[t])
  <2>1. legacy[t] # Absent /\ told[t] = legacy[t] BY <1>1, <1>2 DEF Stored
  <2>2. Found(docs.live, docs.archive, t) = told[t] BY <1>1, <2>1 DEF Found
  <2>3. QED BY <1>2, <2>2, RankNumber
<1>3. FilesKept BY <1>2 DEF StoreInit, FilesKept, Meets
<1>4. QED BY <1>3, PlanOrNot DEF StoreInit, AllSafe, SafeFor, Busy, Down

\* What a caller was told is stored survives crashes, power losses, failed
\* writes and syncs, and every other process that shares the directory; as long
\* as no restore of a task fails in its second sync.
THEOREM WhatIsToldIsKept ==
  "restore" \notin StoreFaults => (StoreSpec => []AckedIsKept)
<1> SUFFICES ASSUME "restore" \notin StoreFaults PROVE StoreSpec => []AckedIsKept
  OBVIOUS
<1>1. StoreInit => StoreInv /\ AllSafe BY StoreInvInit, InitSafe
<1>2. StoreInv /\ AllSafe /\ [StoreNext]_storeVars => (StoreInv /\ AllSafe)'
  BY StoreInvStep, StepSafe
<1>3. StoreInv /\ AllSafe => AckedIsKept
  <2> SUFFICES ASSUME StoreInv, AllSafe, NEW t \in Tasks, told[t] \notin {"new", "gone"},
                      NEW d \in durable
               PROVE  \/ Rank(d.live[t]) >= Rank(told[t])
                      \/ Rank(d.archive[t]) >= Rank(told[t])
    BY DEF AckedIsKept
  <2>1. told[t] \in Stored BY DEF StoreInv, StoreTypeOK
  <2>2. QED BY <2>1 DEF AllSafe, FilesKept, Meets, Found
<1>4. QED BY <1>1, <1>2, <1>3, PTL DEF StoreSpec

-----------------------------------------------------------------------------
(* The file of the agent watches *)

\* Memory is never behind what callers were answered, and what a write takes
\* along is all of it.
MemoryAhead ==
  /\ registry # Unloaded => \A w \in FileWatches : answered[w] <= registry[w]
  /\ writing # NoWrite => registry # Unloaded /\ writing.snapshot = registry

LEMMA UnloadedOrNot ==
  ASSUME FileTypeOK, registry # Unloaded
  PROVE  registry \in Registry /\ DOMAIN registry = FileWatches
BY DEF FileTypeOK, Registry

LEMMA ChangesKeep ==
  ASSUME FileTypeOK, AnsweredIsFiled, MemoryAhead, NEW w \in FileWatches,
         NEW revision \in 0..MaxRevision, Changes(w, revision),
         revision = 0 \/ answered[w] <= revision
  PROVE  AnsweredIsFiled' /\ MemoryAhead'
<1> DEFINE next == [registry EXCEPT ![w] = revision]
           known == [answered EXCEPT ![w] = IF revision = 0 THEN 0 ELSE answered[w]]
<1>1. /\ Loaded(w) /\ registry' = next /\ writing' = [of |-> w, snapshot |-> next]
      /\ answered' = known /\ UNCHANGED <<file, fileFaults, fileCrashes>>
  BY DEF Changes, Snapshot
<1>2. registry # Unloaded BY <1>1 DEF Loaded, Unloaded
<1>3. registry \in Registry BY <1>2, UnloadedOrNot
<1>4. next \in Registry /\ next # Unloaded BY <1>3 DEF Registry, Unloaded
<1>5. /\ file \in Registry /\ answered \in Registry
      /\ \A v \in FileWatches : answered[v] <= file[v] /\ answered[v] <= registry[v]
  BY <1>2 DEF FileTypeOK, AnsweredIsFiled, MemoryAhead
<1>6. known \in Registry BY <1>5, FileAssumption DEF Registry
<1>7. \A v \in FileWatches : known[v] <= file[v] /\ known[v] <= next[v]
  BY <1>3, <1>5, FileAssumption DEF Registry
<1> HIDE DEF next, known
<1>8. FileTypeOK' BY <1>1, <1>4, <1>5, <1>6 DEF FileTypeOK
<1>9. MemoryAhead' BY <1>1, <1>4, <1>7 DEF MemoryAhead
<1>10. QED BY <1>1, <1>7, <1>8, <1>9 DEF AnsweredIsFiled

LEMMA FileStep ==
  ASSUME AnsweredIsFiled, MemoryAhead, [FileNext]_fileVars
  PROVE  AnsweredIsFiled' /\ MemoryAhead'
<1>0. FileTypeOK BY DEF AnsweredIsFiled
<1>1. CASE UNCHANGED fileVars
  BY <1>1 DEF fileVars, AnsweredIsFiled, MemoryAhead, FileTypeOK
<1>2. CASE LoadsFile
  <2>1. registry = Unloaded /\ registry' = file /\ writing = NoWrite
    BY <1>2 DEF LoadsFile, MemoryAhead
  <2>2. QED BY <1>0, <1>2, <2>1 DEF LoadsFile, AnsweredIsFiled, MemoryAhead, FileTypeOK
<1>3. CASE WritesFile
  <2>1. /\ registry \in Registry /\ writing.of \in FileWatches
        /\ file' = registry /\ registry' = registry /\ writing' = NoWrite
        /\ answered' = [answered EXCEPT ![writing.of] = registry[writing.of]]
        /\ UNCHANGED <<fileFaults, fileCrashes>>
    BY <1>0, <1>3, UnloadedOrNot DEF WritesFile, MemoryAhead, FileTypeOK
  <2>2. answered \in Registry /\ \A v \in FileWatches : answered[v] <= registry[v]
    BY <1>0, <1>3 DEF WritesFile, MemoryAhead, FileTypeOK
  <2>3. answered' \in Registry /\ \A v \in FileWatches : answered'[v] <= registry[v]
    BY <2>1, <2>2, FileAssumption DEF Registry
  <2>4. QED BY <1>0, <2>1, <2>3 DEF AnsweredIsFiled, MemoryAhead, FileTypeOK
<1>4. CASE FileWriteFails
  <2>1. fileFaults' \in 0..MaxFileFaults
    BY <1>0, <1>4, FileAssumption DEF FileWriteFails, FileTypeOK
  <2>2. QED
    BY <1>0, <1>4, <2>1 DEF FileWriteFails, AnsweredIsFiled, MemoryAhead, FileTypeOK
<1>5. CASE FileCrash
  <2>1. fileCrashes' \in 0..MaxFileCrashes
    BY <1>0, <1>5, FileAssumption DEF FileCrash, FileTypeOK
  <2>2. /\ file' \in Registry /\ \A v \in FileWatches : answered[v] <= file'[v]
    BY <1>0, <1>5, UnloadedOrNot DEF FileCrash, FileTypeOK, AnsweredIsFiled, MemoryAhead
  <2>3. QED
    BY <1>0, <1>5, <2>1, <2>2 DEF FileCrash, AnsweredIsFiled, MemoryAhead, FileTypeOK
<1>6. ASSUME NEW w \in FileWatches, PutsWatch(w) \/ UpdatesWatch(w) \/ DeletesWatch(w)
      PROVE  AnsweredIsFiled' /\ MemoryAhead'
  <2>0. Loaded(w) BY <1>6 DEF PutsWatch, UpdatesWatch, DeletesWatch
  <2>1. registry # Unloaded BY <2>0 DEF Loaded, Unloaded
  <2>2. registry \in Registry BY <1>0, <2>1, UnloadedOrNot
  <2>3. registry[w] \in 0..MaxRevision /\ answered[w] \in Int /\ answered[w] <= registry[w]
    BY <1>0, <2>1, <2>2 DEF MemoryAhead, FileTypeOK, Registry
  <2>4. CASE PutsWatch(w)
    <3>1. Changes(w, 1) /\ answered[w] = 0 BY <2>4 DEF PutsWatch
    <3>2. 1 \in 0..MaxRevision BY FileAssumption
    <3>3. QED BY <1>0, <3>1, <3>2, ChangesKeep
  <2>5. CASE UpdatesWatch(w)
    <3>1. Changes(w, registry[w] + 1) /\ registry[w] \in 1..MaxRevision - 1
      BY <2>5 DEF UpdatesWatch
    <3>2. registry[w] + 1 \in 0..MaxRevision /\ answered[w] <= registry[w] + 1
      BY <2>3, <3>1, FileAssumption
    <3>3. QED BY <1>0, <3>1, <3>2, ChangesKeep
  <2>6. CASE DeletesWatch(w)
    <3>1. Changes(w, 0) BY <2>6 DEF DeletesWatch
    <3>2. 0 \in 0..MaxRevision BY FileAssumption
    <3>3. QED BY <1>0, <3>1, <3>2, ChangesKeep
  <2>7. QED BY <1>6, <2>4, <2>5, <2>6
<1>7. QED BY <1>1, <1>2, <1>3, <1>4, <1>5, <1>6 DEF FileNext

LEMMA FileStarts == FileInit => AnsweredIsFiled /\ MemoryAhead
<1> SUFFICES ASSUME FileInit PROVE AnsweredIsFiled /\ MemoryAhead OBVIOUS
<1>1. registry = Unloaded /\ writing = NoWrite BY DEF FileInit
<1>2. file \in Registry /\ answered = file BY FileAssumption DEF FileInit, Registry
<1>3. \A w \in FileWatches : file[w] = 0 BY DEF FileInit
<1>4. QED
  BY <1>1, <1>2, <1>3, FileAssumption DEF FileInit, AnsweredIsFiled, MemoryAhead, FileTypeOK

\* A revision whose writer was answered is never lost to a refused write, a
\* failed one or a crash on either side of the rename.
THEOREM AnsweredStaysFiled == FileSpec => []AnsweredIsFiled
<1>1. AnsweredIsFiled /\ MemoryAhead /\ [FileNext]_fileVars =>
        (AnsweredIsFiled /\ MemoryAhead)'
  BY FileStep
<1>2. QED BY <1>1, FileStarts, PTL DEF FileSpec
=============================================================================
