---------------------------- MODULE FileTaskStore ----------------------------
(***************************************************************************)
(* The task store of gateways and offline commands that share a state      *)
(* directory: the live and the archive document, each replaced through a   *)
(* temporary file, a rename and a directory sync; the writer lock; and the *)
(* operations, serialized inside a process.  Processes crash between any   *)
(* two steps, writes and syncs fail, and a power loss takes the latest of  *)
(* the renames that were not synced.                                       *)
(***************************************************************************)
EXTENDS TaskDocuments, Sequences

CONSTANTS
  Gateways,      \* processes that may open the store
  StoreFaults,   \* "write", "sync", "archive", "restore": which steps may fail
  MaxStoreFaults,
  MaxOutages     \* crashes and power losses

Nobody == "nobody"
Dead == "dead"

ASSUME StoreAssumption ==
  /\ {Nobody, Dead} \cap Gateways = {}
  /\ MaxStoreFaults \in Nat /\ MaxOutages \in Nat

VARIABLES
  docs,     \* the two files as a reader sees them
  durable,  \* what a power loss may leave of them
  lock,     \* the lock directory: whose, and whether owner.json is there
  gw,       \* per process: its memory and flags
  op,       \* per process: the operation under way
  told,     \* what callers were last told of a task
  storeFaults, outages

storeVars == <<docs, durable, lock, gw, op, told, storeFaults, outages>>

NotLoaded == <<>>
Idle == [kind |-> "idle"]
Free == [by |-> Nobody, owner |-> FALSE]
Down == [up |-> FALSE, mem |-> NotLoaded, held |-> FALSE, poisoned |-> FALSE,
         closed |-> FALSE, auto |-> TRUE, limit |-> MaxUnits]

Maximum == MaxUnits + Migration
Live == docs.live
Archive == docs.archive

StoreInit ==
  /\ \E legacy \in {d \in Document : Size(d) <= MaxUnits /\ Cardinality(Records(d)) <= MaxRecords} :
       /\ docs = [live |-> legacy, archive |-> Empty]
       /\ told = [t \in Tasks |-> IF legacy[t] = Absent THEN "new" ELSE legacy[t]]
  /\ durable = {docs} /\ lock = Free
  /\ gw = [g \in Gateways |-> Down]
  /\ op = [g \in Gateways |-> Idle]
  /\ storeFaults = 0 /\ outages = 0

MayFail(kind) ==
  kind \in StoreFaults /\ storeFaults < MaxStoreFaults /\ storeFaults' = storeFaults + 1

Starts(g) ==
  /\ ~gw[g].up
  /\ \E auto \in BOOLEAN : gw' = [gw EXCEPT ![g] = [Down EXCEPT !.up = TRUE, !.auto = auto]]
  /\ UNCHANGED <<docs, durable, lock, op, told, storeFaults, outages>>

(* The writer lock *)

MakesLock(g) ==
  /\ gw[g].up /\ ~gw[g].held /\ ~gw[g].closed /\ ~gw[g].poisoned /\ op[g] = Idle
  /\ lock = Free
  /\ lock' = [by |-> g, owner |-> FALSE]
  /\ op' = [op EXCEPT ![g] = [kind |-> "lock"]]
  /\ UNCHANGED <<docs, durable, gw, told, storeFaults, outages>>

SignsLock(g) ==
  /\ op[g].kind = "lock"
  /\ op' = [op EXCEPT ![g] = Idle]
  /\ \/ /\ lock.by = g
        /\ lock' = [lock EXCEPT !.owner = TRUE]
        /\ gw' = [gw EXCEPT ![g].held = TRUE]
        /\ UNCHANGED storeFaults
     \/ \* owner.json cannot be written, or its directory is gone
        /\ (lock.by # g /\ UNCHANGED storeFaults) \/ MayFail("write")
        /\ lock' = IF lock.by = g THEN Free ELSE lock
        /\ UNCHANGED gw
  /\ UNCHANGED <<docs, durable, told, outages>>

Owns(g) == lock = [by |-> g, owner |-> TRUE]

\* Mutant: the pid of the owner is not looked at.
AbandonedUnlessFree == lock # Free

\* A lock is abandoned when its owner is no longer alive; of one without an
\* owner the operator's word that no gateway runs decides.
Abandoned ==
  IF lock.owner THEN lock.by = Dead
  ELSE lock.by # Nobody /\ \A g \in Gateways : ~gw[g].up

Unlocks ==
  /\ Abandoned
  /\ lock' = Free
  /\ UNCHANGED <<docs, durable, gw, op, told, storeFaults, outages>>

(* Beginning an operation *)

Ready(g) == gw[g].up /\ gw[g].held /\ ~gw[g].poisoned /\ op[g] = Idle

\* The operation that has what it needs in memory, unless the lock is lost.
Serves(g) == Ready(g) /\ ~gw[g].closed /\ gw[g].mem # NotLoaded /\ Owns(g)

LosesLock(g) ==
  /\ Ready(g) /\ ~Owns(g)
  /\ gw' = [gw EXCEPT ![g].poisoned = TRUE]
  /\ UNCHANGED <<docs, durable, lock, op, told, storeFaults, outages>>

Ask(g, kept, limit, queued, control) ==
  [auto |-> gw[g].auto, kept |-> kept, limit |-> limit, queued |-> queued, control |-> control]
Strict(g, kept) == Ask(g, kept, MaxUnits, TRUE, TRUE)
Plain(g) == Ask(g, {}, gw[g].limit, TRUE, TRUE)

Begins(g, kind, tasks, todo, next, archived, ask) ==
  op' = [op EXCEPT ![g] = [kind |-> kind, tasks |-> tasks, todo |-> todo, next |-> next,
                           archived |-> archived, ask |-> ask, at |-> "write"]]

\* The end of an operation that did not load the store gives the lock back.
Released(g) == [gw[g] EXCEPT !.held = FALSE]

\* The first operation reads the live document, drops expired history and,
\* for a legacy document, falls back on the migration allowance.
Loads(g) ==
  /\ Ready(g) /\ ~gw[g].closed /\ gw[g].mem = NotLoaded /\ Owns(g)
  /\ LET Wide == Ask(g, {}, Maximum, TRUE, TRUE)
         Candidates(d) ==
           IF gw[g].auto /\ Fitted(d, Strict(g, {})) # {}
           THEN Fitted(d, Strict(g, {})) \X {MaxUnits} ELSE Fitted(d, Wide) \X {Maximum}
     IN  \E d \in IF gw[g].auto THEN Pruned(Live, MaxRecords) ELSE {Live} :
           \/ /\ \/ gw[g].auto /\ Cardinality(Records(d)) > MaxRecords
                 \/ Candidates(d) = {}
              /\ gw' = [gw EXCEPT ![g] = Released(g)] /\ lock' = Free
              /\ UNCHANGED op
           \/ /\ gw[g].auto => Cardinality(Records(d)) <= MaxRecords
              /\ UNCHANGED lock
              /\ \E c \in Candidates(d) :
                   IF c[1] = Live
                   THEN gw' = [gw EXCEPT ![g].mem = c[1], ![g].limit = c[2]] /\ UNCHANGED op
                   ELSE /\ gw' = [gw EXCEPT ![g].limit = c[2]]
                        /\ Begins(g, "load", {}, <<"live">>, c[1], Empty,
                                  Ask(g, {}, c[2], TRUE, TRUE))
  /\ UNCHANGED <<docs, durable, told, storeFaults, outages>>

Unchanged(g) == UNCHANGED <<docs, durable, lock, gw, told, storeFaults, outages>>

Room(g, doc) == IF gw[g].auto THEN Pruned(doc, MaxRecords - 1) ELSE {doc}

Puts(g, t) ==
  /\ Serves(g) /\ told[t] = "new" /\ gw[g].mem[t] = Absent
  /\ \E d \in Room(g, gw[g].mem) :
       /\ Cardinality(Records(d)) < MaxRecords
       /\ Begins(g, "put", {t}, <<"live">>, [d EXCEPT ![t] = "queued"], Empty, Strict(g, {t}))
  /\ Unchanged(g)

\* A write that ends a task uses up the room that was kept for it.
UpdateAsks(g, t, status) == Ask(g, {t}, gw[g].limit, status \notin Prunable, FALSE)

Updates(g, t) ==
  /\ Serves(g)
  /\ \E status \in Moves(gw[g].mem[t]) :
       Begins(g, "update", {t}, <<"live">>, [gw[g].mem EXCEPT ![t] = status], Empty,
              UpdateAsks(g, t, status))
  /\ Unchanged(g)

Deletes(g, t) ==
  /\ Serves(g) /\ gw[g].mem[t] \in Terminal
  /\ Begins(g, "delete", {t}, <<"live">>, Without(gw[g].mem, {t}), Empty, Plain(g))
  /\ Unchanged(g)

Prunes(g) ==
  /\ Serves(g)
  /\ \E d \in Pruned(gw[g].mem, MaxRecords) :
       /\ d # gw[g].mem
       /\ Begins(g, "prune", {}, <<"live">>, d, Empty, Plain(g))
  /\ Unchanged(g)

\* Mutant: the live document first.
ArchivesLiveFirst == <<"live", "archive">>

\* In which order a record moves to the archive.
ArchiveOrder == <<"archive", "live">>

\* The archive is read whole, and refused past the size of a live document.
Readable == Size(Archive) <= Maximum

Swept(mem) == Having(mem, {"read"})

\* One task, or whatever the owner has read.
Archives(g) ==
  /\ Serves(g) /\ Readable
  /\ \E moved \in {{t} : t \in Having(gw[g].mem, Terminal)} \cup {Swept(gw[g].mem)} :
       /\ moved # {}
       /\ Begins(g, "archive", moved, ArchiveOrder, Without(gw[g].mem, moved),
                 [t \in Tasks |-> IF t \in moved THEN gw[g].mem[t] ELSE Archive[t]], Plain(g))
  /\ Unchanged(g)

Restores(g, t) ==
  /\ Serves(g) /\ Readable /\ Archive[t] # Absent
  /\ \/ /\ gw[g].mem[t] # Absent
        /\ Begins(g, "undouble", {t}, <<"archive">>, gw[g].mem, Without(Archive, {t}), Plain(g))
     \/ /\ gw[g].mem[t] = Absent
        /\ \E d \in Room(g, gw[g].mem) :
             /\ Cardinality(Records(d)) < MaxRecords
             /\ Begins(g, "restore", {t}, <<"live", "archive">>, [d EXCEPT ![t] = Archive[t]],
                       Without(Archive, {t}), Strict(g, {t}))
  /\ Unchanged(g)

DeletesArchived(g, t) ==
  /\ Serves(g) /\ Readable /\ Archive[t] # Absent
  /\ Begins(g, "delete archived", {t}, <<"archive">>, gw[g].mem, Without(Archive, {t}), Plain(g))
  /\ Unchanged(g)

(* The writes of an operation *)

Writing(g, file) == op[g].kind \notin {"idle", "lock"} /\ op[g].at = "write" /\ Head(op[g].todo) = file
Syncing(g, file) == op[g].kind \notin {"idle", "lock"} /\ op[g].at = "sync" /\ Head(op[g].todo) = file

\* An operation that fails; a failed load gives the lock back if it can.
Rejects(g) ==
  /\ op' = [op EXCEPT ![g] = Idle]
  /\ IF gw[g].mem = NotLoaded /\ Owns(g)
     THEN gw' = [gw EXCEPT ![g] = Released(g)] /\ lock' = Free
     ELSE UNCHANGED <<gw, lock>>

Poisons(g) ==
  /\ op' = [op EXCEPT ![g] = Idle]
  /\ gw' = [gw EXCEPT ![g].poisoned = TRUE]
  /\ UNCHANGED lock

\* What a write of the live document takes from memory without moving it.
Forgotten(g, next) ==
  IF op[g].kind = "load" THEN Records(Live) \ Records(next)
  ELSE (Records(gw[g].mem) \ Records(next)) \ (IF op[g].kind = "archive" THEN op[g].tasks ELSE {})

LiveReplaced(g) ==
  /\ Writing(g, "live") /\ Owns(g)
  /\ \E next \in Fitted(op[g].next, op[g].ask) :
       /\ docs' = [docs EXCEPT !.live = next]
       /\ op' = [op EXCEPT ![g].at = "sync", ![g].next = next]
       /\ told' = [t \in Tasks |-> IF t \in Forgotten(g, next) THEN "gone" ELSE told[t]]
  /\ durable' = durable \cup {docs'}
  /\ UNCHANGED <<lock, gw, storeFaults, outages>>

ArchiveReplaced(g) ==
  /\ Writing(g, "archive") /\ Owns(g)
  /\ docs' = [docs EXCEPT !.archive = op[g].archived]
  /\ op' = [op EXCEPT ![g].at = "sync"]
  /\ told' = [t \in Tasks |->
       IF op[g].kind = "delete archived" /\ t \in op[g].tasks /\ op[g].next[t] = Absent
       THEN "gone" ELSE told[t]]
  /\ durable' = durable \cup {docs'}
  /\ UNCHANGED <<lock, gw, storeFaults, outages>>

\* No room, or the temporary file cannot be written: nothing is replaced.
WriteFails(g) ==
  /\ \/ Writing(g, "live") /\ Owns(g) /\ Fitted(op[g].next, op[g].ask) = {}
        /\ UNCHANGED storeFaults
     \/ (Writing(g, "live") \/ Writing(g, "archive")) /\ Owns(g) /\ MayFail("write")
  /\ Rejects(g)
  /\ UNCHANGED <<docs, durable, told, outages>>

\* The lock is gone before the write or after it.
WriteDisowned(g) ==
  /\ Writing(g, "live") \/ Writing(g, "archive") \/ Syncing(g, "live")
  /\ ~Owns(g)
  /\ Poisons(g)
  /\ UNCHANGED <<docs, durable, told, storeFaults, outages>>

\* After a rename nobody can say what a restart would find.
LiveSyncFails(g) ==
  /\ Syncing(g, "live") /\ MayFail("sync")
  /\ Poisons(g)
  /\ UNCHANGED <<docs, durable, told, outages>>

ArchiveSyncFails(g) ==
  /\ Syncing(g, "archive")
  /\ MayFail(IF op[g].kind = "restore" THEN "restore" ELSE "archive")
  /\ Rejects(g)
  /\ UNCHANGED <<docs, durable, told, outages>>

\* What the caller is told once its operation is through.
ToldOf(g, t) ==
  IF t \notin op[g].tasks THEN told[t]
  ELSE CASE op[g].kind \in {"put", "update", "restore"} -> op[g].next[t]
         [] op[g].kind = "archive" -> op[g].archived[t]
         [] OTHER -> told[t]

\* A store is back at its normal limit once that holds all its reserves.
LimitAfter(g) ==
  IF gw[g].auto /\ (Fits(op[g].next, Strict(g, {})) \/ op[g].ask.limit = MaxUnits)
  THEN MaxUnits ELSE gw[g].limit

WriteLands(g, file) ==
  /\ Syncing(g, file)
  /\ file = "live" => Owns(g)
  /\ durable' = {docs}
  /\ LET limit == IF file = "live" THEN LimitAfter(g) ELSE gw[g].limit
         last == Len(op[g].todo) = 1
     IN  /\ gw' = [gw EXCEPT ![g].limit = limit, ![g].mem = IF last THEN op[g].next ELSE @]
         /\ op' = [op EXCEPT ![g] =
                     IF last THEN Idle
                     ELSE [op[g] EXCEPT !.todo = Tail(op[g].todo), !.at = "write"]]
         /\ told' = [t \in Tasks |-> IF last THEN ToldOf(g, t) ELSE told[t]]
  /\ UNCHANGED <<docs, lock, storeFaults, outages>>

(* The ends of a process *)

Closes(g) ==
  /\ gw[g].up /\ ~gw[g].closed
  /\ gw' = [gw EXCEPT ![g].closed = TRUE]
  /\ UNCHANGED <<docs, durable, lock, op, told, storeFaults, outages>>

\* Behind the last operation; a store that lost its lock or its certainty
\* leaves the lock to the operator.
Leaves(g) ==
  /\ gw[g].closed /\ op[g] = Idle
  /\ gw' = [gw EXCEPT ![g] = Down]
  /\ lock' = IF Owns(g) THEN IF gw[g].poisoned THEN [lock EXCEPT !.by = Dead] ELSE Free ELSE lock
  /\ UNCHANGED <<docs, durable, op, told, storeFaults, outages>>

Gone(who) == IF lock.by \in who THEN [lock EXCEPT !.by = Dead] ELSE lock

Crashes(g) ==
  /\ gw[g].up /\ outages < MaxOutages
  /\ outages' = outages + 1
  /\ gw' = [gw EXCEPT ![g] = Down] /\ op' = [op EXCEPT ![g] = Idle]
  /\ lock' = Gone({g})
  /\ UNCHANGED <<docs, durable, told, storeFaults>>

PowerFails ==
  /\ outages < MaxOutages
  /\ outages' = outages + 1
  /\ docs' \in durable /\ durable' = {docs'}
  /\ gw' = [g \in Gateways |-> Down] /\ op' = [g \in Gateways |-> Idle]
  /\ lock' = Gone(Gateways)
  /\ UNCHANGED <<told, storeFaults>>

StoreNext ==
  \/ \E g \in Gateways :
       \/ Starts(g) \/ MakesLock(g) \/ SignsLock(g) \/ LosesLock(g) \/ Loads(g)
       \/ Prunes(g) \/ Archives(g)
       \/ LiveReplaced(g) \/ ArchiveReplaced(g) \/ WriteFails(g) \/ WriteDisowned(g)
       \/ LiveSyncFails(g) \/ ArchiveSyncFails(g)
       \/ Closes(g) \/ Leaves(g) \/ Crashes(g)
       \/ \E file \in {"live", "archive"} : WriteLands(g, file)
       \/ \E t \in Tasks :
            \/ Puts(g, t) \/ Updates(g, t) \/ Deletes(g, t)
            \/ Restores(g, t) \/ DeletesArchived(g, t)
  \/ Unlocks \/ PowerFails

StoreSpec == StoreInit /\ [][StoreNext]_storeVars

(* Properties *)

StoreFiles == [live : Document, archive : Document]

LockState == [by : Gateways \cup {Nobody, Dead}, owner : BOOLEAN]

\* The ways through the two files.
Todos == {<<"live">>, <<"archive">>, <<"archive", "live">>, <<"live", "archive">>}

Gateway ==
  [up : BOOLEAN, mem : Document \cup {NotLoaded}, held : BOOLEAN, poisoned : BOOLEAN,
   closed : BOOLEAN, auto : BOOLEAN, limit : {MaxUnits, Maximum}]

Request ==
  [auto : BOOLEAN, kept : SUBSET Tasks, limit : {MaxUnits, Maximum}, queued : BOOLEAN,
   control : BOOLEAN]

Plan ==
  [kind : {"load", "put", "update", "delete", "prune", "archive", "undouble", "restore",
           "delete archived"},
   tasks : SUBSET Tasks, todo : Todos, next : Document, archived : Document, ask : Request,
   at : {"write", "sync"}]

\* Documents, lock, processes and what callers were told.
StoreTypeOK ==
  /\ docs \in StoreFiles /\ docs \in durable /\ durable \subseteq StoreFiles
  /\ lock \in LockState
  /\ gw \in [Gateways -> Gateway]
  /\ op \in [Gateways -> Plan \cup {Idle, [kind |-> "lock"]}]
  /\ told \in [Tasks -> Stored \cup {"new", "gone"}]
  /\ storeFaults \in 0..MaxStoreFaults /\ outages \in 0..MaxOutages

\* What a caller was told is stored survives: whatever a power loss leaves of
\* the two files, one of them has the task, at least as far as told, until it
\* is deleted or pruned (the order of the writes of archive() and restore(),
\* file-task-store.ts:404-520).
AckedIsKept ==
  \A t \in Tasks : told[t] \notin {"new", "gone"} =>
    \A d \in durable : Rank(d.live[t]) >= Rank(told[t]) \/ Rank(d.archive[t]) >= Rank(told[t])

\* Two processes never both take themselves for the writer, whatever crashes
\* and unlocks came before (acquireLock, clearAbandonedTaskStoreLock).
OneHolder ==
  \A g, h \in Gateways : gw[g].held /\ gw[h].held /\ ~gw[g].poisoned /\ ~gw[h].poisoned => g = h

\* The room kept at admission is enough: the end of an admitted task can
\* always be written (capacityReserveBytes, update()).
WorkCanFinish ==
  \A g \in Gateways : gw[g].auto /\ gw[g].mem # NotLoaded =>
    \A t \in Having(gw[g].mem, {"active"}) :
      Fitted([gw[g].mem EXCEPT ![t] = "unread"], UpdateAsks(g, t, "unread")) # {}

\* One writer, whose documents have room for the work it lets in.
StoreKept == StoreTypeOK /\ OneHolder /\ WorkCanFinish

\* No run checks this: it fails.  The archive is written without a bound and
\* refused when it is read past the size of a live document; from then on
\* nothing is archived or restored (readArchiveDocument, file-task-store.ts:746-791).
ArchiveStaysReadable == Readable
=============================================================================
