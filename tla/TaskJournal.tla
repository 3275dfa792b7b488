----------------------------- MODULE TaskJournal -----------------------------
(***************************************************************************)
(* How the supervisor writes one record: its updates take turns, each is   *)
(* repeated when the record changed under it, and what the run of the task *)
(* was seen doing is buffered and written first, as one event              *)
(* (task-supervisor.ts, mutatePersist and the notes of activity); and the  *)
(* events a record retains, numbered for its lifetime, evicted under a     *)
(* bound, refused by the schema when they do not fit its status, and       *)
(* compared by the store with the log they replace.  The store and its     *)
(* faults, another writer and the run are external.                        *)
(***************************************************************************)
EXTENDS Integers, FiniteSets, Sequences, SequencesExt

-----------------------------------------------------------------------------
(* The retained events *)

CONSTANTS MaxEvents, MaxAppends

ASSUME EventAssumption == MaxEvents \in Nat \ {0}

VARIABLES events, sequence, indeterminate
eventVars == <<events, sequence, indeterminate>>

\* "audit" stands for the events of stops, announcements, acknowledgements
\* and transitions that no notification refers to.
Event == [n : 1..MaxAppends, type : {"progress", "audit", "unknown"}]

NewTask == [n |-> 1, type |-> "audit"]
EventInit == events = <<NewTask>> /\ sequence = 1 /\ indeterminate = FALSE

IsProgress(e) == e.type = "progress"
NotProgress(e) == ~IsProgress(e)
Newest(s, n) == SubSeq(s, Len(s) - (IF Len(s) < n THEN Len(s) ELSE n) + 1, Len(s))

\* Mutant: the oldest events go first, whatever they are.
RetainedNewest(log, event) == Newest(Append(log, event), MaxEvents)

\* Progress is evicted first, the oldest before the others; what then is
\* still too long sheds its oldest events.
Retained(log, event) ==
  LET all == Append(log, event)
      audit == Len(SelectSeq(all, NotProgress))
      kept == Newest(SelectSeq(all, IsProgress), IF audit < MaxEvents THEN MaxEvents - audit ELSE 0)
      Stays(e) == NotProgress(e) \/ Contains(kept, e)
  IN  IF Len(all) <= MaxEvents THEN all ELSE Newest(SelectSeq(all, Stays), MaxEvents)

\* What the schema asks of a log: ordered, up to date, and holding the event
\* its notification is about.
Valid(log, n, unknown) ==
  /\ Len(log) > 0 /\ Last(log).n = n
  /\ \A i \in 1..Len(log) - 1 : log[i].n < log[i + 1].n
  /\ unknown => \E i \in DOMAIN log : log[i].type = "unknown"

\* An event the task would log next, and where its status would stand.
Appended(type) == Retained(events, [n |-> sequence + 1, type |-> type])
Takes(type, unknown) == Valid(Appended(type), sequence + 1, unknown)

Logs(type, unknown) ==
  /\ sequence < MaxAppends
  /\ Takes(type, unknown)
  /\ events' = Appended(type) /\ sequence' = sequence + 1 /\ indeterminate' = unknown

AppendsEvent == \E type \in {"progress", "audit"} : Logs(type, indeterminate)
TurnsUnknown == ~indeterminate /\ Logs("unknown", TRUE)
Recovers == indeterminate /\ Logs("audit", FALSE)

EventNext == AppendsEvent \/ TurnsUnknown \/ Recovers

EventSpec == EventInit /\ [][EventNext]_eventVars

\* What the store takes for the log that was there, less one event.
EvictOne(log) ==
  IF SelectSeq(log, IsProgress) = <<>> THEN Tail(log)
  ELSE RemoveAt(log, SelectInSeq(log, IsProgress))

StoreAccepts(log, next) == Front(next) \in {log, EvictOne(log)}

\* Whatever a record's log holds, the store takes the next event for one
\* appended, with at most the event evicted that it would evict itself
\* (task-transition.ts:327-345, file-task-store.ts:357-372).
StoreAgrees == [][StoreAccepts(events, events')]_eventVars

\* No run checks this: it fails.  A task whose log is full of lifecycle
\* events cannot log progress any more: the new event would be evicted at
\* once, and the schema refuses a log without its newest event; a comment has
\* "the latest activity keeps updating for the task's whole lifetime"
\* (task-transition.ts:330-332).
ActivityLogged == sequence < MaxAppends => Takes("progress", indeterminate)

-----------------------------------------------------------------------------
(* The updates of a record *)

CONSTANTS
  MaxPending,     \* the notes that are buffered at once
  Attempts,       \* how often an update is tried
  MaxNotes, MaxTurns, MaxMishaps  \* bounds

ASSUME JournalAssumption ==
  {MaxPending, Attempts, MaxNotes, MaxTurns, MaxMishaps} \subseteq Nat

VARIABLES
  record,   \* its revision, whether it is closed, and the notes it was given
  buffer,   \* the notes not yet written, and whether the run was just observed
  turn,     \* the update whose turn it is, and those that wait for theirs
  timers,   \* which flushes are due, and whether one was just written
  journal   \* counts, the notes that were let go, and how the last update ended

journalVars == <<eventVars, record, buffer, turn, timers, journal>>

Buffered == {buffer.notes[i] : i \in DOMAIN buffer.notes}
NoEntry == [notes |-> <<>>, observed |-> FALSE]
NoTurn == [kind |-> "none", at |-> "idle", attempt |-> 0, base |-> 0, took |-> {},
           type |-> "none", heard |-> 0]

JournalInit ==
  /\ EventInit
  /\ record = [revision |-> 0, closed |-> FALSE, delegated |-> FALSE, notes |-> <<>>]
  /\ buffer = NoEntry
  /\ turn = [now |-> NoTurn, next |-> <<>>]
  /\ timers = [activity |-> FALSE, observation |-> FALSE, recent |-> FALSE]
  /\ journal = [noted |-> 0, turns |-> 0, mishaps |-> 0,
                overflowed |-> {}, late |-> {}, swept |-> {}, failing |-> FALSE, ended |-> "none"]

(* What is noted *)

Enqueued(kind) == [turn EXCEPT !.next = Append(@, kind)]

\* noteRunObservation; the heartbeat is armed once.
Observed ==
  /\ journal.turns < MaxTurns
  /\ buffer' = [buffer EXCEPT !.observed = TRUE]
  /\ timers' = [timers EXCEPT !.observation = TRUE]
  /\ journal' = [journal EXCEPT !.turns = @ + 1]
  /\ UNCHANGED <<eventVars, record, turn>>

\* handleRunEvent observes a run before it notes what the run did, and no more
\* of a record that is closed.  A first note is flushed at once, those after it
\* together.
Noted ==
  /\ ~record.closed /\ journal.noted < MaxNotes
  /\ LET all == Append(buffer.notes, journal.noted + 1)
         gone == IF Len(all) > MaxPending THEN {Head(all)} ELSE {}
     IN  /\ buffer' = [notes |-> IF gone = {} THEN all ELSE Tail(all), observed |-> TRUE]
         /\ journal' = [journal EXCEPT !.noted = @ + 1, !.overflowed = @ \cup gone]
  /\ timers' = [timers EXCEPT !.observation = TRUE, !.activity = @ \/ timers.recent]
  /\ turn' = IF timers.recent THEN turn ELSE Enqueued("flush")
  /\ UNCHANGED <<eventVars, record>>

\* flushTaskActivity by a timer: with nothing buffered it takes no turn.
TimerFires ==
  /\ \E due \in {"activity", "observation"} :
       timers[due] /\ timers' = [timers EXCEPT ![due] = FALSE]
  /\ turn' = IF buffer = NoEntry THEN turn ELSE Enqueued("flush")
  /\ UNCHANGED <<eventVars, record, buffer, journal>>

WindowCloses ==
  /\ timers.recent /\ timers' = [timers EXCEPT !.recent = FALSE]
  /\ UNCHANGED <<eventVars, record, buffer, turn, journal>>

(* The turns *)

\* An update is asked for: a change of status, one that hands the task over or
\* ends it, a finding of the monitor, a mark on the notification, or what the
\* updater refuses.
Requested ==
  /\ journal.turns < MaxTurns
  /\ \E kind \in {"move", "delegate", "close", "finding", "mark", "foreign"} : turn' = Enqueued(kind)
  /\ journal' = [journal EXCEPT !.turns = @ + 1]
  /\ UNCHANGED <<eventVars, record, buffer, timers>>

TurnBegins ==
  /\ turn.now = NoTurn /\ turn.next # <<>>
  /\ turn' = [now |-> [NoTurn EXCEPT !.kind = Head(turn.next), !.at = "load"], next |-> Tail(turn.next)]
  /\ UNCHANGED <<eventVars, record, buffer, timers, journal>>

TurnEnds(j, ended) ==
  /\ turn' = [turn EXCEPT !.now = NoTurn]
  /\ journal' = [j EXCEPT !.ended = ended,
                          !.failing = CASE ended = "failed" -> TRUE
                                        [] ended \in {"same", "written"} -> FALSE
                                        [] OTHER -> @]

\* What an update would do to the record as it was read, by the type of its
\* event: none leaves it as it is, and a closed record takes marks alone.
EventOf(kind, closed) ==
  CASE kind = "flush" \/ (closed /\ kind # "mark") -> {"none"}
    [] kind = "mark" -> {"none", "audit"}
    [] kind = "finding" -> {"progress"}
    [] kind = "move" -> {"none", "audit", "unknown"}
    [] OTHER -> {"audit"}

\* Whether the status is indeterminate after it.
LeftUnknown(kind, type) == type = "unknown" \/ (indeterminate /\ kind \in {"mark", "finding"})

\* The updater runs on what was read, outside what counts as a failure of the
\* store; the schema may refuse what it makes.
Prepares(t, j, closed, log, n, revision) ==
  \E type \in EventOf(t.kind, closed) :
    IF t.kind = "foreign" THEN TurnEnds(j, "refused")
    ELSE IF type = "none" THEN TurnEnds(j, "same")
    ELSE IF ~Valid(Retained(log, [n |-> n + 1, type |-> type]), n + 1, LeftUnknown(t.kind, type))
    THEN TurnEnds(j, "stuck")
    ELSE /\ turn' = [turn EXCEPT !.now = [t EXCEPT !.at = "update", !.base = revision, !.type = type]]
         /\ journal' = j

\* mutatePersist up to its first write.
ReadsRecord ==
  /\ turn.now.at = "load"
  /\ LET t == [turn.now EXCEPT !.heard = journal.noted] IN
     IF buffer = NoEntry
     THEN Prepares(t, journal, record.closed, events, sequence, record.revision) /\ UNCHANGED buffer
     ELSE IF record.closed
     THEN /\ buffer' = NoEntry
          /\ Prepares(t, [journal EXCEPT !.late = @ \cup Buffered], TRUE, events, sequence, record.revision)
     ELSE IF buffer.notes # <<>> /\ ~Takes("progress", indeterminate)
     THEN TurnEnds(journal, "stuck") /\ UNCHANGED buffer
     ELSE \/ /\ turn' = [turn EXCEPT !.now = [t EXCEPT !.at = "activity", !.base = record.revision,
                                                       !.took = Buffered]]
             /\ UNCHANGED <<buffer, journal>>
          \/ /\ buffer.notes = <<>> /\ buffer' = NoEntry
             /\ Prepares(t, journal, FALSE, events, sequence, record.revision)
  /\ UNCHANGED <<eventVars, record, timers>>

\* The buffer is emptied, whatever came into it since it was read.
ActivityWritten ==
  /\ turn.now.at = "activity" /\ turn.now.base = record.revision
  /\ LET late == Buffered \ turn.now.took
         was == turn.now.took # {}
         log == IF was THEN Appended("progress") ELSE events
         n == IF was THEN sequence + 1 ELSE sequence
     IN  /\ was => sequence < MaxAppends
         /\ record' = [record EXCEPT !.revision = @ + 1, !.notes = @ \o SetToSortSeq(turn.now.took, <)]
         /\ events' = log /\ sequence' = n /\ UNCHANGED indeterminate
         /\ buffer' = NoEntry
         /\ timers' = [timers EXCEPT !.recent = TRUE]
         /\ Prepares(turn.now, [journal EXCEPT !.swept = @ \cup late], FALSE, log, n, record.revision + 1)

\* A task that is handed over is no longer flushed by its timers.
UpdateWritten ==
  /\ turn.now.at = "update" /\ turn.now.base = record.revision /\ sequence < MaxAppends
  /\ events' = Appended(turn.now.type) /\ sequence' = sequence + 1
  /\ indeterminate' = LeftUnknown(turn.now.kind, turn.now.type)
  /\ record' = [record EXCEPT !.revision = @ + 1, !.closed = @ \/ turn.now.kind = "close",
                             !.delegated = @ \/ turn.now.kind = "delegate"]
  /\ timers' = IF turn.now.kind = "delegate" THEN [timers EXCEPT !.activity = FALSE, !.observation = FALSE]
               ELSE timers
  /\ TurnEnds(journal, "written")
  /\ UNCHANGED buffer

\* The record changed since it was read: the turn begins again, so often.
Conflicts ==
  /\ turn.now.at \in {"activity", "update"} /\ turn.now.base # record.revision
  /\ IF turn.now.attempt + 1 < Attempts
     THEN /\ turn' = [turn EXCEPT !.now = [NoTurn EXCEPT !.kind = turn.now.kind, !.at = "load",
                                                         !.attempt = turn.now.attempt + 1]]
          /\ UNCHANGED journal
     ELSE TurnEnds(journal, "failed")
  /\ UNCHANGED <<eventVars, record, buffer, timers>>

StoreFails ==
  /\ turn.now.at # "idle" /\ journal.mishaps < MaxMishaps
  /\ TurnEnds([journal EXCEPT !.mishaps = @ + 1], "failed")
  /\ UNCHANGED <<eventVars, record, buffer, timers>>

\* Another writer of the store marks the record.
OtherWrites ==
  /\ journal.mishaps < MaxMishaps /\ turn.now.at # "idle" /\ Logs("audit", indeterminate)
  /\ record' = [record EXCEPT !.revision = @ + 1]
  /\ journal' = [journal EXCEPT !.mishaps = @ + 1]
  /\ UNCHANGED <<buffer, turn, timers>>

JournalNext ==
  \/ Observed \/ Noted \/ TimerFires \/ WindowCloses \/ Requested \/ TurnBegins
  \/ ReadsRecord \/ ActivityWritten \/ UpdateWritten \/ Conflicts \/ StoreFails \/ OtherWrites

JournalSpec == JournalInit /\ [][JournalNext]_journalVars

-----------------------------------------------------------------------------
\* No note is written twice, out of order, or after an update that was asked for
\* later than it; it is in the record, waits, or was let go for a reason
\* (task-supervisor.ts:1436-1444).
NotesAreKept ==
  LET written == {record.notes[i] : i \in DOMAIN record.notes} IN
  /\ \A i \in 1..Len(record.notes) - 1 : record.notes[i] < record.notes[i + 1]
  /\ 1..journal.noted = written \cup Buffered \cup journal.overflowed \cup journal.late \cup journal.swept
  /\ Buffered \cap (written \cup journal.late) = {}
  /\ turn.now.at = "update" => \A n \in Buffered : n > turn.now.heard

\* What is buffered will be written without anything else being done, unless the
\* last update failed or the task was handed over (1210-1225, 1440).
NotesAreDue ==
  buffer.notes = <<>> \/ timers.activity \/ timers.observation \/ turn.now # NoTurn \/ turn.next # <<>>
    \/ record.delegated \/ journal.ended \in {"failed", "stuck"}

\* A closed record takes no more notes, and stays closed (1439-1443).
ClosedIsFinal == [][record.closed => record'.closed /\ record'.notes = record.notes]_journalVars

JournalKept == NotesAreKept /\ NotesAreDue

\* No run checks these: they fail.  What is noted while a flush is written goes
\* with the buffer it came into (task-supervisor.ts:1436-1454, "so it can never
\* be lost to or reordered after the requested update").
NoNoteIsLost == journal.swept = {}

\* Notes that the log of a task does not take refuse every later update of the
\* task, the one that ends it too, until the supervisor starts anew (1445).
NoTaskIsStuck == journal.ended # "stuck"
=============================================================================
