------------------------------ MODULE MCStore ------------------------------
(***************************************************************************)
(* The stores, each on its own: the documents of the tasks with the        *)
(* gateways that share them, the event log of a record, the supervisor's   *)
(* turns at one record with its notes, and the file of the agent watches.  *)
(***************************************************************************)
EXTENDS FileTaskStore, TaskJournal, AgentWatchFile, TLC

CONSTANTS
  k1, k2,   \* tasks
  g1, g2,   \* gateway processes
  w1, w2    \* watches

VARIABLE store \* which of them this behaviour is about

writerVars == <<record, buffer, turn, timers, journal>>

MCInit ==
  /\ store \in {"tasks", "events", "journal", "watches"}
  /\ StoreInit /\ JournalInit /\ FileInit
  /\ store # "tasks" => docs.live = Empty

MCNext ==
  /\ UNCHANGED store
  /\ \/ store = "tasks" /\ StoreNext /\ UNCHANGED <<journalVars, fileVars>>
     \/ store = "events" /\ EventNext /\ UNCHANGED <<writerVars, storeVars, fileVars>>
     \/ store = "journal" /\ JournalNext /\ UNCHANGED <<storeVars, fileVars>>
     \/ store = "watches" /\ FileNext /\ UNCHANGED <<storeVars, journalVars>>

MCSpec == MCInit /\ [][MCNext]_<<store, storeVars, journalVars, fileVars>>

\* What a record is given is kept in it.  The store takes every log the
\* supervisor makes of the one before; no note of a run is written twice, out of
\* order, or behind an update that was asked for later, every note is in the
\* record, waits with a flush due, or was let go for a reason; and a closed
\* record takes no more (task-transition.ts:327-345, task-supervisor.ts:1199-1246,
\* 1420-1489).
RecordsKept == StoreAgrees /\ ClosedIsFinal /\ []JournalKept

Sym == Permutations(Tasks) \cup Permutations(Gateways) \cup Permutations(FileWatches)

=============================================================================
