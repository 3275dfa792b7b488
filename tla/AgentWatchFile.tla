--------------------------- MODULE AgentWatchFile ---------------------------
(***************************************************************************)
(* The file of the agent watches: operations, one after the other, change  *)
(* the registry in memory and then replace the file.  A refused or failed  *)
(* write leaves the change in memory.                                      *)
(***************************************************************************)
EXTENDS Integers, FiniteSets

CONSTANTS
  FileWatches,
  MaxRevision,
  MaxFileWatches,  \* how many of them the file's size limit has room for
  MaxFileFaults, MaxFileCrashes

ASSUME FileAssumption ==
  MaxRevision \in Nat \ {0} /\ MaxFileFaults \in Nat /\ MaxFileCrashes \in Nat

VARIABLES
  registry,    \* revisions in memory, 0 for none
  file,        \* revisions in the file
  writing,     \* the operation whose write is under way
  answered,    \* the revision callers were last told is stored
  fileFaults, fileCrashes

fileVars == <<registry, file, writing, answered, fileFaults, fileCrashes>>

Registry == [FileWatches -> 0..MaxRevision]
Unloaded == [w \in {} |-> 0]
NoWrite == [of |-> "nothing"]

FileInit ==
  /\ registry = Unloaded /\ file = [w \in FileWatches |-> 0]
  /\ writing = NoWrite /\ answered = file
  /\ fileFaults = 0 /\ fileCrashes = 0

Loaded(w) == w \in DOMAIN registry /\ writing = NoWrite

LoadsFile ==
  /\ registry = Unloaded
  /\ registry' = file
  /\ UNCHANGED <<file, writing, answered, fileFaults, fileCrashes>>

\* Mutant: the snapshot is taken before the change.
SnapshotBefore(next) == registry

\* What a write puts into the file: the registry with its change.
Snapshot(next) == next

\* An operation on a watch changes the registry first.
Changes(w, revision) ==
  LET next == [registry EXCEPT ![w] = revision]
  IN  /\ Loaded(w)
      /\ registry' = next
      /\ writing' = [of |-> w, snapshot |-> Snapshot(next)]
      /\ answered' = [answered EXCEPT ![w] = IF revision = 0 THEN 0 ELSE @]
      /\ UNCHANGED <<file, fileFaults, fileCrashes>>

\* put and update: the next revision; delete: none.
PutsWatch(w) == Loaded(w) /\ registry[w] = 0 /\ answered[w] = 0 /\ Changes(w, 1)
UpdatesWatch(w) ==
  Loaded(w) /\ registry[w] \in 1..MaxRevision - 1 /\ Changes(w, registry[w] + 1)
DeletesWatch(w) == Loaded(w) /\ registry[w] = MaxRevision /\ Changes(w, 0)

Oversized(snapshot) == Cardinality({w \in FileWatches : snapshot[w] > 0}) > MaxFileWatches

WritesFile ==
  /\ writing # NoWrite /\ ~Oversized(writing.snapshot)
  /\ file' = writing.snapshot
  /\ answered' = [answered EXCEPT ![writing.of] = registry[writing.of]]
  /\ writing' = NoWrite
  /\ UNCHANGED <<registry, fileFaults, fileCrashes>>

FileWriteFails ==
  /\ writing # NoWrite
  /\ \/ Oversized(writing.snapshot) /\ UNCHANGED fileFaults
     \/ fileFaults < MaxFileFaults /\ fileFaults' = fileFaults + 1
  /\ writing' = NoWrite
  /\ UNCHANGED <<registry, file, answered, fileCrashes>>

\* The gateway is killed before or after the rename.
FileCrash ==
  /\ fileCrashes < MaxFileCrashes
  /\ registry' = Unloaded /\ writing' = NoWrite
  /\ fileCrashes' = fileCrashes + 1
  /\ \/ UNCHANGED file
     \/ writing # NoWrite /\ ~Oversized(writing.snapshot) /\ file' = writing.snapshot
  /\ UNCHANGED <<answered, fileFaults>>

FileNext ==
  \/ LoadsFile \/ WritesFile \/ FileWriteFails \/ FileCrash
  \/ \E w \in FileWatches : PutsWatch(w) \/ UpdatesWatch(w) \/ DeletesWatch(w)

FileSpec == FileInit /\ [][FileNext]_fileVars

\* Revisions in memory, in the file and in the callers' hands.
FileTypeOK ==
  /\ registry \in Registry \cup {Unloaded} /\ file \in Registry /\ answered \in Registry
  /\ writing # NoWrite => writing.of \in FileWatches /\ writing.snapshot \in Registry
  /\ fileFaults \in 0..MaxFileFaults /\ fileCrashes \in 0..MaxFileCrashes

\* A revision whose writer was answered is in the file, or a later one is,
\* until its deletion is asked for (file-agent-watch-store.ts:104-118, 215-246).
AnsweredIsFiled ==
  FileTypeOK /\ \A w \in FileWatches : answered[w] <= file[w]

\* No run checks this: it fails.  A change whose write was refused stays in
\* memory, is served from there, and rides on the next write that succeeds
\* (file-agent-watch-store.ts:118-144).
RefusedIsUndone == registry # Unloaded /\ writing = NoWrite => registry = file
=============================================================================
