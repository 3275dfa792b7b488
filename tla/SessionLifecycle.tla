-------------------------- MODULE SessionLifecycle --------------------------
(***************************************************************************)
(* How the live voice sessions of one owner start and end.  A start goes   *)
(* through many awaits (Hermes, the conversation, the provider's connect   *)
(* and readiness, the lists of the task inbox), and the client may leave   *)
(* at any of them.  What a session acquires on the way: the owner's voice, *)
(* a subscription to the task records, a provider connection, a            *)
(* subscription to the agent monitor with the timers of speech.            *)
(*                                                                         *)
(* The task inbox is one counter, the sequence of the newest record.       *)
(***************************************************************************)
EXTENDS Naturals, FiniteSets

CONSTANTS
  Sessions,
  NoSession,
  MaxSequence,   \* records written in a behaviour
  MaxStarts      \* session.start messages in a behaviour

ASSUME LifeAssumption ==
  IsFiniteSet(Sessions) /\ NoSession \notin Sessions /\ {MaxSequence, MaxStarts} \subseteq Nat

VARIABLES
  at,            \* the await of start(), or "off"
  live,          \* ~closing
  silenced,      \* voiceDemoted
  holder,        \* VoiceArbiter: who owns the voice
  follows,       \* unsubscribeTasks: records are received
  speaks,        \* externalSubscription and the announcement timers
  link,          \* the provider connection of the session
  orphan,        \* a connect that no start awaits any more
  ready,         \* readySent
  sequence,      \* the newest record of the owner
  snapshot,      \* what the lists of the inbox returned
  queued,        \* pendingTaskRecords: the newest record pushed before ready
  known,         \* the newest record the client was told of
  threads,       \* Hermes sessions with the title of the owner's voice thread
  starts         \* the counter of MaxStarts

inbox == <<sequence, snapshot, queued, known>>
owned  == <<holder, follows, speaks, link, orphan>>
lifeVars == <<at, live, silenced, ready, owned, inbox, threads, starts>>

LifeInit ==
  /\ at = [s \in Sessions |-> "off"] /\ live = [s \in Sessions |-> TRUE]
  /\ silenced = [s \in Sessions |-> FALSE] /\ holder = NoSession
  /\ follows = [s \in Sessions |-> FALSE] /\ speaks = [s \in Sessions |-> FALSE]
  /\ link = [s \in Sessions |-> "none"] /\ orphan = [s \in Sessions |-> FALSE]
  /\ ready = [s \in Sessions |-> FALSE]
  /\ sequence = 0 /\ snapshot = [s \in Sessions |-> 0] /\ queued = [s \in Sessions |-> 0]
  /\ known = [s \in Sessions |-> 0] /\ threads = 0 /\ starts = 0

\* Mutant: a session that is still starting keeps its voice.
SilencesReady(s) ==
  silenced' = [r \in Sessions |-> silenced[r] \/ (r # s /\ r = holder /\ live[r] /\ ready[r])]

\* VoiceArbiter.claim: the holder before is demoted.
Silences(s) ==
  silenced' = [r \in Sessions |-> silenced[r] \/ (r # s /\ r = holder /\ live[r])]

\* session.start: the newest session of the owner claims the voice.
SessionStart(s) ==
  /\ at[s] = "off" /\ live[s] /\ ~ready[s] /\ starts < MaxStarts
  /\ starts' = starts + 1
  /\ at' = [at EXCEPT ![s] = "hermes"]
  /\ holder' = s /\ Silences(s)
  /\ follows' = [follows EXCEPT ![s] = TRUE]
  /\ UNCHANGED <<live, ready, speaks, link, orphan, inbox, threads>>

Awaits(s, point) == at' = [at EXCEPT ![s] = point]
Connects(s) == Awaits(s, "connect") /\ link' = [link EXCEPT ![s] = "connecting"]

\* Hermes is ready; an unbound conversation needs nothing else of it.  A start that
\* has its answers goes on to the provider after a close; only a request fails then.
HermesReady(s, persistent) ==
  /\ at[s] = "hermes" /\ (persistent => live[s])
  /\ IF persistent THEN Awaits(s, "find") /\ UNCHANGED link ELSE Connects(s)
  /\ UNCHANGED <<live, silenced, ready, holder, follows, speaks, orphan, inbox, threads, starts>>

\* resolvePersistentConversation: the thread with the title, or a new one, also when it
\* could not be listed or read.
ThreadLooked(s) ==
  /\ at[s] = "find"
  /\ \/ live[s] /\ Awaits(s, "create") /\ UNCHANGED link
     \/ threads # 0 /\ Connects(s)
  /\ UNCHANGED <<live, silenced, ready, holder, follows, speaks, orphan, inbox, threads, starts>>

ThreadCreated(s) ==
  /\ at[s] = "create"
  /\ threads' = threads + 1 /\ Connects(s)
  /\ UNCHANGED <<live, silenced, ready, holder, follows, speaks, orphan, inbox, starts>>

\* The provider connected.  A session that closed meanwhile hangs up.
Connected(s) ==
  /\ at[s] = "connect" /\ link[s] = "connecting"
  /\ IF live[s]
       THEN Awaits(s, "open") /\ link' = [link EXCEPT ![s] = "connected"]
       ELSE Awaits(s, "off") /\ link' = [link EXCEPT ![s] = "none"]
  /\ UNCHANGED <<live, silenced, ready, holder, follows, speaks, orphan, inbox, threads, starts>>

Opened(s) ==
  /\ live[s] /\ at[s] = "open" /\ link[s] = "connected"
  /\ Awaits(s, "lists")
  /\ UNCHANGED <<live, silenced, ready, owned, inbox, threads, starts>>

\* The inbox is read; the speech gate may keep the start waiting.
Listed(s) ==
  /\ at[s] = "lists"
  /\ snapshot' = [snapshot EXCEPT ![s] = sequence] /\ Awaits(s, "gate")
  /\ UNCHANGED <<live, silenced, ready, owned, sequence, queued, known, threads, starts>>

\* mergeTaskRecords: per task the newer record of the two.
MergedRecords(s) == IF queued[s] > snapshot[s] THEN queued[s] ELSE snapshot[s]

\* The rest of start(), which does not ask whether the session closed: the
\* snapshot is sent, then the newer records that arrived before it.
SessionReady(s) ==
  /\ at[s] = "gate"
  /\ Awaits(s, "off")
  /\ ready' = [ready EXCEPT ![s] = TRUE] /\ speaks' = [speaks EXCEPT ![s] = TRUE]
  /\ known' = [known EXCEPT ![s] = MergedRecords(s)]
  /\ queued' = [queued EXCEPT ![s] = 0]
  /\ UNCHANGED <<live, silenced, holder, follows, link, orphan, sequence, snapshot, threads, starts>>

\* The catch of start(): a provider that connected is hung up.
FailedLink(s) == "none"

\* Hermes, the conversation, the provider or the inbox fails or times out
\* (after a close, its abort signal rejects what was awaited).  A connect that
\* timed out is left behind.
Fails(s) ==
  /\ at[s] \in {"hermes", "find", "create", "connect", "open", "lists"}
  /\ Awaits(s, "off")
  /\ link' = [link EXCEPT ![s] = FailedLink(s)]
  /\ \/ UNCHANGED orphan
     \/ at[s] = "connect" /\ orphan' = [orphan EXCEPT ![s] = TRUE]
  /\ follows' = [follows EXCEPT ![s] = FALSE]
  /\ UNCHANGED <<live, silenced, ready, holder, speaks, inbox, threads, starts>>

\* A connect that was left behind settles: it is hung up.
LateConnect(s) ==
  /\ orphan[s]
  /\ orphan' = [orphan EXCEPT ![s] = FALSE]
  /\ UNCHANGED <<at, live, silenced, ready, holder, follows, speaks, link, inbox, threads, starts>>

\* close() and performClose(): the client leaves, or a fatal error.
SessionClose(s) ==
  /\ live[s]
  /\ live' = [live EXCEPT ![s] = FALSE]
  /\ holder' = IF holder = s THEN NoSession ELSE holder
  /\ follows' = [follows EXCEPT ![s] = FALSE] /\ speaks' = [speaks EXCEPT ![s] = FALSE]
  /\ link' = [link EXCEPT ![s] = IF @ = "connected" THEN "none" ELSE @]
  /\ queued' = [queued EXCEPT ![s] = 0]
  /\ UNCHANGED <<at, silenced, ready, orphan, sequence, snapshot, known, threads, starts>>

\* The provider closes the connection of a ready session: so does it.
ProviderCloses(s) == ready[s] /\ link[s] = "connected" /\ SessionClose(s)

\* A record is written and pushed to every session that follows.
Written ==
  /\ sequence < MaxSequence
  /\ sequence' = sequence + 1
  /\ known' = [s \in Sessions |-> IF follows[s] /\ ready[s] THEN sequence + 1 ELSE known[s]]
  /\ queued' = [s \in Sessions |-> IF follows[s] /\ ~ready[s] THEN sequence + 1 ELSE queued[s]]
  /\ UNCHANGED <<at, live, silenced, ready, owned, snapshot, threads, starts>>

LifeNext ==
  \/ \E s \in Sessions :
       \/ SessionStart(s) \/ (\E p \in BOOLEAN : HermesReady(s, p)) \/ ThreadLooked(s) \/ ThreadCreated(s)
       \/ Connected(s) \/ Opened(s) \/ Listed(s) \/ SessionReady(s) \/ Fails(s)
       \/ LateConnect(s) \/ SessionClose(s) \/ ProviderCloses(s)
  \/ Written

LifeSpec == LifeInit /\ [][LifeNext]_lifeVars

-----------------------------------------------------------------------------
\* How far each start is, who holds the voice, and what each client knows.
LifeTypeOK ==
  /\ at \in [Sessions -> {"off", "hermes", "find", "create", "connect", "open", "lists", "gate"}]
  /\ {live, silenced, follows, speaks, orphan, ready} \subseteq [Sessions -> BOOLEAN]
  /\ holder \in Sessions \cup {NoSession}
  /\ link \in [Sessions -> {"none", "connecting", "connected"}]
  /\ sequence \in 0..MaxSequence
  /\ {snapshot, queued, known} \subseteq [Sessions -> 0..MaxSequence]
  /\ \A s \in Sessions :
       /\ (link[s] = "connecting" => at[s] = "connect")
       /\ (link[s] = "connected" => ready[s] \/ at[s] \in {"open", "lists", "gate"})
  /\ threads \in 0..MaxStarts /\ starts \in 0..MaxStarts

\* At most one session of an owner may speak and take turns, whoever starts,
\* fails, closes and starts again.
OneUnmuted == \A r, s \in Sessions :
  follows[r] /\ follows[s] /\ ~silenced[r] /\ ~silenced[s] => r = s

\* A closed session whose start is over has given everything back that others
\* pay for: the voice, the task subscription, the provider.
ClosedReleases == \A s \in Sessions : ~live[s] /\ at[s] = "off" =>
  holder # s /\ ~follows[s] /\ link[s] = "none"

\* The client of a ready session knows the newest record: none falls between
\* the lists of the start and the subscription.
ReadyKnowsLatest == \A s \in Sessions : ready[s] /\ live[s] => known[s] = sequence

\* One session speaks, nothing a session took is left behind, and nothing it
\* must know is missing.
LifecycleKept == LifeTypeOK /\ OneUnmuted /\ ClosedReleases /\ ReadyKnowsLatest

\* No run checks this: it fails.  A start that goes on after a close arms the
\* subscription it was about to arm (live-gateway-session.ts:599-706).
ClosedIsQuiet == \A s \in Sessions : ~live[s] /\ at[s] = "off" => ~speaks[s]

\* No run checks this: it fails.  A session silenced in between stays silent
\* when it claims again; voice-arbiter.ts:2-3 says the newest session wins.
NewestSpeaks == holder # NoSession => ~silenced[holder]

\* No run checks this: it fails.  Two devices that look for the thread
\* together both create one (live-gateway-session.ts:1083-1119).
OneThread == threads <= 1
=============================================================================
