--------------------------- MODULE LiveSessionProofs ---------------------------
(***************************************************************************)
(* What the live sessions of an owner keep: one of them has the voice, one *)
(* that ended has given back what it took, and the client of a ready one   *)
(* knows the newest record; a tool call is executed once, and a cancelled  *)
(* one is never answered; nothing is recorded as announced before it was   *)
(* heard, and every claim belongs to a flush under way; the utterances of  *)
(* the sidecar are begun in order and once, and its filler goes on within  *)
(* its budget; what queues behind a response of the local runtime is let   *)
(* out by something.  For every value of the constants of                  *)
(* SessionLifecycle, SessionInput, SessionSpeech, SpeechOutput and         *)
(* LocalVoiceSession.                                                      *)
(***************************************************************************)
EXTENDS SessionLifecycle, SessionInput, SessionSpeech, SpeechOutput, LocalVoiceSession,
        FiniteSetTheorems, SequenceTheorems, WellFoundedInduction, TLAPS

-----------------------------------------------------------------------------
(* Starts and ends *)

\* Sessions that may still create a thread.
Looking == {s \in Sessions : at[s] \in {"hermes", "find", "create"}}

\* What a session has at each point of its life.
SessionOK(s) ==
  /\ at[s] # "off" => ~ready[s]
  /\ live[s] /\ (at[s] # "off" \/ ready[s]) => follows[s]
  /\ ~live[s] => holder # s /\ ~follows[s] /\ link[s] # "connected"
  /\ follows[s] /\ ~silenced[s] => holder = s
  /\ link[s] = "connecting" => at[s] = "connect"
  /\ link[s] = "connected" => ready[s] \/ at[s] \in {"open", "lists", "gate"}

\* What it knows of the records.
KnowsOK(s) ==
  /\ snapshot[s] <= sequence /\ queued[s] <= sequence /\ known[s] <= sequence
  /\ live[s] /\ at[s] = "gate" => snapshot[s] = sequence \/ queued[s] = sequence
  /\ live[s] /\ ready[s] => known[s] = sequence

\* The inductive invariant.
LifeInv ==
  /\ LifeTypeOK
  /\ \A s \in Sessions : SessionOK(s) /\ KnowsOK(s)
  /\ threads + Cardinality(Looking) <= starts

LEMMA LifeInitial ==
  ASSUME LifeInit
  PROVE  LifeInv
<1> USE DEF LifeInit
<1>1. LifeTypeOK BY LifeAssumption DEF LifeTypeOK
<1>2. \A s \in Sessions : SessionOK(s) /\ KnowsOK(s)
  BY LifeAssumption DEF SessionOK, KnowsOK
<1>3. Looking = {} BY DEF Looking
<1>4. QED BY <1>1, <1>2, <1>3, FS_EmptySet DEF LifeInv

LEMMA LookingFinite ==
  ASSUME LifeTypeOK
  PROVE  IsFiniteSet(Looking) /\ Cardinality(Looking) \in Nat
BY LifeAssumption, FS_Subset, FS_CardinalityType DEF Looking

SessionSteps(s) ==
  \/ SessionStart(s) \/ (\E p \in BOOLEAN : HermesReady(s, p)) \/ ThreadLooked(s)
  \/ Connected(s) \/ Opened(s) \/ Listed(s) \/ SessionReady(s) \/ Fails(s)
  \/ LateConnect(s) \/ SessionClose(s) \/ ThreadCreated(s)

\* The step of one session, but for the threads: types, holdings, records.
LEMMA LifeStep ==
  ASSUME LifeInv, NEW s \in Sessions, SessionSteps(s)
  PROVE  \A r \in Sessions : SessionOK(r)'
<1> SUFFICES ASSUME NEW r \in Sessions PROVE SessionOK(r)' OBVIOUS
<1> USE DEF LifeInv, LifeTypeOK, SessionOK, Awaits, Connects, SessionSteps
<1>0. NoSession # r BY LifeAssumption
<1>1. CASE SessionStart(s) BY <1>1 DEF SessionStart, Silences
<1>2. CASE \E p \in BOOLEAN : HermesReady(s, p) BY <1>2 DEF HermesReady
<1>3. CASE ThreadLooked(s) BY <1>3 DEF ThreadLooked
<1>4. CASE Connected(s) BY <1>4 DEF Connected
<1>5. CASE Opened(s) BY <1>5 DEF Opened, owned
<1>6. CASE Listed(s) BY <1>6 DEF Listed, owned
<1>7. CASE SessionReady(s) BY <1>7 DEF SessionReady
<1>8. CASE Fails(s) BY <1>8 DEF Fails, FailedLink
<1>9. CASE LateConnect(s) BY <1>9 DEF LateConnect
<1>10. CASE SessionClose(s) BY <1>0, <1>10 DEF SessionClose
<1>11. CASE ThreadCreated(s) BY <1>11 DEF ThreadCreated
<1>12. QED
  BY <1>1, <1>2, <1>3, <1>4, <1>5, <1>6, <1>7, <1>8, <1>9, <1>10, <1>11

LEMMA KnowsStep ==
  ASSUME LifeInv, NEW s \in Sessions, SessionSteps(s)
  PROVE  \A r \in Sessions : KnowsOK(r)'
<1> SUFFICES ASSUME NEW r \in Sessions PROVE KnowsOK(r)' OBVIOUS
<1> USE DEF LifeInv, LifeTypeOK, KnowsOK, Awaits, Connects, inbox, SessionSteps
<1>0. sequence \in Nat /\ snapshot[r] \in Nat /\ queued[r] \in Nat /\ known[r] \in Nat
  BY LifeAssumption
<1>1. CASE SessionStart(s) BY <1>0, <1>1 DEF SessionStart
<1>2. CASE \E p \in BOOLEAN : HermesReady(s, p) BY <1>0, <1>2 DEF HermesReady
<1>3. CASE ThreadLooked(s) BY <1>0, <1>3 DEF ThreadLooked
<1>4. CASE Connected(s) BY <1>0, <1>4 DEF Connected
<1>5. CASE Opened(s) BY <1>0, <1>5 DEF Opened
<1>6. CASE Listed(s) BY <1>0, <1>6 DEF Listed
<1>7. CASE SessionReady(s) BY <1>0, <1>7 DEF SessionReady, MergedRecords, SessionOK
<1>8. CASE Fails(s) BY <1>0, <1>8 DEF Fails, SessionOK
<1>9. CASE LateConnect(s) BY <1>0, <1>9 DEF LateConnect
<1>10. CASE SessionClose(s) BY <1>0, <1>10 DEF SessionClose
<1>11. CASE ThreadCreated(s) BY <1>0, <1>11 DEF ThreadCreated
<1>12. QED
  BY <1>1, <1>2, <1>3, <1>4, <1>5, <1>6, <1>7, <1>8, <1>9, <1>10, <1>11

\* The threads there are, and those that starts under way may still create.
LEMMA ThreadsStep ==
  ASSUME LifeInv, NEW s \in Sessions, SessionSteps(s)
  PROVE  /\ threads' + Cardinality(Looking') <= starts'
         /\ threads' \in 0..MaxStarts /\ starts' \in 0..MaxStarts
<1>1. /\ IsFiniteSet(Looking) /\ Cardinality(Looking) \in Nat
      /\ threads \in Nat /\ starts \in Nat /\ MaxStarts \in Nat
      /\ starts <= MaxStarts /\ threads + Cardinality(Looking) <= starts
  BY LookingFinite, LifeAssumption DEF LifeInv, LifeTypeOK
<1>2. at \in [Sessions -> {"off", "hermes", "find", "create", "connect", "open", "lists", "gate"}]
  BY DEF LifeInv, LifeTypeOK
<1>3. CASE SessionStart(s)
  <2>1. Looking' = Looking \cup {s} BY <1>2, <1>3 DEF SessionStart, Looking
  <2>2. IsFiniteSet(Looking \cup {s}) BY <1>1, FS_AddElement
  <2>3. /\ Cardinality(Looking \cup {s}) \in Nat
        /\ Cardinality(Looking \cup {s}) = IF s \in Looking THEN Cardinality(Looking)
                                            ELSE Cardinality(Looking) + 1
    BY <1>1, <2>2, FS_AddElement, FS_CardinalityType
  <2>4. threads' = threads /\ starts' = starts + 1 /\ starts < MaxStarts
    BY <1>3 DEF SessionStart
  <2>5. Cardinality(Looking') \in Nat /\ Cardinality(Looking') <= Cardinality(Looking) + 1
    BY <1>1, <2>1, <2>3
  <2>6. QED BY <1>1, <2>4, <2>5
<1>4. CASE ThreadCreated(s)
  <2>1. Looking' = Looking \ {s} /\ s \in Looking
    BY <1>2, <1>4 DEF ThreadCreated, Looking, Connects, Awaits
  <2>2. Cardinality(Looking \ {s}) = Cardinality(Looking) - 1 BY <1>1, <2>1, FS_RemoveElement
  <2>3. IsFiniteSet(Looking \ {s}) BY <1>1, FS_RemoveElement
  <2>4. Cardinality(Looking') \in Nat /\ Cardinality(Looking') = Cardinality(Looking) - 1
    BY <2>1, <2>2, <2>3, FS_CardinalityType
  <2>5. threads' = threads + 1 /\ starts' = starts BY <1>4 DEF ThreadCreated
  <2>6. QED BY <1>1, <2>4, <2>5
<1>5. CASE ~SessionStart(s) /\ ~ThreadCreated(s)
  <2>1. Looking' \subseteq Looking /\ UNCHANGED <<threads, starts>>
    BY <1>2, <1>5 DEF HermesReady, ThreadLooked, Connected, Opened, Listed, SessionReady, Fails,
                      LateConnect, SessionClose, Looking, Connects, Awaits, SessionSteps
  <2>2. Cardinality(Looking') \in Nat /\ Cardinality(Looking') <= Cardinality(Looking)
    BY <1>1, <2>1, FS_Subset, FS_CardinalityType
  <2>3. QED BY <1>1, <2>1, <2>2
<1>6. QED BY <1>3, <1>4, <1>5

LEMMA LifeTypeStep ==
  ASSUME LifeInv, NEW s \in Sessions, SessionSteps(s)
  PROVE  LifeTypeOK'
<1>1. threads' \in 0..MaxStarts /\ starts' \in 0..MaxStarts BY ThreadsStep
<1>2. \A r \in Sessions :
        /\ (link[r] = "connecting" => at[r] = "connect")'
        /\ (link[r] = "connected" => ready[r] \/ at[r] \in {"open", "lists", "gate"})'
  BY LifeStep DEF SessionOK
<1> USE <1>1, <1>2 DEF LifeInv, LifeTypeOK, Awaits, Connects, SessionSteps
<1>3. CASE SessionStart(s) BY <1>3 DEF SessionStart, Silences, inbox
<1>4. CASE \E p \in BOOLEAN : HermesReady(s, p) BY <1>4 DEF HermesReady, inbox
<1>5. CASE ThreadLooked(s) BY <1>5 DEF ThreadLooked, inbox
<1>6. CASE Connected(s) BY <1>6 DEF Connected, inbox
<1>7. CASE Opened(s) BY <1>7 DEF Opened, owned, inbox
<1>8. CASE Listed(s) BY <1>8 DEF Listed, owned
<1>9. CASE SessionReady(s) BY <1>9, LifeAssumption DEF SessionReady, MergedRecords
<1>10. CASE Fails(s)
  <2>1. orphan' \in [Sessions -> BOOLEAN] /\ follows' \in [Sessions -> BOOLEAN]
    BY <1>10 DEF Fails
  <2>2. link' \in [Sessions -> {"none", "connecting", "connected"}]
    BY <1>10 DEF Fails, FailedLink
  <2>3. at' \in [Sessions -> {"off", "hermes", "find", "create", "connect", "open", "lists", "gate"}]
    BY <1>10 DEF Fails
  <2>4. UNCHANGED <<live, silenced, ready, holder, speaks, sequence, snapshot, queued, known>>
    BY <1>10 DEF Fails, inbox
  <2>5. QED BY <2>1, <2>2, <2>3, <2>4
<1>11. CASE LateConnect(s) BY <1>11 DEF LateConnect, inbox
<1>12. CASE SessionClose(s) BY <1>12, LifeAssumption DEF SessionClose
<1>13. CASE ThreadCreated(s) BY <1>13 DEF ThreadCreated, inbox
<1>14. QED
  BY <1>3, <1>4, <1>5, <1>6, <1>7, <1>8, <1>9, <1>10, <1>11, <1>12, <1>13

\* A record is written and pushed.
LEMMA WrittenStep ==
  ASSUME LifeInv, Written
  PROVE  LifeInv'
<1> USE DEF LifeInv, Written, owned
<1>1. sequence \in Nat /\ sequence + 1 \in 0..MaxSequence
  BY LifeAssumption DEF LifeTypeOK
<1>2. \A s \in Sessions : /\ snapshot[s] \in Nat /\ queued[s] \in 0..MaxSequence
                         /\ known[s] \in 0..MaxSequence
  BY LifeAssumption DEF LifeTypeOK
<1>3. LifeTypeOK' BY <1>1, <1>2 DEF LifeTypeOK
<1>4. \A s \in Sessions : SessionOK(s)' BY DEF SessionOK
<1>5. \A s \in Sessions : KnowsOK(s)' BY <1>1, <1>2 DEF KnowsOK, SessionOK
<1>6. (threads + Cardinality(Looking) <= starts)' BY DEF Looking
<1>7. QED BY <1>3, <1>4, <1>5, <1>6

LEMMA LifeInductive ==
  ASSUME LifeInv, [LifeNext]_lifeVars
  PROVE  LifeInv'
<1>1. ASSUME NEW s \in Sessions, SessionSteps(s)
      PROVE  LifeInv'
  BY <1>1, LifeStep, KnowsStep, ThreadsStep, LifeTypeStep DEF LifeInv
<1>2. CASE Written BY <1>2, WrittenStep
<1>3. CASE UNCHANGED lifeVars
  BY <1>3 DEF lifeVars, owned, inbox, LifeInv, LifeTypeOK, SessionOK, KnowsOK, Looking
<1>4. QED BY <1>1, <1>2, <1>3 DEF LifeNext, ProviderCloses, SessionSteps

LEMMA LifeInvKept ==
  ASSUME LifeInv
  PROVE  LifecycleKept
<1> USE DEF LifeInv, SessionOK, KnowsOK
<1>1. OneUnmuted BY DEF OneUnmuted
<1>2. ClosedReleases BY DEF ClosedReleases, LifeTypeOK
<1>3. ReadyKnowsLatest BY DEF ReadyKnowsLatest
<1>4. QED BY <1>1, <1>2, <1>3 DEF LifecycleKept

\* Whoever starts, fails, closes and starts again: one session of an owner has
\* the voice, one that is closed has given back what others pay for, and the
\* client of a ready one knows the newest record (live-gateway-session.ts:516-760,
\* voice-arbiter.ts).
THEOREM LifecycleAlwaysKept == LifeSpec => []LifecycleKept
<1>1. LifeInit => LifeInv BY LifeInitial
<1>2. LifeInv /\ [LifeNext]_lifeVars => LifeInv' BY LifeInductive
<1>3. LifeInv => LifecycleKept BY LifeInvKept
<1>4. QED BY <1>1, <1>2, <1>3, PTL DEF LifeSpec

-----------------------------------------------------------------------------
(* Input and tool calls *)

\* Whether an item's place is promised: the drain is no item, and what a
\* gate scores takes its own time.
Counts(g, x) == x.kind # "drain" /\ (g => x.kind # "audio")

Before(g, x, y) == Counts(g, x) /\ Counts(g, y) => x.n < y.n

\* s itself is in order.
Rising(g, s) == \A i, j \in 1..Len(s) : i < j => Before(g, s[i], s[j])
\* Every item of s comes before every item of t.
Precedes(g, s, t) == \A i \in 1..Len(s), j \in 1..Len(t) : Before(g, s[i], t[j])
\* No item of s is newer than the n-th.
UpTo(n, s) == \A i \in 1..Len(s) : s[i].n <= n

Jobs == Item \cup {Drain}

\* What was sent (a), what the job still has (b), what is held (c) and what
\* is queued (d) are in the order in which n items arrived.
Ordered(g, a, b, c, d, n) ==
  /\ Rising(g, a) /\ Rising(g, b) /\ Rising(g, c) /\ Rising(g, d)
  /\ Precedes(g, a, b) /\ Precedes(g, a, c) /\ Precedes(g, a, d)
  /\ Precedes(g, b, c) /\ Precedes(g, b, d) /\ Precedes(g, c, d)
  /\ UpTo(n, a) /\ UpTo(n, b) /\ UpTo(n, c) /\ UpTo(n, d)

\* What the running job has not given to anyone.
Rest == IF job.left = <<>> THEN <<>> ELSE Tail(job.left)

\* A job that runs has something left; only audio is scored.
JobOK ==
  /\ job.left = <<>> <=> job.at = "idle"
  /\ job.at = "gate" => NeedsGate(Head(job.left))
  /\ UpTo(arrived, job.left) /\ UpTo(arrived, scoring)
  /\ \A i \in 1..Len(scoring) : gate /\ scoring[i].kind = "audio"

ClientTyped ==
  /\ gate \in BOOLEAN /\ open \in BOOLEAN /\ demoted \in BOOLEAN /\ flush \in BOOLEAN
  /\ arrived \in 0..MaxItems
  /\ queue \in Seq(Jobs) /\ held \in Seq(Item) /\ scoring \in Seq(Item)
  /\ job \in [left : Seq(Item), at : {"idle", "gate", "io"}, drains : BOOLEAN]
  /\ sent \in Seq(Item)

ClientInv == ClientTyped /\ JobOK /\ Ordered(gate, sent, Rest, held, queue, arrived)

CallRecords == [state : {"absent", "pending", "done"}, cancelled : BOOLEAN,
                delivery : {"not_started", "sending", "sent"}, cached : BOOLEAN]
Running == [id : Calls, does : {"execute", "replay"}, at : {"runs", "sends", "ends"}]

\* The calls c with w waiting, r running and the executions e so far.
Fit(w, r, c, e) ==
  /\ \A i \in 1..Len(w) : w[i].does = "execute" => e[w[i].id] = 0
  /\ \A i, j \in 1..Len(w) : w[i].does = "execute" /\ w[j].does = "execute" /\ i # j => w[i].id # w[j].id
  /\ \A op \in r : op.at = "sends" => /\ c[op.id].delivery \in {"sending", "sent"}
                                      /\ c[op.id].cancelled => c[op.id].delivery = "sent"
  /\ \A id \in Calls : e[id] <= 1

\* Nobody asked for a call.
Unasked(id, w, r, c, e) ==
  /\ c[id] = NoCall /\ e[id] = 0
  /\ \A i \in 1..Len(w) : w[i].id # id
  /\ \A op \in r : op.id # id

\* The operations' variables by value.
ToolsTyped(w, r, c, e) ==
  /\ c \in [Calls -> CallRecords] /\ w \in Seq(Op) /\ e \in [Calls -> Nat]
  /\ r \subseteq Running /\ IsFiniteSet(r) /\ Cardinality(r) <= MaxActive

ToolsInv ==
  /\ ToolsTyped(waiting, active, call, executed)
  /\ ledger \in Seq(Calls) /\ tombs \subseteq Calls /\ Len(ledger) <= MaxLedger
  /\ Fit(waiting, active, call, executed)
  /\ \A id \in Calls : ~Seen(id) => Unasked(id, waiting, active, call, executed)

\* The inductive invariant.
InputInv == ClientInv /\ ToolsInv /\ HeldIsReleased

LEMMA JobNumbers == \A x \in Jobs : x.n \in Int
  BY DEF Jobs, Item, Drain

LEMMA JobSeqs == Seq(Item) \subseteq Seq(Jobs)
  BY SeqMonotonic DEF Jobs

(* What the steps do to the order *)

\* An item that comes after, or before, every item of a sequence.
After(g, s, x) == \A i \in 1..Len(s) : Before(g, s[i], x)
Ahead(g, x, s) == \A i \in 1..Len(s) : Before(g, x, s[i])

LEMMA AppendWithin ==
  ASSUME NEW g, NEW s \in Seq(Jobs), NEW x \in Jobs
  PROVE  /\ Append(s, x) \in Seq(Jobs)
         /\ Rising(g, s) /\ After(g, s, x) => Rising(g, Append(s, x))
         /\ \A n \in Int : UpTo(n, s) /\ x.n <= n => UpTo(n, Append(s, x))
         /\ \A r \in Seq(Jobs) : Precedes(g, r, s) /\ After(g, r, x) => Precedes(g, r, Append(s, x))
         /\ \A r \in Seq(Jobs) : Precedes(g, s, r) /\ Ahead(g, x, r) => Precedes(g, Append(s, x), r)
<1> DEFINE t == Append(s, x)
<1>1. /\ t \in Seq(Jobs) /\ Len(t) = Len(s) + 1
      /\ \A i \in 1..Len(s) : t[i] = s[i]
      /\ t[Len(s) + 1] = x
  BY AppendProperties
<1>2. Len(s) \in Nat BY LenProperties
<1> HIDE DEF t
<1>3. Rising(g, s) /\ After(g, s, x) => Rising(g, t)
  <2> SUFFICES ASSUME Rising(g, s), After(g, s, x), NEW i \in 1..Len(t), NEW j \in 1..Len(t), i < j
               PROVE  Before(g, t[i], t[j])
    BY DEF Rising
  <2>1. CASE j = Len(s) + 1 BY <1>1, <1>2, <2>1 DEF After
  <2>2. CASE j # Len(s) + 1 BY <1>1, <1>2, <2>2 DEF Rising
  <2>3. QED BY <2>1, <2>2
<1>4. \A n \in Int : UpTo(n, s) /\ x.n <= n => UpTo(n, t)
  BY <1>1, <1>2 DEF UpTo
<1>5. \A r \in Seq(Jobs) : Precedes(g, r, s) /\ After(g, r, x) => Precedes(g, r, t)
  BY <1>1, <1>2 DEF Precedes, After
<1>6. \A r \in Seq(Jobs) : Precedes(g, s, r) /\ Ahead(g, x, r) => Precedes(g, t, r)
  BY <1>1, <1>2 DEF Precedes, Ahead
<1>7. QED BY <1>1, <1>3, <1>4, <1>5, <1>6 DEF t

\* A sequence that keeps the order of another one keeps its place.
LEMMA OrderWithin ==
  ASSUME NEW g, NEW s \in Seq(Jobs), NEW t \in Seq(Jobs), NEW k \in Nat,
         Len(t) <= Len(s) - k, \A i \in 1..Len(t) : t[i] = s[i + k]
  PROVE  /\ Rising(g, s) => Rising(g, t)
         /\ \A n : UpTo(n, s) => UpTo(n, t)
         /\ \A r \in Seq(Jobs) : Precedes(g, r, s) => Precedes(g, r, t)
         /\ \A r \in Seq(Jobs) : Precedes(g, s, r) => Precedes(g, t, r)
<1>1. Len(s) \in Nat /\ Len(t) \in Nat BY LenProperties
<1>2. \A i \in 1..Len(t) : i + k \in 1..Len(s) BY <1>1
<1>3. QED BY <1>1, <1>2 DEF Rising, UpTo, Precedes

LEMMA TailWithin ==
  ASSUME NEW g, NEW s \in Seq(Jobs), s # <<>>
  PROVE  /\ Tail(s) \in Seq(Jobs)
         /\ Rising(g, s) => Rising(g, Tail(s))
         /\ \A n : UpTo(n, s) => UpTo(n, Tail(s))
         /\ \A r \in Seq(Jobs) : Precedes(g, r, s) => Precedes(g, r, Tail(s))
         /\ \A r \in Seq(Jobs) : Precedes(g, s, r) => Precedes(g, Tail(s), r)
<1>1. Tail(s) \in Seq(Jobs) /\ Len(Tail(s)) = Len(s) - 1
      /\ \A i \in 1..Len(Tail(s)) : Tail(s)[i] = s[i + 1]
  BY HeadTailProperties
<1>2. Len(Tail(s)) <= Len(s) - 1 BY <1>1, LenProperties
<1>3. QED BY <1>1, <1>2, OrderWithin

LEMMA HeadWithin ==
  ASSUME NEW g, NEW s \in Seq(Jobs), s # <<>>
  PROVE  /\ Head(s) \in Jobs
         /\ Rising(g, s) => Ahead(g, Head(s), Tail(s))
         /\ \A n : UpTo(n, s) => Head(s).n <= n
         /\ \A r \in Seq(Jobs) : Precedes(g, r, s) => After(g, r, Head(s))
         /\ \A r \in Seq(Jobs) : Precedes(g, s, r) => Ahead(g, Head(s), r)
<1>1. Head(s) \in Jobs /\ Len(Tail(s)) = Len(s) - 1
      /\ \A i \in 1..Len(Tail(s)) : Tail(s)[i] = s[i + 1]
  BY HeadTailProperties
<1>2. Head(s) = s[1] /\ Len(s) \in Nat /\ 1 \in 1..Len(s) BY LenProperties, EmptySeq
<1>3. QED BY <1>1, <1>2 DEF Rising, UpTo, Precedes, Ahead, After

\* What does not count is in no one's way.
LEMMA OutOfOrder ==
  ASSUME NEW g, NEW x, ~Counts(g, x)
  PROVE  \A s : After(g, s, x) /\ Ahead(g, x, s)
  BY DEF After, Ahead, Before

\* What arrives is after everything that arrived.
LEMMA NewestLast ==
  ASSUME NEW g, NEW s \in Seq(Jobs), NEW n \in Int, UpTo(n, s), NEW x \in Jobs, x.n > n
  PROVE  After(g, s, x)
<1>1. \A i \in 1..Len(s) : s[i] \in Jobs BY ElementOfSeq
<1>2. QED BY <1>1, JobNumbers DEF UpTo, After, Before

LEMMA Newer ==
  ASSUME NEW s \in Seq(Jobs), NEW n \in Int, NEW m \in Int, n <= m, UpTo(n, s)
  PROVE  UpTo(m, s)
<1>1. \A i \in 1..Len(s) : s[i] \in Jobs BY ElementOfSeq
<1>2. QED BY <1>1, JobNumbers DEF UpTo

LEMMA NothingWithin ==
  ASSUME NEW g
  PROVE  /\ <<>> \in Seq(Jobs) /\ Rising(g, <<>>)
         /\ \A n : UpTo(n, <<>>)
         /\ \A r : Precedes(g, r, <<>>) /\ Precedes(g, <<>>, r)
  BY DEF Rising, UpTo, Precedes

LEMMA Smallest ==
  ASSUME NEW T, T \subseteq Nat, T # {}
  PROVE  \E i \in T : \A j \in T : i <= j
<1>1. PICK i \in T : \A j \in T : ~ (<<j, i>> \in OpToRel(<, Nat))
  BY WFMin, NatLessThanWellFounded, Zenon
<1>2. \A j \in T : ~ (j < i)
  BY <1>1, Zenon DEF OpToRel
<1>3. \A j \in T : i <= j BY <1>2
<1>4. QED BY <1>3

\* What is trimmed off is the oldest.
LEMMA TrimmedWithin ==
  ASSUME NEW s \in Seq(Item)
  PROVE  /\ Trimmed(s) \in Seq(Item)
         /\ \A g : /\ Rising(g, s) => Rising(g, Trimmed(s))
                   /\ \A n : UpTo(n, s) => UpTo(n, Trimmed(s))
                   /\ \A r \in Seq(Jobs) : Precedes(g, r, s) => Precedes(g, r, Trimmed(s))
                   /\ \A r \in Seq(Jobs) : Precedes(g, s, r) => Precedes(g, Trimmed(s), r)
<1> DEFINE excess == Len(s) - MaxHeld
           turns == {i \in 1..excess : s[i].kind # "audio"}
           cut == IF turns = {} THEN excess ELSE CHOOSE i \in turns : \A j \in turns : i <= j
<1>1. excess \in Int /\ excess <= Len(s) /\ Len(s) \in Nat BY InputAssumption, LenProperties
<1>2. Trimmed(s) = IF excess > 0 /\ Len(s) > 1 THEN SubSeq(s, cut + 1, Len(s)) ELSE s
  BY DEF Trimmed
<1>3. CASE ~ (excess > 0 /\ Len(s) > 1)
  BY <1>2, <1>3
<1>4. CASE excess > 0 /\ Len(s) > 1
  <2>1. turns \subseteq Nat BY <1>1
  <2>2. turns # {} => \E i \in turns : \A j \in turns : i <= j BY <2>1, Smallest
  <2>3. cut \in 1..excess
    <3>1. CASE turns = {} BY <3>1, <1>1, <1>4
    <3>2. CASE turns # {}
      <4>1. cut = CHOOSE i \in turns : \A j \in turns : i <= j BY <3>2
      <4>2. cut \in turns BY <4>1, <2>2, <3>2
      <4>3. QED BY <4>2
    <3>3. QED BY <3>1, <3>2
  <2> DEFINE t == SubSeq(s, cut + 1, Len(s))
  <2> HIDE DEF cut
  <2>4. \A i \in (cut + 1)..Len(s) : s[i] \in Item BY <2>3, <1>1, ElementOfSeq
  <2>5. cut + 1 \in Int BY <2>3, <1>1
  <2>6. /\ t \in Seq(Item)
        /\ Len(t) = IF cut + 1 <= Len(s) THEN Len(s) - (cut + 1) + 1 ELSE 0
        /\ \A i \in 1..(Len(s) - (cut + 1) + 1) : t[i] = s[(cut + 1) + i - 1]
    BY <2>4, <2>5, <1>1, SubSeqProperties
  <2>7. Len(t) <= Len(s) - cut /\ \A i \in 1..Len(t) : t[i] = s[i + cut]
    BY <2>6, <2>3, <1>1
  <2>8. cut \in Nat /\ s \in Seq(Jobs) /\ t \in Seq(Jobs) BY <2>3, <1>1, <2>6, JobSeqs
  <2>9. Trimmed(s) = t BY <1>2, <1>4
  <2> HIDE DEF t
  <2>10. QED BY <2>6, <2>7, <2>8, <2>9, OrderWithin
<1>5. QED BY <1>3, <1>4

LEMMA HeldWithin ==
  ASSUME NEW s \in Seq(Item), NEW x \in Item
  PROVE  /\ Held(s, x) \in Seq(Item)
         /\ \A g : /\ Rising(g, s) /\ After(g, s, x) => Rising(g, Held(s, x))
                   /\ \A n \in Int : UpTo(n, s) /\ x.n <= n => UpTo(n, Held(s, x))
                   /\ \A r \in Seq(Jobs) :
                        Precedes(g, r, s) /\ After(g, r, x) => Precedes(g, r, Held(s, x))
                   /\ \A r \in Seq(Jobs) :
                        Precedes(g, s, r) /\ Ahead(g, x, r) => Precedes(g, Held(s, x), r)
<1> DEFINE t == Append(s, x)
<1>1. s \in Seq(Jobs) /\ x \in Jobs BY JobSeqs DEF Jobs
<1>2. t \in Seq(Item) BY AppendProperties
<1>3. \A g : /\ Rising(g, s) /\ After(g, s, x) => Rising(g, t)
             /\ \A n \in Int : UpTo(n, s) /\ x.n <= n => UpTo(n, t)
             /\ \A r \in Seq(Jobs) : Precedes(g, r, s) /\ After(g, r, x) => Precedes(g, r, t)
             /\ \A r \in Seq(Jobs) : Precedes(g, s, r) /\ Ahead(g, x, r) => Precedes(g, t, r)
  BY <1>1, AppendWithin
<1>4. Held(s, x) = IF x.kind = "end" THEN t ELSE Trimmed(t) BY DEF Held
<1> HIDE DEF t
<1>5. CASE x.kind = "end" BY <1>2, <1>3, <1>4, <1>5
<1>6. CASE x.kind # "end"
  <2>1. Held(s, x) = Trimmed(t) BY <1>4, <1>6
  <2>2. QED BY <1>2, <1>3, <2>1, TrimmedWithin
<1>7. QED BY <1>5, <1>6

\* The job goes on: what it gives to the provider was next in order, and what
\* it gives to the gate is in no order.
LEMMA GoesOnOrder ==
  ASSUME NEW left \in Seq(Item), NEW drains \in BOOLEAN, NEW h \in Seq(Item), NEW q \in Seq(Jobs),
         ClientTyped, JobOK, Ordered(gate, sent, left, h, q, arrived),
         GoesOn(left, drains, h, q), UNCHANGED <<gate, demoted, arrived, scoring, open>>
  PROVE  ClientInv'
<1>1. /\ left \in Seq(Jobs) /\ h \in Seq(Jobs) /\ sent \in Seq(Jobs) /\ arrived \in Int
      /\ Drain \in Jobs
  BY JobSeqs DEF ClientTyped, Jobs
<1>2. CASE left # <<>>
  <2> DEFINE x == Head(left)
  <2>1. /\ job' = [left |-> left, at |-> IF NeedsGate(x) THEN "gate" ELSE "io", drains |-> drains]
        /\ sent' = IF NeedsGate(x) THEN sent ELSE Append(sent, x)
        /\ held' = h /\ queue' = q /\ flush' = flush
    BY <1>2 DEF GoesOn
  <2>2. x \in Item /\ Rest' = Tail(left) BY <1>2, <2>1, HeadTailProperties DEF Rest
  <2>3. sent' \in Seq(Item) BY <2>1, <2>2, AppendProperties DEF ClientTyped
  <2>4. ClientTyped' BY <1>1, <2>1, <2>3 DEF ClientTyped
  <2>5. JobOK' BY <1>2, <2>1 DEF JobOK, NeedsGate, Ordered
  <2>6. /\ Tail(left) \in Seq(Jobs) /\ x \in Jobs
        /\ Ordered(gate, sent, Tail(left), h, q, arrived)
    BY <1>1, <1>2, TailWithin, HeadWithin DEF Ordered
  <2>7. /\ Ahead(gate, x, Tail(left)) /\ After(gate, sent, x)
        /\ Ahead(gate, x, h) /\ Ahead(gate, x, q) /\ x.n <= arrived
    BY <1>1, <1>2, HeadWithin DEF Ordered
  <2> HIDE DEF x
  <2>8. Ordered(gate, Append(sent, x), Tail(left), h, q, arrived)
    BY <1>1, <2>6, <2>7, AppendWithin DEF Ordered
  <2>9. Ordered(gate, sent', Rest', held', queue', arrived)
    BY <2>1, <2>2, <2>6, <2>8
  <2>10. QED BY <2>4, <2>5, <2>9 DEF ClientInv
<1>3. CASE left = <<>>
  <2>1. job' = Idle /\ sent' = sent /\ held' = h /\ Rest' = <<>> BY <1>3 DEF GoesOn, Rest, Idle
  <2>2. flush' \in BOOLEAN /\ (queue' = q \/ queue' = Append(q, Drain))
    BY <1>3 DEF GoesOn, ClientTyped
  <2>3. queue' \in Seq(Jobs)
    <3>1. Append(q, Drain) \in Seq(Jobs) BY <1>1, AppendProperties
    <3>2. QED BY <2>2, <3>1
  <2>4. ClientTyped'
    <3>1. job' \in [left : Seq(Item), at : {"idle", "gate", "io"}, drains : BOOLEAN]
      BY <2>1, EmptySeq DEF Idle
    <3>2. QED BY <1>1, <2>1, <2>2, <2>3, <3>1 DEF ClientTyped
  <2>5. JobOK' BY <2>1 DEF JobOK, Idle, UpTo
  <2>6. Ordered(gate, sent, <<>>, h, Append(q, Drain), arrived)
    <3>1. \A s : After(gate, s, Drain) /\ Ahead(gate, Drain, s)
      BY OutOfOrder DEF Counts, Drain
    <3>2. Drain.n <= arrived BY DEF ClientTyped, Drain
    <3>3. QED BY <1>1, <1>3, <3>1, <3>2, AppendWithin DEF Ordered
  <2>7. Ordered(gate, sent', Rest', held', queue', arrived)
    BY <1>3, <2>1, <2>2, <2>6
  <2>8. QED BY <2>4, <2>5, <2>7 DEF ClientInv
<1>4. QED BY <1>2, <1>3

(* The client's steps *)

LEMMA ClientSendsKeeps ==
  ASSUME ClientInv, NEW k \in Kinds, ClientSends(k)
  PROVE  ClientInv'
<1> DEFINE x == [kind |-> k, n |-> arrived + 1, scored |-> FALSE]
<1>1. /\ arrived' = arrived + 1 /\ queue' = Append(queue, x) /\ arrived < MaxItems
      /\ UNCHANGED <<gate, demoted, job, held, flush, scoring, sent, open>>
  BY DEF ClientSends, tools
<1>2. arrived \in Int /\ arrived + 1 \in 1..MaxItems
  BY <1>1, InputAssumption DEF ClientInv, ClientTyped
<1>3. x \in Jobs /\ x.n = arrived + 1 BY <1>2 DEF Jobs, Item
<1> HIDE DEF x
<1>4. queue' \in Seq(Jobs) BY <1>1, <1>3, AppendProperties DEF ClientInv, ClientTyped
<1>5. ClientTyped' BY <1>1, <1>2, <1>4 DEF ClientInv, ClientTyped
<1>6. JobOK'
  <2>1. UpTo(arrived + 1, job.left) /\ UpTo(arrived + 1, scoring)
    BY <1>2, JobSeqs, Newer DEF ClientInv, ClientTyped, JobOK
  <2>2. QED BY <1>1, <2>1 DEF ClientInv, JobOK, NeedsGate
<1>7. /\ sent \in Seq(Jobs) /\ Rest \in Seq(Jobs) /\ held \in Seq(Jobs) /\ queue \in Seq(Jobs)
  BY JobSeqs, TailWithin, NothingWithin DEF ClientInv, ClientTyped, Rest
<1>8. \A s \in Seq(Jobs) : UpTo(arrived, s) => UpTo(arrived + 1, s) /\ After(gate, s, x)
  BY <1>2, <1>3, Newer, NewestLast
<1>9. Ordered(gate, sent, Rest, held, Append(queue, x), arrived + 1)
  BY <1>2, <1>3, <1>7, <1>8, AppendWithin DEF ClientInv, Ordered
<1>10. Rest' = Rest BY <1>1 DEF Rest
<1>11. QED BY <1>1, <1>5, <1>6, <1>9, <1>10 DEF ClientInv

\* What the client's steps find in the variables.
LEMMA ClientSeqs ==
  ASSUME ClientInv
  PROVE  /\ sent \in Seq(Jobs) /\ Rest \in Seq(Jobs) /\ held \in Seq(Jobs) /\ queue \in Seq(Jobs)
         /\ arrived \in Int
         /\ job.left \in Seq(Item) /\ job.drains \in BOOLEAN
         /\ job.at = "idle" => Rest = <<>>
         /\ queue # <<>> /\ Head(queue).kind # "drain" => Head(queue) \in Item
<1>1. job.left \in Seq(Item) /\ job.drains \in BOOLEAN BY DEF ClientInv, ClientTyped
<1>2. Rest \in Seq(Jobs) BY <1>1, JobSeqs, TailWithin, NothingWithin DEF Rest
<1>3. queue # <<>> => Head(queue) \in Jobs BY HeadTailProperties DEF ClientInv, ClientTyped
<1>4. QED BY <1>1, <1>2, <1>3, JobSeqs DEF ClientInv, ClientTyped, Jobs, Drain, JobOK, Rest

LEMMA IgnoresKeeps ==
  ASSUME ClientInv, Ignores
  PROVE  ClientInv'
<1>1. /\ queue # <<>> /\ queue' = Tail(queue)
      /\ UNCHANGED <<gate, demoted, arrived, job, held, flush, scoring, sent, open>>
  BY DEF Ignores, tools
<1>2. queue \in Seq(Jobs) /\ queue' \in Seq(Jobs) /\ Rest' = Rest
  BY <1>1, ClientSeqs, TailWithin DEF Rest
<1>3. ClientTyped' BY <1>1, <1>2 DEF ClientInv, ClientTyped
<1>4. JobOK' BY <1>1 DEF ClientInv, JobOK, NeedsGate
<1>5. Ordered(gate, sent, Rest, held, Tail(queue), arrived)
  BY <1>1, ClientSeqs, TailWithin DEF ClientInv, Ordered
<1>6. QED BY <1>1, <1>2, <1>3, <1>4, <1>5 DEF ClientInv

LEMMA HoldsKeeps ==
  ASSUME ClientInv, Holds
  PROVE  ClientInv'
<1> DEFINE x == Head(queue)
<1>1. /\ queue # <<>> /\ x.kind # "drain" /\ queue' = Tail(queue)
      /\ UNCHANGED <<gate, demoted, arrived, job, flush, sent, open>>
      /\ \/ gate /\ x.kind = "audio" /\ scoring' = Append(scoring, x) /\ held' = held
         \/ held' = Held(held, x) /\ scoring' = scoring
  BY DEF Holds, tools
<1>2. x \in Item /\ x \in Jobs BY <1>1, ClientSeqs DEF Jobs
<1>3. queue' \in Seq(Jobs) /\ Rest' = Rest BY <1>1, ClientSeqs, TailWithin DEF Rest
<1>4. Ordered(gate, sent, Rest, held, Tail(queue), arrived)
  BY <1>1, ClientSeqs, TailWithin DEF ClientInv, Ordered
<1>5. held \in Seq(Item) /\ scoring \in Seq(Item) BY DEF ClientInv, ClientTyped
<1>6. CASE gate /\ x.kind = "audio" /\ scoring' = Append(scoring, x) /\ held' = held
  <2>1. /\ scoring' \in Seq(Item) /\ Len(scoring') = Len(scoring) + 1
        /\ \A i \in 1..Len(scoring) : scoring'[i] = scoring[i]
        /\ scoring'[Len(scoring) + 1] = x
    BY <1>2, <1>5, <1>6, AppendProperties
  <2>2. ClientTyped' BY <1>1, <1>3, <1>6, <2>1 DEF ClientInv, ClientTyped
  <2>3. Len(scoring) \in Nat BY <1>5, LenProperties
  <2>4. \A i \in 1..Len(scoring') : gate' /\ scoring'[i].kind = "audio"
    BY <1>1, <1>6, <2>1, <2>3 DEF ClientInv, JobOK
  <2>5. JobOK'
    <3>1. x.n <= arrived
      BY <1>1, ClientSeqs, HeadWithin DEF ClientInv, Ordered
    <3>2. UpTo(arrived, scoring')
      BY <1>2, <1>5, <1>6, <3>1, JobSeqs, ClientSeqs, AppendWithin DEF ClientInv, JobOK
    <3>3. QED BY <1>1, <2>4, <3>2 DEF ClientInv, JobOK, NeedsGate
  <2>6. QED BY <1>1, <1>3, <1>4, <1>6, <2>2, <2>5 DEF ClientInv
<1>7. CASE held' = Held(held, x) /\ scoring' = scoring
  <2>1. held' \in Seq(Item) BY <1>2, <1>5, <1>7, HeldWithin
  <2>2. ClientTyped' BY <1>1, <1>3, <1>7, <2>1 DEF ClientInv, ClientTyped
  <2>3. JobOK' BY <1>1, <1>7 DEF ClientInv, JobOK, NeedsGate
  <2>4. /\ After(gate, sent, x) /\ After(gate, Rest, x) /\ After(gate, held, x)
        /\ Ahead(gate, x, Tail(queue)) /\ x.n <= arrived
    BY <1>1, ClientSeqs, HeadWithin DEF ClientInv, Ordered
  <2> HIDE DEF x
  <2>5. Ordered(gate, sent, Rest, Held(held, x), Tail(queue), arrived)
    BY <1>1, <1>2, <1>3, <1>4, <1>5, <2>4, ClientSeqs, HeldWithin DEF Ordered
  <2>6. QED BY <1>1, <1>3, <1>7, <2>2, <2>3, <2>5 DEF ClientInv
<1>8. QED BY <1>1, <1>6, <1>7

LEMMA TakesKeeps ==
  ASSUME ClientInv, Takes
  PROVE  ClientInv'
<1> DEFINE x == Head(queue)
<1>1. /\ queue # <<>> /\ x.kind # "drain" /\ job.at = "idle" /\ held = <<>>
      /\ GoesOn(<<x>>, FALSE, held, Tail(queue))
      /\ UNCHANGED <<gate, demoted, arrived, scoring, open>>
  BY DEF Takes, Holding, tools
<1>2. x \in Item /\ x \in Jobs BY <1>1, ClientSeqs DEF Jobs
<1>3. <<x>> \in Seq(Item) /\ Tail(queue) \in Seq(Jobs) /\ held \in Seq(Item)
  BY <1>1, <1>2, ClientSeqs, TailWithin DEF ClientInv, ClientTyped
<1>4. /\ After(gate, sent, x) /\ Ahead(gate, x, Tail(queue)) /\ x.n <= arrived
      /\ Ordered(gate, sent, <<>>, <<>>, Tail(queue), arrived)
  BY <1>1, ClientSeqs, HeadWithin, TailWithin DEF ClientInv, Ordered
<1> HIDE DEF x
<1>5. <<x>> = Append(<<>>, x) BY <1>2
<1>6. After(gate, <<>>, x) BY DEF After
<1>7. Ordered(gate, sent, <<x>>, <<>>, Tail(queue), arrived)
  <2>1. Ahead(gate, x, <<>>) BY DEF Ahead
  <2>2. Ordered(gate, sent, Append(<<>>, x), <<>>, Tail(queue), arrived)
    BY <1>2, <1>3, <1>4, <1>6, <2>1, ClientSeqs, AppendWithin, NothingWithin DEF Ordered
  <2>3. QED BY <1>5, <2>2
<1>8. QED BY <1>1, <1>3, <1>7, GoesOnOrder DEF ClientInv

LEMMA TakesHeldKeeps ==
  ASSUME ClientInv, TakesHeld
  PROVE  ClientInv'
<1>1. /\ queue # <<>> /\ job.at = "idle" /\ GoesOn(held, TRUE, <<>>, Tail(queue))
      /\ UNCHANGED <<gate, demoted, arrived, scoring, open>>
  BY DEF TakesHeld, tools
<1>2. held \in Seq(Item) /\ <<>> \in Seq(Item) /\ Tail(queue) \in Seq(Jobs)
  BY <1>1, ClientSeqs, TailWithin, EmptySeq DEF ClientInv, ClientTyped
<1>3. Ordered(gate, sent, held, <<>>, Tail(queue), arrived)
  BY <1>1, ClientSeqs, TailWithin, NothingWithin DEF ClientInv, Ordered
<1>4. QED BY <1>1, <1>2, <1>3, GoesOnOrder DEF ClientInv

LEMMA GatePassesKeeps ==
  ASSUME ClientInv, GatePasses
  PROVE  ClientInv'
<1> DEFINE x == Head(job.left)
<1>1. /\ job.at = "gate" /\ job' = [job EXCEPT !.at = "io"] /\ sent' = Append(sent, x)
      /\ UNCHANGED <<gate, demoted, arrived, queue, held, flush, scoring, open>>
  BY DEF GatePasses, tools
<1>2. job.left # <<>> /\ NeedsGate(x) BY <1>1 DEF ClientInv, JobOK
<1>3. x \in Item /\ x \in Jobs BY <1>2, ClientSeqs, HeadTailProperties DEF Jobs
<1>4. sent \in Seq(Item) /\ sent' \in Seq(Item)
  BY <1>1, <1>3, AppendProperties DEF ClientInv, ClientTyped
<1>5. job'.left = job.left /\ job'.at = "io"
      /\ job' \in [left : Seq(Item), at : {"idle", "gate", "io"}, drains : BOOLEAN]
  BY <1>1 DEF ClientInv, ClientTyped
<1>6. ClientTyped' BY <1>1, <1>4, <1>5 DEF ClientInv, ClientTyped
<1>7. JobOK' BY <1>1, <1>2, <1>5 DEF ClientInv, JobOK
<1>8. \A s : After(gate, s, x) /\ Ahead(gate, x, s)
  BY <1>2, OutOfOrder DEF NeedsGate, Counts
<1>9. x.n <= arrived
  BY <1>2, ClientSeqs, JobSeqs, HeadWithin DEF ClientInv, JobOK
<1>10. Rest' = Rest BY <1>5 DEF Rest
<1> HIDE DEF x
<1>11. Ordered(gate, Append(sent, x), Rest, held, queue, arrived)
  BY <1>3, <1>8, <1>9, ClientSeqs, AppendWithin DEF ClientInv, Ordered
<1>12. QED BY <1>1, <1>6, <1>7, <1>10, <1>11 DEF ClientInv

LEMMA ItemDoneKeeps ==
  ASSUME ClientInv, ItemDone
  PROVE  ClientInv'
<1>1. /\ job.at \in {"gate", "io"} /\ GoesOn(Tail(job.left), job.drains, held, queue)
      /\ UNCHANGED <<gate, demoted, arrived, scoring, open>>
  BY DEF ItemDone, tools
<1>2. job.left # <<>> BY <1>1 DEF ClientInv, JobOK
<1>3. Rest = Tail(job.left) /\ Rest \in Seq(Item) /\ held \in Seq(Item)
  BY <1>2, ClientSeqs, HeadTailProperties DEF Rest, ClientInv, ClientTyped
<1>4. QED BY <1>1, <1>3, ClientSeqs, GoesOnOrder DEF ClientInv

LEMMA HeldScoredKeeps ==
  ASSUME ClientInv, NEW forward \in BOOLEAN, HeldScored(forward)
  PROVE  ClientInv'
<1> DEFINE x == [Head(scoring) EXCEPT !.scored = TRUE]
<1>1. /\ scoring # <<>> /\ scoring' = Tail(scoring)
      /\ held' = IF forward THEN Held(held, x) ELSE held
      /\ UNCHANGED <<gate, demoted, arrived, queue, job, flush, sent, open>>
  BY DEF HeldScored, tools
<1>2. scoring \in Seq(Item) /\ held \in Seq(Item) BY DEF ClientInv, ClientTyped
<1>3. /\ Head(scoring) \in Item /\ Tail(scoring) \in Seq(Item)
      /\ Len(Tail(scoring)) = Len(scoring) - 1
      /\ \A i \in 1..Len(Tail(scoring)) : Tail(scoring)[i] = scoring[i + 1]
  BY <1>1, <1>2, HeadTailProperties
<1>4. Len(scoring) \in Nat /\ 1 \in 1..Len(scoring) /\ Head(scoring) = scoring[1]
  BY <1>1, <1>2, LenProperties, EmptySeq
<1>5. gate /\ Head(scoring).kind = "audio" BY <1>4 DEF ClientInv, JobOK
<1>6. x \in Item /\ x \in Jobs /\ x.kind = "audio" BY <1>3, <1>5 DEF Item, Jobs
<1>7. held' \in Seq(Item) BY <1>1, <1>2, <1>6, HeldWithin
<1>8. ClientTyped' BY <1>1, <1>3, <1>7 DEF ClientInv, ClientTyped
<1>9. \A i \in 1..Len(scoring') : gate' /\ scoring'[i].kind = "audio"
  BY <1>1, <1>3, <1>4 DEF ClientInv, JobOK
<1>10. JobOK'
  <2>1. UpTo(arrived, Tail(scoring))
    BY <1>1, <1>2, JobSeqs, TailWithin DEF ClientInv, JobOK
  <2>2. QED BY <1>1, <1>9, <2>1 DEF ClientInv, JobOK, NeedsGate
<1>11. \A s : After(gate, s, x) /\ Ahead(gate, x, s)
  BY <1>5, <1>6, OutOfOrder DEF Counts
<1>12. Rest' = Rest BY <1>1 DEF Rest
<1>13. CASE ~forward
  BY <1>1, <1>8, <1>10, <1>12, <1>13 DEF ClientInv
<1>14. CASE forward
  <2>1. x.n <= arrived
    <3>1. UpTo(arrived, scoring) /\ scoring \in Seq(Jobs) BY <1>2, JobSeqs DEF ClientInv, JobOK
    <3>2. Head(scoring).n <= arrived BY <1>1, <3>1, HeadWithin
    <3>3. x.n = Head(scoring).n BY <1>3 DEF Item
    <3>4. QED BY <3>2, <3>3
  <2> HIDE DEF x
  <2>2. Ordered(gate, sent, Rest, Held(held, x), queue, arrived)
    BY <1>2, <1>6, <1>11, <2>1, ClientSeqs, HeldWithin DEF ClientInv, Ordered
  <2>3. QED BY <1>1, <1>8, <1>10, <1>12, <1>14, <2>2 DEF ClientInv
<1>15. QED BY <1>13, <1>14

\* Demoting forgets what is held.
LEMMA DemotedKeeps ==
  ASSUME ClientInv, Demoted
  PROVE  ClientInv'
<1>1. /\ demoted' = TRUE /\ held' = <<>>
      /\ UNCHANGED <<gate, arrived, queue, job, flush, scoring, sent, open>>
  BY DEF Demoted, tools
<1>2. ClientTyped' BY <1>1, EmptySeq DEF ClientInv, ClientTyped
<1>3. JobOK' BY <1>1 DEF ClientInv, JobOK, NeedsGate
<1>4. Rest' = Rest BY <1>1 DEF Rest
<1>5. Ordered(gate, sent, Rest, <<>>, queue, arrived)
  BY ClientSeqs, NothingWithin DEF ClientInv, Ordered
<1>6. QED BY <1>1, <1>2, <1>3, <1>4, <1>5 DEF ClientInv

\* What the tools do to the client's side: at most they queue the drain.
LEMMA DrainQueued ==
  ASSUME ClientInv, UNCHANGED <<gate, demoted, arrived, job, held, scoring, sent, open>>,
         flush' \in BOOLEAN, queue' = queue \/ queue' = Append(queue, Drain)
  PROVE  ClientInv'
<1>1. Append(queue, Drain) \in Seq(Jobs) BY ClientSeqs, AppendProperties DEF Jobs
<1>2. ClientTyped' BY <1>1, ClientSeqs DEF ClientInv, ClientTyped
<1>3. JobOK' BY DEF ClientInv, JobOK, NeedsGate
<1>4. Rest' = Rest BY DEF Rest
<1>5. \A s : After(gate, s, Drain) /\ Ahead(gate, Drain, s)
  BY OutOfOrder DEF Counts, Drain
<1>6. Drain \in Jobs /\ Drain.n <= arrived
  BY DEF ClientInv, ClientTyped, Drain, Jobs
<1>7. Ordered(gate, sent, Rest, held, Append(queue, Drain), arrived)
  BY <1>5, <1>6, ClientSeqs, AppendWithin DEF ClientInv, Ordered
<1>8. QED BY <1>2, <1>3, <1>4, <1>7 DEF ClientInv

LEMMA NothingOrdered ==
  ASSUME NEW g, NEW n
  PROVE  Ordered(g, <<>>, <<>>, <<>>, <<>>, n)
  BY NothingWithin DEF Ordered

LEMMA Empty ==
  /\ <<>> \in Seq(Jobs) /\ <<>> \in Seq(Item) /\ 0 \in 0..MaxItems
  /\ Idle \in [left : Seq(Item), at : {"idle", "gate", "io"}, drains : BOOLEAN]
<1>1. <<>> \in Seq(Jobs) /\ <<>> \in Seq(Item) BY EmptySeq
<1>2. QED BY <1>1, InputAssumption DEF Idle

\* A session that opens, and one that closes.
LEMMA ClientInitial ==
  ASSUME InputInit
  PROVE  ClientInv
<1> USE DEF InputInit
<1>1. ClientTyped BY Empty DEF ClientTyped
<1>2. JobOK BY DEF JobOK, UpTo, Idle
<1>3. Rest = <<>> BY DEF Rest, Idle
<1>4. QED BY <1>1, <1>2, <1>3, NothingOrdered DEF ClientInv

LEMMA ClosesClient ==
  ASSUME ClientInv, Closes
  PROVE  ClientInv'
<1> USE DEF Closes
<1>1. ClientTyped' BY Empty DEF ClientInv, ClientTyped
<1>2. JobOK' BY DEF JobOK, UpTo, Idle
<1>3. Rest' = <<>> BY DEF Rest, Idle
<1>4. QED BY <1>1, <1>2, <1>3, NothingOrdered DEF ClientInv

(* Tool calls *)

\* Marking a call as being sent concerns that call only.
LEMMA SendingTyped ==
  ASSUME NEW c \in [Calls -> CallRecords], NEW id \in Calls
  PROVE  /\ Sending(c, id) \in [Calls -> CallRecords]
         /\ Sending(c, id)[id].delivery = "sending"
         /\ \A i \in Calls : /\ Sending(c, id)[i].cancelled = c[i].cancelled
                             /\ i # id => Sending(c, id)[i] = c[i]
  BY DEF Sending, CallRecords

\* An operation that gets a slot keeps the books: what it executes was not
\* executed, and nothing of a cancelled call is sent.
LEMMA DrainsKeeps ==
  ASSUME NEW w, NEW r, NEW c,
         ToolsTyped(w, r, c, executed), Fit(w, r, c, executed), Drains(w, r, c)
  PROVE  /\ ToolsTyped(waiting', active', call', executed')
         /\ Fit(waiting', active', call', executed')
         /\ r \subseteq active'
         /\ \A i \in Calls : /\ call'[i].cancelled = c[i].cancelled
                             /\ c[i].cancelled => call'[i] = c[i]
                             /\ call'[i] # c[i] => call'[i].delivery = "sending"
                             /\ Unasked(i, w, r, c, executed)
                                  => Unasked(i, waiting', active', call', executed')
<1>1. CASE ~ (w # <<>> /\ FreeSlot(r))
  <2>1. waiting' = w /\ active' = r /\ call' = c /\ executed' = executed BY <1>1 DEF Drains
  <2>2. QED BY <2>1
<1>2. CASE w # <<>> /\ FreeSlot(r)
  <2> DEFINE x == Head(w)
             op == Starting(c, x)
  <2>1. /\ waiting' = Tail(w) /\ active' = r \cup {op}
        /\ call' = IF op.at = "sends" THEN Sending(c, op.id) ELSE c
        /\ executed' = IF op.at = "runs" THEN [executed EXCEPT ![op.id] = @ + 1] ELSE executed
    BY <1>2 DEF Drains
  <2>2. /\ x \in Op /\ Tail(w) \in Seq(Op) /\ x = w[1] /\ Len(w) \in Nat /\ Len(w) >= 1
        /\ Len(Tail(w)) = Len(w) - 1 /\ \A i \in 1..Len(Tail(w)) : Tail(w)[i] = w[i + 1]
    BY <1>2, HeadTailProperties, LenProperties, EmptySeq DEF ToolsTyped
  <2>3. /\ op.id = x.id /\ op.does = x.does /\ op.id \in Calls
        /\ op.at = IF c[x.id].cancelled THEN "ends" ELSE IF x.does = "execute" THEN "runs" ELSE "sends"
        /\ op \in Running
    BY <2>2 DEF Starting, Op, Running
  <2> HIDE DEF x, op
  <2>4. c \in [Calls -> CallRecords] /\ executed \in [Calls -> Nat] BY DEF ToolsTyped
  <2>5. /\ call' \in [Calls -> CallRecords]
        /\ \A i \in Calls : /\ call'[i].cancelled = c[i].cancelled
                            /\ call'[i] = IF i = op.id /\ op.at = "sends" THEN Sending(c, i)[i] ELSE c[i]
                            /\ call'[i] # c[i] => call'[i].delivery = "sending" /\ op.at = "sends" /\ i = op.id
    BY <2>1, <2>3, <2>4, SendingTyped
  <2>6. /\ executed' \in [Calls -> Nat]
        /\ \A i \in Calls : executed'[i] = IF i = op.id /\ op.at = "runs" THEN executed[i] + 1 ELSE executed[i]
    BY <2>1, <2>3, <2>4
  <2>7. IsFiniteSet(active') /\ Cardinality(active') <= MaxActive /\ active' \subseteq Running
    <3>1. IsFiniteSet(r) /\ r \subseteq Running /\ Cardinality(r) < MaxActive
      BY <1>2 DEF ToolsTyped, FreeSlot
    <3>2. /\ IsFiniteSet(r \cup {op})
          /\ Cardinality(r \cup {op}) = IF op \in r THEN Cardinality(r) ELSE Cardinality(r) + 1
      BY <3>1, FS_AddElement
    <3>3. Cardinality(r) \in Nat /\ MaxActive \in Nat BY <3>1, FS_CardinalityType, InputAssumption
    <3>4. QED BY <2>1, <2>3, <3>1, <3>2, <3>3
  <2>8. ToolsTyped(waiting', active', call', executed')
    BY <2>1, <2>2, <2>5, <2>6, <2>7 DEF ToolsTyped
  <2>9. \A i \in Calls : c[i].cancelled => call'[i] = c[i] BY <2>3, <2>5
  <2>10. Fit(waiting', active', call', executed')
    <3>1. \A i \in 1..Len(waiting') : waiting'[i] = w[i + 1] /\ i + 1 \in 1..Len(w) /\ w[i + 1].id \in Calls
      <4>1. \A i \in 1..Len(w) : w[i] \in Op BY ElementOfSeq DEF ToolsTyped
      <4>2. QED BY <2>1, <2>2, <4>1 DEF Op
    <3>2. op.at = "runs" => op.does = "execute" /\ executed[op.id] = 0
      BY <2>2, <2>3 DEF Fit
    <3>3. \A i \in 1..Len(waiting') : waiting'[i].does = "execute" => executed'[waiting'[i].id] = 0
      <4> SUFFICES ASSUME NEW i \in 1..Len(waiting'), waiting'[i].does = "execute"
                   PROVE  executed'[waiting'[i].id] = 0
        OBVIOUS
      <4>1. executed[w[i + 1].id] = 0 BY <3>1 DEF Fit
      <4>2. op.at = "runs" => w[i + 1].id # op.id
        BY <2>2, <2>3, <3>1, <3>2 DEF Fit
      <4>3. QED BY <2>6, <3>1, <4>1, <4>2
    <3>4. \A i, j \in 1..Len(waiting') :
            waiting'[i].does = "execute" /\ waiting'[j].does = "execute" /\ i # j
              => waiting'[i].id # waiting'[j].id
      <4>1. \A i, j \in 1..Len(w) :
              w[i].does = "execute" /\ w[j].does = "execute" /\ i # j => w[i].id # w[j].id
        BY DEF Fit
      <4> SUFFICES ASSUME NEW i \in 1..Len(waiting'), NEW j \in 1..Len(waiting'),
                          waiting'[i].does = "execute", waiting'[j].does = "execute", i # j
                   PROVE  waiting'[i].id # waiting'[j].id
        OBVIOUS
      <4>2. i + 1 # j + 1 OBVIOUS
      <4>3. QED BY <3>1, <4>1, <4>2
    <3>5. \A o \in active' : o.at = "sends" => /\ call'[o.id].delivery \in {"sending", "sent"}
                                               /\ call'[o.id].cancelled => call'[o.id].delivery = "sent"
      <4> SUFFICES ASSUME NEW o \in active', o.at = "sends"
                   PROVE  /\ call'[o.id].delivery \in {"sending", "sent"}
                          /\ call'[o.id].cancelled => call'[o.id].delivery = "sent"
        OBVIOUS
      <4>1. o.id \in Calls BY <2>7 DEF Running
      <4>2. CASE o = op BY <2>3, <2>4, <2>5, <4>2, SendingTyped
      <4>3. CASE o \in r
        <5>1. /\ c[o.id].delivery \in {"sending", "sent"}
              /\ c[o.id].cancelled => c[o.id].delivery = "sent"
          BY <4>3 DEF Fit
        <5>2. QED BY <2>5, <2>9, <4>1, <5>1
      <4>4. QED BY <2>1, <4>2, <4>3
    <3>6. \A id \in Calls : executed'[id] <= 1
      BY <2>4, <2>6, <3>2 DEF Fit
    <3>7. QED BY <3>3, <3>4, <3>5, <3>6 DEF Fit
  <2>11. ASSUME NEW i \in Calls, Unasked(i, w, r, c, executed)
         PROVE  Unasked(i, waiting', active', call', executed')
    <3>1. op.id # i BY <2>2, <2>3, <2>11 DEF Unasked
    <3>2. call'[i] = c[i] /\ executed'[i] = executed[i] BY <2>5, <2>6, <3>1
    <3>3. \A k \in 1..Len(waiting') : waiting'[k].id # i
      BY <2>1, <2>2, <2>11 DEF Unasked
    <3>4. QED BY <2>1, <2>11, <3>1, <3>2, <3>3 DEF Unasked
  <2>12. QED BY <2>1, <2>5, <2>8, <2>9, <2>10, <2>11
<1>3. QED BY <1>1, <1>2

\* What an operation that runs is about was asked for.
LEMMA ActiveSeen ==
  ASSUME ToolsInv, NEW op \in active
  PROVE  op \in Running /\ op.id \in Calls /\ Seen(op.id)
  BY DEF ToolsInv, ToolsTyped, Running, Unasked

\* New operations wait, then the first of those that wait gets the free slot.
\* Only a call that is known afterwards has been asked for.
LEMMA DrainsSound ==
  ASSUME ToolsInv, NEW w, NEW r, NEW c,
         ToolsTyped(w, r, c, executed), Fit(w, r, c, executed), Drains(w, r, c),
         ledger' \in Seq(Calls), tombs' \subseteq Calls, Len(ledger') <= MaxLedger,
         \A i \in Calls : ~Seen(i)' => Unasked(i, w, r, c, executed)
  PROVE  ToolsInv'
<1>1. /\ ToolsTyped(waiting', active', call', executed')
      /\ Fit(waiting', active', call', executed')
      /\ \A i \in Calls : Unasked(i, w, r, c, executed)
           => Unasked(i, waiting', active', call', executed')
  BY DrainsKeeps
<1>2. QED BY <1>1 DEF ToolsInv

LEMMA CallArrivesLedger ==
  ASSUME ToolsInv, NEW id \in Calls, CallArrives(id)
  PROVE  /\ ledger' \in Seq(Calls) /\ tombs' \subseteq Calls /\ Len(ledger') <= MaxLedger
         /\ \A i \in Calls : Seen(i) \/ i = id => Seen(i)'
         /\ \E k \in 1..Len(ledger') : ledger'[k] = id
<1>1. ledger \in Seq(Calls) /\ tombs \subseteq Calls /\ Len(ledger) <= MaxLedger /\ Len(ledger) \in Nat
      /\ MaxLedger \in Nat
  BY InputAssumption, LenProperties DEF ToolsInv
<1>2. CASE Len(ledger) < MaxLedger /\ ledger' = Append(ledger, id) /\ UNCHANGED tombs
  <2>1. /\ ledger' \in Seq(Calls) /\ Len(ledger') = Len(ledger) + 1
        /\ \A i \in 1..Len(ledger) : ledger'[i] = ledger[i]
        /\ ledger'[Len(ledger) + 1] = id
    BY <1>1, <1>2, AppendProperties
  <2>2. Len(ledger) + 1 \in 1..Len(ledger') BY <1>1, <2>1
  <2>3. DOMAIN ledger = 1..Len(ledger) /\ DOMAIN ledger' = 1..Len(ledger')
    BY <1>1, <2>1, LenProperties
  <2>4. \A i \in Calls : Known(i) => Known(i)' BY <1>1, <2>1, <2>3 DEF Known
  <2>5. Known(id)' BY <2>1, <2>2, <2>3 DEF Known
  <2>6. QED BY <1>1, <1>2, <2>1, <2>2, <2>4, <2>5 DEF Seen
<1>3. ASSUME NEW k \in OldestDone, Len(ledger) >= MaxLedger,
             ledger' = Append(SubSeq(ledger, 1, k - 1) \o SubSeq(ledger, k + 1, Len(ledger)), id),
             tombs' = tombs \cup {ledger[k]}
      PROVE  /\ ledger' \in Seq(Calls) /\ tombs' \subseteq Calls /\ Len(ledger') <= MaxLedger
             /\ \A i \in Calls : Seen(i) \/ i = id => Seen(i)'
             /\ \E j \in 1..Len(ledger') : ledger'[j] = id
  <2> DEFINE a == SubSeq(ledger, 1, k - 1)
             b == SubSeq(ledger, k + 1, Len(ledger))
  <2>1. k \in 1..Len(ledger) /\ \A i \in 1..Len(ledger) : ledger[i] \in Calls
    BY <1>1, LenProperties, ElementOfSeq DEF OldestDone
  <2>2. /\ a \in Seq(Calls) /\ Len(a) = k - 1
        /\ \A i \in 1..(k - 1) : a[i] = ledger[i]
    <3>1. /\ a \in Seq(Calls) /\ Len(a) = IF 1 <= k - 1 THEN k - 1 - 1 + 1 ELSE 0
          /\ \A i \in 1..(k - 1 - 1 + 1) : a[i] = ledger[1 + i - 1]
      BY <1>1, <2>1, SubSeqProperties
    <3>2. QED BY <2>1, <3>1
  <2>3. /\ b \in Seq(Calls) /\ Len(b) = Len(ledger) - k
        /\ \A i \in 1..(Len(ledger) - k) : b[i] = ledger[k + i]
    <3>1. /\ b \in Seq(Calls) /\ Len(b) = IF k + 1 <= Len(ledger) THEN Len(ledger) - (k + 1) + 1 ELSE 0
          /\ \A i \in 1..(Len(ledger) - (k + 1) + 1) : b[i] = ledger[(k + 1) + i - 1]
      BY <1>1, <2>1, SubSeqProperties
    <3>2. QED BY <1>1, <2>1, <3>1
  <2> HIDE DEF a, b
  <2>4. /\ a \o b \in Seq(Calls) /\ Len(a \o b) = Len(ledger) - 1
        /\ \A i \in 1..(k - 1) : (a \o b)[i] = ledger[i]
        /\ \A i \in k..(Len(ledger) - 1) : (a \o b)[i] = ledger[i + 1]
    <3>1. /\ a \o b \in Seq(Calls) /\ Len(a \o b) = Len(a) + Len(b)
          /\ \A i \in 1..(Len(a) + Len(b)) : (a \o b)[i] = IF i <= Len(a) THEN a[i] ELSE b[i - Len(a)]
      BY <2>2, <2>3, ConcatProperties
    <3>2. Len(a) + Len(b) = Len(ledger) - 1 BY <1>1, <2>1, <2>2, <2>3
    <3>3. \A i \in 1..(k - 1) : i \in 1..(Len(a) + Len(b)) /\ i <= Len(a)
      BY <1>1, <2>1, <2>2, <3>2
    <3>4. \A i \in k..(Len(ledger) - 1) :
            /\ i \in 1..(Len(a) + Len(b)) /\ ~(i <= Len(a))
            /\ i - Len(a) \in 1..(Len(ledger) - k) /\ k + (i - Len(a)) = i + 1
      BY <1>1, <2>1, <2>2, <3>2
    <3>5. \A i \in 1..(k - 1) : (a \o b)[i] = ledger[i] BY <2>2, <3>1, <3>3
    <3>6. \A i \in k..(Len(ledger) - 1) : (a \o b)[i] = ledger[i + 1] BY <2>3, <3>1, <3>4
    <3>7. QED BY <3>1, <3>2, <3>5, <3>6
  <2>5. /\ ledger' \in Seq(Calls) /\ Len(ledger') = Len(ledger)
        /\ \A i \in 1..(Len(ledger) - 1) : ledger'[i] = (a \o b)[i]
        /\ ledger'[Len(ledger)] = id
    <3>1. ledger' = Append(a \o b, id) BY <1>3 DEF a, b
    <3>2. QED BY <1>1, <2>1, <2>4, <3>1, AppendProperties
  <2>6. DOMAIN ledger = 1..Len(ledger) /\ DOMAIN ledger' = 1..Len(ledger)
    BY <1>1, <2>5, LenProperties
  <2>7. \A i \in Calls : Known(i) => Known(i)' \/ i = ledger[k]
    <3> SUFFICES ASSUME NEW i \in Calls, NEW j \in 1..Len(ledger), ledger[j] = i, i # ledger[k]
                 PROVE  \E m \in 1..Len(ledger) : ledger'[m] = i
      BY <2>6 DEF Known
    <3>1. CASE j < k
      <4>1. j \in 1..(k - 1) /\ j \in 1..(Len(ledger) - 1) BY <1>1, <2>1, <3>1
      <4>2. ledger'[j] = ledger[j] BY <2>4, <2>5, <4>1
      <4>3. QED BY <4>2
    <3>2. CASE j > k
      <4>1. j - 1 \in k..(Len(ledger) - 1) /\ j - 1 \in 1..(Len(ledger) - 1) BY <1>1, <2>1, <3>2
      <4>2. ledger'[j - 1] = ledger[(j - 1) + 1] BY <2>4, <2>5, <4>1
      <4>3. QED BY <1>1, <4>1, <4>2
    <3>3. j < k \/ j > k BY <1>1, <2>1
    <3>4. QED BY <3>1, <3>2, <3>3
  <2>8. Known(id)' BY <1>1, <2>1, <2>5, <2>6 DEF Known
  <2>9. \A i \in Calls : Seen(i) \/ i = id => Seen(i)' BY <1>3, <2>7, <2>8 DEF Seen
  <2>10. \E j \in 1..Len(ledger') : ledger'[j] = id
    <3>1. Len(ledger) \in 1..Len(ledger') BY <1>1, <2>1, <2>5
    <3>2. QED BY <2>5, <3>1
  <2>11. tombs' \subseteq Calls /\ Len(ledger') <= MaxLedger BY <1>1, <1>3, <2>1, <2>5
  <2>12. QED BY <2>5, <2>9, <2>10, <2>11
<1>4. QED BY <1>2, <1>3 DEF CallArrives

\* An operation that joins the queue: a replay, or the execution of a call that
\* was not executed and does not wait to be.
LEMMA Enqueued ==
  ASSUME NEW w \in Seq(Op), NEW r, NEW c, NEW e, Fit(w, r, c, e), NEW x \in Op,
         x.does = "execute" => /\ e[x.id] = 0
                               /\ \A i \in 1..Len(w) : w[i].id # x.id
  PROVE  /\ Append(w, x) \in Seq(Op)
         /\ Fit(Append(w, x), r, c, e)
         /\ \A id \in Calls : id # x.id /\ Unasked(id, w, r, c, e) => Unasked(id, Append(w, x), r, c, e)
<1> DEFINE t == Append(w, x)
<1>1. /\ t \in Seq(Op) /\ Len(t) = Len(w) + 1
      /\ \A i \in 1..Len(w) : t[i] = w[i]
      /\ t[Len(w) + 1] = x
  BY AppendProperties
<1>2. Len(w) \in Nat BY LenProperties
<1> HIDE DEF t
<1>3. \A i \in 1..Len(t) : t[i].does = "execute" => e[t[i].id] = 0
  BY <1>1, <1>2 DEF Fit
<1>4. ASSUME NEW i \in 1..Len(t), NEW j \in 1..Len(t),
             t[i].does = "execute", t[j].does = "execute", i # j
      PROVE  t[i].id # t[j].id
  <2>1. CASE i <= Len(w) /\ j <= Len(w) BY <1>1, <1>2, <1>4, <2>1 DEF Fit
  <2>2. CASE i = Len(w) + 1 \/ j = Len(w) + 1 BY <1>1, <1>2, <1>4, <2>2
  <2>3. QED BY <1>1, <1>2, <2>1, <2>2
<1>5. Fit(t, r, c, e) BY <1>3, <1>4 DEF Fit
<1>6. \A id \in Calls : id # x.id /\ Unasked(id, w, r, c, e) => Unasked(id, t, r, c, e)
  BY <1>1, <1>2 DEF Unasked
<1>7. QED BY <1>1, <1>5, <1>6 DEF t

LEMMA CallArrivesKeeps ==
  ASSUME ToolsInv, NEW id \in Calls, CallArrives(id)
  PROVE  ToolsInv'
<1> DEFINE x == [id |-> id, does |-> "execute"]
           c == [call EXCEPT ![id] = [NoCall EXCEPT !.state = "pending"]]
           w == Append(waiting, x)
<1>1. ~Seen(id) /\ Drains(w, active, c) BY DEF CallArrives
<1>2. Unasked(id, waiting, active, call, executed) BY <1>1 DEF ToolsInv
<1>3. x \in Op /\ x.id = id /\ waiting \in Seq(Op) BY DEF Op, ToolsInv, ToolsTyped
<1>4. c \in [Calls -> CallRecords] /\ \A i \in Calls : i # id => c[i] = call[i]
  BY DEF ToolsInv, ToolsTyped, CallRecords, NoCall
<1>5. Fit(waiting, active, c, executed)
  <2>1. \A op \in active : op.id \in Calls /\ op.id # id
    BY <1>2 DEF Unasked, ToolsInv, ToolsTyped, Running
  <2>2. QED BY <1>4, <2>1 DEF ToolsInv, Fit
<1>6. \A i \in Calls : i # id /\ ~Seen(i) => Unasked(i, waiting, active, c, executed)
  BY <1>4 DEF ToolsInv, Unasked
<1> HIDE DEF x, c
<1>7. /\ w \in Seq(Op) /\ Fit(w, active, c, executed)
      /\ \A i \in Calls : i # id /\ ~Seen(i) => Unasked(i, w, active, c, executed)
  <2>1. executed[id] = 0 /\ \A i \in 1..Len(waiting) : waiting[i].id # id
    BY <1>2 DEF Unasked
  <2>2. QED BY <1>3, <1>5, <1>6, <2>1, Enqueued
<1> HIDE DEF w
<1>8. ToolsTyped(w, active, c, executed) BY <1>4, <1>7 DEF ToolsInv, ToolsTyped
<1>9. \A i \in Calls : ~Seen(i)' => Unasked(i, w, active, c, executed)
  BY <1>7, CallArrivesLedger
<1>10. QED BY <1>1, <1>7, <1>8, <1>9, CallArrivesLedger, DrainsSound

LEMMA CallRepeatsKeeps ==
  ASSUME ToolsInv, NEW id \in Calls, CallRepeats(id)
  PROVE  ToolsInv'
<1> DEFINE x == [id |-> id, does |-> "replay"]
           w == Append(waiting, x)
<1>1. Known(id) /\ Drains(w, active, call) /\ UNCHANGED <<ledger, tombs>> BY DEF CallRepeats
<1>2. x \in Op /\ x.id = id /\ x.does # "execute" /\ waiting \in Seq(Op)
  BY DEF Op, ToolsInv, ToolsTyped
<1> HIDE DEF x
<1>3. /\ w \in Seq(Op) /\ Fit(w, active, call, executed)
      /\ \A i \in Calls : i # id /\ Unasked(i, waiting, active, call, executed)
           => Unasked(i, w, active, call, executed)
  BY <1>2, Enqueued DEF ToolsInv
<1> HIDE DEF w
<1>4. ToolsTyped(w, active, call, executed) BY <1>3 DEF ToolsInv, ToolsTyped
<1>5. Seen(id) /\ \A i \in Calls : Seen(i)' = Seen(i) BY <1>1 DEF Seen, Known
<1>6. \A i \in Calls : ~Seen(i)' => Unasked(i, w, active, call, executed)
  BY <1>3, <1>5 DEF ToolsInv
<1>7. ledger' \in Seq(Calls) /\ tombs' \subseteq Calls /\ Len(ledger') <= MaxLedger
  BY <1>1 DEF ToolsInv
<1>8. QED BY <1>1, <1>3, <1>4, <1>6, <1>7, DrainsSound

\* The records of other calls are not touched.
LEMMA OnlyOf ==
  ASSUME ToolsInv, NEW op \in active, NEW c \in [Calls -> CallRecords],
         \A i \in Calls : i # op.id => c[i] = call[i]
  PROVE  \A i \in Calls : ~Seen(i) => Unasked(i, waiting, active, c, executed)
  BY ActiveSeen DEF ToolsInv, Unasked

LEMMA ToolReturnsKeeps ==
  ASSUME ToolsInv, NEW op \in active, NEW cached \in BOOLEAN, ToolReturns(op, cached)
  PROVE  ToolsInv'
<1> DEFINE now == [op EXCEPT !.at = "sends"]
<1>1. /\ op.at = "runs" /\ ~call[op.id].cancelled
      /\ call' = Sending([call EXCEPT ![op.id].state = "done", ![op.id].cached = cached], op.id)
      /\ active' = (active \ {op}) \cup {now}
      /\ UNCHANGED <<ledger, tombs, waiting, executed>>
  BY DEF ToolReturns, Wanted
<1>2. op \in Running /\ op.id \in Calls BY ActiveSeen
<1>3. now \in Running /\ now.id = op.id /\ now.at = "sends" /\ now # op BY <1>1, <1>2 DEF Running
<1>4. /\ call' \in [Calls -> CallRecords]
      /\ call'[op.id].delivery = "sending" /\ ~call'[op.id].cancelled
      /\ \A i \in Calls : i # op.id => call'[i] = call[i]
  <2> DEFINE c == [call EXCEPT ![op.id].state = "done", ![op.id].cached = cached]
  <2>1. call \in [Calls -> CallRecords] BY DEF ToolsInv, ToolsTyped
  <2>2. c \in [Calls -> CallRecords] /\ c[op.id].cancelled = call[op.id].cancelled
        /\ \A i \in Calls : i # op.id => c[i] = call[i]
    BY <1>2, <2>1 DEF CallRecords
  <2>3. call' = Sending(c, op.id) BY <1>1
  <2> HIDE DEF c
  <2>4. ~c[op.id].cancelled BY <1>1, <2>2
  <2>5. QED BY <1>2, <2>2, <2>3, <2>4, SendingTyped
<1> HIDE DEF now
<1>5. IsFiniteSet(active') /\ Cardinality(active') <= MaxActive /\ active' \subseteq Running
  <2>1. IsFiniteSet(active) /\ Cardinality(active) <= MaxActive /\ active \subseteq Running
    BY DEF ToolsInv, ToolsTyped
  <2>2. /\ IsFiniteSet(active \ {op}) /\ Cardinality(active \ {op}) = Cardinality(active) - 1
    BY <2>1, FS_RemoveElement
  <2>3. /\ IsFiniteSet(active') /\ Cardinality(active') <= Cardinality(active \ {op}) + 1
    <3> DEFINE r == active \ {op}
    <3>1. IsFiniteSet(r) /\ Cardinality(r) \in Nat BY <2>2, FS_CardinalityType
    <3> HIDE DEF r
    <3>2. /\ IsFiniteSet(r \cup {now})
          /\ Cardinality(r \cup {now}) = IF now \in r THEN Cardinality(r) ELSE Cardinality(r) + 1
      BY <3>1, FS_AddElement
    <3>3. Cardinality(r \cup {now}) <= Cardinality(r) + 1 BY <3>1, <3>2
    <3>4. QED BY <1>1, <3>2, <3>3 DEF r
  <2>4. Cardinality(active) \in Nat /\ Cardinality(active') \in Nat /\ MaxActive \in Nat
    BY <2>1, <2>3, FS_CardinalityType, InputAssumption
  <2>5. QED BY <1>1, <1>3, <2>1, <2>2, <2>3, <2>4
<1>6. ToolsTyped(waiting', active', call', executed') BY <1>1, <1>4, <1>5 DEF ToolsInv, ToolsTyped
<1>7. Fit(waiting', active', call', executed')
  <2>1. ASSUME NEW o \in active', o.at = "sends"
        PROVE  /\ call'[o.id].delivery \in {"sending", "sent"}
               /\ call'[o.id].cancelled => call'[o.id].delivery = "sent"
    <3>1. o.id \in Calls BY <1>5 DEF Running
    <3>2. CASE o.id = op.id BY <1>4, <3>2
    <3>3. CASE o.id # op.id
      <4>1. o \in active BY <1>1, <1>3, <3>3
      <4>2. QED BY <1>4, <2>1, <3>1, <3>3, <4>1 DEF ToolsInv, Fit
    <3>4. QED BY <3>2, <3>3
  <2>2. QED BY <1>1, <2>1 DEF ToolsInv, Fit
<1>8. \A i \in Calls : ~Seen(i)' => Unasked(i, waiting', active', call', executed')
  <2>1. \A i \in Calls : Seen(i)' = Seen(i) BY <1>1 DEF Seen, Known
  <2>2. \A i \in Calls : ~Seen(i) => Unasked(i, waiting, active, call', executed)
    BY <1>4, OnlyOf
  <2>3. \A i \in Calls : ~Seen(i) => op.id # i BY ActiveSeen
  <2>4. QED BY <1>1, <1>3, <2>1, <2>2, <2>3 DEF Unasked
<1>9. QED BY <1>1, <1>6, <1>7, <1>8 DEF ToolsInv

\* An operation that ends frees its slot.
LEMMA OperationEndsKeeps ==
  ASSUME ToolsInv, NEW op \in active, NEW c \in [Calls -> CallRecords], OperationEnds(op, c),
         \A i \in Calls : i # op.id => c[i] = call[i],
         c[op.id].cancelled = call[op.id].cancelled,
         c[op.id].delivery = call[op.id].delivery \/ c[op.id].delivery = "sent"
  PROVE  ToolsInv'
<1>1. Drains(waiting, active \ {op}, c) /\ UNCHANGED <<ledger, tombs>> BY DEF OperationEnds
<1>2. ToolsTyped(waiting, active \ {op}, c, executed)
  <2>1. IsFiniteSet(active) /\ Cardinality(active) <= MaxActive BY DEF ToolsInv, ToolsTyped
  <2>2. IsFiniteSet(active \ {op}) /\ Cardinality(active \ {op}) = Cardinality(active) - 1
    BY <2>1, FS_RemoveElement
  <2>3. Cardinality(active) \in Nat /\ MaxActive \in Nat BY <2>1, FS_CardinalityType, InputAssumption
  <2>4. QED BY <2>1, <2>2, <2>3 DEF ToolsInv, ToolsTyped
<1>3. Fit(waiting, active \ {op}, c, executed)
  <2>1. ASSUME NEW o \in active, o.at = "sends"
        PROVE  /\ c[o.id].delivery \in {"sending", "sent"}
               /\ c[o.id].cancelled => c[o.id].delivery = "sent"
    <3>1. o.id \in Calls /\ op.id \in Calls BY ActiveSeen
    <3>2. /\ call[o.id].delivery \in {"sending", "sent"}
          /\ call[o.id].cancelled => call[o.id].delivery = "sent"
      BY <2>1 DEF ToolsInv, Fit
    <3>3. CASE o.id = op.id BY <3>2, <3>3
    <3>4. CASE o.id # op.id BY <3>1, <3>2, <3>4
    <3>5. QED BY <3>3, <3>4
  <2>2. QED BY <2>1 DEF ToolsInv, Fit
<1>4. \A i \in Calls : ~Seen(i)' => Unasked(i, waiting, active \ {op}, c, executed)
  <2>1. \A i \in Calls : Seen(i)' = Seen(i) BY <1>1 DEF Seen, Known
  <2>2. QED BY <2>1, OnlyOf DEF Unasked
<1>5. ledger' \in Seq(Calls) /\ tombs' \subseteq Calls /\ Len(ledger') <= MaxLedger
  BY <1>1 DEF ToolsInv
<1>6. QED BY <1>1, <1>2, <1>3, <1>4, <1>5, DrainsSound

LEMMA CancelledReturnsKeeps ==
  ASSUME ToolsInv, NEW op \in active, CancelledReturns(op)
  PROVE  ToolsInv'
<1> DEFINE c == IF op.does = "execute" THEN [call EXCEPT ![op.id].state = "done"] ELSE call
<1>1. op.id \in Calls BY ActiveSeen
<1>2. /\ c \in [Calls -> CallRecords] /\ c[op.id].cancelled = call[op.id].cancelled
      /\ c[op.id].delivery = call[op.id].delivery
      /\ \A i \in Calls : i # op.id => c[i] = call[i]
  BY <1>1 DEF ToolsInv, ToolsTyped, CallRecords
<1>3. OperationEnds(op, c) BY DEF CancelledReturns
<1> HIDE DEF c
<1>4. QED BY <1>2, <1>3, OperationEndsKeeps

LEMMA ResultSentKeeps ==
  ASSUME ToolsInv, NEW op \in active, ResultSent(op)
  PROVE  ToolsInv'
<1> DEFINE c == [call EXCEPT ![op.id].delivery = "sent"]
<1>1. op.id \in Calls BY ActiveSeen
<1>2. /\ c \in [Calls -> CallRecords] /\ c[op.id].cancelled = call[op.id].cancelled
      /\ c[op.id].delivery = "sent"
      /\ \A i \in Calls : i # op.id => c[i] = call[i]
  BY <1>1 DEF ToolsInv, ToolsTyped, CallRecords
<1>3. OperationEnds(op, c) BY DEF ResultSent
<1> HIDE DEF c
<1>4. QED BY <1>2, <1>3, OperationEndsKeeps

\* A call is cancelled before its result is on its way, or after it arrived.
LEMMA CallCancelledKeeps ==
  ASSUME ToolsInv, NEW id \in Calls, CallCancelled(id)
  PROVE  ToolsInv'
<1>1. /\ Known(id) /\ call[id].delivery # "sending"
      /\ call' = [call EXCEPT ![id].cancelled = TRUE, ![id].cached = FALSE]
      /\ UNCHANGED <<ledger, tombs, waiting, active, executed>>
  BY DEF CallCancelled
<1>2. /\ call' \in [Calls -> CallRecords] /\ call'[id].delivery = call[id].delivery
      /\ \A i \in Calls : i # id => call'[i] = call[i]
  BY <1>1 DEF ToolsInv, ToolsTyped, CallRecords
<1>3. ToolsTyped(waiting', active', call', executed') BY <1>1, <1>2 DEF ToolsInv, ToolsTyped
<1>4. ASSUME NEW o \in active, o.at = "sends"
      PROVE  /\ call'[o.id].delivery \in {"sending", "sent"}
             /\ call'[o.id].cancelled => call'[o.id].delivery = "sent"
  <2>1. o.id \in Calls BY ActiveSeen
  <2>2. /\ call[o.id].delivery \in {"sending", "sent"}
        /\ call[o.id].cancelled => call[o.id].delivery = "sent"
    BY <1>4 DEF ToolsInv, Fit
  <2>3. CASE o.id = id BY <1>1, <1>2, <2>2, <2>3
  <2>4. CASE o.id # id BY <1>2, <2>1, <2>2, <2>4
  <2>5. QED BY <2>3, <2>4
<1>5. Fit(waiting', active', call', executed') BY <1>1, <1>4 DEF ToolsInv, Fit
<1>6. \A i \in Calls : Seen(i)' = Seen(i) BY <1>1 DEF Seen, Known
<1>7. \A i \in Calls : ~Seen(i) => i # id BY <1>1 DEF Seen
<1>8. \A i \in Calls : ~Seen(i)' => Unasked(i, waiting', active', call', executed')
  BY <1>1, <1>2, <1>6, <1>7 DEF ToolsInv, Unasked
<1>9. QED BY <1>1, <1>3, <1>5, <1>8 DEF ToolsInv

LEMMA ToolsAlone ==
  ASSUME ToolsInv, UNCHANGED tools
  PROVE  ToolsInv'
  BY DEF tools, ToolsInv, Seen, Known

\* Before the first call there are no books to keep.
LEMMA NoToolsYet ==
  /\ ToolsTyped(<<>>, {}, [c \in Calls |-> NoCall], [c \in Calls |-> 0])
  /\ Fit(<<>>, {}, [c \in Calls |-> NoCall], [c \in Calls |-> 0])
  /\ \A i \in Calls : Unasked(i, <<>>, {}, [c \in Calls |-> NoCall], [c \in Calls |-> 0])
  /\ <<>> \in Seq(Calls) /\ Len(<<>>) <= MaxLedger
<1>1. Cardinality({}) = 0 /\ IsFiniteSet({}) /\ MaxActive \in Nat /\ MaxLedger \in Nat
  BY FS_EmptySet, InputAssumption
<1>2. [c \in Calls |-> NoCall] \in [Calls -> CallRecords] BY DEF NoCall, CallRecords
<1>3. <<>> \in Seq(Op) /\ <<>> \in Seq(Calls) BY EmptySeq
<1>4. ToolsTyped(<<>>, {}, [c \in Calls |-> NoCall], [c \in Calls |-> 0])
  BY <1>1, <1>2, <1>3 DEF ToolsTyped
<1>5. Fit(<<>>, {}, [c \in Calls |-> NoCall], [c \in Calls |-> 0]) BY DEF Fit
<1>6. \A i \in Calls : Unasked(i, <<>>, {}, [c \in Calls |-> NoCall], [c \in Calls |-> 0])
  BY DEF Unasked
<1>7. QED BY <1>1, <1>3, <1>4, <1>5, <1>6

LEMMA ToolsInitial ==
  ASSUME InputInit
  PROVE  ToolsInv
  BY NoToolsYet DEF InputInit, ToolsInv

LEMMA ClosesTools ==
  ASSUME Closes
  PROVE  ToolsInv'
  BY NoToolsYet DEF Closes, ToolsInv

(* What is held is released *)

\* Marking calls as being sent leaves an output outstanding.
LEMMA StillOutstanding ==
  ASSUME NEW c, NEW d, NEW s \in Seq(Calls), Outstanding(c, s),
         \A i \in Calls : /\ d[i].cancelled = c[i].cancelled
                          /\ d[i] # c[i] => d[i].delivery = "sending"
  PROVE  Outstanding(d, s)
<1>1. PICK k \in DOMAIN s : ~c[s[k]].cancelled /\ c[s[k]].delivery # "sent"
  BY DEF Outstanding
<1>2. s[k] \in Calls BY ElementOfSeq, LenProperties
<1>3. ~d[s[k]].cancelled /\ d[s[k]].delivery # "sent" BY <1>1, <1>2
<1>4. QED BY <1>3 DEF Outstanding

\* After an operation, the drain is queued unless another output is awaited.
LEMMA ReleasesReleases ==
  ASSUME ToolsInv, NEW c, Releases(held, c, ledger, queue), held' = held, ledger' = ledger,
         \A i \in Calls : /\ call'[i].cancelled = c[i].cancelled
                          /\ call'[i] # c[i] => call'[i].delivery = "sending"
  PROVE  SomethingReleases'
<1>1. held = <<>> \/ flush' \/ Outstanding(c, ledger) BY DEF Releases
<1>2. ledger \in Seq(Calls) BY DEF ToolsInv
<1>3. Outstanding(c, ledger) => Outstanding(call', ledger') BY <1>2, StillOutstanding
<1>4. QED BY <1>1, <1>3 DEF SomethingReleases

\* What a free slot changes of the records.
LEMMA DrainsMarks ==
  ASSUME NEW w \in Seq(Op), NEW r, NEW c \in [Calls -> CallRecords], Drains(w, r, c)
  PROVE  /\ r \subseteq active'
         /\ \A i \in Calls : /\ call'[i].cancelled = c[i].cancelled
                             /\ c[i].cancelled => call'[i] = c[i]
                             /\ call'[i] # c[i] => call'[i].delivery = "sending"
<1>1. CASE ~ (w # <<>> /\ FreeSlot(r))
  BY <1>1 DEF Drains
<1>2. CASE w # <<>> /\ FreeSlot(r)
  <2> DEFINE op == Starting(c, Head(w))
  <2>1. /\ active' = r \cup {op}
        /\ call' = IF op.at = "sends" THEN Sending(c, op.id) ELSE c
    BY <1>2 DEF Drains
  <2>2. Head(w) \in Op BY <1>2, HeadTailProperties
  <2>3. op.id \in Calls /\ (op.at = "sends" => ~c[op.id].cancelled)
    BY <2>2 DEF Starting, Op
  <2> HIDE DEF op
  <2>4. QED BY <2>1, <2>3, SendingTyped
<1>3. QED BY <1>1, <1>2

\* The client's side never leaves what it holds without something that
\* releases it.
LEMMA ClientReleases ==
  ASSUME InputInv, UNCHANGED <<tools, gate>>,
         \/ held' = held /\ flush' = flush
         \/ held' = <<>>
         \/ Holds
         \/ \E forward \in BOOLEAN : HeldScored(forward)
         \/ \E left, drains : \E q : GoesOn(left, drains, held, q)
  PROVE  HeldIsReleased'
<1> SUFFICES ASSUME ~gate
             PROVE  SomethingReleases'
  BY DEF HeldIsReleased
<1>1. SomethingReleases BY DEF InputInv, HeldIsReleased
<1>2. Outstanding(call, ledger)' = Outstanding(call, ledger) /\ active' = active BY DEF tools
<1>3. CASE Holds BY <1>1, <1>2, <1>3 DEF Holds, Holding, SomethingReleases
<1>4. ASSUME NEW forward \in BOOLEAN, HeldScored(forward)
      PROVE  FALSE
  <2>1. scoring # <<>> /\ scoring \in Seq(Item)
    BY <1>4 DEF HeldScored, InputInv, ClientInv, ClientTyped
  <2>2. 1 \in 1..Len(scoring) BY <2>1, EmptySeq, LenProperties
  <2>3. QED BY <2>2 DEF InputInv, ClientInv, JobOK
<1>5. ASSUME NEW left, NEW drains, NEW q, GoesOn(left, drains, held, q)
      PROVE  SomethingReleases'
  BY <1>1, <1>2, <1>5 DEF GoesOn, SomethingReleases
<1>6. QED BY <1>1, <1>2, <1>3, <1>4, <1>5 DEF SomethingReleases

LEMMA CallArrivesReleases ==
  ASSUME ToolsInv, NEW id \in Calls, CallArrives(id)
  PROVE  SomethingReleases'
<1> DEFINE x == [id |-> id, does |-> "execute"]
           c == [call EXCEPT ![id] = [NoCall EXCEPT !.state = "pending"]]
           w == Append(waiting, x)
<1>1. Drains(w, active, c) BY DEF CallArrives
<1>2. x \in Op /\ waiting \in Seq(Op) BY DEF Op, ToolsInv, ToolsTyped
<1>3. w \in Seq(Op) BY <1>2, AppendProperties
<1>4. c \in [Calls -> CallRecords] /\ ~c[id].cancelled /\ c[id].delivery = "not_started"
  BY DEF ToolsInv, ToolsTyped, CallRecords, NoCall
<1> HIDE DEF w, c
<1>5. ~call'[id].cancelled /\ call'[id].delivery # "sent" BY <1>1, <1>3, <1>4, DrainsMarks
<1>6. PICK k \in 1..Len(ledger') : ledger'[k] = id BY CallArrivesLedger
<1>7. k \in DOMAIN ledger' BY CallArrivesLedger, LenProperties
<1>8. Outstanding(call', ledger') BY <1>5, <1>6, <1>7 DEF Outstanding
<1>9. QED BY <1>8 DEF SomethingReleases

LEMMA CallRepeatsReleases ==
  ASSUME ToolsInv, HeldIsReleased, NEW id \in Calls, CallRepeats(id)
  PROVE  HeldIsReleased'
<1> DEFINE x == [id |-> id, does |-> "replay"]
           w == Append(waiting, x)
<1>1. Drains(w, active, call) /\ UNCHANGED <<ledger, held, flush, gate>> BY DEF CallRepeats, client
<1>2. x \in Op /\ waiting \in Seq(Op) /\ call \in [Calls -> CallRecords] /\ ledger \in Seq(Calls)
  BY DEF Op, ToolsInv, ToolsTyped
<1>3. w \in Seq(Op) BY <1>2, AppendProperties
<1> HIDE DEF w
<1>4. Outstanding(call, ledger) => Outstanding(call', ledger')
  BY <1>1, <1>2, <1>3, DrainsMarks, StillOutstanding
<1>5. active \subseteq active' BY <1>1, <1>2, <1>3, DrainsMarks
<1>6. QED BY <1>1, <1>4, <1>5 DEF HeldIsReleased, SomethingReleases

LEMMA OperationEndsReleases ==
  ASSUME ToolsInv, NEW op \in active, NEW c \in [Calls -> CallRecords], OperationEnds(op, c)
  PROVE  SomethingReleases'
<1>1. /\ Drains(waiting, active \ {op}, c) /\ Releases(held, c, ledger, queue)
      /\ held' = held /\ ledger' = ledger
  BY DEF OperationEnds
<1>2. waiting \in Seq(Op) BY DEF ToolsInv, ToolsTyped
<1>3. \A i \in Calls : /\ call'[i].cancelled = c[i].cancelled
                       /\ call'[i] # c[i] => call'[i].delivery = "sending"
  BY <1>1, <1>2, DrainsMarks
<1>4. QED BY <1>1, <1>3, ReleasesReleases

LEMMA CallStepReleases ==
  ASSUME ToolsInv, HeldIsReleased, NEW id \in Calls,
         CallArrives(id) \/ CallRepeats(id) \/ CallCancelled(id)
  PROVE  HeldIsReleased'
<1>1. CASE CallArrives(id) BY <1>1, CallArrivesReleases DEF HeldIsReleased
<1>2. CASE CallRepeats(id) BY <1>2, CallRepeatsReleases
<1>3. CASE CallCancelled(id)
  BY <1>3, ReleasesReleases DEF CallCancelled, HeldIsReleased
<1>4. QED BY <1>1, <1>2, <1>3

LEMMA ToolStepReleases ==
  ASSUME ToolsInv, NEW op \in active, NEW cached \in BOOLEAN,
         ToolReturns(op, cached) \/ CancelledReturns(op) \/ ResultSent(op)
  PROVE  HeldIsReleased'
<1>1. op.id \in Calls BY ActiveSeen
<1>2. CASE ToolReturns(op, cached)
  BY <1>2 DEF ToolReturns, HeldIsReleased, SomethingReleases
<1>3. CASE CancelledReturns(op)
  <2> DEFINE c == IF op.does = "execute" THEN [call EXCEPT ![op.id].state = "done"] ELSE call
  <2>1. c \in [Calls -> CallRecords] BY <1>1 DEF ToolsInv, ToolsTyped, CallRecords
  <2>2. OperationEnds(op, c) BY <1>3 DEF CancelledReturns
  <2> HIDE DEF c
  <2>3. QED BY <2>1, <2>2, OperationEndsReleases DEF HeldIsReleased
<1>4. CASE ResultSent(op)
  <2> DEFINE c == [call EXCEPT ![op.id].delivery = "sent"]
  <2>1. c \in [Calls -> CallRecords] BY <1>1 DEF ToolsInv, ToolsTyped, CallRecords
  <2>2. OperationEnds(op, c) BY <1>4 DEF ResultSent
  <2> HIDE DEF c
  <2>3. QED BY <2>1, <2>2, OperationEndsReleases DEF HeldIsReleased
<1>5. QED BY <1>2, <1>3, <1>4

(* A cancelled call is silent *)

\* The result of no cancelled call is given to the provider.
SilentStep == \A id \in Calls :
  open' /\ call[id].cancelled => call'[id].delivery = call[id].delivery

\* An operation that ends sends nothing of a call that was cancelled.
LEMMA OperationEndsSilent ==
  ASSUME ToolsInv, NEW op \in active, NEW c \in [Calls -> CallRecords], OperationEnds(op, c),
         \A i \in Calls : i # op.id => c[i] = call[i],
         c[op.id].cancelled = call[op.id].cancelled,
         call[op.id].cancelled => c[op.id].delivery = call[op.id].delivery
  PROVE  SilentStep
<1>1. Drains(waiting, active \ {op}, c) /\ waiting \in Seq(Op)
  BY DEF OperationEnds, ToolsInv, ToolsTyped
<1>2. \A i \in Calls : c[i].cancelled => call'[i] = c[i] BY <1>1, DrainsMarks
<1>3. op.id \in Calls BY ActiveSeen
<1>4. QED BY <1>2, <1>3 DEF SilentStep

LEMMA CallStepSilent ==
  ASSUME ToolsInv, NEW id \in Calls,
         CallArrives(id) \/ CallRepeats(id) \/ CallCancelled(id)
  PROVE  SilentStep
<1>1. waiting \in Seq(Op) /\ call \in [Calls -> CallRecords] BY DEF ToolsInv, ToolsTyped
<1>2. CASE CallArrives(id)
  <2> DEFINE x == [id |-> id, does |-> "execute"]
             c == [call EXCEPT ![id] = [NoCall EXCEPT !.state = "pending"]]
             w == Append(waiting, x)
  <2>1. Drains(w, active, c) /\ ~Seen(id) BY <1>2 DEF CallArrives
  <2>2. w \in Seq(Op) BY <1>1, AppendProperties DEF Op
  <2>3. c \in [Calls -> CallRecords] /\ \A i \in Calls : i # id => c[i] = call[i]
    BY <1>1 DEF CallRecords, NoCall
  <2>4. ~call[id].cancelled BY <2>1 DEF ToolsInv, Unasked, NoCall
  <2> HIDE DEF w, c
  <2>5. QED BY <2>1, <2>2, <2>3, <2>4, DrainsMarks DEF SilentStep
<1>3. CASE CallRepeats(id)
  <2> DEFINE x == [id |-> id, does |-> "replay"]
             w == Append(waiting, x)
  <2>1. Drains(w, active, call) BY <1>3 DEF CallRepeats
  <2>2. w \in Seq(Op) BY <1>1, AppendProperties DEF Op
  <2> HIDE DEF w
  <2>3. QED BY <1>1, <2>1, <2>2, DrainsMarks DEF SilentStep
<1>4. CASE CallCancelled(id)
  BY <1>1, <1>4 DEF CallCancelled, SilentStep, CallRecords
<1>5. QED BY <1>2, <1>3, <1>4

LEMMA ToolStepSilent ==
  ASSUME ToolsInv, NEW op \in active, NEW cached \in BOOLEAN,
         ToolReturns(op, cached) \/ CancelledReturns(op) \/ ResultSent(op)
  PROVE  SilentStep
<1>1. op.id \in Calls /\ call \in [Calls -> CallRecords] BY ActiveSeen DEF ToolsInv, ToolsTyped
<1>2. CASE ToolReturns(op, cached)
  <2>1. ~call[op.id].cancelled /\ \A i \in Calls : i # op.id => call'[i] = call[i]
    BY <1>1, <1>2 DEF ToolReturns, Wanted, Sending
  <2>2. QED BY <2>1 DEF SilentStep
<1>3. CASE CancelledReturns(op)
  <2> DEFINE c == IF op.does = "execute" THEN [call EXCEPT ![op.id].state = "done"] ELSE call
  <2>1. /\ c \in [Calls -> CallRecords] /\ c[op.id].cancelled = call[op.id].cancelled
        /\ c[op.id].delivery = call[op.id].delivery
        /\ \A i \in Calls : i # op.id => c[i] = call[i]
    BY <1>1 DEF CallRecords
  <2>2. OperationEnds(op, c) BY <1>3 DEF CancelledReturns
  <2> HIDE DEF c
  <2>3. QED BY <2>1, <2>2, OperationEndsSilent
<1>4. CASE ResultSent(op)
  <2> DEFINE c == [call EXCEPT ![op.id].delivery = "sent"]
  <2>1. /\ c \in [Calls -> CallRecords] /\ c[op.id].cancelled = call[op.id].cancelled
        /\ c[op.id].delivery = "sent"
        /\ \A i \in Calls : i # op.id => c[i] = call[i]
    BY <1>1 DEF CallRecords
  <2>2. call[op.id].cancelled => call[op.id].delivery = "sent"
    BY <1>4 DEF ResultSent, ToolsInv, Fit
  <2>3. OperationEnds(op, c) BY <1>4 DEF ResultSent
  <2> HIDE DEF c
  <2>4. QED BY <2>1, <2>2, <2>3, OperationEndsSilent
<1>5. QED BY <1>2, <1>3, <1>4

(* The invariant *)

LEMMA InputInitial ==
  ASSUME InputInit
  PROVE  InputInv
<1>1. HeldIsReleased BY DEF InputInit, HeldIsReleased, SomethingReleases
<1>2. QED BY <1>1, ClientInitial, ToolsInitial DEF InputInv

\* What a closing session held is forgotten.
LEMMA ClosesKeeps ==
  ASSUME InputInv, Closes
  PROVE  InputInv' /\ SilentStep
<1>1. HeldIsReleased' BY DEF Closes, HeldIsReleased, SomethingReleases
<1>2. SilentStep BY DEF Closes, SilentStep
<1>3. QED BY <1>1, <1>2, ClosesClient, ClosesTools DEF InputInv

\* A step of the client's side leaves the tools alone.
LEMMA ClientStep ==
  ASSUME InputInv,
         \/ \E k \in Kinds : ClientSends(k)
         \/ Ignores \/ Holds \/ Takes \/ TakesHeld \/ GatePasses \/ ItemDone
         \/ \E forward \in BOOLEAN : HeldScored(forward)
         \/ Demoted
  PROVE  InputInv' /\ SilentStep
<1>1. UNCHANGED <<tools, gate, open>>
  BY DEF ClientSends, Ignores, Holds, Takes, TakesHeld, GatePasses, ItemDone, HeldScored, Demoted
<1>2. ToolsInv' BY <1>1, ToolsAlone DEF InputInv
<1>3. SilentStep BY <1>1 DEF SilentStep, tools
<1>4. ClientInv'
  BY ClientSendsKeeps, IgnoresKeeps, HoldsKeeps, TakesKeeps, TakesHeldKeeps, GatePassesKeeps,
     ItemDoneKeeps, HeldScoredKeeps, DemotedKeeps DEF InputInv
<1>5. \/ held' = held /\ flush' = flush
      \/ held' = <<>>
      \/ Holds
      \/ \E forward \in BOOLEAN : HeldScored(forward)
      \/ \E left, drains : \E q : GoesOn(left, drains, held, q)
  <2>1. CASE \E k \in Kinds : ClientSends(k) BY <2>1 DEF ClientSends
  <2>2. CASE Ignores \/ GatePasses BY <2>2 DEF Ignores, GatePasses
  <2>3. CASE Takes BY <2>3 DEF Takes
  <2>4. CASE TakesHeld BY <2>4 DEF TakesHeld, GoesOn
  <2>5. CASE ItemDone BY <2>5 DEF ItemDone
  <2>6. CASE Demoted BY <2>6 DEF Demoted
  <2>7. QED BY <2>1, <2>2, <2>3, <2>4, <2>5, <2>6
<1>6. HeldIsReleased' BY <1>1, <1>5, ClientReleases
<1>7. QED BY <1>2, <1>3, <1>4, <1>6 DEF InputInv

\* A step of the tools queues the drain at most.
LEMMA ToolStep ==
  ASSUME InputInv,
         \/ \E id \in Calls : CallArrives(id) \/ CallRepeats(id) \/ CallCancelled(id)
         \/ \E op \in active : \/ \E cached \in BOOLEAN : ToolReturns(op, cached)
                               \/ CancelledReturns(op) \/ ResultSent(op)
  PROVE  InputInv' /\ SilentStep
<1>1. ToolsInv /\ ClientInv /\ HeldIsReleased BY DEF InputInv
<1>2. /\ UNCHANGED <<gate, demoted, arrived, job, held, scoring, sent, open>>
      /\ flush' \in BOOLEAN /\ (queue' = queue \/ queue' = Append(queue, Drain))
  BY <1>1 DEF CallArrives, CallRepeats, CallCancelled, ToolReturns, CancelledReturns, ResultSent,
              OperationEnds, Releases, client, ClientInv, ClientTyped
<1>3. ClientInv' BY <1>1, <1>2, DrainQueued
<1>4. ASSUME NEW id \in Calls, CallArrives(id) \/ CallRepeats(id) \/ CallCancelled(id)
      PROVE  ToolsInv' /\ HeldIsReleased' /\ SilentStep
  BY <1>1, <1>4, CallArrivesKeeps, CallRepeatsKeeps, CallCancelledKeeps, CallStepReleases, CallStepSilent
<1>5. ASSUME NEW op \in active, NEW cached \in BOOLEAN,
             ToolReturns(op, cached) \/ CancelledReturns(op) \/ ResultSent(op)
      PROVE  ToolsInv' /\ HeldIsReleased' /\ SilentStep
  BY <1>1, <1>5, ToolReturnsKeeps, CancelledReturnsKeeps, ResultSentKeeps, ToolStepReleases, ToolStepSilent
<1>6. TRUE \in BOOLEAN OBVIOUS
<1>7. ToolsInv' /\ HeldIsReleased' /\ SilentStep BY <1>4, <1>5, <1>6
<1>8. QED BY <1>3, <1>7 DEF InputInv

LEMMA InputInductive ==
  ASSUME InputInv, [InputNext]_inputVars
  PROVE  InputInv' /\ (SilentStep \/ UNCHANGED inputVars)
<1>1. CASE Closes BY <1>1, ClosesKeeps
<1>2. CASE UNCHANGED inputVars
  <2>1. UNCHANGED <<tools, gate, demoted, arrived, queue, job, held, flush, scoring, sent, open>>
    BY <1>2 DEF inputVars, client
  <2>2. ToolsInv' BY <2>1, ToolsAlone DEF InputInv
  <2>3. ClientInv' BY <2>1, DrainQueued DEF InputInv, ClientInv, ClientTyped
  <2>4. HeldIsReleased' BY <2>1, ClientReleases
  <2>5. QED BY <1>2, <2>2, <2>3, <2>4 DEF InputInv
<1>3. CASE ~Closes /\ InputNext
  <2>1. \/ \E k \in Kinds : ClientSends(k)
        \/ Ignores \/ Holds \/ Takes \/ TakesHeld \/ GatePasses \/ ItemDone
        \/ \E forward \in BOOLEAN : HeldScored(forward)
        \/ Demoted
        \/ \E id \in Calls : CallArrives(id) \/ CallRepeats(id) \/ CallCancelled(id)
        \/ \E op \in active : \/ \E cached \in BOOLEAN : ToolReturns(op, cached)
                              \/ CancelledReturns(op) \/ ResultSent(op)
    BY <1>3 DEF InputNext, ClientOverflows, ClientCloses, ItemFails, CallsOverflow, ReplayExpired,
                CallConflicts, CancelledTooLate, ResultRefused
  <2>2. QED BY <2>1, ClientStep, ToolStep
<1>4. QED BY <1>1, <1>2, <1>3

LEMMA InputInvKept ==
  ASSUME InputInv
  PROVE  InputKept /\ ExecutedOnce
<1>1. InputTypeOK
  BY DEF InputInv, ClientInv, ClientTyped, ToolsInv, ToolsTyped, InputTypeOK, Jobs, CallRecords, Running
<1>2. SaidInOrder
  <2>1. sent \in Seq(Item) /\ Rising(gate, sent) BY DEF InputInv, ClientInv, ClientTyped, Ordered
  <2>2. DOMAIN sent = 1..Len(sent) BY <2>1, LenProperties
  <2>3. \A i \in 1..Len(sent) : sent[i].kind # "drain"
    <3>1. \A i \in 1..Len(sent) : sent[i] \in Item BY <2>1, ElementOfSeq
    <3>2. QED BY <3>1 DEF Item, Kinds
  <2>4. QED BY <2>1, <2>2, <2>3 DEF SaidInOrder, Rising, Before, Counts
<1>3. ExecutedOnce BY DEF InputInv, ToolsInv, Fit, ExecutedOnce
<1>4. QED BY <1>1, <1>2, <1>3 DEF InputKept, InputInv

\* What the user said reaches the provider in the order it was said, and held
\* input has something that releases it: however many items, holds, drains,
\* tool calls and closes (live-gateway-session.ts:2292-2440).
THEOREM InputAlwaysKept == InputSpec => []InputKept
<1>1. InputInit => InputInv BY InputInitial
<1>2. InputInv /\ [InputNext]_inputVars => InputInv' BY InputInductive
<1>3. InputInv => InputKept BY InputInvKept
<1>4. QED BY <1>1, <1>2, <1>3, PTL DEF InputSpec

\* Whatever the provider repeats, cancels or floods, and however small the
\* ledger, a call id is executed at most once
\* (live-gateway-session.ts, enqueueProviderToolCall).
THEOREM AlwaysExecutedOnce == InputSpec => []ExecutedOnce
<1>1. InputInit => InputInv BY InputInitial
<1>2. InputInv /\ [InputNext]_inputVars => InputInv' BY InputInductive
<1>3. InputInv => ExecutedOnce BY InputInvKept
<1>4. QED BY <1>1, <1>2, <1>3, PTL DEF InputSpec

\* No step, of whatever operation, gives the provider the result of a call it
\* cancelled (live-gateway-session.ts, handleProviderToolCallCancellation).
THEOREM CancelledAlwaysSilent == InputSpec => CancelledIsSilent
<1>1. InputInit => InputInv BY InputInitial
<1>2. InputInv /\ [InputNext]_inputVars => InputInv' BY InputInductive
<1>3. InputInv /\ [InputNext]_inputVars
        => [\A id \in Calls : open' /\ call[id].cancelled
                                => call'[id].delivery = call[id].delivery]_inputVars
  BY InputInductive DEF SilentStep
<1>4. QED BY <1>1, <1>2, <1>3, PTL DEF InputSpec, CancelledIsSilent

-----------------------------------------------------------------------------
(* What the session says on its own account *)

FlushRecord == [at : {"off", "mux", "answer", "claim", "hand", "hear", "record"},
                says : {"none", "answer", "externals", "notices", "progress"},
                todo : SUBSET Tasks, left : SUBSET (Tasks \cup Externals),
                got : SUBSET (Answers \cup Tasks \cup Externals),
                play : {"none", "waiting", "playing", "delivered", "lost"}]

\* A flush r, with h heard and v whether clients confirm playback: one that is
\* over is at rest, and what a flush of notices records was heard.
Good(r, h, v) ==
  /\ r \in FlushRecord
  /\ r.at = "off" => r = Off
  /\ r.at \in {"mux", "answer"} => r.says = "answer"
  /\ r.at = "claim" => r.play = "none"
  /\ r.at = "hand" /\ r.play = "none" => ~v
  /\ r.at = "record" => r.says = "notices"
  /\ r.says = "notices" => r.got \subseteq Tasks
  /\ r.says = "externals" => r.got \subseteq Externals
  /\ r.says = "notices" /\ (r.at = "record" \/ (r.at = "hear" /\ r.play = "none") \/ r.play = "delivered")
       => r.got \subseteq h

\* A claim of this session belongs to a flush of notices.
Worked(t) == lease[t] = "self" => \E f \in Flushes : fl[f].says = "notices" /\ t \in fl[f].got

\* The variables besides the flushes and the claims.
SpeechTyped ==
  /\ up \in BOOLEAN /\ muted \in BOOLEAN /\ v11 \in BOOLEAN
  /\ user \in BOOLEAN /\ expected \in BOOLEAN
  /\ resp \in {"no", "conversation", "task_notification"}
  /\ awaiting \in BOOLEAN /\ dog \in BOOLEAN /\ latch \in BOOLEAN /\ micro \in BOOLEAN /\ retry \in BOOLEAN
  /\ answers \in [Answers -> {"none", "computing", "ready", "gone"}]
  /\ pend \subseteq Tasks /\ ext \subseteq Externals /\ prog \subseteq Tasks
  /\ tries \in [Tasks \cup Externals -> 0..(MaxTries - 1)]
  /\ fl \in [Flushes -> FlushRecord]
  /\ current \in Flushes \cup {Nobody}
  /\ task \in [Tasks -> {"running", "unread", "announced", "read"}]
  /\ lease \in [Tasks -> {"none", "self", "other"}] /\ heard \subseteq Tasks
  /\ events \in 0..MaxEvents

\* The inductive invariant.
SpeechInv ==
  /\ SpeechTyped
  /\ \A f \in Flushes : Good(fl[f], heard, v11)
  /\ \A t \in Tasks : Worked(t)
  /\ HeardBeforeRecorded

(* The flushes there can be *)

LEMMA OffGood == \A h, v : Good(Off, h, v) /\ Off.says # "notices"
  BY DEF Good, Off, FlushRecord

LEMMA LostGood ==
  ASSUME NEW r, NEW h, NEW v, Good(r, h, v), r.play \in {"waiting", "playing"}
  PROVE  Good([r EXCEPT !.play = "lost"], h, v)
<1> DEFINE q == [r EXCEPT !.play = "lost"]
<1>1. /\ q \in FlushRecord /\ q.at = r.at /\ q.says = r.says /\ q.got = r.got /\ q.play = "lost"
  BY DEF Good, FlushRecord
<1>2. r.at # "off" BY DEF Good, Off
<1>3. r.at # "claim" BY DEF Good
<1> HIDE DEF q
<1>4. Good(q, h, v) BY <1>1, <1>2, <1>3 DEF Good
<1>5. QED BY <1>4 DEF q

LEMMA HandGood ==
  ASSUME NEW h, NEW v \in BOOLEAN, NEW what, NEW got,
         \/ what = "notices" /\ got \subseteq Tasks
         \/ what = "externals" /\ got \subseteq Externals
         \/ what = "progress" /\ got = {}
  PROVE  Good([Off EXCEPT !.at = "hand", !.says = what, !.got = got,
                          !.play = IF v THEN "waiting" ELSE "none"], h, v)
  BY DEF Good, Off, FlushRecord

LEMMA ClaimGood ==
  ASSUME NEW h, NEW v, NEW left, NEW todo \in SUBSET Tasks,
         left \subseteq Tasks \cup Externals
  PROVE  /\ Good([Off EXCEPT !.at = "claim", !.says = "notices", !.left = left], h, v)
         /\ Good([Off EXCEPT !.at = "claim", !.says = "externals", !.left = left, !.todo = todo], h, v)
  BY DEF Good, Off, FlushRecord

LEMMA AnswerGood ==
  ASSUME NEW h, NEW v, NEW a \in Answers, NEW todo \in SUBSET Tasks, NEW at0 \in {"mux", "answer"}
  PROVE  Good([Off EXCEPT !.at = at0, !.says = "answer", !.got = {a}, !.todo = todo], h, v)
  BY DEF Good, Off, FlushRecord

\* What is heard only grows.
LEMMA GoodLater ==
  ASSUME NEW r, NEW h, NEW v, NEW k, h \subseteq k, Good(r, h, v)
  PROVE  Good(r, k, v)
  BY DEF Good

LEMMA SpeechInitial ==
  ASSUME SpeechInit
  PROVE  SpeechInv
<1>1. fl \in [Flushes -> FlushRecord] BY OffGood DEF SpeechInit, Good
<1>2. 0 \in 0..(MaxTries - 1) /\ 0 \in 0..MaxEvents BY SpeechAssumption
<1>3. SpeechTyped BY <1>1, <1>2 DEF SpeechInit, SpeechTyped
<1>4. QED BY <1>3, OffGood DEF SpeechInit, SpeechInv, Worked, HeardBeforeRecorded

\* The other flushes are left alone, and this one had claimed nothing.
LEMMA OthersKeep ==
  ASSUME SpeechInv, NEW f \in Flushes, UNCHANGED <<lease, heard, v11, task>>,
         \A g \in Flushes \ {f} : fl'[g] = fl[g],
         Good(fl'[f], heard, v11),
         fl[f].says # "notices" \/ (fl'[f].says = "notices" /\ fl[f].got \subseteq fl'[f].got)
  PROVE  /\ \A g \in Flushes : Good(fl'[g], heard', v11')
         /\ \A t \in Tasks : Worked(t)'
         /\ HeardBeforeRecorded'
<1>1. \A g \in Flushes : Good(fl'[g], heard', v11') BY DEF SpeechInv
<1>2. ASSUME NEW t \in Tasks PROVE Worked(t)'
  <2>1. CASE lease[t] = "self"
    <3>1. PICK g \in Flushes : fl[g].says = "notices" /\ t \in fl[g].got
      BY <2>1 DEF SpeechInv, Worked
    <3>2. fl'[g].says = "notices" /\ t \in fl'[g].got BY <3>1
    <3>3. QED BY <3>2 DEF Worked
  <2>2. CASE lease[t] # "self" BY <2>2 DEF Worked
  <2>3. QED BY <2>1, <2>2
<1>3. QED BY <1>1, <1>2 DEF SpeechInv, HeardBeforeRecorded

(* The steps *)

\* What no flush and no claim is concerned by.
LEMMA SpeechAside ==
  ASSUME SpeechInv, UNCHANGED <<fl, lease, heard, v11, task>>
  PROVE  /\ \A g \in Flushes : Good(fl'[g], heard', v11')
         /\ \A t \in Tasks : Worked(t)'
         /\ HeardBeforeRecorded'
  BY DEF SpeechInv, Worked, HeardBeforeRecorded

LEMMA OneMore == ASSUME SpeechTyped, Happens PROVE events' \in 0..MaxEvents
  BY SpeechAssumption DEF SpeechTyped, Happens

LEMMA MicroTyped == ASSUME Schedules PROVE micro' \in BOOLEAN
  BY DEF Schedules

LEMMA TalkStep ==
  ASSUME SpeechInv, Talks \/ Settles \/ Timers
  PROVE  SpeechInv'
<1> USE DEF flags, talk, gates, items, durable
<1>1. SpeechTyped BY DEF SpeechInv
<1>2. UNCHANGED <<fl, lease, heard, v11, task>>
  BY DEF Talks, Settles, Timers, UserStarts, UserTypes, ResponseStarts, UserStops, ResponseEnds,
         WatchdogFires, RetryFires
<1>3. ASSUME Talks PROVE SpeechTyped'
  <2>1. events' \in 0..MaxEvents \/ events' = events
    BY <1>1, <1>3, OneMore DEF Talks, UserStarts, UserTypes, ResponseStarts
  <2>2. CASE UserStarts BY <1>1, <2>1, <2>2 DEF UserStarts, SpeechTyped
  <2>3. CASE UserTypes BY <1>1, <2>1, <2>3 DEF UserTypes, SpeechTyped
  <2>4. ASSUME NEW s \in {"conversation", "task_notification"}, ResponseStarts(s) PROVE SpeechTyped'
    BY <1>1, <2>1, <2>4 DEF ResponseStarts, SpeechTyped
  <2>5. QED BY <1>3, <2>2, <2>3, <2>4 DEF Talks
<1>4. ASSUME Settles \/ Timers PROVE SpeechTyped'
  <2>1. micro' \in BOOLEAN
    BY <1>4, MicroTyped DEF Settles, Timers, UserStops, ResponseEnds, WatchdogFires, RetryFires
  <2>2. CASE UserStops BY <1>1, <2>1, <2>2 DEF UserStops, SpeechTyped
  <2>3. CASE ResponseEnds BY <1>1, <2>1, <2>3 DEF ResponseEnds, SpeechTyped
  <2>4. CASE Timers BY <1>1, <2>1, <2>4 DEF Timers, WatchdogFires, RetryFires, SpeechTyped
  <2>5. QED BY <1>4, <2>2, <2>3, <2>4 DEF Settles
<1>5. QED BY <1>2, <1>3, <1>4, SpeechAside DEF SpeechInv

LEMMA WorldStep ==
  ASSUME SpeechInv, World
  PROVE  SpeechInv'
<1> USE DEF flags, talk, gates, items, durable
<1>1. SpeechTyped BY DEF SpeechInv
<1>2. ASSUME NEW a \in Answers, AnswerStarts(a) \/ AnswerReady(a) PROVE SpeechInv'
  <2>1. micro' \in BOOLEAN BY <1>1, <1>2, MicroTyped DEF AnswerStarts, AnswerReady, SpeechTyped
  <2>2. events' \in 0..MaxEvents BY <1>1, <1>2, OneMore DEF AnswerStarts, AnswerReady, SpeechTyped
  <2>3. SpeechTyped' BY <1>1, <1>2, <2>1, <2>2 DEF AnswerStarts, AnswerReady, SpeechTyped
  <2>4. UNCHANGED <<fl, lease, heard, v11, task>> BY <1>2 DEF AnswerStarts, AnswerReady
  <2>5. QED BY <2>3, <2>4, SpeechAside DEF SpeechInv
<1>3. ASSUME NEW x \in Externals, AgentNews(x) PROVE SpeechInv'
  <2>1. micro' \in BOOLEAN /\ events' \in 0..MaxEvents BY <1>1, <1>3, MicroTyped, OneMore DEF AgentNews
  <2>2. SpeechTyped' BY <1>1, <1>3, <2>1 DEF AgentNews, SpeechTyped
  <2>3. UNCHANGED <<fl, lease, heard, v11, task>> BY <1>3 DEF AgentNews
  <2>4. QED BY <2>2, <2>3, SpeechAside DEF SpeechInv
<1>4. ASSUME NEW t \in Tasks, TaskProgresses(t) PROVE SpeechInv'
  <2>1. micro' \in BOOLEAN /\ events' \in 0..MaxEvents BY <1>1, <1>4, MicroTyped, OneMore DEF TaskProgresses
  <2>2. SpeechTyped' BY <1>1, <1>4, <2>1 DEF TaskProgresses, SpeechTyped
  <2>3. UNCHANGED <<fl, lease, heard, v11, task>> BY <1>4 DEF TaskProgresses
  <2>4. QED BY <2>2, <2>3, SpeechAside DEF SpeechInv
<1>5. ASSUME NEW t \in Tasks, TaskEnds(t) PROVE SpeechInv'
  <2>1. micro' \in BOOLEAN /\ events' \in 0..MaxEvents BY <1>1, <1>5, MicroTyped, OneMore DEF TaskEnds
  <2>2. SpeechTyped' BY <1>1, <1>5, <2>1 DEF TaskEnds, SpeechTyped
  <2>3. UNCHANGED <<fl, lease, heard, v11>> BY <1>5 DEF TaskEnds
  <2>4. HeardBeforeRecorded' BY <1>1, <1>5, <2>3 DEF TaskEnds, SpeechInv, HeardBeforeRecorded, SpeechTyped
  <2>5. QED BY <2>2, <2>3, <2>4 DEF SpeechInv, Worked
<1>6. ASSUME NEW t \in Tasks, TaskRead(t) PROVE SpeechInv'
  <2>1. events' \in 0..MaxEvents /\ 0 \in 0..(MaxTries - 1) BY <1>1, <1>6, OneMore, SpeechAssumption DEF TaskRead
  <2>2. SpeechTyped' BY <1>1, <1>6, <2>1 DEF TaskRead, Settled, SpeechTyped
  <2>3. UNCHANGED <<fl, lease, heard, v11>> BY <1>6 DEF TaskRead
  <2>4. HeardBeforeRecorded' BY <1>1, <1>6, <2>3 DEF TaskRead, SpeechInv, HeardBeforeRecorded, SpeechTyped
  <2>5. QED BY <2>2, <2>3, <2>4 DEF SpeechInv, Worked
<1>7. ASSUME NEW t \in Tasks, OtherClaims(t) PROVE SpeechInv'
  <2>1. events' \in 0..MaxEvents BY <1>1, <1>7, OneMore DEF OtherClaims
  <2>2. SpeechTyped' BY <1>1, <1>7, <2>1 DEF OtherClaims, SpeechTyped
  <2>3. UNCHANGED <<fl, task, heard, v11>> BY <1>7 DEF OtherClaims
  <2>4. \A u \in Tasks : lease'[u] = "self" => lease[u] = "self"
    BY <1>1, <1>7 DEF OtherClaims, SpeechTyped
  <2>5. QED BY <2>2, <2>3, <2>4 DEF SpeechInv, Worked, HeardBeforeRecorded
<1>8. QED BY <1>2, <1>3, <1>4, <1>5, <1>6, <1>7 DEF World

LEMMA OtherEndsStep ==
  ASSUME SpeechInv, NEW t \in Tasks, OtherEnds(t)
  PROVE  SpeechInv'
<1> USE DEF flags, talk, gates, items, durable
<1>1. SpeechTyped /\ 0 \in 0..(MaxTries - 1) BY SpeechAssumption DEF SpeechInv
<1>2. SpeechTyped'
  <2>1. CASE UNCHANGED <<task, pend, tries, heard>> BY <1>1, <2>1 DEF OtherEnds, SpeechTyped
  <2>2. CASE ~UNCHANGED <<task, pend, tries, heard>> BY <1>1, <2>2 DEF OtherEnds, Settled, SpeechTyped
  <2>3. QED BY <2>1, <2>2
<1>3. UNCHANGED <<fl, v11>> /\ heard \subseteq heard' BY DEF OtherEnds
<1>4. \A u \in Tasks : lease'[u] = "self" => lease[u] = "self"
  BY <1>1 DEF OtherEnds, SpeechTyped
<1>5. HeardBeforeRecorded'
  BY <1>1 DEF OtherEnds, SpeechInv, HeardBeforeRecorded, SpeechTyped
<1>6. QED BY <1>2, <1>3, <1>4, <1>5, GoodLater DEF SpeechInv, Worked

\* What a flush does on the way to its next await, for one that had no notices.
FlushLeaves(f) ==
  /\ \A g \in Flushes \ {f} : fl'[g] = fl[g]
  /\ Good(fl'[f], heard, v11) /\ fl' \in [Flushes -> FlushRecord]
  /\ ext' \subseteq Externals /\ prog' \subseteq Tasks
  /\ latch' \in BOOLEAN /\ awaiting' \in BOOLEAN /\ current' \in Flushes \cup {Nobody}

LEMMA NewRecord ==
  ASSUME SpeechTyped, NEW f \in Flushes, NEW r, NEW h, NEW v, Good(r, h, v), fl' = [fl EXCEPT ![f] = r]
  PROVE  /\ fl' \in [Flushes -> FlushRecord] /\ fl'[f] = r
         /\ \A g \in Flushes \ {f} : fl'[g] = fl[g]
  BY DEF SpeechTyped, Good

LEMMA SaysLeaves ==
  ASSUME SpeechTyped, NEW f \in Flushes, NEW what, NEW got, Says(f, what, got),
         \/ what = "notices" /\ got \subseteq Tasks
         \/ what = "externals" /\ got \subseteq Externals
         \/ what = "progress" /\ got = {},
         ext' \subseteq Externals, prog' \subseteq Tasks
  PROVE  FlushLeaves(f) /\ fl'[f].says = what /\ fl'[f].got = got
<1> DEFINE r == [Off EXCEPT !.at = "hand", !.says = what, !.got = got,
                            !.play = IF v11 THEN "waiting" ELSE "none"]
<1>1. fl' = [fl EXCEPT ![f] = r] /\ awaiting' = TRUE /\ current' = f /\ latch' = TRUE BY DEF Says
<1>2. v11 \in BOOLEAN BY DEF SpeechTyped
<1>3. Good(r, heard, v11) BY <1>2, HandGood
<1>4. r.says = what /\ r.got = got BY DEF Off
<1> HIDE DEF r
<1>5. QED BY <1>1, <1>3, <1>4, NewRecord DEF FlushLeaves

LEMMA NoticesLeaves ==
  ASSUME SpeechTyped, NEW f \in Flushes, NEW todo \in SUBSET Tasks, Notices(f, todo), ext' \subseteq Externals
  PROVE  FlushLeaves(f)
<1> DEFINE r == IF todo # {} THEN [Off EXCEPT !.at = "claim", !.says = "notices", !.left = todo] ELSE Off
<1>1. fl' = [fl EXCEPT ![f] = r] /\ latch' \in BOOLEAN /\ UNCHANGED <<awaiting, current, prog>>
  BY DEF Notices
<1>2. Good(r, heard, v11) BY OffGood, ClaimGood
<1> HIDE DEF r
<1>3. QED BY <1>1, <1>2, NewRecord DEF FlushLeaves, SpeechTyped

LEMMA ProgressLeaves ==
  ASSUME SpeechTyped, NEW f \in Flushes, Progress(f), ext' \subseteq Externals
  PROVE  FlushLeaves(f)
<1>1. prog' \subseteq Tasks BY DEF Progress
<1>2. CASE Says(f, "progress", {}) BY <1>1, <1>2, SaysLeaves
<1>3. CASE fl' = [fl EXCEPT ![f] = Off] /\ latch' = FALSE /\ UNCHANGED <<awaiting, current>>
  BY <1>1, <1>3, OffGood, NewRecord DEF FlushLeaves, SpeechTyped
<1>4. QED BY <1>2, <1>3 DEF Progress

LEMMA GoesLeaves ==
  ASSUME SpeechTyped, NEW f \in Flushes, NEW todo \in SUBSET Tasks, NEW latched \in BOOLEAN,
         Goes(f, todo, latched)
  PROVE  FlushLeaves(f)
<1>1. CASE ext # {}
  <2> DEFINE r == [Off EXCEPT !.at = "claim", !.says = "externals", !.left = ext, !.todo = todo]
  <2>1. /\ fl' = [fl EXCEPT ![f] = r]
        /\ ext' = {} /\ latch' = latched /\ UNCHANGED <<prog, awaiting, current>>
    BY <1>1 DEF Goes
  <2>2. Good(r, heard, v11) BY ClaimGood DEF SpeechTyped
  <2> HIDE DEF r
  <2>3. QED BY <2>1, <2>2, NewRecord DEF FlushLeaves, SpeechTyped
<1>2. CASE ext = {}
  <2>1. ext' \subseteq Externals /\ (Progress(f) \/ Notices(f, todo))
    BY <1>2 DEF Goes, SpeechTyped
  <2>2. QED BY <2>1, ProgressLeaves, NoticesLeaves
<1>3. QED BY <1>1, <1>2

LEMMA FlushFlushes ==
  ASSUME SpeechTyped, NEW f \in Flushes, Flush(f)
  PROVE  FlushLeaves(f)
<1>1. CASE ReadyAnswers # {}
  <2>1. PICK a \in ReadyAnswers : \E sidecar \in BOOLEAN :
          /\ fl' = [fl EXCEPT ![f] = [Off EXCEPT !.at = IF sidecar THEN "mux" ELSE "answer",
                                                 !.says = "answer", !.got = {a}, !.todo = pend]]
          /\ latch' = TRUE /\ awaiting' = ~sidecar /\ UNCHANGED <<ext, prog, current>>
    BY <1>1 DEF Flush
  <2>2. PICK at0 \in {"mux", "answer"} :
          /\ fl' = [fl EXCEPT ![f] = [Off EXCEPT !.at = at0, !.says = "answer", !.got = {a}, !.todo = pend]]
          /\ latch' = TRUE /\ awaiting' \in BOOLEAN /\ UNCHANGED <<ext, prog, current>>
    BY <2>1
  <2> DEFINE r == [Off EXCEPT !.at = at0, !.says = "answer", !.got = {a}, !.todo = pend]
  <2>3. Good(r, heard, v11)
    <3>1. a \in Answers /\ pend \in SUBSET Tasks BY DEF ReadyAnswers, SpeechTyped
    <3>2. QED BY <3>1, AnswerGood
  <2>4. fl' = [fl EXCEPT ![f] = r] BY <2>2
  <2> HIDE DEF r
  <2>5. QED BY <2>2, <2>3, <2>4, NewRecord DEF FlushLeaves, SpeechTyped
<1>2. CASE ReadyAnswers = {}
  <2>1. Goes(f, pend, TRUE) /\ pend \in SUBSET Tasks BY <1>2 DEF Flush, SpeechTyped
  <2>2. QED BY <2>1, GoesLeaves
<1>3. QED BY <1>1, <1>2

\* A flush that had no notices leaves in any of these ways.
LEMMA LeavesKeeps ==
  ASSUME SpeechInv, NEW f \in Flushes, FlushLeaves(f), fl[f].says # "notices",
         UNCHANGED <<flags, talk, durable, events>>,
         {dog', micro', retry'} \subseteq BOOLEAN, pend' \subseteq Tasks,
         answers' \in [Answers -> {"none", "computing", "ready", "gone"}],
         tries' \in [Tasks \cup Externals -> 0..(MaxTries - 1)]
  PROVE  SpeechInv'
<1>1. SpeechTyped' BY DEF SpeechInv, SpeechTyped, FlushLeaves, flags, talk, durable
<1>2. QED BY <1>1, OthersKeep DEF SpeechInv, FlushLeaves, durable, flags

LEMMA FlushStartsStep ==
  ASSUME SpeechInv, NEW f \in Flushes, FlushStarts(f) \/ WatchFires(f)
  PROVE  SpeechInv'
<1>1. SpeechTyped /\ fl[f].says # "notices" BY OffGood DEF SpeechInv, FlushStarts, WatchFires, Good
<1>2. CASE Flush(f)
  <2>1. FlushLeaves(f) BY <1>1, <1>2, FlushFlushes
  <2>2. UNCHANGED <<flags, talk, durable, events, pend, answers, tries>>
    BY DEF FlushStarts, WatchFires
  <2>3. {dog', micro', retry'} \subseteq BOOLEAN BY <1>1 DEF FlushStarts, WatchFires, SpeechTyped
  <2>4. QED BY <1>1, <2>1, <2>2, <2>3, LeavesKeeps DEF SpeechTyped
<1>3. CASE ~Flush(f)
  <2>1. /\ micro' = FALSE
        /\ UNCHANGED <<fl, latch, awaiting, ext, prog, current, flags, talk, dog, retry, answers,
                       pend, tries, durable, events>>
    BY <1>3 DEF FlushStarts, WatchFires
  <2>2. FlushLeaves(f) BY <1>1, <2>1 DEF FlushLeaves, SpeechInv, SpeechTyped
  <2>3. {dog', micro', retry'} \subseteq BOOLEAN BY <1>1, <2>1 DEF SpeechTyped
  <2>4. QED BY <1>1, <2>1, <2>2, <2>3, LeavesKeeps DEF SpeechTyped
<1>4. QED BY <1>2, <1>3

LEMMA TriedTyped ==
  ASSUME SpeechTyped, NEW lost
  PROVE  Tried(lost) \in [Tasks \cup Externals -> 0..(MaxTries - 1)]
<1>1. /\ tries \in [Tasks \cup Externals -> 0..(MaxTries - 1)]
      /\ MaxTries \in Nat /\ 0 \in 0..(MaxTries - 1)
  BY SpeechAssumption DEF SpeechTyped
<1>2. \A i \in Tasks \cup Externals :
        (IF i \in Again(lost) THEN tries[i] + 1 ELSE IF i \in lost THEN 0 ELSE tries[i]) \in 0..(MaxTries - 1)
  BY <1>1 DEF Again
<1>3. DOMAIN tries = Tasks \cup Externals BY <1>1
<1>4. QED BY <1>2, <1>3 DEF Tried

LEMMA AnswerGoneTyped ==
  ASSUME SpeechTyped, NEW f, AnswerGone(f)
  PROVE  answers' \in [Answers -> {"none", "computing", "ready", "gone"}]
  BY DEF SpeechTyped, AnswerGone

\* The answer: spoken, silenced, or given to the provider.
LEMMA AnswerStep ==
  ASSUME SpeechInv, NEW f \in Flushes,
         MuxSpoke(f) \/ MuxAborted(f) \/ MuxFails(f) \/ AnswerHanded(f)
  PROVE  SpeechInv'
<1>1. SpeechTyped /\ Good(fl[f], heard, v11) /\ fl[f].at \in {"mux", "answer"} /\ fl[f].says = "answer"
  BY DEF SpeechInv, MuxSpoke, MuxAborted, MuxFails, AnswerHanded, Good
<1>2. UNCHANGED <<flags, talk, durable, events, pend, tries>>
  BY DEF MuxSpoke, MuxAborted, MuxFails, AnswerHanded, items
<1>3. answers' \in [Answers -> {"none", "computing", "ready", "gone"}]
  BY <1>1, AnswerGoneTyped DEF MuxSpoke, MuxAborted, MuxFails, AnswerHanded, items, SpeechTyped
<1>4. {dog', micro', retry'} \subseteq BOOLEAN
  BY <1>1 DEF MuxSpoke, MuxAborted, MuxFails, AnswerHanded, SpeechTyped
<1>5. CASE MuxSpoke(f) \/ AnswerHanded(f)
  <2>1. /\ fl' = [fl EXCEPT ![f] = Off] /\ latch' = FALSE /\ UNCHANGED <<awaiting, ext, prog, current>>
    BY <1>5 DEF MuxSpoke, AnswerHanded
  <2>2. FlushLeaves(f) BY <1>1, <2>1, OffGood, NewRecord DEF FlushLeaves, SpeechTyped
  <2>3. QED BY <1>1, <1>2, <1>3, <1>4, <2>2, LeavesKeeps DEF SpeechTyped
<1>6. CASE MuxAborted(f)
  <2>1. fl[f].todo \in SUBSET Tasks BY <1>1 DEF Good, FlushRecord
  <2>2. FlushLeaves(f) BY <1>1, <1>6, <2>1, GoesLeaves DEF MuxAborted
  <2>3. QED BY <1>1, <1>2, <1>3, <1>4, <2>2, LeavesKeeps DEF SpeechTyped
<1>7. CASE MuxFails(f)
  <2> DEFINE r == [fl[f] EXCEPT !.at = "answer"]
  <2>1. r \in FlushRecord /\ r.at = "answer" /\ r.says = "answer" /\ r.play = fl[f].play
    BY <1>1 DEF Good, FlushRecord
  <2>2. fl' = [fl EXCEPT ![f] = r] /\ awaiting' = TRUE /\ UNCHANGED <<latch, ext, prog, current>>
    BY <1>7 DEF MuxFails, items
  <2> HIDE DEF r
  <2>3. Good(r, heard, v11) BY <2>1 DEF Good
  <2>4. FlushLeaves(f) BY <1>1, <2>2, <2>3, NewRecord DEF FlushLeaves, SpeechTyped
  <2>5. QED BY <1>1, <1>2, <1>3, <1>4, <2>4, LeavesKeeps DEF SpeechTyped
<1>8. QED BY <1>5, <1>6, <1>7

LEMMA AnswerRefusedStep ==
  ASSUME SpeechInv, NEW f \in Flushes, AnswerRefused(f)
  PROVE  SpeechInv'
<1>1. SpeechTyped /\ fl[f].says = "answer" /\ fl[f].todo \in SUBSET Tasks
  BY DEF SpeechInv, AnswerRefused, Good, FlushRecord
<1>2. UNCHANGED <<flags, talk, durable, events, pend, tries, answers, dog, micro, retry>>
  BY DEF AnswerRefused
<1>3. CASE ext # {}
  <2> DEFINE r == [Off EXCEPT !.at = "claim", !.says = "externals", !.left = ext, !.todo = fl[f].todo]
  <2>1. /\ fl' = [fl EXCEPT ![f] = r]
        /\ ext' = {} /\ latch' = FALSE /\ awaiting' = FALSE /\ UNCHANGED <<prog, current>>
    BY <1>3 DEF AnswerRefused
  <2>2. Good(r, heard, v11)
    <3>1. ext \subseteq Tasks \cup Externals BY <1>1 DEF SpeechTyped
    <3>2. QED BY <1>1, <3>1, ClaimGood
  <2> HIDE DEF r
  <2>3. FlushLeaves(f) BY <1>1, <2>1, <2>2, NewRecord DEF FlushLeaves, SpeechTyped
  <2>4. QED BY <1>1, <1>2, <2>3, LeavesKeeps DEF SpeechTyped
<1>4. CASE ext = {} /\ fl[f].todo = {} /\ \E t \in prog : task[t] = "running"
  <2>1. Says(f, "progress", {}) /\ prog' = {} /\ ext' = ext BY <1>4 DEF AnswerRefused
  <2>2. FlushLeaves(f) BY <1>1, <2>1, SaysLeaves DEF SpeechTyped
  <2>3. QED BY <1>1, <1>2, <2>2, LeavesKeeps DEF SpeechTyped
<1>5. CASE ext = {} /\ ~(fl[f].todo = {} /\ \E t \in prog : task[t] = "running")
  <2> DEFINE r == IF fl[f].todo = {} THEN Off ELSE
                    [Off EXCEPT !.at = "claim", !.says = "notices", !.left = fl[f].todo]
  <2>1. /\ fl' = [fl EXCEPT ![f] = r]
        /\ ext' = ext /\ latch' \in BOOLEAN /\ awaiting' = FALSE /\ current' = current
        /\ prog' = IF fl[f].todo = {} THEN {} ELSE prog
    BY <1>5 DEF AnswerRefused
  <2>2. Good(r, heard, v11) BY <1>1, OffGood, ClaimGood
  <2> HIDE DEF r
  <2>3. FlushLeaves(f) BY <1>1, <2>1, <2>2, NewRecord DEF FlushLeaves, SpeechTyped
  <2>4. QED BY <1>1, <1>2, <2>3, LeavesKeeps DEF SpeechTyped
<1>6. QED BY <1>3, <1>4, <1>5

\* The end of a delivery: this flush rests, and whose playback was current is lost.
EndsOf(f) ==
  /\ fl'[f] = Off
  /\ \A g \in Flushes \ {f} : /\ fl'[g].says = fl[g].says /\ fl'[g].got = fl[g].got
                              /\ Good(fl'[g], heard, v11)
  /\ fl' \in [Flushes -> FlushRecord]
  /\ current' \in Flushes \cup {Nobody} /\ latch' \in BOOLEAN

LEMMA FlushEndsEnds ==
  ASSUME SpeechInv, NEW f \in Flushes, FlushEnds(f)
  PROVE  EndsOf(f)
<1>1. /\ fl' = [g \in Flushes |-> IF g = f THEN Off
                ELSE IF g = current /\ fl[g].play \in {"waiting", "playing"}
                  THEN [fl[g] EXCEPT !.play = "lost"] ELSE fl[g]]
      /\ current' = Nobody /\ latch' = FALSE
  BY DEF FlushEnds
<1>2. ASSUME NEW g \in Flushes \ {f}
      PROVE  /\ fl'[g].says = fl[g].says /\ fl'[g].got = fl[g].got
             /\ Good(fl'[g], heard, v11)
  <2>1. Good(fl[g], heard, v11) BY DEF SpeechInv
  <2>2. CASE g = current /\ fl[g].play \in {"waiting", "playing"}
    <3>1. fl'[g] = [fl[g] EXCEPT !.play = "lost"] BY <1>1, <2>2
    <3>2. Good(fl'[g], heard, v11) BY <2>1, <2>2, <3>1, LostGood
    <3>3. fl[g] \in FlushRecord BY <2>1 DEF Good
    <3>4. QED BY <3>1, <3>2, <3>3 DEF FlushRecord
  <2>3. CASE ~(g = current /\ fl[g].play \in {"waiting", "playing"}) BY <1>1, <2>1, <2>3
  <2>4. QED BY <2>2, <2>3
<1>3. fl'[f] = Off BY <1>1
<1>4. \A g \in Flushes : fl'[g] \in FlushRecord BY <1>2, <1>3, OffGood DEF Good
<1>5. fl' \in [Flushes -> FlushRecord] BY <1>1, <1>4
<1>6. QED BY <1>1, <1>2, <1>3, <1>5 DEF EndsOf

\* Claims that are given back, or recorded, leave the others to their flushes.
LEMMA EndsKeeps ==
  ASSUME SpeechInv, NEW f \in Flushes, EndsOf(f), UNCHANGED <<flags, talk, task, heard, events>>,
         lease' = Released(fl[f].got) \/ (lease' = lease /\ (fl[f].says # "notices" \/ fl[f].got = {})),
         {awaiting', dog', micro', retry'} \subseteq BOOLEAN,
         pend' \subseteq Tasks, ext' \subseteq Externals, prog' \subseteq Tasks,
         answers' = answers, tries' \in [Tasks \cup Externals -> 0..(MaxTries - 1)]
  PROVE  SpeechInv'
<1>1. lease' \in [Tasks -> {"none", "self", "other"}]
  BY DEF SpeechInv, SpeechTyped, Released
<1>2. SpeechTyped' BY <1>1 DEF SpeechInv, SpeechTyped, EndsOf, flags, talk
<1>3. \A g \in Flushes : Good(fl'[g], heard', v11') BY OffGood DEF EndsOf, flags
<1>4. ASSUME NEW t \in Tasks PROVE Worked(t)'
  <2> SUFFICES ASSUME lease'[t] = "self"
               PROVE  \E g \in Flushes : fl'[g].says = "notices" /\ t \in fl'[g].got
    BY DEF Worked
  <2>1. lease[t] = "self" /\ (t \notin fl[f].got \/ fl[f].says # "notices")
    BY DEF Released, SpeechInv, SpeechTyped
  <2>2. PICK g \in Flushes : fl[g].says = "notices" /\ t \in fl[g].got BY <2>1 DEF SpeechInv, Worked
  <2>3. g # f BY <2>1, <2>2
  <2>4. QED BY <2>2, <2>3 DEF EndsOf
<1>5. HeardBeforeRecorded' BY DEF SpeechInv, HeardBeforeRecorded
<1>6. QED BY <1>2, <1>3, <1>4, <1>5 DEF SpeechInv

LEMMA ClaimsExternalStep ==
  ASSUME SpeechInv, NEW f \in Flushes, NEW x \in Externals,
         NEW outcome \in {"claimed", "refused", "error"}, ClaimsExternal(f, x, outcome)
  PROVE  SpeechInv'
<1> DEFINE got  == IF outcome = "claimed" THEN fl[f].got \cup {x} ELSE fl[f].got
           left == fl[f].left \ {x}
           lost == IF outcome = "error" THEN {x} ELSE {}
<1>1. /\ SpeechTyped /\ Good(fl[f], heard, v11) /\ fl[f].says = "externals" /\ fl[f].at = "claim"
      /\ fl[f] \in FlushRecord
  BY DEF SpeechInv, ClaimsExternal, Good
<1>2. /\ tries' = Tried(lost) /\ retry' = (retry \/ Again(lost) # {})
      /\ ext' = ext \cup Again(lost)
      /\ UNCHANGED <<flags, talk, dog, micro, answers, pend, durable, events>>
  BY DEF ClaimsExternal
<1>3. got \subseteq Externals /\ left \subseteq Tasks \cup Externals
  BY <1>1 DEF Good, FlushRecord
<1>4. ext' \subseteq Externals BY <1>1, <1>2 DEF Again, SpeechTyped
<1>5. tries' \in [Tasks \cup Externals -> 0..(MaxTries - 1)] BY <1>1, <1>2, TriedTyped
<1>6. {dog', micro', retry'} \subseteq BOOLEAN BY <1>1, <1>2 DEF SpeechTyped
<1>7. CASE left # {}
  <2> DEFINE r == [fl[f] EXCEPT !.left = left, !.got = got]
  <2>1. fl' = [fl EXCEPT ![f] = r] /\ UNCHANGED <<latch, awaiting, prog, current>>
    BY <1>1, <1>7 DEF ClaimsExternal, SpeechTyped
  <2>2. /\ r \in FlushRecord /\ r.at = "claim" /\ r.says = "externals" /\ r.got = got /\ r.play = "none"
    BY <1>1, <1>3 DEF Good, FlushRecord
  <2> HIDE DEF r, got, left, lost
  <2>3. Good(r, heard, v11) BY <1>3, <2>2 DEF Good
  <2>4. FlushLeaves(f) BY <1>1, <1>4, <2>1, <2>3, NewRecord DEF FlushLeaves, SpeechTyped
  <2>5. QED BY <1>1, <1>2, <1>5, <1>6, <2>4, LeavesKeeps DEF SpeechTyped
<1>8. CASE left = {} /\ got # {}
  <2> DEFINE r == [Off EXCEPT !.at = "hand", !.says = "externals", !.got = got,
                              !.play = IF v11 THEN "waiting" ELSE "none"]
  <2>1. /\ fl' = [fl EXCEPT ![f] = r]
        /\ awaiting' = TRUE /\ current' = f /\ UNCHANGED <<latch, prog>>
    BY <1>8 DEF ClaimsExternal
  <2>2. Good(r, heard, v11) BY <1>1, <1>3, HandGood DEF SpeechTyped
  <2> HIDE DEF r, got, left, lost
  <2>3. FlushLeaves(f) BY <1>1, <1>4, <2>1, <2>2, NewRecord DEF FlushLeaves, SpeechTyped
  <2>4. QED BY <1>1, <1>2, <1>5, <1>6, <2>3, LeavesKeeps DEF SpeechTyped
<1>9. CASE left = {} /\ got = {}
  <2>1. Progress(f) \/ Notices(f, fl[f].todo) BY <1>9 DEF ClaimsExternal
  <2>2. fl[f].todo \in SUBSET Tasks BY <1>1 DEF FlushRecord
  <2>3. FlushLeaves(f) BY <1>1, <1>4, <2>1, <2>2, ProgressLeaves, NoticesLeaves
  <2> HIDE DEF got, left, lost
  <2>4. QED BY <1>1, <1>2, <1>5, <1>6, <2>3, LeavesKeeps DEF SpeechTyped
<1>10. QED BY <1>7, <1>8, <1>9

LEMMA ClaimsNoticeStep ==
  ASSUME SpeechInv, NEW f \in Flushes, NEW t \in Tasks, NEW fails \in BOOLEAN, ClaimsNotice(f, t, fails)
  PROVE  SpeechInv'
<1> DEFINE free    == task[t] = "unread" /\ lease[t] = "none"
           claimed == free /\ ~fails
           lost    == IF fails THEN {t} ELSE {}
           r       == [fl[f] EXCEPT !.left = @ \ {t}, !.got = IF claimed THEN @ \cup {t} ELSE @]
<1>1. /\ SpeechTyped /\ Good(fl[f], heard, v11) /\ fl[f].says = "notices" /\ fl[f].at = "claim"
      /\ fl[f] \in FlushRecord
  BY DEF SpeechInv, ClaimsNotice, Good
<1>2. /\ lease' = [lease EXCEPT ![t] = IF claimed THEN "self" ELSE @]
      /\ tries' = Tried(lost)
      /\ retry' \in BOOLEAN
      /\ fl' = [fl EXCEPT ![f] = r]
      /\ UNCHANGED <<flags, talk, awaiting, dog, latch, micro, answers, ext, prog, current, task, heard, events>>
  BY <1>1 DEF ClaimsNotice, SpeechTyped
<1>3. pend' \subseteq Tasks BY <1>1 DEF ClaimsNotice, SpeechTyped, Again
<1>4. tries' \in [Tasks \cup Externals -> 0..(MaxTries - 1)] BY <1>1, <1>2, TriedTyped
<1>5. /\ r \in FlushRecord /\ r.at = "claim" /\ r.says = "notices" /\ r.play = "none"
      /\ r.got = IF claimed THEN fl[f].got \cup {t} ELSE fl[f].got
  BY <1>1 DEF Good, FlushRecord
<1>6. r.got \subseteq Tasks BY <1>1, <1>5 DEF Good
<1>7. lease' \in [Tasks -> {"none", "self", "other"}] BY <1>1, <1>2 DEF SpeechTyped
<1>8. \A u \in Tasks : lease'[u] = "self" => lease[u] = "self" \/ (u = t /\ claimed)
  BY <1>1, <1>2 DEF SpeechTyped
<1> HIDE DEF claimed, lost, r, free
<1>9. Good(r, heard, v11) BY <1>5, <1>6 DEF Good
<1>10. /\ fl' \in [Flushes -> FlushRecord] /\ fl'[f] = r
       /\ \A g \in Flushes \ {f} : fl'[g] = fl[g]
  BY <1>1, <1>2, <1>9, NewRecord
<1>11. SpeechTyped' BY <1>1, <1>2, <1>3, <1>4, <1>7, <1>10 DEF SpeechTyped, flags, talk
<1>12. \A g \in Flushes : Good(fl'[g], heard', v11')
  BY <1>2, <1>9, <1>10 DEF SpeechInv, flags
<1>13. ASSUME NEW u \in Tasks PROVE Worked(u)'
  <2> SUFFICES ASSUME lease'[u] = "self"
               PROVE  \E g \in Flushes : fl'[g].says = "notices" /\ u \in fl'[g].got
    BY DEF Worked
  <2>1. CASE u = t /\ claimed BY <1>5, <1>10, <2>1
  <2>2. CASE lease[u] = "self"
    <3>1. PICK g \in Flushes : fl[g].says = "notices" /\ u \in fl[g].got
      BY <2>2 DEF SpeechInv, Worked
    <3>2. fl'[g].says = "notices" /\ u \in fl'[g].got BY <1>5, <1>10, <3>1
    <3>3. QED BY <3>2
  <2>3. QED BY <1>8, <2>1, <2>2
<1>14. HeardBeforeRecorded' BY <1>2 DEF SpeechInv, HeardBeforeRecorded
<1>15. QED BY <1>11, <1>12, <1>13, <1>14 DEF SpeechInv

LEMMA AnnouncesStep ==
  ASSUME SpeechInv, NEW f \in Flushes, Announces(f)
  PROVE  SpeechInv'
<1>1. /\ SpeechTyped /\ fl[f].says = "notices" /\ fl[f].got \subseteq Tasks
      /\ UNCHANGED <<flags, talk, dog, micro, retry, answers, ext, prog, tries, task, heard, events>>
  BY DEF SpeechInv, Announces, Good
<1>2. CASE Says(f, "notices", fl[f].got) /\ UNCHANGED <<lease, pend>>
  <2>1. FlushLeaves(f) /\ fl'[f].says = "notices" /\ fl'[f].got = fl[f].got
    BY <1>1, <1>2, SaysLeaves DEF SpeechTyped
  <2>2. SpeechTyped' BY <1>1, <1>2, <2>1 DEF SpeechTyped, FlushLeaves, flags, talk
  <2>3. QED BY <1>1, <1>2, <2>1, <2>2, OthersKeep DEF SpeechInv, FlushLeaves, flags
<1>3. CASE /\ FlushEnds(f) /\ UNCHANGED awaiting
           /\ lease' = Released(fl[f].got)
           /\ pend' = pend \cup fl[f].got
  <2>1. EndsOf(f) BY <1>3, FlushEndsEnds
  <2>2. QED BY <1>1, <1>3, <2>1, EndsKeeps DEF SpeechTyped
<1>4. QED BY <1>2, <1>3 DEF Announces

\* The playback goes on; what was played to its end was heard.
LEMMA PlaysStep ==
  ASSUME SpeechInv, NEW f \in Flushes, NEW status \in {"playing", "delivered", "lost"},
         ClientPlays(f, status) \/ Handed(f)
  PROVE  SpeechInv'
<1>1. /\ SpeechTyped /\ Good(fl[f], heard, v11) /\ fl[f] \in FlushRecord
      /\ UNCHANGED <<flags, talk, gates, items, current, task, lease, events>>
  BY DEF SpeechInv, ClientPlays, Handed, Good
<1>2. heard \subseteq heard' /\ heard' \subseteq Tasks
  BY <1>1 DEF ClientPlays, Handed, HeardOf, Good, SpeechTyped
<1>3. PICK r : fl' = [fl EXCEPT ![f] = r] /\ Good(r, heard', v11)
               /\ r.says = fl[f].says /\ r.got = fl[f].got
  <2>1. CASE ClientPlays(f, status)
    <3> DEFINE r == [fl[f] EXCEPT !.play = status]
    <3>1. /\ fl' = [fl EXCEPT ![f] = r] /\ fl[f].at \in {"hand", "hear"}
          /\ status = "delivered" /\ fl[f].says = "notices" => fl[f].got \subseteq heard'
      BY <1>1, <2>1 DEF ClientPlays, HeardOf
    <3>2. /\ r \in FlushRecord /\ r.at = fl[f].at /\ r.says = fl[f].says /\ r.got = fl[f].got
          /\ r.play = status
      BY <1>1 DEF FlushRecord
    <3> HIDE DEF r
    <3>3. Good(r, heard', v11) BY <1>1, <1>2, <3>1, <3>2 DEF Good
    <3>4. QED BY <3>1, <3>2, <3>3
  <2>2. CASE Handed(f)
    <3> DEFINE r == [fl[f] EXCEPT !.at = "hear"]
    <3>1. /\ fl' = [fl EXCEPT ![f] = r] /\ fl[f].at = "hand"
          /\ ~v11 /\ fl[f].says = "notices" => fl[f].got \subseteq heard'
      BY <1>1, <2>2 DEF Handed, HeardOf
    <3>2. /\ r \in FlushRecord /\ r.at = "hear" /\ r.says = fl[f].says /\ r.got = fl[f].got
          /\ r.play = fl[f].play
      BY <1>1 DEF FlushRecord
    <3> HIDE DEF r
    <3>3. Good(r, heard', v11) BY <1>1, <1>2, <3>1, <3>2 DEF Good
    <3>4. QED BY <3>1, <3>2, <3>3
  <2>3. QED BY <2>1, <2>2
<1>4. /\ fl' \in [Flushes -> FlushRecord] /\ fl'[f] = r
      /\ \A g \in Flushes \ {f} : fl'[g] = fl[g]
  BY <1>1, <1>3, NewRecord
<1>5. \A g \in Flushes : Good(fl'[g], heard', v11')
  BY <1>1, <1>2, <1>3, <1>4, GoodLater DEF SpeechInv, flags
<1>6. SpeechTyped' BY <1>1, <1>2, <1>4 DEF SpeechTyped, flags, talk, gates, items
<1>7. ASSUME NEW t \in Tasks PROVE Worked(t)'
  <2> SUFFICES ASSUME lease[t] = "self"
               PROVE  \E g \in Flushes : fl'[g].says = "notices" /\ t \in fl'[g].got
    BY <1>1 DEF Worked
  <2>1. PICK g \in Flushes : fl[g].says = "notices" /\ t \in fl[g].got BY DEF SpeechInv, Worked
  <2>2. fl'[g].says = "notices" /\ t \in fl'[g].got BY <1>3, <1>4, <2>1
  <2>3. QED BY <2>2
<1>8. HeardBeforeRecorded' BY <1>1, <1>2 DEF SpeechInv, HeardBeforeRecorded
<1>9. QED BY <1>5, <1>6, <1>7, <1>8 DEF SpeechInv

LEMMA ConfirmedStep ==
  ASSUME SpeechInv, NEW f \in Flushes, Confirmed(f)
  PROVE  SpeechInv'
<1>1. /\ SpeechTyped /\ Good(fl[f], heard, v11) /\ fl[f] \in FlushRecord
      /\ fl[f].at = "hear" /\ fl[f].play \in {"none", "delivered"}
      /\ UNCHANGED <<flags, talk, awaiting, micro, retry, answers, pend, ext, prog, durable, events>>
  BY DEF SpeechInv, Confirmed, HasPlayed, Good
<1>2. CASE fl[f].says = "notices"
  <2> DEFINE r == [fl[f] EXCEPT !.at = "record"]
  <2>1. fl' = [fl EXCEPT ![f] = r] /\ UNCHANGED <<dog, tries, current, latch>> BY <1>2 DEF Confirmed
  <2>2. /\ r \in FlushRecord /\ r.at = "record" /\ r.says = "notices" /\ r.got = fl[f].got
    BY <1>1, <1>2 DEF FlushRecord
  <2>3. fl[f].got \subseteq heard /\ fl[f].got \subseteq Tasks BY <1>1, <1>2 DEF Good
  <2> HIDE DEF r
  <2>4. Good(r, heard, v11) BY <2>2, <2>3 DEF Good
  <2>5. /\ fl' \in [Flushes -> FlushRecord] /\ fl'[f] = r
        /\ \A g \in Flushes \ {f} : fl'[g] = fl[g]
    BY <1>1, <2>1, <2>4, NewRecord
  <2>6. SpeechTyped' BY <1>1, <2>1, <2>5 DEF SpeechTyped, flags, talk, durable
  <2>7. QED BY <1>1, <2>2, <2>4, <2>5, <2>6, OthersKeep DEF SpeechInv, flags, durable
<1>3. CASE fl[f].says # "notices"
  <2>1. /\ EndsOf(f) /\ dog' = awaiting
        /\ tries' = [i \in DOMAIN tries |-> IF i \in fl[f].got THEN 0 ELSE tries[i]]
    BY <1>3, FlushEndsEnds DEF Confirmed
  <2>2. tries' \in [Tasks \cup Externals -> 0..(MaxTries - 1)]
    BY <1>1, <2>1, SpeechAssumption DEF SpeechTyped
  <2>3. QED BY <1>1, <1>3, <2>1, <2>2, EndsKeeps DEF SpeechTyped, durable
<1>4. QED BY <1>2, <1>3

LEMMA UnheardStep ==
  ASSUME SpeechInv, NEW f \in Flushes, Unheard(f)
  PROVE  SpeechInv'
<1>1. /\ SpeechTyped /\ Good(fl[f], heard, v11)
      /\ awaiting' = FALSE /\ FlushEnds(f) /\ lease' = Released(fl[f].got)
      /\ tries' = Tried(fl[f].got) /\ retry' = (retry \/ Again(fl[f].got) # {})
      /\ UNCHANGED <<flags, talk, dog, micro, answers, prog, task, heard, events>>
  BY DEF SpeechInv, Unheard
<1>2. tries' \in [Tasks \cup Externals -> 0..(MaxTries - 1)] BY <1>1, TriedTyped
<1>3. pend' \subseteq Tasks /\ ext' \subseteq Externals
  BY <1>1 DEF Unheard, Good, Again, SpeechTyped
<1>4. {awaiting', dog', micro', retry'} \subseteq BOOLEAN BY <1>1 DEF SpeechTyped
<1>5. EndsOf(f) BY <1>1, FlushEndsEnds
<1>6. QED BY <1>1, <1>2, <1>3, <1>4, <1>5, EndsKeeps DEF SpeechTyped

LEMMA RecordsStep ==
  ASSUME SpeechInv, NEW f \in Flushes, NEW t \in Tasks, NEW fails \in BOOLEAN, Records(f, t, fails)
  PROVE  SpeechInv'
<1> DEFINE r == [fl[f] EXCEPT !.got = @ \ {t}]
<1>1. /\ SpeechTyped /\ Good(fl[f], heard, v11) /\ fl[f] \in FlushRecord
      /\ fl[f].at = "record" /\ t \in fl[f].got /\ fl' = [fl EXCEPT ![f] = r]
      /\ lease' = [lease EXCEPT ![t] = "none"]
      /\ UNCHANGED <<flags, talk, awaiting, dog, latch, micro, answers, ext, prog, current, heard, events>>
  BY DEF SpeechInv, Records, Good
<1>2. fl[f].says = "notices" /\ fl[f].got \subseteq heard /\ fl[f].got \subseteq Tasks BY <1>1 DEF Good
<1>3. /\ r \in FlushRecord /\ r.at = "record" /\ r.says = "notices" /\ r.got = fl[f].got \ {t}
  BY <1>1, <1>2 DEF FlushRecord
<1>4. tries' \in [Tasks \cup Externals -> 0..(MaxTries - 1)] /\ pend' \subseteq Tasks /\ retry' \in BOOLEAN
  <2>1. CASE fails
    BY <1>1, <2>1, TriedTyped DEF Records, Again, SpeechTyped
  <2>2. CASE ~fails
    BY <1>1, <2>2, SpeechAssumption DEF Records, SpeechTyped
  <2>3. QED BY <2>1, <2>2
<1>5. /\ task' \in [Tasks -> {"running", "unread", "announced", "read"}]
      /\ \A u \in Tasks : task'[u] = "announced" => task[u] = "announced" \/ u = t
  BY <1>1 DEF Records, SpeechTyped
<1>6. /\ lease' \in [Tasks -> {"none", "self", "other"}]
      /\ \A u \in Tasks : lease'[u] = "self" => lease[u] = "self" /\ u # t
  BY <1>1 DEF SpeechTyped
<1> HIDE DEF r
<1>7. Good(r, heard, v11) BY <1>2, <1>3 DEF Good
<1>8. /\ fl' \in [Flushes -> FlushRecord] /\ fl'[f] = r
      /\ \A g \in Flushes \ {f} : fl'[g] = fl[g]
  BY <1>1, <1>7, NewRecord
<1>9. SpeechTyped' BY <1>1, <1>4, <1>5, <1>6, <1>8 DEF SpeechTyped, flags, talk
<1>10. \A g \in Flushes : Good(fl'[g], heard', v11') BY <1>1, <1>7, <1>8 DEF SpeechInv, flags
<1>11. ASSUME NEW u \in Tasks PROVE Worked(u)'
  <2> SUFFICES ASSUME lease'[u] = "self"
               PROVE  \E g \in Flushes : fl'[g].says = "notices" /\ u \in fl'[g].got
    BY DEF Worked
  <2>1. PICK g \in Flushes : fl[g].says = "notices" /\ u \in fl[g].got
    BY <1>6 DEF SpeechInv, Worked
  <2>2. fl'[g].says = "notices" /\ u \in fl'[g].got BY <1>3, <1>6, <1>8, <2>1
  <2>3. QED BY <2>2
<1>12. HeardBeforeRecorded' BY <1>1, <1>2, <1>5 DEF SpeechInv, HeardBeforeRecorded
<1>13. QED BY <1>9, <1>10, <1>11, <1>12 DEF SpeechInv

LEMMA RecordedStep ==
  ASSUME SpeechInv, NEW f \in Flushes, Recorded(f)
  PROVE  SpeechInv'
<1>1. /\ SpeechTyped /\ fl[f].got = {} /\ dog' = (dog \/ awaiting) /\ FlushEnds(f)
      /\ UNCHANGED <<flags, talk, awaiting, micro, retry, items, durable, events>>
  BY DEF SpeechInv, Recorded
<1>2. EndsOf(f) BY <1>1, FlushEndsEnds
<1>3. {awaiting', dog', micro', retry'} \subseteq BOOLEAN BY <1>1 DEF SpeechTyped
<1>4. QED BY <1>1, <1>2, <1>3, EndsKeeps DEF SpeechTyped, items, durable

LEMMA LeavingStep ==
  ASSUME SpeechInv, Muted \/ Hangs
  PROVE  SpeechInv'
<1>1. SpeechTyped /\ 0 \in 0..(MaxTries - 1) BY SpeechAssumption DEF SpeechInv
<1>2. CASE Muted
  <2>1. events' \in 0..MaxEvents BY <1>1, <1>2, OneMore DEF Muted
  <2>2. SpeechTyped' BY <1>1, <1>2, <2>1 DEF Muted, SpeechTyped, talk, gates, durable
  <2>3. QED BY <1>2, <2>2, SpeechAside DEF Muted, SpeechInv, durable
<1>3. CASE Hangs
  <2>1. \A f \in Flushes : fl'[f] = Off BY <1>3 DEF Hangs
  <2>2. fl' \in [Flushes -> FlushRecord] BY <1>3, OffGood DEF Hangs, Good
  <2>3. lease' \in [Tasks -> {"none", "self", "other"}] /\ \A t \in Tasks : lease'[t] # "self"
    BY <1>1, <1>3 DEF Hangs, Released, SpeechTyped
  <2>4. /\ answers' \in [Answers -> {"none", "computing", "ready", "gone"}]
        /\ tries' \in [Tasks \cup Externals -> 0..(MaxTries - 1)]
    BY <1>1, <1>3 DEF Hangs, SpeechTyped
  <2>5. SpeechTyped' BY <1>1, <1>3, <2>2, <2>3, <2>4 DEF Hangs, SpeechTyped
  <2>6. QED BY <1>3, <2>1, <2>3, <2>5, OffGood DEF Hangs, SpeechInv, Worked, HeardBeforeRecorded
<1>4. QED BY <1>2, <1>3

LEMMA SpeechInductive ==
  ASSUME SpeechInv, [SpeechNext]_speechVars
  PROVE  SpeechInv'
<1>1. ASSUME NEW f \in Flushes, Flushing(f) PROVE SpeechInv'
  BY <1>1, FlushStartsStep, AnswerStep, AnswerRefusedStep, ClaimsExternalStep, ClaimsNoticeStep,
     RecordsStep, AnnouncesStep, PlaysStep, ConfirmedStep, UnheardStep, RecordedStep DEF Flushing
<1>2. ASSUME NEW f \in Flushes, Playing(f) PROVE SpeechInv'
  BY <1>2, PlaysStep DEF Playing
<1>3. CASE UNCHANGED speechVars
  BY <1>3 DEF speechVars, flags, talk, gates, items, durable, SpeechInv, SpeechTyped, Worked, HeardBeforeRecorded
<1>4. CASE Watches BY <1>4, FlushStartsStep DEF Watches
<1>5. QED
  BY <1>1, <1>2, <1>3, <1>4, TalkStep, WorldStep, OtherEndsStep, LeavingStep DEF SpeechNext

LEMMA SpeechInvKept ==
  ASSUME SpeechInv
  PROVE  AnnouncementsKept
<1>1. SpeechTypeOK BY DEF SpeechInv, SpeechTyped, SpeechTypeOK, FlushRecord
<1>2. ClaimsWorkedOff BY DEF SpeechInv, Worked, ClaimsWorkedOff
<1>3. QED BY <1>1, <1>2 DEF SpeechInv, AnnouncementsKept

\* Whatever interrupts, fails, mutes or closes, and however many flushes are
\* under way: the end of a task is recorded as announced only after it was
\* heard, and each claim on one belongs to a flush that gives it back
\* (live-gateway-session.ts:2770-3010).
THEOREM AnnouncementsAlwaysKept == SpeechSpec => []AnnouncementsKept
<1>1. SpeechInit => SpeechInv BY SpeechInitial
<1>2. SpeechInv /\ [SpeechNext]_speechVars => SpeechInv' BY SpeechInductive
<1>3. SpeechInv => AnnouncementsKept BY SpeechInvKept
<1>4. QED BY <1>1, <1>2, <1>3, PTL DEF SpeechSpec

-----------------------------------------------------------------------------
(* The sidecar's voices *)

Outcomes == {"open", "spoken", "aborted", "skipped", "failed"}
Pumping == [at : {"off", "gate", "speak"}, u : 0..MaxUtterances, tries : 0..MaxGateRetries]

Ascends(s) == \A i, j \in 1..Len(s) : i < j => s[i] < s[j]

\* With n utterances so far, the queue q, the pump p, what was begun (b) and
\* whether the mux was aborted (a): what was begun comes before what waits for
\* the gate, and that before the rest of the queue, also when the one that
\* waits has left the queue.
MuxOK(n, q, p, b, a) ==
  /\ q \in Seq(1..n) /\ b \in Seq(1..n) /\ p \in Pumping
  /\ Ascends(q) /\ Ascends(b)
  /\ \A i \in 1..Len(b), j \in 1..Len(q) : b[i] < q[j]
  /\ p.at # "off" => p.u \in 1..n
  /\ p.at = "gate" =>
       /\ \A i \in 1..Len(b) : b[i] < p.u
       /\ \A j \in 1..Len(q) : p.u <= q[j]
       /\ a \/ q # <<>>
  /\ a => q = <<>>

MuxInv ==
  /\ {healthy, allowed, aborted, stopping} \subseteq BOOLEAN
  /\ utterance \in Seq(Outcomes) /\ Len(utterance) <= MaxUtterances
  /\ urgent \subseteq 1..Len(utterance)
  /\ MuxOK(Len(utterance), muxQueue, pump, begun, aborted)

Filling == [waiting : BOOLEAN, speaking : BOOLEAN, begin : BOOLEAN, timer : BOOLEAN]

\* A sequence that was begun and is not loaded has spent nothing; one that waits
\* has counted what it spent.
FillerInv ==
  /\ filler \in Filling
  /\ clipFrames \in 0..MaxClipFrames /\ (filler.speaking => clipFrames > 0)
  /\ played \in 0..MaxPerSequence /\ spent \in 0..MaxPerSequence /\ waits \in 0..MaxWaits
  /\ loads \in Seq({"begin", "once"})
  /\ FillerGoesOn
  /\ filler.begin /\ (\E i \in 1..Len(loads) : loads[i] = "begin") => spent = 0
  /\ filler.waiting => spent <= played

OutputInv == MuxInv /\ FillerInv

LEMMA Numbers ==
  /\ MaxUtterances \in Nat /\ MaxWaits \in Nat
  /\ MaxGateRetries \in Nat /\ MaxGateRetries > 0
  /\ MaxPerSequence \in Nat /\ MaxPerSequence > 0
  /\ MaxClipFrames \in Nat /\ MaxClipFrames > 0
  BY OutputAssumption

\* A sequence with one more element, and without its first.
LEMMA Longer ==
  ASSUME NEW S, NEW s \in Seq(S), NEW x \in S
  PROVE  /\ Append(s, x) \in Seq(S) /\ Len(Append(s, x)) = Len(s) + 1 /\ Append(s, x) # <<>>
         /\ \A i \in 1..(Len(s) + 1) : Append(s, x)[i] = IF i = Len(s) + 1 THEN x ELSE s[i]
<1>1. /\ Append(s, x) \in Seq(S) /\ Append(s, x) # <<>> /\ Len(Append(s, x)) = Len(s) + 1
      /\ \A i \in 1..Len(s) : Append(s, x)[i] = s[i]
      /\ Append(s, x)[Len(s) + 1] = x
  BY AppendProperties
<1>2. Len(s) \in Nat BY LenProperties
<1>3. QED BY <1>1, <1>2

LEMMA Shorter ==
  ASSUME NEW S, NEW s \in Seq(S), s # <<>>
  PROVE  /\ Tail(s) \in Seq(S) /\ Len(Tail(s)) = Len(s) - 1 /\ Len(s) \in Nat
         /\ \A i \in 1..Len(Tail(s)) : Tail(s)[i] = s[i + 1] /\ i + 1 \in 1..Len(s)
         /\ Head(s) = s[1] /\ Head(s) \in S /\ 1 \in 1..Len(s)
<1>1. Tail(s) \in Seq(S) /\ Len(Tail(s)) = Len(s) - 1 /\ \A i \in 1..Len(Tail(s)) : Tail(s)[i] = s[i + 1]
  BY HeadTailProperties
<1>2. Len(s) \in Nat /\ Len(s) > 0 BY EmptySeq, LenProperties
<1>3. Head(s) = s[1] /\ Head(s) \in S BY HeadTailProperties
<1>4. QED BY <1>1, <1>2, <1>3

\* The elements of a sequence of numbers are numbers.
LEMMA Elements ==
  ASSUME NEW n \in Nat, NEW s \in Seq(1..n)
  PROVE  Len(s) \in Nat /\ \A i \in 1..Len(s) : s[i] \in 1..n
  BY ElementOfSeq, LenProperties

LEMMA AscendsOn ==
  ASSUME NEW n \in Nat, NEW s \in Seq(1..n), Ascends(s), NEW x \in 1..n,
         \A i \in 1..Len(s) : s[i] < x
  PROVE  Ascends(Append(s, x))
<1>1. /\ Len(Append(s, x)) = Len(s) + 1 /\ Len(s) \in Nat
      /\ \A i \in 1..(Len(s) + 1) : Append(s, x)[i] = IF i = Len(s) + 1 THEN x ELSE s[i]
  BY Longer, Elements
<1>0. Len(s) \in Nat BY Elements
<1> SUFFICES ASSUME NEW i \in 1..(Len(s) + 1), NEW j \in 1..(Len(s) + 1), i < j
             PROVE  Append(s, x)[i] < Append(s, x)[j]
  BY <1>1 DEF Ascends
<1>2. i \in 1..Len(s) /\ Append(s, x)[i] = s[i] BY <1>1
<1>3. CASE j = Len(s) + 1 BY <1>1, <1>2, <1>3
<1>4. CASE j # Len(s) + 1
  <2>1. \A m \in Nat : \A k \in 1..(m + 1) : k # m + 1 => k \in 1..m OBVIOUS
  <2>0. j \in 1..Len(s) BY <1>0, <1>4, <2>1
  <2>2. Append(s, x)[j] = s[j] BY <1>1, <1>4
  <2>3. QED BY <1>2, <2>0, <2>2 DEF Ascends
<1>5. QED BY <1>3, <1>4

LEMMA OutputInitial ==
  ASSUME OutputInit
  PROVE  OutputInv
<1>1. MuxInv
  <2>1. <<>> \in Seq(1..0) /\ <<>> \in Seq(Outcomes) /\ Len(<<>>) = 0 BY EmptySeq
  <2>2. MuxOK(0, <<>>, NoPump, <<>>, FALSE)
    BY <2>1, Numbers DEF MuxOK, NoPump, Pumping, Ascends
  <2>3. /\ healthy = TRUE /\ allowed = FALSE /\ aborted = FALSE /\ stopping = FALSE
        /\ utterance = <<>> /\ urgent = {} /\ muxQueue = <<>> /\ pump = NoPump /\ begun = <<>>
    BY DEF OutputInit
  <2>4. {healthy, allowed, aborted, stopping} \subseteq BOOLEAN BY <2>3
  <2>5. Len(utterance) = 0 /\ utterance \in Seq(Outcomes) BY <2>1, <2>3
  <2>6. MuxOK(Len(utterance), muxQueue, pump, begun, aborted) BY <2>2, <2>3, <2>5
  <2>7. urgent \subseteq 1..Len(utterance) BY <2>3
  <2>8. QED BY <2>4, <2>5, <2>6, <2>7, Numbers DEF MuxInv
<1>2. FillerInv
  BY Numbers, EmptySeq DEF OutputInit, FillerInv, Filling, Still, FillerGoesOn
<1>3. QED BY <1>1, <1>2 DEF OutputInv

\* The tail of an ascending queue is ascending, and behind its head.
LEMMA TailAscends ==
  ASSUME NEW n \in Nat, NEW q \in Seq(1..n), Ascends(q), q # <<>>
  PROVE  /\ Tail(q) \in Seq(1..n) /\ Ascends(Tail(q)) /\ Head(q) \in 1..n
         /\ \A j \in 1..Len(q) : Head(q) <= q[j]
         /\ \A j \in 1..Len(Tail(q)) : Head(q) < Tail(q)[j] /\ Tail(q)[j] = q[j + 1] /\ j + 1 \in 1..Len(q)
<1>1. /\ Tail(q) \in Seq(1..n) /\ Len(Tail(q)) = Len(q) - 1 /\ Len(q) \in Nat
      /\ \A i \in 1..Len(Tail(q)) : Tail(q)[i] = q[i + 1] /\ i + 1 \in 1..Len(q)
      /\ Head(q) = q[1] /\ Head(q) \in 1..n /\ 1 \in 1..Len(q)
  BY Shorter
<1>2. \A j \in 1..Len(q) : q[j] \in 1..n BY Elements
<1>3. Ascends(Tail(q)) BY <1>1 DEF Ascends
<1>4. \A j \in 1..Len(q) : Head(q) <= q[j] BY <1>1, <1>2 DEF Ascends
<1>5. QED BY <1>1, <1>3, <1>4 DEF Ascends

\* Whatever heads the queue, the pump starts it, waits with it or is off.
LEMMA PumpsOK ==
  ASSUME NEW n \in Nat, n <= MaxUtterances, NEW q \in Seq(1..n), begun \in Seq(1..n),
         Ascends(q), Ascends(begun), NEW a \in BOOLEAN, a => q = <<>>,
         \A i \in 1..Len(begun), j \in 1..Len(q) : begun[i] < q[j],
         stopping \in BOOLEAN, Pumps(q)
  PROVE  MuxOK(n, muxQueue', pump', begun', a) /\ stopping' \in BOOLEAN
<1>1. CASE q = <<>>
  BY <1>1, Numbers DEF Pumps, NoPump, MuxOK, Pumping
<1>2. CASE q # <<>>
  <2>1. /\ Tail(q) \in Seq(1..n) /\ Ascends(Tail(q)) /\ Head(q) \in 1..n
        /\ \A j \in 1..Len(q) : Head(q) <= q[j]
        /\ \A j \in 1..Len(Tail(q)) : Head(q) < Tail(q)[j] /\ Tail(q)[j] = q[j + 1] /\ j + 1 \in 1..Len(q)
    BY <1>2, TailAscends
  <2>2. ~a /\ Head(q) \in 0..MaxUtterances BY <1>2, <2>1, Numbers
  <2>3. \A i \in 1..Len(begun) : begun[i] < Head(q)
    <3>1. Head(q) = q[1] /\ 1 \in 1..Len(q) BY <1>2, Shorter
    <3>2. QED BY <3>1
  <2>4. CASE Head(q) \in urgent' \/ allowed
    <3>1. begun' = Append(begun, Head(q)) /\ muxQueue' = Tail(q) /\ stopping' = FALSE
          /\ pump' = [at |-> "speak", u |-> Head(q), tries |-> 0]
      BY <1>2, <2>4 DEF Pumps, StartsSpeaking
    <3>2. begun' \in Seq(1..n) /\ Len(begun') = Len(begun) + 1
          /\ \A i \in 1..Len(begun') : begun'[i] = IF i = Len(begun) + 1 THEN Head(q) ELSE begun[i]
      <4>1. begun \in Seq(1..n) /\ Head(q) \in 1..n BY <2>1
      <4>2. QED BY <3>1, <4>1, Longer
    <3>3. Len(begun) \in Nat /\ \A i \in 1..Len(begun) : begun[i] \in 1..n
      <4>1. begun \in Seq(1..n) OBVIOUS
      <4>2. QED BY <4>1, Elements
    <3>4. Ascends(begun')
      <4>1. begun \in Seq(1..n) /\ Head(q) \in 1..n BY <2>1
      <4>2. QED BY <2>3, <3>1, <4>1, AscendsOn
    <3>5. \A i \in 1..Len(begun'), j \in 1..Len(Tail(q)) : begun'[i] < Tail(q)[j]
      <4> SUFFICES ASSUME NEW i \in 1..Len(begun'), NEW j \in 1..Len(Tail(q))
                   PROVE  begun'[i] < Tail(q)[j]
        OBVIOUS
      <4>1. CASE i = Len(begun) + 1 BY <2>1, <3>2, <4>1
      <4>2. CASE i # Len(begun) + 1
        <5>1. i \in 1..Len(begun) BY <3>2, <3>3, <4>2
        <5>2. QED BY <2>1, <3>2, <4>2, <5>1
      <4>3. QED BY <4>1, <4>2
    <3>6. pump' \in Pumping BY <2>2, <3>1, Numbers DEF Pumping
    <3>7. muxQueue' = Tail(q) /\ ~a /\ pump'.at = "speak" /\ pump'.u = Head(q) /\ stopping' \in BOOLEAN
      BY <2>2, <3>1
    <3>8. Tail(q) \in Seq(1..n) /\ Ascends(Tail(q)) /\ pump'.u \in 1..n BY <2>1, <3>7
    <3>9. begun' \in Seq(1..n) BY <3>2
    <3>10. MuxOK(n, Tail(q), pump', begun', a) BY <3>4, <3>5, <3>6, <3>7, <3>8, <3>9 DEF MuxOK
    <3>11. QED BY <3>7, <3>10
  <2>5. CASE ~(Head(q) \in urgent' \/ allowed)
    <3>1. begun' = begun /\ muxQueue' = q /\ stopping' = stopping
          /\ pump' = [at |-> "gate", u |-> Head(q), tries |-> 1]
      BY <1>2, <2>5 DEF Pumps
    <3>2. pump' \in Pumping BY <2>2, <3>1, Numbers DEF Pumping
    <3>3. QED BY <1>2, <2>1, <2>2, <2>3, <3>1, <3>2 DEF MuxOK
  <2>6. QED BY <2>4, <2>5
<1>3. QED BY <1>1, <1>2

\* What is known of the queue and of what was begun.
LEMMA MuxParts ==
  ASSUME MuxInv
  PROVE  /\ Len(utterance) \in Nat /\ utterance \in Seq(Outcomes)
         /\ muxQueue \in Seq(1..Len(utterance)) /\ begun \in Seq(1..Len(utterance))
         /\ DOMAIN utterance = 1..Len(utterance)
         /\ pump \in Pumping /\ aborted \in BOOLEAN /\ stopping \in BOOLEAN
  BY DEF MuxInv, MuxOK

\* More utterances disturb nothing.
LEMMA MuxGrows ==
  ASSUME NEW n \in Nat, NEW m \in Nat, n <= m, NEW q, NEW p, NEW b, NEW a, MuxOK(n, q, p, b, a)
  PROVE  MuxOK(m, q, p, b, a)
<1>1. 1..n \subseteq 1..m OBVIOUS
<1>2. Seq(1..n) \subseteq Seq(1..m) BY <1>1, SeqMonotonic
<1>3. QED BY <1>1, <1>2 DEF MuxOK

LEMMA SpeakKeeps ==
  ASSUME MuxInv, NEW immediate \in BOOLEAN, Speak(immediate)
  PROVE  MuxInv'
<1> DEFINE u == Len(utterance) + 1
           q == Append(muxQueue, u)
<1> USE DEF MuxInv
<1>0. Len(utterance) \in Nat /\ Len(muxQueue) \in Nat /\ Len(begun) \in Nat
  BY MuxParts, Elements
<1>1. /\ u \in Nat /\ u <= MaxUtterances /\ utterance' = Append(utterance, "open")
      /\ aborted' = FALSE /\ UNCHANGED <<healthy, allowed>>
      /\ urgent' = IF immediate THEN urgent \cup {u} ELSE urgent
  BY MuxParts DEF Speak
<1>2. utterance' \in Seq(Outcomes) /\ Len(utterance') = u
  BY <1>1, MuxParts DEF Outcomes
<1>3. MuxOK(u, muxQueue, pump, begun, aborted)
  <2>1. Len(utterance) \in Nat /\ Len(utterance) <= u BY MuxParts
  <2>2. QED BY <1>1, <2>1, MuxGrows
<1>4. \A i \in 1..Len(muxQueue) : muxQueue[i] < u
  BY <1>0, MuxParts, Elements
<1>5. \A i \in 1..Len(begun) : begun[i] < u
  BY <1>0, MuxParts, Elements
<1>6. /\ q \in Seq(1..u) /\ Len(q) = Len(muxQueue) + 1 /\ q # <<>>
      /\ \A i \in 1..Len(q) : q[i] = IF i = Len(muxQueue) + 1 THEN u ELSE muxQueue[i]
  <2>1. muxQueue \in Seq(1..u) BY <1>3 DEF MuxOK
  <2>2. u \in 1..u BY <1>0, <1>1
  <2> HIDE DEF u, MuxInv
  <2>4. /\ Append(muxQueue, u) \in Seq(1..u) /\ Len(Append(muxQueue, u)) = Len(muxQueue) + 1
        /\ Append(muxQueue, u) # <<>>
        /\ \A i \in 1..(Len(muxQueue) + 1) : Append(muxQueue, u)[i] = IF i = Len(muxQueue) + 1 THEN u ELSE muxQueue[i]
    <3>1. \A v : \A t \in Seq(1..v) : v \in 1..v =>
            /\ Append(t, v) \in Seq(1..v) /\ Len(Append(t, v)) = Len(t) + 1 /\ Append(t, v) # <<>>
            /\ \A i \in 1..(Len(t) + 1) : Append(t, v)[i] = IF i = Len(t) + 1 THEN v ELSE t[i]
      BY Longer
    <3>2. QED BY <3>1, <2>1, <2>2, Zenon
  <2>5. QED BY ONLY <2>4
<1>7. Ascends(q)
  <2>1. muxQueue \in Seq(1..u) /\ Ascends(muxQueue) BY <1>3 DEF MuxOK
  <2>2. u \in Nat /\ u \in 1..u BY <1>0, <1>1
  <2> HIDE DEF u, MuxInv
  <2>3. QED BY <1>4, <2>1, <2>2, AscendsOn
<1>8. \A i \in 1..Len(begun), j \in 1..Len(q) : begun[i] < q[j]
  BY <1>0, <1>3, <1>5, <1>6 DEF MuxOK
<1>9. MuxOK(u, muxQueue', pump', begun', FALSE) /\ stopping' \in BOOLEAN
  <2>1. CASE pump.at = "off"
    <3>1. Pumps(q) BY <2>1 DEF Speak
    <3>2. begun \in Seq(1..u) /\ Ascends(begun) /\ stopping \in BOOLEAN BY <1>3, MuxParts DEF MuxOK
    <3>3. FALSE \in BOOLEAN OBVIOUS
    <3> HIDE DEF q, u
    <3>4. QED BY <1>1, <1>6, <1>7, <1>8, <3>1, <3>2, <3>3, PumpsOK
  <2>2. CASE pump.at # "off"
    <3>1. muxQueue' = q /\ UNCHANGED <<pump, begun, stopping>> BY <2>2 DEF Speak
    <3>2. pump.at = "gate" => \A j \in 1..Len(q) : pump.u <= q[j]
      BY <1>0, <1>1, <1>3, <1>6 DEF MuxOK
    <3>3. /\ begun \in Seq(1..u) /\ Ascends(begun) /\ pump \in Pumping
          /\ (pump.at # "off" => pump.u \in 1..u)
          /\ (pump.at = "gate" => \A i \in 1..Len(begun) : begun[i] < pump.u)
      BY <1>3 DEF MuxOK
    <3>4. stopping' \in BOOLEAN /\ q # <<>> BY <1>6, <3>1, MuxParts
    <3> HIDE DEF q, u, MuxInv
    <3>5. QED BY <1>6, <1>7, <1>8, <3>1, <3>2, <3>3, <3>4 DEF MuxOK
  <2>3. QED BY <2>1, <2>2
<1>10. urgent' \subseteq 1..u
  <2>1. urgent \subseteq 1..Len(utterance) OBVIOUS
  <2>2. 1..Len(utterance) \subseteq 1..u /\ u \in 1..u BY <1>0
  <2>3. QED BY <1>1, <2>1, <2>2
<1>11. {healthy', allowed', aborted', stopping'} \subseteq BOOLEAN BY <1>1, <1>9
<1> HIDE DEF u
<1>12. QED BY <1>1, <1>2, <1>9, <1>10, <1>11

LEMMA AbortKeeps ==
  ASSUME MuxInv, Abort, UNCHANGED <<healthy, allowed>>
  PROVE  MuxInv'
<1> USE DEF MuxInv
<1>1. utterance' \in Seq(Outcomes) /\ Len(utterance') = Len(utterance)
  <2>1. \A u \in 1..Len(utterance) : utterance'[u] \in Outcomes
    BY MuxParts DEF Abort, Outcomes
  <2>2. utterance' = [u \in 1..Len(utterance) |-> IF u \in Queued THEN "aborted" ELSE utterance[u]]
    BY MuxParts DEF Abort
  <2>3. \A u \in 1..Len(utterance) :
          (IF u \in Queued THEN "aborted" ELSE utterance[u]) \in Outcomes
    BY <2>1, <2>2
  <2>4. Len(utterance) \in Nat BY MuxParts
  <2>5. QED BY <2>2, <2>3, <2>4, IsASeq
<1>2. MuxOK(Len(utterance), muxQueue', pump', begun', aborted')
  BY MuxParts, EmptySeq DEF Abort, MuxOK, Ascends
<1>3. QED BY <1>1, <1>2, MuxParts DEF Abort

LEMMA GateKeeps ==
  ASSUME MuxInv, GateRetries
  PROVE  MuxInv'
<1> DEFINE n == Len(utterance)
<1> USE DEF MuxInv
<1>1. n \in Nat /\ n <= MaxUtterances /\ UNCHANGED <<healthy, allowed, urgent, aborted>> /\ pump.at = "gate"
  BY MuxParts DEF GateRetries
<1>2. MuxOK(n, muxQueue, pump, begun, aborted) OBVIOUS
<1>3. CASE aborted
  <2>1. pump' = NoPump /\ UNCHANGED <<utterance, muxQueue, begun, stopping>> BY <1>3 DEF GateRetries
  <2>2. MuxOK(n, muxQueue', pump', begun', aborted')
    BY <1>1, <1>2, <2>1, Numbers DEF MuxOK, NoPump, Pumping
  <2>3. QED BY <1>1, <2>1, <2>2
<1>4. ASSUME ~aborted PROVE /\ muxQueue # <<>> /\ Ascends(muxQueue)
                            /\ Tail(muxQueue) \in Seq(1..n) /\ Ascends(Tail(muxQueue)) /\ Head(muxQueue) \in 1..n
                            /\ \A j \in 1..Len(Tail(muxQueue)) :
                                 /\ Head(muxQueue) < Tail(muxQueue)[j]
                                 /\ Tail(muxQueue)[j] = muxQueue[j + 1] /\ j + 1 \in 1..Len(muxQueue)
  <2>1. muxQueue # <<>> /\ Ascends(muxQueue) /\ muxQueue \in Seq(1..n) BY <1>1, <1>2, <1>4 DEF MuxOK
  <2>2. QED BY <1>1, <2>1, TailAscends
<1>5. CASE ~aborted /\ allowed /\ ~(pump.tries >= MaxGateRetries)
  <2>1. /\ pump' = [at |-> "speak", u |-> pump.u, tries |-> 0] /\ begun' = Append(begun, pump.u)
        /\ stopping' = FALSE /\ muxQueue' = Tail(muxQueue) /\ utterance' = utterance
    BY <1>5 DEF GateRetries, StartsSpeaking
  <2>2. pump.u \in 1..n /\ begun \in Seq(1..n) /\ pump \in Pumping BY <1>1, <1>2 DEF MuxOK
  <2>0. Len(begun) \in Nat /\ \A i \in 1..Len(begun) : begun[i] \in 1..n
    <3> HIDE DEF n
    <3>1. QED BY <1>1, <2>2, Elements
  <2>3. begun' \in Seq(1..n) /\ Len(begun') = Len(begun) + 1
        /\ \A i \in 1..Len(begun') : begun'[i] = IF i = Len(begun) + 1 THEN pump.u ELSE begun[i]
    BY <2>1, <2>2, Longer
  <2>4. Ascends(begun')
    <3> HIDE DEF n
    <3>1. Ascends(begun) /\ \A i \in 1..Len(begun) : begun[i] < pump.u BY <1>1, <1>2 DEF MuxOK
    <3>2. QED BY <1>1, <2>1, <2>2, <3>1, AscendsOn
  <2>5. \A j \in 1..Len(Tail(muxQueue)) : pump.u < Tail(muxQueue)[j]
    <3>1. Head(muxQueue) = muxQueue[1] /\ 1 \in 1..Len(muxQueue) BY <1>1, <1>4, <1>5, <1>2, Shorter DEF MuxOK
    <3>2. pump.u <= Head(muxQueue) BY <1>1, <1>2, <3>1 DEF MuxOK
    <3> HIDE DEF n
    <3>3. \A j \in 1..Len(Tail(muxQueue)) : Tail(muxQueue)[j] \in 1..n BY <1>1, <1>4, <1>5, Elements
    <3>4. QED BY <1>1, <1>4, <1>5, <2>2, <3>2, <3>3
  <2>6. \A i \in 1..Len(begun'), j \in 1..Len(Tail(muxQueue)) : begun'[i] < Tail(muxQueue)[j]
    <3> SUFFICES ASSUME NEW i \in 1..Len(begun'), NEW j \in 1..Len(Tail(muxQueue))
                 PROVE  begun'[i] < Tail(muxQueue)[j]
      OBVIOUS
    <3>1. Len(begun) \in Nat BY <2>0
    <3>2. CASE i = Len(begun) + 1 BY <2>3, <2>5, <3>2
    <3>3. CASE i # Len(begun) + 1
      <4>1. i \in 1..Len(begun) BY <2>3, <3>1, <3>3
      <4>2. QED BY <1>2, <1>4, <1>5, <2>3, <3>3, <4>1 DEF MuxOK
    <3>4. QED BY <3>2, <3>3
  <2>7. pump' \in Pumping BY <2>1, <2>2, Numbers DEF Pumping
  <2>8. MuxOK(n, muxQueue', pump', begun', aborted')
    BY <1>1, <1>4, <1>5, <2>1, <2>2, <2>3, <2>4, <2>6, <2>7 DEF MuxOK
  <2>9. QED BY <1>1, <2>1, <2>8
<1>6. CASE ~aborted /\ ~allowed /\ ~(pump.tries >= MaxGateRetries)
  <2>1. pump' = [pump EXCEPT !.tries = @ + 1] /\ UNCHANGED <<utterance, muxQueue, begun, stopping>>
    BY <1>6 DEF GateRetries
  <2>2. pump' \in Pumping /\ pump'.at = pump.at /\ pump'.u = pump.u
    <3>1. pump \in Pumping /\ pump.tries + 1 \in 0..MaxGateRetries
      BY <1>6, Numbers, MuxParts DEF Pumping
    <3>2. QED BY <2>1, <3>1 DEF Pumping
  <2>3. MuxOK(n, muxQueue', pump', begun', aborted') BY <1>1, <1>2, <2>1, <2>2 DEF MuxOK
  <2>4. QED BY <1>1, <2>1, <2>3
<1>7. CASE ~aborted /\ pump.tries >= MaxGateRetries
  <2>1. utterance' = [utterance EXCEPT ![Head(muxQueue)] = "skipped"] /\ Pumps(Tail(muxQueue))
    BY <1>7 DEF GateRetries
  <2>2. utterance' \in Seq(Outcomes) /\ Len(utterance') = n
    BY <1>4, <1>7, <2>1, MuxParts, ExceptSeq DEF Outcomes
  <2>3. \A i \in 1..Len(begun), j \in 1..Len(Tail(muxQueue)) : begun[i] < Tail(muxQueue)[j]
    BY <1>2, <1>4, <1>7 DEF MuxOK
  <2>4. begun \in Seq(1..n) /\ Ascends(begun) BY <1>2 DEF MuxOK
  <2> HIDE DEF n
  <2>5. MuxOK(n, muxQueue', pump', begun', FALSE) /\ stopping' \in BOOLEAN
    BY <1>1, <1>4, <1>7, <2>1, <2>3, <2>4, MuxParts, PumpsOK
  <2>6. aborted' = FALSE BY <1>1, <1>7, MuxParts
  <2>7. QED BY <1>1, <2>2, <2>5, <2>6 DEF n
<1>8. QED BY <1>3, <1>5, <1>6, <1>7

LEMMA SpokenKeeps ==
  ASSUME MuxInv, NEW outcome \in {"spoken", "aborted", "failed"}, Spoken(outcome)
  PROVE  MuxInv'
<1> DEFINE n == Len(utterance)
<1> USE DEF MuxInv
<1>1. n \in Nat /\ n <= MaxUtterances /\ UNCHANGED <<healthy, allowed, urgent, aborted>> /\ Pumps(muxQueue)
  BY MuxParts DEF Spoken
<1>2. MuxOK(n, muxQueue, pump, begun, aborted) /\ pump.u \in 1..n BY DEF MuxOK, Spoken
<1>3. utterance' \in Seq(Outcomes) /\ Len(utterance') = n
  <2>1. utterance' = [utterance EXCEPT ![pump.u] = IF @ = "open" THEN outcome ELSE @] BY DEF Spoken
  <2>2. utterance[pump.u] \in Outcomes /\ outcome \in Outcomes BY <1>2, MuxParts DEF Outcomes
  <2>3. QED BY <1>2, <2>1, <2>2, MuxParts, ExceptSeq
<1> HIDE DEF n
<1>4. MuxOK(n, muxQueue', pump', begun', aborted) /\ stopping' \in BOOLEAN
  <2>1. muxQueue \in Seq(1..n) /\ begun \in Seq(1..n) /\ Ascends(muxQueue) /\ Ascends(begun)
        /\ (aborted => muxQueue = <<>>)
        /\ \A i \in 1..Len(begun), j \in 1..Len(muxQueue) : begun[i] < muxQueue[j]
    BY <1>2 DEF MuxOK
  <2>2. QED BY <1>1, <2>1, MuxParts, PumpsOK
<1>5. QED BY <1>1, <1>3, <1>4 DEF n

(* The filler *)

LEMMA PlaysKeeps ==
  ASSUME FillerInv, NEW budget \in 0..(MaxPerSequence - 1), NEW w \in BOOLEAN, Plays(budget, w),
         w => budget = played /\ filler.waiting /\ loads = <<>>, UNCHANGED waits,
         loads' = loads \/ (loads # <<>> /\ loads' = Tail(loads))
  PROVE  FillerInv'
<1> USE DEF FillerInv, FillerGoesOn, Filling
<1>1. loads' \in Seq({"begin", "once"})
      /\ ((\E i \in 1..Len(loads') : loads'[i] = "begin") => \E i \in 1..Len(loads) : loads[i] = "begin")
  <2>1. CASE loads' = loads BY <2>1
  <2>2. CASE loads # <<>> /\ loads' = Tail(loads)
    <3>1. Tail(loads) \in Seq({"begin", "once"})
          /\ \A i \in 1..Len(Tail(loads)) : Tail(loads)[i] = loads[i + 1] /\ i + 1 \in 1..Len(loads)
      BY <2>2, Shorter
    <3>2. QED BY <2>2, <3>1
  <2>3. QED BY <2>1, <2>2
<1>2. w => ~\E i \in 1..Len(loads) : loads[i] = "begin" BY EmptySeq
<1>3. spent' \in 0..MaxPerSequence /\ (w => spent' <= budget + 1) /\ (~w => spent' = spent)
  BY Numbers DEF Plays
<1>4. CASE MaxClipFrames = 1
  <2>1. /\ filler' = [filler EXCEPT !.speaking = FALSE, !.waiting = w, !.timer = w]
        /\ clipFrames' = 0 /\ played' = IF w THEN budget + 1 ELSE 0
    BY <1>4 DEF Plays
  <2>2. /\ filler' \in Filling /\ filler'.speaking = FALSE /\ filler'.waiting = w
        /\ filler'.timer = w /\ filler'.begin = filler.begin
    BY <2>1
  <2>3. /\ clipFrames' \in 0..MaxClipFrames /\ played' \in 0..MaxPerSequence
        /\ (w => spent' <= played')
    BY <1>3, <2>1, Numbers
  <2>4. waits' \in 0..MaxWaits OBVIOUS
  <2>5. QED BY <1>1, <1>2, <1>3, <2>2, <2>3, <2>4
<1>5. CASE MaxClipFrames # 1
  <2>1. /\ filler' = [filler EXCEPT !.speaking = TRUE, !.waiting = w, !.timer = FALSE]
        /\ clipFrames' = MaxClipFrames - 1 /\ played' = budget + 1
    BY <1>5 DEF Plays
  <2>2. /\ filler' \in Filling /\ filler'.speaking = TRUE /\ filler'.waiting = w
        /\ filler'.begin = filler.begin
    BY <2>1
  <2>3. /\ clipFrames' \in 0..MaxClipFrames /\ clipFrames' > 0 /\ played' \in 0..MaxPerSequence
        /\ (w => spent' <= played')
    BY <1>3, <1>5, <2>1, Numbers
  <2>4. waits' \in 0..MaxWaits OBVIOUS
  <2>5. QED BY <1>1, <1>2, <1>3, <2>2, <2>3, <2>4
<1>6. QED BY <1>4, <1>5

LEMMA LoadedKeeps ==
  ASSUME FillerInv, Loaded
  PROVE  FillerInv'
<1> USE DEF FillerInv, FillerGoesOn, Filling
<1>1. loads # <<>> /\ loads' = Tail(loads) /\ waits' = waits BY DEF Loaded
<1>2. /\ Tail(loads) \in Seq({"begin", "once"}) /\ Head(loads) = loads[1] /\ 1 \in 1..Len(loads)
      /\ \A i \in 1..Len(Tail(loads)) : Tail(loads)[i] = loads[i + 1] /\ i + 1 \in 1..Len(loads)
  BY <1>1, Shorter
<1>3. CASE Head(loads) = "begin"
  <2>1. clipFrames' = clipFrames /\ spent' = spent BY <1>3 DEF Loaded
  <2>2. CASE filler.begin
    <3>1. filler' = [filler EXCEPT !.waiting = TRUE, !.timer = TRUE] /\ played' = 0
      BY <1>3, <2>2 DEF Loaded
    <3>2. spent = 0 BY <1>2, <1>3, <2>2
    <3>3. /\ filler' \in Filling /\ filler'.waiting = TRUE /\ filler'.timer = TRUE
          /\ filler'.speaking = filler.speaking
      BY <3>1
    <3>4. played' \in 0..MaxPerSequence /\ spent' <= played' BY <2>1, <3>1, <3>2, Numbers
    <3>5. QED BY <1>1, <1>2, <2>1, <3>2, <3>3, <3>4
  <2>3. CASE ~filler.begin
    <3>1. UNCHANGED <<filler, played>> BY <1>3, <2>3 DEF Loaded
    <3>2. QED BY <1>1, <1>2, <2>1, <2>3, <3>1
  <2>4. QED BY <2>2, <2>3
<1>4. CASE Head(loads) # "begin" /\ ~FillerActive /\ allowed
  <2>1. Plays(0, FALSE) BY <1>4 DEF Loaded
  <2>2. 0 \in 0..(MaxPerSequence - 1) BY Numbers
  <2> HIDE DEF FillerInv, FillerGoesOn
  <2>3. QED BY <1>1, <2>1, <2>2, PlaysKeeps
<1>5. CASE Head(loads) # "begin" /\ ~(~FillerActive /\ allowed)
  <2>1. UNCHANGED <<filler, clipFrames, played, spent>> BY <1>5 DEF Loaded
  <2>2. QED BY <1>1, <1>2, <2>1
<1>6. QED BY <1>3, <1>4, <1>5

LEMMA FillerStep ==
  ASSUME FillerInv,
         \/ BeginSequence \/ SpeakOnce \/ WaitFires \/ FramePlays
         \/ StopFiller \/ UNCHANGED fillerVars
  PROVE  FillerInv'
<1> USE DEF FillerInv, FillerGoesOn, Filling
<1>1. CASE BeginSequence
  <2>1. CASE FillerActive \/ filler.begin
    BY <1>1, <2>1, Numbers DEF BeginSequence
  <2>2. CASE ~(FillerActive \/ filler.begin)
    <3>1. filler' = [filler EXCEPT !.begin = TRUE] /\ loads' = Append(loads, "begin") /\ spent' = 0
          /\ waits' \in 0..MaxWaits /\ UNCHANGED <<clipFrames, played>>
      BY <1>1, <2>2, Numbers DEF BeginSequence
    <3>2. loads' \in Seq({"begin", "once"})
      <4>1. "begin" \in {"begin", "once"} /\ loads \in Seq({"begin", "once"}) OBVIOUS
      <4>2. QED BY <3>1, <4>1, Longer
    <3>3. /\ filler' \in Filling /\ filler'.speaking = filler.speaking /\ filler'.timer = filler.timer
          /\ filler'.waiting = filler.waiting /\ ~filler.waiting
      BY <2>2, <3>1 DEF FillerActive
    <3>4. spent' \in 0..MaxPerSequence BY <3>1, Numbers
    <3>5. QED BY <3>1, <3>2, <3>3, <3>4
  <2>3. QED BY <2>1, <2>2
<1>2. CASE SpeakOnce
  <2>1. loads' = Append(loads, "once") /\ waits' \in 0..MaxWaits
        /\ UNCHANGED <<filler, clipFrames, played, spent>>
    BY <1>2, Numbers DEF SpeakOnce
  <2>2. loads' \in Seq({"begin", "once"}) /\ Len(loads') = Len(loads) + 1
        /\ \A i \in 1..Len(loads') : loads'[i] = IF i = Len(loads) + 1 THEN "once" ELSE loads[i]
    BY <2>1, Longer
  <2>3. (\E i \in 1..Len(loads') : loads'[i] = "begin") => \E i \in 1..Len(loads) : loads[i] = "begin"
    BY <2>2
  <2>4. QED BY <2>1, <2>2, <2>3
<1>3. CASE WaitFires
  <2>1. filler.timer /\ loads = <<>> /\ UNCHANGED <<loads, waits>> BY <1>3 DEF WaitFires
  <2>2. CASE ~filler.waiting \/ filler.speaking
    BY <1>3, <2>1, <2>2 DEF WaitFires
  <2>3. CASE ~(~filler.waiting \/ filler.speaking) /\ BudgetSpent
    <3>1. filler' = [filler EXCEPT !.timer = FALSE, !.waiting = FALSE]
          /\ UNCHANGED <<clipFrames, played, spent>>
      BY <1>3, <2>3 DEF WaitFires
    <3>2. QED BY <2>1, <2>3, <3>1
  <2>4. CASE ~(~filler.waiting \/ filler.speaking) /\ ~BudgetSpent /\ allowed
    <3>1. Plays(played, TRUE) BY <1>3, <2>4 DEF WaitFires
    <3>2. played \in 0..(MaxPerSequence - 1) BY <2>4, Numbers DEF BudgetSpent
    <3>3. filler.waiting BY <2>4
    <3> HIDE DEF FillerInv, FillerGoesOn
    <3>4. QED BY <2>1, <3>1, <3>2, <3>3, PlaysKeeps
  <2>5. CASE ~(~filler.waiting \/ filler.speaking) /\ ~BudgetSpent /\ ~allowed
    BY <1>3, <2>1, <2>5 DEF WaitFires
  <2>6. QED BY <2>2, <2>3, <2>4, <2>5
<1>4. CASE FramePlays
  <2>1. /\ filler.speaking /\ loads' = loads /\ waits' = waits /\ spent' = spent
        /\ clipFrames' = clipFrames - 1 /\ clipFrames > 0
    BY <1>4 DEF FramePlays
  <2>2. CASE clipFrames > 1
    BY <1>4, <2>1, <2>2, Numbers DEF FramePlays
  <2>3. CASE ~(clipFrames > 1)
    <3>1. filler' = [filler EXCEPT !.speaking = FALSE, !.timer = filler.waiting]
          /\ played' = IF filler.waiting THEN played ELSE 0
      BY <1>4, <2>3 DEF FramePlays
    <3>2. /\ filler' \in Filling /\ filler'.speaking = FALSE /\ filler'.timer = filler.waiting
          /\ filler'.waiting = filler.waiting /\ filler'.begin = filler.begin
      BY <3>1 DEF Filling
    <3>3. clipFrames' \in 0..MaxClipFrames /\ played' \in 0..MaxPerSequence
          /\ (filler.waiting => spent <= played')
      BY <2>1, <2>3, <3>1, Numbers
    <3>4. QED BY <2>1, <3>2, <3>3
  <2>4. QED BY <2>2, <2>3
<1>5. CASE StopFiller
  BY <1>5, Numbers DEF StopFiller, Still
<1>6. CASE UNCHANGED fillerVars
  BY <1>6 DEF fillerVars
<1>7. QED BY <1>1, <1>2, <1>3, <1>4, <1>5, <1>6

LEMMA MuxRests ==
  ASSUME MuxInv, UNCHANGED muxVars, {healthy', allowed'} \subseteq BOOLEAN
  PROVE  MuxInv'
  BY DEF MuxInv, muxVars

LEMMA OutputInductive == OutputInv /\ [OutputNext]_outputVars => OutputInv'
<1> SUFFICES ASSUME OutputInv, [OutputNext]_outputVars PROVE OutputInv'
  OBVIOUS
<1>0. MuxInv /\ FillerInv /\ {healthy, allowed} \subseteq BOOLEAN BY DEF OutputInv, MuxInv
<1>1. CASE GateTurns
  BY <1>0, <1>1, MuxRests, FillerStep DEF GateTurns, OutputInv
<1>2. CASE SidecarTurns
  BY <1>0, <1>2, MuxRests, FillerStep DEF SidecarTurns, OutputInv
<1>3. ASSUME NEW i \in BOOLEAN, Speak(i) PROVE OutputInv'
  BY <1>0, <1>3, SpeakKeeps, FillerStep DEF Speak, OutputInv
<1>4. CASE Silenced
  BY <1>0, <1>4, AbortKeeps, FillerStep DEF Silenced, OutputInv
<1>5. CASE GateRetries
  BY <1>0, <1>5, GateKeeps, FillerStep DEF GateRetries, OutputInv
<1>6. ASSUME NEW o \in {"spoken", "aborted", "failed"}, Spoken(o) PROVE OutputInv'
  BY <1>0, <1>6, SpokenKeeps, FillerStep DEF Spoken, OutputInv
<1>7. CASE BeginSequence
  BY <1>0, <1>7, MuxRests, FillerStep DEF BeginSequence, OutputInv
<1>8. CASE SpeakOnce
  BY <1>0, <1>8, MuxRests, FillerStep DEF SpeakOnce, OutputInv
<1>9. CASE Loaded
  BY <1>0, <1>9, MuxRests, LoadedKeeps DEF Loaded, OutputInv
<1>10. CASE WaitFires
  BY <1>0, <1>10, MuxRests, FillerStep DEF WaitFires, OutputInv
<1>11. CASE FramePlays
  BY <1>0, <1>11, MuxRests, FillerStep DEF FramePlays, OutputInv
<1>12. CASE StopFiller
  BY <1>0, <1>12, AbortKeeps, FillerStep DEF StopFiller, OutputInv
<1>13. CASE UNCHANGED outputVars
  BY <1>0, <1>13, MuxRests, FillerStep DEF outputVars, OutputInv
<1>14. QED
  BY <1>1, <1>2, <1>3, <1>4, <1>5, <1>6, <1>7, <1>8, <1>9, <1>10, <1>11, <1>12, <1>13 DEF OutputNext

LEMMA OutputInvKept == OutputInv => OutputKept
<1> SUFFICES ASSUME OutputInv PROVE OutputKept
  OBVIOUS
<1>1. MuxInv /\ FillerInv BY DEF OutputInv
<1>2. OutputTypeOK
  BY <1>1, MuxParts, Numbers DEF OutputTypeOK, MuxInv, FillerInv, Filling, Outcomes, Pumping
<1>3. SpokenOnceInOrder
  <2>1. begun \in Seq(1..Len(utterance)) /\ Ascends(begun) BY <1>1 DEF MuxInv, MuxOK
  <2>2. DOMAIN begun = 1..Len(begun) BY <2>1
  <2>3. QED BY <2>1, <2>2 DEF SpokenOnceInOrder, Ascends
<1>4. FillerGoesOn /\ WithinBudget BY <1>1, Numbers DEF FillerInv, WithinBudget
<1>5. QED BY <1>2, <1>3, <1>4 DEF OutputKept

\* Whatever is aborted, waits for its gate or arrives meanwhile: utterances are
\* begun in the order they were asked for and none twice, a filler that waits
\* goes on, and no wait gets more clips than its budget (speech-mux.ts:40-130,
\* filler-speaker.ts).
THEOREM OutputAlwaysKept == OutputSpec => []OutputKept
<1>1. OutputInit => OutputInv BY OutputInitial
<1>2. OutputInv /\ [OutputNext]_outputVars => OutputInv' BY OutputInductive
<1>3. OutputInv => OutputKept BY OutputInvKept
<1>4. QED BY <1>1, <1>2, <1>3, PTL DEF OutputSpec

-----------------------------------------------------------------------------
(* The local speech-to-speech runtime *)

AskKinds == {"conversation", "notice"}
Adapter == [closing : BOOLEAN, pending : BOOLEAN, wants : AskKinds \cup {"none"}, active : Nat,
            kind : AskKinds \cup {"none"}, implicit : BOOLEAN, speech : BOOLEAN, heard : Nat,
            queue : Seq(AskKinds), timer : BOOLEAN, handled : SUBSET Nat,
            routed : SUBSET [id : Nat, use : Uses], routes : Nat]
Upward == [type : {"create"}, kind : AskKinds] \cup [type : {"cancel"}]
Downward ==
  [type : {"started", "stopped", "error"}]
  \cup [type : {"created"}, id : Nat \ {0}, kind : AskKinds]
  \cup [type : {"done"}, id : Nat, cut : BOOLEAN]
  \cup [type : {"transcript"}, turn : Nat]
  \cup [type : {"call"}, id : Nat]
Runtime == [active : Nat, last : Nat, speech : {"silent", "speaking"}, turns : Nat,
            untold : SUBSET Nat, owed : BOOLEAN, called : BOOLEAN, calls : Nat]

\* An adapter that works on: what waits in its queue fits, and has a waker.
WorksOn(a) ==
  /\ a \in Adapter /\ ~a.closing /\ Len(a.queue) <= MaxQueued
  /\ a.queue # <<>> => Busy(a) \/ a.routed # {}

\* Before its queue was looked at.
Unflushed(a) == a \in Adapter /\ ~a.closing /\ Len(a.queue) <= MaxQueued

\* A call that was told is handled; a closed adapter hears no more of them.
LocalInv ==
  /\ wire \in [at : {"opening", "settling", "ready", "failed"}, tries : 0..MaxConnects,
               managed : BOOLEAN]
  /\ adapter = ClosedAdapter \/ WorksOn(adapter)
  /\ upward \in Seq(Upward) /\ downward \in Seq(Downward) /\ runtime \in Runtime
  /\ caller \in [asked : Nat, called : Seq(Nat), answered : SUBSET Nat]
  /\ ~adapter.closing =>
       \A i \in 1..Len(caller.called) : caller.called[i] \in adapter.handled
  /\ CallsAreToldOnce

LEMMA LocalInitial == ASSUME LocalInit PROVE LocalInv
<1> USE DEF LocalInit
<1>1. WorksOn(adapter) BY LocalAssumption DEF Fresh, WorksOn, Adapter, None, AskKinds
<1>2. runtime \in Runtime BY DEF Runtime, None
<1>3. caller.called = <<>> OBVIOUS
<1>4. wire \in [at : {"opening", "settling", "ready", "failed"}, tries : 0..MaxConnects,
                managed : BOOLEAN]
  BY LocalAssumption
<1>5. CallsAreToldOnce BY <1>3 DEF CallsAreToldOnce
<1>6. QED BY <1>1, <1>2, <1>3, <1>4, <1>5 DEF LocalInv

(* What a step may leave the adapter as *)

LEMMA ClosedIs == ClosedAdapter \in Adapter /\ ClosedAdapter.closing /\ ClosedAdapter.queue = <<>>
<1>1. Fresh \in Adapter /\ Fresh.queue = <<>> BY DEF Fresh, Adapter, AskKinds, None
<1>2. QED BY <1>1 DEF ClosedAdapter, Adapter

LEMMA Requesting ==
  ASSUME NEW a, Unflushed(a), NEW kind \in AskKinds
  PROVE  /\ WorksOn(Request(a, kind).a) /\ Request(a, kind).a.handled = a.handled
         /\ Request(a, kind).out \in Seq(Upward)
<1> DEFINE b == [a EXCEPT !.pending = TRUE, !.wants = kind, !.timer = TRUE]
           m == [type |-> "create", kind |-> kind]
<1>1. /\ b \in Adapter /\ b.pending /\ b.closing = a.closing /\ b.queue = a.queue
      /\ b.handled = a.handled
  BY DEF Unflushed, Adapter
<1>2. m \in Upward BY DEF Upward
<1>3. Request(a, kind).a = b /\ Request(a, kind).out = <<m>> BY DEF Request, Step
<1> HIDE DEF b, m
<1>4. WorksOn(b) BY <1>1 DEF WorksOn, Unflushed, Busy
<1>5. <<m>> \in Seq(Upward) BY <1>2
<1>6. QED BY <1>1, <1>3, <1>4, <1>5

LEMMA Scheduling ==
  ASSUME NEW a, Unflushed(a), ~Full(a), NEW kind \in AskKinds
  PROVE  /\ WorksOn(Scheduled(a, kind).a) /\ Scheduled(a, kind).a.handled = a.handled
         /\ Scheduled(a, kind).out \in Seq(Upward)
<1>1. CASE ~Busy(a) BY <1>1, Requesting DEF Scheduled
<1>2. CASE Busy(a)
  <2> DEFINE q == Append(a.queue, kind)
             b == [a EXCEPT !.queue = q]
  <2>1. a.queue \in Seq(AskKinds) /\ MaxQueued \in Nat BY LocalAssumption DEF Unflushed, Adapter
  <2>2. q \in Seq(AskKinds) /\ Len(q) = Len(a.queue) + 1 /\ Len(a.queue) \in Nat BY <2>1
  <2>3. Len(q) <= MaxQueued BY <1>2, <2>1, <2>2 DEF Full
  <2> HIDE DEF q
  <2>4. /\ b \in Adapter /\ b.closing = a.closing /\ b.queue = q /\ b.handled = a.handled
        /\ b.speech = a.speech /\ b.implicit = a.implicit /\ b.pending = a.pending
        /\ b.active = a.active
    BY <2>2 DEF Unflushed, Adapter
  <2>5. Scheduled(a, kind).a = b /\ Scheduled(a, kind).out = <<>>
    BY <1>2 DEF Scheduled, OnlyNotes, Step, q
  <2> HIDE DEF b
  <2>6. WorksOn(b) BY <1>2, <2>3, <2>4 DEF WorksOn, Unflushed, Busy
  <2>7. QED BY <2>4, <2>5, <2>6
<1>3. QED BY <1>1, <1>2

LEMMA Routing ==
  ASSUME NEW a, Unflushed(a), NEW use \in Uses
  PROVE  /\ WorksOn(Routed(a, use).a) /\ Routed(a, use).a.handled = a.handled
         /\ Routed(a, use).out \in Seq(Upward)
<1> DEFINE n == a.routes + 1
           r == a.routed \cup {[id |-> n, use |-> use]}
           b == [a EXCEPT !.routed = r, !.routes = n]
<1> DEFINE routes == [id : Nat, use : Uses]
<1>0. a.routes \in Nat /\ a.routed \in SUBSET routes BY DEF Unflushed, Adapter
<1>1. n \in Nat /\ r \in SUBSET [id : Nat, use : Uses] /\ r # {}
  <2>1. n \in Nat BY <1>0
  <2> HIDE DEF n
  <2>2. [id |-> n, use |-> use] \in routes BY <2>1
  <2> HIDE DEF routes
  <2>3. r \in SUBSET routes /\ r # {} BY <1>0, <2>2
  <2>4. QED BY <2>1, <2>3 DEF routes
<1>2. Routed(a, use).a = b /\ Routed(a, use).out = <<>> BY DEF Routed, OnlyNotes, Step
<1> HIDE DEF n, r
<1>3. /\ b \in Adapter /\ b.closing = a.closing /\ b.queue = a.queue /\ b.handled = a.handled
      /\ b.routed = r
  BY <1>1 DEF Unflushed, Adapter
<1> HIDE DEF b
<1>4. WorksOn(b) BY <1>1, <1>3 DEF WorksOn, Unflushed
<1>5. QED BY <1>2, <1>3, <1>4

LEMMA FlushingQueue ==
  ASSUME NEW a, Unflushed(a)
  PROVE  /\ WorksOn(Flushed(a).a) /\ Flushed(a).a.handled = a.handled
         /\ Flushed(a).out \in Seq(Upward)
<1>1. CASE Busy(a) \/ a.queue = <<>>
  <2>1. Flushed(a).a = a /\ Flushed(a).out = <<>> BY <1>1 DEF Flushed, OnlyNotes, Step
  <2>2. WorksOn(a) BY <1>1 DEF WorksOn, Unflushed
  <2>3. QED BY <2>1, <2>2
<1>2. CASE ~ (Busy(a) \/ a.queue = <<>>)
  <2> DEFINE q == Tail(a.queue)
             b == [a EXCEPT !.queue = q]
             k == Head(a.queue)
  <2>1. a.queue \in Seq(AskKinds) /\ a.queue # <<>> BY <1>2 DEF Unflushed, Adapter
  <2>2. q \in Seq(AskKinds) /\ k \in AskKinds /\ Len(q) = Len(a.queue) - 1 /\ Len(a.queue) \in Nat
    BY <2>1
  <2>3. Len(q) <= MaxQueued BY <2>2, LocalAssumption DEF Unflushed
  <2>4. Flushed(a) = Request(b, k) BY <1>2 DEF Flushed
  <2> HIDE DEF q, k
  <2>5. b \in Adapter /\ b.closing = a.closing /\ b.queue = q /\ b.handled = a.handled
    BY <2>2 DEF Unflushed, Adapter
  <2> HIDE DEF b
  <2>6. Unflushed(b) BY <2>3, <2>5 DEF Unflushed
  <2>7. QED BY <2>2, <2>4, <2>5, <2>6, Requesting
<1>3. QED BY <1>1, <1>2

\* A step of the adapter that keeps what it handled, and what it sends.
LEMMA Doing ==
  ASSUME LocalInv, NEW step, Does(step), step.out \in Seq(Upward),
         step.a = ClosedAdapter \/ (WorksOn(step.a) /\ adapter.handled \subseteq step.a.handled),
         ~adapter.closing,
         wire' = wire, downward' \in Seq(Downward), runtime' = runtime,
         caller' \in [asked : Nat, called : Seq(Nat), answered : SUBSET Nat],
         caller'.called = caller.called
  PROVE  LocalInv'
<1>1. upward' \in Seq(Upward) /\ adapter' = step.a BY DEF LocalInv, Does
<1>2. adapter' = ClosedAdapter \/ WorksOn(adapter') BY <1>1
<1>3. ~adapter'.closing =>
        \A i \in 1..Len(caller'.called) : caller'.called[i] \in adapter'.handled
  BY <1>1, ClosedIs DEF LocalInv
<1>4. CallsAreToldOnce' BY DEF LocalInv, CallsAreToldOnce
<1>5. ClosedAdapter' = ClosedAdapter BY DEF ClosedAdapter, Fresh
<1>6. QED BY <1>1, <1>2, <1>3, <1>4, <1>5 DEF LocalInv, WorksOn, Busy
LEMMA AdapterUp ==
  ASSUME LocalInv, IsUp
  PROVE  /\ WorksOn(adapter) /\ Unflushed(adapter) /\ ~adapter.closing
         /\ caller \in [asked : Nat, called : Seq(Nat), answered : SUBSET Nat]
         /\ upward \in Seq(Upward) /\ downward \in Seq(Downward) /\ runtime \in Runtime
<1>1. ~adapter.closing BY DEF IsUp
<1>2. WorksOn(adapter) BY <1>1, ClosedIs DEF LocalInv
<1>3. QED BY <1>1, <1>2 DEF LocalInv, WorksOn, Unflushed

LEMMA CallerAsks ==
  ASSUME LocalInv, MayAsk
  PROVE  /\ IsUp /\ caller' \in [asked : Nat, called : Seq(Nat), answered : SUBSET Nat]
         /\ caller'.called = caller.called
<1>1. /\ IsUp /\ caller' = [caller EXCEPT !.asked = @ + 1]
      /\ caller \in [asked : Nat, called : Seq(Nat), answered : SUBSET Nat]
  BY DEF LocalInv, MayAsk
<1>2. caller.asked + 1 \in Nat BY <1>1
<1>3. QED BY <1>1, <1>2

\* An event that arrives, and what is left on its way.
LEMMA Receiving ==
  ASSUME LocalInv, NEW type, Receives(type)
  PROVE  /\ IsUp /\ downward' \in Seq(Downward) /\ Head(downward) \in Downward
         /\ Head(downward).type = type
BY DEF LocalInv, Receives

LEMMA Kept ==
  ASSUME NEW a, WorksOn(a) PROVE WorksOn(a) /\ Unflushed(a) /\ a \in Adapter
BY DEF WorksOn, Unflushed

(* Calls of the gateway *)

LEMMA TextStep == ASSUME LocalInv, SendsText PROVE LocalInv'
<1>1. /\ IsUp /\ caller' \in [asked : Nat, called : Seq(Nat), answered : SUBSET Nat]
      /\ caller'.called = caller.called
      /\ wire' = wire /\ downward' = downward /\ runtime' = runtime
  BY CallerAsks DEF SendsText
<1>2. Unflushed(adapter) /\ ~adapter.closing /\ downward \in Seq(Downward) BY <1>1, AdapterUp
<1>3. CASE \E use \in Uses : Does(Routed(adapter, use))
  <2>1. PICK use \in Uses : Does(Routed(adapter, use)) BY <1>3
  <2>2. QED BY <1>1, <1>2, <2>1, Routing, Doing
<1>4. CASE ~Full(adapter) /\ Does(Scheduled(adapter, "conversation"))
  BY <1>1, <1>2, <1>4, Scheduling, Doing DEF AskKinds
<1>5. QED BY <1>3, <1>4 DEF SendsText

LEMMA NoticeStep == ASSUME LocalInv, SendsNotice PROVE LocalInv'
<1>1. /\ IsUp /\ caller' \in [asked : Nat, called : Seq(Nat), answered : SUBSET Nat]
      /\ caller'.called = caller.called
      /\ wire' = wire /\ downward' = downward /\ runtime' = runtime
      /\ ~Full(adapter) /\ Does(Scheduled(adapter, "notice"))
  BY CallerAsks DEF SendsNotice
<1>2. Unflushed(adapter) /\ ~adapter.closing /\ downward \in Seq(Downward) BY <1>1, AdapterUp
<1>3. QED BY <1>1, <1>2, Scheduling, Doing DEF AskKinds

LEMMA CancelStep == ASSUME LocalInv, CancelsResponse PROVE LocalInv'
<1> DEFINE step == Step(adapter, <<[type |-> "cancel"]>>)
<1>1. /\ IsUp /\ caller' \in [asked : Nat, called : Seq(Nat), answered : SUBSET Nat]
      /\ caller'.called = caller.called
      /\ wire' = wire /\ downward' = downward /\ runtime' = runtime /\ Does(step)
  BY CallerAsks DEF CancelsResponse
<1>2. WorksOn(adapter) /\ ~adapter.closing /\ downward \in Seq(Downward) BY <1>1, AdapterUp
<1>3. [type |-> "cancel"] \in Upward BY DEF Upward
<1>4. step.a = adapter /\ step.out \in Seq(Upward) BY <1>3 DEF Step
<1> HIDE DEF step
<1>5. QED BY <1>1, <1>2, <1>4, Doing

LEMMA AnswersCallStep == ASSUME LocalInv, AnswersCall PROVE LocalInv'
<1>1. /\ IsUp /\ ~Full(adapter) /\ Does(Scheduled(adapter, "conversation"))
      /\ wire' = wire /\ downward' = downward /\ runtime' = runtime
  BY DEF AnswersCall
<1>2. Unflushed(adapter) /\ ~adapter.closing /\ downward \in Seq(Downward)
      /\ caller \in [asked : Nat, called : Seq(Nat), answered : SUBSET Nat]
  BY <1>1, AdapterUp
<1>3. PICK i \in DOMAIN caller.called \ caller.answered :
        caller' = [caller EXCEPT !.answered = @ \cup {i}]
  BY DEF AnswersCall
<1>4. i \in Nat BY <1>2, <1>3
<1>5. /\ caller' \in [asked : Nat, called : Seq(Nat), answered : SUBSET Nat]
      /\ caller'.called = caller.called
  BY <1>2, <1>3, <1>4
<1>6. QED BY <1>1, <1>2, <1>5, Scheduling, Doing DEF AskKinds

LEMMA AnswersRouteStep == ASSUME LocalInv, AnswersRoute PROVE LocalInv'
<1>1. /\ IsUp /\ wire' = wire /\ downward' = downward /\ runtime' = runtime /\ caller' = caller
  BY DEF AnswersRoute
<1>2. Unflushed(adapter) /\ ~adapter.closing /\ downward \in Seq(Downward)
      /\ caller \in [asked : Nat, called : Seq(Nat), answered : SUBSET Nat]
  BY <1>1, AdapterUp
<1>3. PICK r \in adapter.routed :
       LET left == [adapter EXCEPT !.routed = @ \ {r}]
       IN  \/ ~Full(adapter) /\ Does(Scheduled(left, "conversation"))
           \/ Full(adapter) /\ Does(OnlyNotes(left))
           \/ r.use = "find" /\ Does(Routed(left, "act"))
           \/ r.use = "act" /\ Does(OnlyNotes(ClosedAdapter))
  BY DEF AnswersRoute
<1> DEFINE left == [adapter EXCEPT !.routed = @ \ {r}]
<1>4. /\ Unflushed(left) /\ left.handled = adapter.handled /\ left.queue = adapter.queue
      /\ Busy(left) = Busy(adapter)
  BY <1>2 DEF Unflushed, Adapter, Busy
<1>5. \/ ~Full(adapter) /\ Does(Scheduled(left, "conversation"))
      \/ Full(adapter) /\ Does(OnlyNotes(left))
      \/ Does(Routed(left, "act"))
      \/ Does(OnlyNotes(ClosedAdapter))
  BY <1>3
<1> HIDE DEF left
<1>6. Full(left) = Full(adapter) BY <1>4 DEF Full
<1>7. CASE ~Full(adapter) /\ Does(Scheduled(left, "conversation"))
  BY <1>1, <1>2, <1>4, <1>6, <1>7, Scheduling, Doing DEF AskKinds
<1>8. CASE Does(Routed(left, "act"))
  BY <1>1, <1>2, <1>4, <1>8, Routing, Doing DEF Uses
<1>9. CASE Does(OnlyNotes(ClosedAdapter))
  <2> DEFINE step == OnlyNotes(ClosedAdapter)
  <2>1. step.a = ClosedAdapter /\ step.out = <<>> /\ Does(step) BY <1>9 DEF OnlyNotes, Step
  <2> HIDE DEF step
  <2>2. step.out \in Seq(Upward) BY <2>1
  <2>3. QED BY <1>1, <1>2, <2>1, <2>2, Doing
<1>10. CASE Full(adapter) /\ Does(OnlyNotes(left))
  <2> DEFINE step == OnlyNotes(left)
  <2>1. step.a = left /\ step.out = <<>> /\ Does(step) BY <1>10 DEF OnlyNotes, Step
  <2>2. WorksOn(left) BY <1>4, <1>10 DEF WorksOn, Unflushed, Full
  <2> HIDE DEF step
  <2>3. step.out \in Seq(Upward) BY <2>1
  <2>4. QED BY <1>1, <1>2, <1>4, <2>1, <2>2, <2>3, Doing
<1>11. QED BY <1>5, <1>7, <1>8, <1>9, <1>10

LEMMA ClosesStep == ASSUME LocalInv, LocalCloses PROVE LocalInv'
<1>1. /\ adapter' = ClosedAdapter /\ upward' = <<>> /\ downward' = <<>>
      /\ wire' = wire /\ runtime' = runtime /\ caller' = caller
  BY DEF LocalCloses
<1>2. ClosedAdapter' = ClosedAdapter BY DEF ClosedAdapter, Fresh
<1>3. CallsAreToldOnce' BY <1>1 DEF LocalInv, CallsAreToldOnce
<1>4. QED BY <1>1, <1>2, <1>3, ClosedIs DEF LocalInv

(* Events of the runtime *)

\* A step that only changes the adapter, and sends nothing.
LEMMA Noting ==
  ASSUME LocalInv, NEW a, adapter' = a, upward' = upward, ~adapter.closing,
         a = ClosedAdapter \/ (WorksOn(a) /\ a.handled = adapter.handled),
         downward' \in Seq(Downward), wire' = wire, runtime' = runtime, caller' = caller
  PROVE  LocalInv'
<1> DEFINE step == Step(a, <<>>)
<1>1. step.a = a /\ step.out = <<>> BY DEF Step
<1> HIDE DEF step
<1>2. Does(step) /\ step.out \in Seq(Upward) BY <1>1 DEF Does, LocalInv
<1>3. caller \in [asked : Nat, called : Seq(Nat), answered : SUBSET Nat] BY DEF LocalInv
<1>4. QED BY <1>1, <1>2, <1>3, Doing

LEMMA SpeechStep == ASSUME LocalInv, HearsSpeech PROVE LocalInv'
<1> DEFINE a == [adapter EXCEPT !.speech = TRUE, !.heard = None]
<1>1. /\ Receives("started") /\ adapter' = a /\ upward' = upward
      /\ wire' = wire /\ runtime' = runtime /\ caller' = caller
  BY DEF HearsSpeech
<1>2. IsUp /\ downward' \in Seq(Downward) BY <1>1, Receiving
<1>3. WorksOn(adapter) BY <1>2, AdapterUp
<1>4. /\ a \in Adapter /\ a.speech /\ a.closing = adapter.closing /\ a.queue = adapter.queue
      /\ a.handled = adapter.handled
  BY <1>3 DEF WorksOn, Adapter, None
<1> HIDE DEF a
<1>5. WorksOn(a) BY <1>3, <1>4 DEF WorksOn, Busy
<1>6. QED BY <1>1, <1>2, <1>3, <1>4, <1>5, Noting DEF WorksOn

\* A turn that is taken becomes a call of the adapter's own or a request.
LEMMA Taking ==
  ASSUME LocalInv, IsUp, NEW a, Unflushed(a), a.handled = adapter.handled, TakesTurn(a),
         downward' \in Seq(Downward), wire' = wire, runtime' = runtime, caller' = caller
  PROVE  LocalInv'
<1> DEFINE turn == [a EXCEPT !.heard = None, !.implicit = FALSE, !.timer = FALSE]
<1>1. /\ turn \in Adapter /\ turn.closing = a.closing /\ turn.queue = a.queue
      /\ turn.handled = a.handled
  BY DEF Unflushed, Adapter, None
<1>2. (\E use \in Uses : Does(Routed(turn, use))) \/ Does(Request(turn, "conversation"))
  BY DEF TakesTurn
<1> HIDE DEF turn
<1>3. Unflushed(turn) BY <1>1 DEF Unflushed
<1>4. ~adapter.closing /\ caller \in [asked : Nat, called : Seq(Nat), answered : SUBSET Nat]
  BY AdapterUp
<1>5. CASE \E use \in Uses : Does(Routed(turn, use))
  <2>1. PICK use \in Uses : Does(Routed(turn, use)) BY <1>5
  <2>2. QED BY <1>1, <1>3, <1>4, <2>1, Routing, Doing
<1>6. CASE Does(Request(turn, "conversation"))
  BY <1>1, <1>3, <1>4, <1>6, Requesting, Doing DEF AskKinds
<1>7. QED BY <1>2, <1>5, <1>6

LEMMA PauseStep == ASSUME LocalInv, HearsPause PROVE LocalInv'
<1> DEFINE a == [adapter EXCEPT !.speech = FALSE, !.implicit = TRUE, !.timer = TRUE]
<1>1. /\ Receives("stopped") /\ wire' = wire /\ runtime' = runtime /\ caller' = caller
      /\ IF adapter.heard # None THEN TakesTurn(a) ELSE Does(OnlyNotes(a))
  BY DEF HearsPause
<1>2. IsUp /\ downward' \in Seq(Downward) BY <1>1, Receiving
<1>3. WorksOn(adapter) BY <1>2, AdapterUp
<1>4. /\ a \in Adapter /\ a.implicit /\ a.closing = adapter.closing /\ a.queue = adapter.queue
      /\ a.handled = adapter.handled
  BY <1>3 DEF WorksOn, Adapter
<1> HIDE DEF a
<1>5. WorksOn(a) /\ Unflushed(a) BY <1>3, <1>4 DEF WorksOn, Unflushed, Busy
<1>6. CASE TakesTurn(a) BY <1>1, <1>2, <1>4, <1>5, <1>6, Taking
<1>7. CASE Does(OnlyNotes(a))
  <2>1. adapter' = a /\ upward' = upward
    BY <1>7 DEF Does, OnlyNotes, Step, LocalInv
  <2>2. QED BY <1>1, <1>2, <1>3, <1>4, <1>5, <2>1, Noting DEF WorksOn
<1>8. QED BY <1>1, <1>6, <1>7

LEMMA TranscriptStep == ASSUME LocalInv, HearsTranscript PROVE LocalInv'
<1> DEFINE turn == Head(downward).turn
           a == IF wire.managed /\ adapter.speech THEN [adapter EXCEPT !.heard = turn] ELSE adapter
<1>1. /\ Receives("transcript") /\ wire' = wire /\ runtime' = runtime /\ caller' = caller
      /\ IF wire.managed /\ adapter.implicit THEN TakesTurn(adapter) ELSE Does(OnlyNotes(a))
  BY DEF HearsTranscript
<1>2. IsUp /\ downward' \in Seq(Downward) BY <1>1, Receiving
<1>3. WorksOn(adapter) /\ Unflushed(adapter) BY <1>2, AdapterUp
<1>4. turn \in Nat
  <2>1. Head(downward) \in Downward /\ Head(downward).type = "transcript" BY <1>1, Receiving
  <2>2. QED BY <2>1 DEF Downward
<1> HIDE DEF turn
<1>5. CASE TakesTurn(adapter) BY <1>1, <1>2, <1>3, <1>5, Taking
<1>6. CASE Does(OnlyNotes(a))
  <2>1. adapter' = a /\ upward' = upward
    BY <1>6 DEF Does, OnlyNotes, Step, LocalInv
  <2>2. /\ a \in Adapter /\ a.closing = adapter.closing /\ a.queue = adapter.queue
        /\ a.handled = adapter.handled /\ a.routed = adapter.routed /\ Busy(a) = Busy(adapter)
    <3>1. CASE wire.managed /\ adapter.speech
      BY <1>3, <1>4, <3>1 DEF WorksOn, Adapter, Busy
    <3>2. CASE ~ (wire.managed /\ adapter.speech) BY <1>3, <3>2 DEF WorksOn
    <3>3. QED BY <3>1, <3>2
  <2> HIDE DEF a
  <2>3. WorksOn(a) BY <1>3, <2>2 DEF WorksOn
  <2>4. QED BY <1>1, <1>2, <1>3, <2>1, <2>2, <2>3, Noting DEF WorksOn
<1>7. QED BY <1>1, <1>5, <1>6

LEMMA StartStep == ASSUME LocalInv, LocalResponseStarts PROVE LocalInv'
<1> DEFINE id == Head(downward).id
           kind == IF adapter.wants = "none" THEN "conversation" ELSE adapter.wants
           a == [adapter EXCEPT !.pending = FALSE, !.implicit = FALSE, !.active = id,
                                !.kind = kind, !.wants = "none", !.timer = TRUE]
<1>1. /\ Receives("created") /\ upward' = upward
      /\ wire' = wire /\ runtime' = runtime /\ caller' = caller
      /\ adapter' = ClosedAdapter \/ adapter' = a
  BY DEF LocalResponseStarts
<1>2. IsUp /\ downward' \in Seq(Downward) BY <1>1, Receiving
<1>3. WorksOn(adapter) BY <1>2, AdapterUp
<1>4. id \in Nat \ {0}
  <2>1. Head(downward) \in Downward /\ Head(downward).type = "created" BY <1>1, Receiving
  <2>2. QED BY <2>1 DEF Downward
<1>5. kind \in AskKinds BY <1>3 DEF WorksOn, Adapter, AskKinds
<1> HIDE DEF id, kind
<1>6. /\ a \in Adapter /\ a.active # 0 /\ a.closing = adapter.closing /\ a.queue = adapter.queue
      /\ a.handled = adapter.handled
  BY <1>3, <1>4, <1>5 DEF WorksOn, Adapter
<1> HIDE DEF a
<1>7. WorksOn(a) BY <1>3, <1>6 DEF WorksOn, Busy, None
<1>8. QED BY <1>1, <1>2, <1>3, <1>6, <1>7, Noting DEF WorksOn

LEMMA EndStep == ASSUME LocalInv, LocalResponseEnds PROVE LocalInv'
<1> DEFINE e == Head(downward)
           a == [adapter EXCEPT !.pending = FALSE, !.active = None, !.kind = "none",
                                !.implicit = e.cut, !.timer = FALSE]
<1>1. /\ Receives("done") /\ wire' = wire /\ runtime' = runtime /\ caller' = caller
      /\ (adapter' = adapter /\ upward' = upward) \/ Does(Flushed(a))
  BY DEF LocalResponseEnds
<1>2. IsUp /\ downward' \in Seq(Downward) BY <1>1, Receiving
<1>3. WorksOn(adapter) BY <1>2, AdapterUp
<1>4. e.cut \in BOOLEAN
  <2>1. Head(downward) \in Downward /\ Head(downward).type = "done" BY <1>1, Receiving
  <2>2. QED BY <2>1 DEF Downward
<1> HIDE DEF e
<1>5. /\ a \in Adapter /\ a.closing = adapter.closing /\ a.queue = adapter.queue
      /\ a.handled = adapter.handled
  BY <1>3, <1>4 DEF WorksOn, Adapter, None
<1> HIDE DEF a
<1>6. Unflushed(a) BY <1>3, <1>5 DEF WorksOn, Unflushed
<1>7. CASE adapter' = adapter /\ upward' = upward
  BY <1>1, <1>2, <1>3, <1>7, Noting DEF WorksOn
<1>8. CASE Does(Flushed(a))
  <2>1. caller \in [asked : Nat, called : Seq(Nat), answered : SUBSET Nat] BY DEF LocalInv
  <2>2. QED BY <1>1, <1>2, <1>3, <1>5, <1>6, <1>8, <2>1, FlushingQueue, Doing DEF WorksOn
<1>9. QED BY <1>1, <1>7, <1>8

LEMMA ErrorStep == ASSUME LocalInv, CountsError PROVE LocalInv'
<1>1. /\ Receives("error") /\ adapter' = adapter /\ upward' = upward
      /\ wire' = wire /\ runtime' = runtime /\ caller' = caller
  BY DEF CountsError
<1>2. IsUp /\ downward' \in Seq(Downward) BY <1>1, Receiving
<1>3. WorksOn(adapter) BY <1>2, AdapterUp
<1>4. QED BY <1>1, <1>2, <1>3, Noting DEF WorksOn

LEMMA CalledStep == ASSUME LocalInv, ToolCalled PROVE LocalInv'
<1> DEFINE id == Head(downward).id
           a == [adapter EXCEPT !.handled = @ \cup {id}]
           told == Append(caller.called, id)
<1>1. /\ Receives("call") /\ wire' = wire /\ runtime' = runtime /\ upward' = upward
      /\ IF id \in adapter.handled THEN adapter' = adapter /\ caller' = caller
         ELSE adapter' = a /\ caller' = [caller EXCEPT !.called = told]
  BY DEF ToolCalled, Handled
<1>2. IsUp /\ downward' \in Seq(Downward) BY <1>1, Receiving
<1>3. /\ WorksOn(adapter) /\ caller \in [asked : Nat, called : Seq(Nat), answered : SUBSET Nat]
      /\ upward \in Seq(Upward)
  BY <1>2, AdapterUp
<1>4. id \in Nat
  <2>1. Head(downward) \in Downward /\ Head(downward).type = "call" BY <1>1, Receiving
  <2>2. QED BY <2>1 DEF Downward
<1> HIDE DEF id
<1>5. CASE adapter' = adapter /\ caller' = caller
  BY <1>1, <1>2, <1>3, <1>5, Noting DEF WorksOn
<1>6. CASE id \notin adapter.handled /\ adapter' = a /\ caller' = [caller EXCEPT !.called = told]
  <2>1. /\ a \in Adapter /\ a.closing = adapter.closing /\ a.queue = adapter.queue
        /\ a.handled = adapter.handled \cup {id} /\ a.routed = adapter.routed
        /\ Busy(a) = Busy(adapter)
    <3>1. adapter.handled \cup {id} \in SUBSET Nat BY <1>3, <1>4 DEF WorksOn, Adapter
    <3>2. QED BY <1>3, <3>1 DEF WorksOn, Adapter, Busy
  <2> HIDE DEF a
  <2>2. WorksOn(a) BY <1>3, <2>1 DEF WorksOn
  <2>3. /\ told \in Seq(Nat) /\ Len(told) = Len(caller.called) + 1
        /\ told[Len(told)] = id /\ Len(caller.called) \in Nat
        /\ \A i \in 1..Len(caller.called) : told[i] = caller.called[i]
    BY <1>3, <1>4
  <2> HIDE DEF told
  <2>4. /\ caller' \in [asked : Nat, called : Seq(Nat), answered : SUBSET Nat]
        /\ caller'.called = told
    BY <1>3, <1>6, <2>3
  <2>5. \A i \in 1..Len(caller.called) : caller.called[i] \in adapter.handled
    BY <1>3 DEF LocalInv, WorksOn
  <2>6. \A i \in 1..Len(told) : told[i] \in a.handled BY <2>1, <2>3, <2>5
  <2>7. \A i, j \in 1..Len(told) : told[i] = told[j] => i = j
    <3>1. \A i, j \in 1..Len(caller.called) : caller.called[i] = caller.called[j] => i = j
      BY <1>3 DEF LocalInv, CallsAreToldOnce
    <3>2. \A i \in 1..Len(caller.called) : told[i] # id BY <1>6, <2>3, <2>5
    <3> SUFFICES ASSUME NEW i \in 1..Len(told), NEW j \in 1..Len(told), told[i] = told[j]
                 PROVE  i = j
      OBVIOUS
    <3> DEFINE n == Len(caller.called)
    <3>3. (i \in 1..n \/ i = n + 1) /\ (j \in 1..n \/ j = n + 1) BY <2>3
    <3>4. told[n + 1] = id BY <2>3
    <3> HIDE DEF n
    <3>5. \A k \in 1..n : told[k] = caller.called[k] BY <2>3 DEF n
    <3>6. \A k \in 1..n : told[k] # id BY <3>2 DEF n
    <3>7. \A k, m \in 1..n : caller.called[k] = caller.called[m] => k = m BY <3>1 DEF n
    <3>8. QED BY <3>3, <3>4, <3>5, <3>6, <3>7
  <2>8. CallsAreToldOnce'
    <3>1. DOMAIN told = 1..Len(told) BY <2>3
    <3>2. QED BY <2>4, <2>7, <3>1 DEF CallsAreToldOnce
  <2>9. QED BY <1>1, <1>2, <1>3, <1>6, <2>2, <2>4, <2>6, <2>8 DEF LocalInv, WorksOn, Busy
<1>7. QED BY <1>1, <1>5, <1>6

(* The runtime *)

LEMMA RuntimeGoes ==
  ASSUME LocalInv, UNCHANGED <<wire, adapter, caller>>, runtime' \in Runtime,
         upward' \in Seq(Upward), downward' \in Seq(Downward)
  PROVE  LocalInv'
<1>1. ClosedAdapter' = ClosedAdapter BY DEF ClosedAdapter, Fresh
<1>2. CallsAreToldOnce' BY DEF LocalInv, CallsAreToldOnce
<1>3. QED BY <1>1, <1>2 DEF LocalInv, WorksOn, Busy

LEMMA Emitting ==
  ASSUME LocalInv, NEW es \in Seq(Downward), Emits(es)
  PROVE  downward' \in Seq(Downward)
BY DEF LocalInv, Emits

LEMMA ReadingOne ==
  ASSUME LocalInv, NEW type, Reads(type)
  PROVE  /\ IsUp /\ upward' \in Seq(Upward) /\ Head(upward) \in Upward /\ Head(upward).type = type
BY DEF LocalInv, Reads, Works

LEMMA SomeEvents ==
  /\ \A type \in {"started", "stopped", "error"} : [type |-> type] \in Downward
  /\ \A id \in Nat \ {0}, kind \in AskKinds : [type |-> "created", id |-> id, kind |-> kind] \in Downward
  /\ \A id \in Nat, cut \in BOOLEAN : [type |-> "done", id |-> id, cut |-> cut] \in Downward
  /\ \A turn \in Nat : [type |-> "transcript", turn |-> turn] \in Downward
  /\ \A id \in Nat : [type |-> "call", id |-> id] \in Downward
BY DEF Downward

LEMMA Beginning ==
  ASSUME NEW r \in Runtime
  PROVE  RuntimeBegins(r) \in Runtime /\ r.last + 1 \in Nat \ {0}
<1>1. r.last + 1 \in Nat \ {0} BY DEF Runtime
<1>2. \A n \in Nat : [r EXCEPT !.active = n, !.last = n, !.called = FALSE] \in Runtime
  BY DEF Runtime
<1>3. QED BY <1>1, <1>2 DEF RuntimeBegins

LEMMA RuntimeStep ==
  ASSUME LocalInv,
         RuntimeCreates \/ RuntimeCancels \/ RuntimeWorks \/ RuntimeAnswers
           \/ UserSpeaks \/ UserPauses \/ TranscriptIsReady
  PROVE  LocalInv'
<1>0. runtime \in Runtime /\ upward \in Seq(Upward) /\ downward \in Seq(Downward) BY DEF LocalInv
<1>1. runtime.last + 1 \in Nat \ {0} /\ runtime.active \in Nat /\ runtime.turns \in Nat
      /\ runtime.untold \in SUBSET Nat
  BY <1>0 DEF Runtime
<1>2. \A cut \in BOOLEAN : <<Done(cut)>> \in Seq(Downward)
  BY <1>1, SomeEvents DEF Done
<1>3. \A kind \in AskKinds : <<Created(kind)>> \in Seq(Downward)
  BY <1>1, SomeEvents DEF Created
<1>4. [runtime EXCEPT !.active = None] \in Runtime BY <1>0 DEF Runtime, None
<1>5. CASE RuntimeCreates
  <2>1. /\ Reads("create") /\ UNCHANGED <<wire, adapter, caller>>
        /\ \/ runtime' = runtime /\ Emits(<<[type |-> "error"]>>)
           \/ runtime' = RuntimeBegins(runtime) /\ Emits(<<Created(Head(upward).kind)>>)
    BY <1>5 DEF RuntimeCreates
  <2>2. upward' \in Seq(Upward) /\ Head(upward) \in Upward /\ Head(upward).type = "create"
    BY <2>1, ReadingOne
  <2>3. Head(upward).kind \in AskKinds BY <2>2 DEF Upward
  <2>4. <<[type |-> "error"]>> \in Seq(Downward)
    <3>1. [type |-> "error"] \in Downward BY SomeEvents
    <3>2. QED BY <3>1
  <2>5. runtime' \in Runtime BY <1>0, <2>1, Beginning
  <2>6. <<Created(Head(upward).kind)>> \in Seq(Downward) BY <1>3, <2>3
  <2>7. downward' \in Seq(Downward) BY <2>1, <2>4, <2>6, Emitting
  <2>8. QED BY <2>1, <2>2, <2>5, <2>7, RuntimeGoes
<1>6. CASE RuntimeCancels
  <2>1. /\ Reads("cancel") /\ UNCHANGED <<wire, adapter, caller>>
        /\ \/ runtime' = runtime /\ downward' = downward
           \/ runtime' = [runtime EXCEPT !.active = None] /\ Emits(<<Done(FALSE)>>)
    BY <1>6 DEF RuntimeCancels
  <2>2. upward' \in Seq(Upward) BY <2>1, ReadingOne
  <2>3. downward' \in Seq(Downward) /\ runtime' \in Runtime
    BY <1>0, <1>2, <1>4, <2>1, Emitting
  <2>4. QED BY <2>1, <2>2, <2>3, RuntimeGoes
<1>7. CASE RuntimeWorks
  <2>1. /\ UNCHANGED <<wire, adapter, upward, caller>>
        /\ \/ /\ runtime' = [runtime EXCEPT !.called = TRUE, !.calls = @ + 1]
              /\ \E n \in 1..2 : Emits([i \in 1..n |-> [type |-> "call", id |-> runtime.active]])
           \/ runtime' = [runtime EXCEPT !.active = None] /\ Emits(<<Done(FALSE)>>)
    BY <1>7 DEF RuntimeWorks
  <2>2. CASE /\ runtime' = [runtime EXCEPT !.called = TRUE, !.calls = @ + 1]
             /\ \E n \in 1..2 : Emits([i \in 1..n |-> [type |-> "call", id |-> runtime.active]])
    <3>1. PICK n \in 1..2 : Emits([i \in 1..n |-> [type |-> "call", id |-> runtime.active]])
      BY <2>2
    <3> DEFINE e == [type |-> "call", id |-> runtime.active]
    <3>2. e \in Downward BY <1>1, SomeEvents
    <3> HIDE DEF e
    <3>3. [i \in 1..n |-> e] \in Seq(Downward) BY <3>2
    <3>4. Emits([i \in 1..n |-> e]) BY <3>1 DEF e
    <3>5. downward' \in Seq(Downward) BY <3>3, <3>4, Emitting
    <3>6. runtime' \in Runtime
      <4>1. \A k \in Nat : [runtime EXCEPT !.called = TRUE, !.calls = k] \in Runtime
        BY <1>0 DEF Runtime
      <4>2. runtime.calls + 1 \in Nat BY <1>0 DEF Runtime
      <4>3. QED BY <2>2, <4>1, <4>2
    <3>7. QED BY <1>0, <2>1, <3>5, <3>6, RuntimeGoes
  <2>3. CASE runtime' = [runtime EXCEPT !.active = None] /\ Emits(<<Done(FALSE)>>)
    <3>1. downward' \in Seq(Downward) BY <1>2, <2>3, Emitting
    <3>2. QED BY <1>0, <1>4, <2>1, <2>3, <3>1, RuntimeGoes
  <2>4. QED BY <2>1, <2>2, <2>3
<1>8. CASE RuntimeAnswers
  <2>1. /\ UNCHANGED <<wire, adapter, upward, caller>> /\ Emits(<<Created("conversation")>>)
        /\ runtime' = [RuntimeBegins(runtime) EXCEPT !.owed = FALSE]
    BY <1>8 DEF RuntimeAnswers
  <2>2. runtime' \in Runtime
    <3>1. RuntimeBegins(runtime) \in Runtime BY <1>0, Beginning
    <3>2. QED BY <2>1, <3>1 DEF Runtime
  <2>3. downward' \in Seq(Downward) BY <1>3, <2>1, Emitting DEF AskKinds
  <2>4. QED BY <1>0, <2>1, <2>2, <2>3, RuntimeGoes
<1>9. CASE UserSpeaks
  <2> DEFINE es == (IF runtime.active # None THEN <<Done(TRUE)>> ELSE <<>>) \o <<[type |-> "started"]>>
  <2>1. /\ UNCHANGED <<wire, adapter, upward, caller>> /\ Emits(es)
        /\ runtime' = [runtime EXCEPT !.active = None, !.speech = "speaking", !.turns = @ + 1]
    BY <1>9 DEF UserSpeaks
  <2>2. runtime' \in Runtime
    <3>1. \A n \in Nat : [runtime EXCEPT !.active = 0, !.speech = "speaking", !.turns = n] \in Runtime
      BY <1>0 DEF Runtime
    <3>2. runtime.turns + 1 \in Nat BY <1>1
    <3>3. QED BY <2>1, <3>1, <3>2 DEF None
  <2>3. es \in Seq(Downward)
    <3>1. [type |-> "started"] \in Downward BY SomeEvents
    <3>2. <<[type |-> "started"]>> \in Seq(Downward) BY <3>1
    <3>3. (IF runtime.active # None THEN <<Done(TRUE)>> ELSE <<>>) \in Seq(Downward)
      <4>1. CASE runtime.active # None BY <1>2, <4>1
      <4>2. CASE runtime.active = None BY <4>2
      <4>3. QED BY <4>1, <4>2
    <3>4. QED BY <3>2, <3>3, ConcatProperties
  <2> HIDE DEF es
  <2>4. downward' \in Seq(Downward) BY <2>1, <2>3, Emitting
  <2>5. QED BY <1>0, <2>1, <2>2, <2>4, RuntimeGoes
<1>10. CASE UserPauses
  <2> DEFINE stopped == <<[type |-> "stopped"]>>
             told == <<[type |-> "transcript", turn |-> runtime.turns]>>
             quiet == [runtime EXCEPT !.speech = "silent", !.owed = ~wire.managed]
  <2>1. /\ UNCHANGED <<wire, adapter, upward, caller>>
        /\ \/ /\ runtime' = quiet
              /\ \E es \in {stopped, stopped \o told, told \o stopped} : Emits(es)
           \/ runtime' = [quiet EXCEPT !.untold = @ \cup {runtime.turns}] /\ Emits(stopped)
    BY <1>10 DEF UserPauses
  <2>2. quiet \in Runtime /\ quiet.untold = runtime.untold
    <3>1. (~wire.managed) \in BOOLEAN OBVIOUS
    <3>2. QED BY <1>0, <3>1 DEF Runtime
  <2>3. stopped \in Seq(Downward)
    <3>1. [type |-> "stopped"] \in Downward BY SomeEvents
    <3>2. QED BY <3>1
  <2>4. told \in Seq(Downward)
    <3>1. [type |-> "transcript", turn |-> runtime.turns] \in Downward BY <1>1, SomeEvents
    <3>2. QED BY <3>1
  <2> HIDE DEF stopped, told, quiet
  <2>5. stopped \o told \in Seq(Downward) /\ told \o stopped \in Seq(Downward)
    BY <2>3, <2>4, ConcatProperties
  <2>6. runtime' \in Runtime
    <3>1. runtime.untold \cup {runtime.turns} \in SUBSET Nat BY <1>1
    <3>2. [quiet EXCEPT !.untold = @ \cup {runtime.turns}] \in Runtime BY <2>2, <3>1 DEF Runtime
    <3>3. QED BY <2>1, <2>2, <3>2
  <2>7. downward' \in Seq(Downward) BY <2>1, <2>3, <2>5, Emitting
  <2>8. QED BY <1>0, <2>1, <2>6, <2>7, RuntimeGoes
<1>11. CASE TranscriptIsReady
  <2>1. UNCHANGED <<wire, adapter, upward, caller>> BY <1>11 DEF TranscriptIsReady
  <2>2. PICK t \in runtime.untold :
          /\ runtime' = [runtime EXCEPT !.untold = @ \ {t}]
          /\ Emits(<<[type |-> "transcript", turn |-> t]>>)
    BY <1>11 DEF TranscriptIsReady
  <2>3. runtime' \in Runtime BY <1>0, <1>1, <2>2 DEF Runtime
  <2>4. <<[type |-> "transcript", turn |-> t]>> \in Seq(Downward)
    <3>1. [type |-> "transcript", turn |-> t] \in Downward BY <1>1, SomeEvents
    <3>2. QED BY <3>1
  <2>5. downward' \in Seq(Downward) BY <2>2, <2>4, Emitting
  <2>6. QED BY <1>0, <2>1, <2>3, <2>5, RuntimeGoes
<1>12. QED BY <1>5, <1>6, <1>7, <1>8, <1>9, <1>10, <1>11

LEMMA ConnectStep ==
  ASSUME LocalInv, Refused \/ Configures \/ ConfigurationStands
  PROVE  LocalInv'
<1>1. UNCHANGED <<adapter, upward, downward, runtime, caller>>
  BY DEF Refused, Configures, ConfigurationStands
<1>2. wire' \in [at : {"opening", "settling", "ready", "failed"}, tries : 0..MaxConnects,
                 managed : BOOLEAN]
  <2>1. /\ wire.tries \in 0..MaxConnects /\ MaxConnects \in Nat
        /\ wire \in [at : {"opening", "settling", "ready", "failed"}, tries : 0..MaxConnects,
                     managed : BOOLEAN]
    BY LocalAssumption DEF LocalInv
  <2>2. CASE Refused
    <3>1. \/ wire.tries < MaxConnects /\ wire' = [wire EXCEPT !.tries = wire.tries + 1]
          \/ wire' = [wire EXCEPT !.at = "failed"]
      BY <2>2 DEF Refused
    <3>2. wire.tries < MaxConnects => wire.tries + 1 \in 0..MaxConnects BY <2>1
    <3>3. QED BY <2>1, <3>1, <3>2
  <2>3. CASE Configures BY <2>1, <2>3 DEF Configures
  <2>4. CASE ConfigurationStands BY <2>1, <2>4 DEF ConfigurationStands
  <2>5. QED BY <2>2, <2>3, <2>4
<1>3. ClosedAdapter' = ClosedAdapter BY DEF ClosedAdapter, Fresh
<1>4. CallsAreToldOnce' BY <1>1 DEF LocalInv, CallsAreToldOnce
<1>5. QED BY <1>1, <1>2, <1>3, <1>4 DEF LocalInv, WorksOn, Busy

LEMMA LocalIsKept == LocalInv => LocalKept
<1> SUFFICES ASSUME LocalInv PROVE LocalKept OBVIOUS
<1>1. /\ adapter \in Adapter /\ Len(adapter.queue) <= MaxQueued
      /\ adapter.closing => adapter = ClosedAdapter
      /\ adapter.queue # <<>> => Busy(adapter) \/ adapter.routed # {}
  BY ClosedIs, LocalAssumption DEF LocalInv, WorksOn
<1>2. LocalTypeOK BY <1>1 DEF LocalTypeOK, LocalInv, Adapter, AskKinds
<1>3. QED BY <1>1, <1>2 DEF LocalKept, QueueHasAWaker, LocalInv

\* Whatever queues behind a response of the local runtime is let out by
\* something, the queue never grows past its limit, and a tool call is handed
\* to the gateway once (huggingface-realtime.adapter.ts:568-588).
THEOREM LocalAlwaysKept == LocalSpec => []LocalKept
<1>1. LocalInit => LocalInv BY LocalInitial
<1>2. LocalInv /\ [LocalNext]_localVars => LocalInv'
  <2> SUFFICES ASSUME LocalInv, [LocalNext]_localVars PROVE LocalInv' OBVIOUS
  <2>1. CASE UNCHANGED localVars
    <3>1. UNCHANGED <<wire, adapter, upward, downward, runtime, caller>> BY <2>1 DEF localVars
    <3>2. QED BY <3>1, RuntimeGoes DEF LocalInv
  <2>2. CASE LocalNext
    BY <2>2, ConnectStep, TextStep, NoticeStep, CancelStep, AnswersCallStep, AnswersRouteStep,
       ClosesStep, SpeechStep, PauseStep, TranscriptStep, StartStep, CalledStep, EndStep,
       ErrorStep, RuntimeStep
    DEF LocalNext
  <2>3. QED BY <2>1, <2>2
<1>3. QED BY <1>1, <1>2, LocalIsKept, PTL DEF LocalSpec

=============================================================================
