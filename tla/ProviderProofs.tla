--------------------------- MODULE ProviderProofs ---------------------------
(***************************************************************************)
(* Proofs about the parts that speak for the gateway and to Hermes: one    *)
(* request to Hermes (HermesRequests), the brain of the voice service      *)
(* (BrainFailover), the session with separate speech services              *)
(* (RivaRealtimeSession) and the session with one speech provider          *)
(* (OpenAIRealtimeSession).  For each an inductive invariant is stated,    *)
(* proved of its first states and of every step, and shown to imply what   *)
(* the part promises.                                                      *)
(***************************************************************************)
EXTENDS OpenAIRealtimeSession, BrainFailover, RivaRealtimeSession, HermesRequests,
  FiniteSetTheorems, SequenceTheorems, FunctionTheorems, WellFoundedInduction, TLAPS

-----------------------------------------------------------------------------
(* Counting in sequences *)

\* Where a sequence has a member of the set.
Places(s, K) == {i \in 1..Len(s) : s[i] \in K}
Counted(s, K) == Cardinality(Places(s, K))

LEMMA PlacesFinite ==
  ASSUME NEW S, NEW s \in Seq(S), NEW K
  PROVE  IsFiniteSet(Places(s, K)) /\ Counted(s, K) \in Nat
<1>1. Len(s) \in Nat OBVIOUS
<1>2. IsFiniteSet(1..Len(s)) BY <1>1, FS_Interval
<1>3. Places(s, K) \in SUBSET (1..Len(s)) BY DEF Places
<1>4. IsFiniteSet(Places(s, K)) BY <1>2, <1>3, FS_Subset
<1>5. QED BY <1>4, FS_CardinalityType DEF Counted

LEMMA CountAppend ==
  ASSUME NEW S, NEW s \in Seq(S), NEW x \in S, NEW K
  PROVE  Counted(Append(s, x), K) = Counted(s, K) + (IF x \in K THEN 1 ELSE 0)
<1> DEFINE t == Append(s, x)
<1> DEFINE n == Len(s)
<1>1. /\ n \in Nat /\ Len(t) = n + 1 /\ t[n + 1] = x /\ \A i \in 1..n : t[i] = s[i]
  BY AppendProperties
<1>2. IsFiniteSet(Places(s, K)) /\ Counted(s, K) \in Nat BY PlacesFinite
<1> HIDE DEF t
<1>3. CASE x \in K
  <2>1. Places(t, K) = Places(s, K) \cup {n + 1} BY <1>1, <1>3 DEF Places
  <2>2. n + 1 \notin Places(s, K) BY <1>1 DEF Places
  <2>3. Counted(t, K) = Counted(s, K) + 1 BY <1>2, <2>1, <2>2, FS_AddElement DEF Counted
  <2>4. QED BY <1>3, <2>3 DEF t
<1>4. CASE x \notin K
  <2>1. Places(t, K) = Places(s, K) BY <1>1, <1>4 DEF Places
  <2>2. QED BY <1>2, <1>4, <2>1 DEF Counted, t
<1>5. QED BY <1>3, <1>4

LEMMA CountWithout ==
  ASSUME NEW S, NEW s \in Seq(S), NEW t \in Seq(S), NEW K, NEW n \in 1..Len(s),
         Len(t) = Len(s) - 1,
         \A i \in 1..(n - 1) : t[i] = s[i], \A i \in n..Len(t) : t[i] = s[i + 1]
  PROVE  Counted(s, K) = Counted(t, K) + (IF s[n] \in K THEN 1 ELSE 0)
<1> DEFINE A == Places(t, K)
<1> DEFINE B == Places(s, K) \ {n}
<1> DEFINE f == [i \in A |-> IF i < n THEN i ELSE i + 1]
<1>1. Len(s) \in Nat /\ Len(t) \in Nat /\ n \in Nat /\ n >= 1 /\ n <= Len(s) OBVIOUS
<1>2. IsFiniteSet(A) /\ Counted(t, K) \in Nat /\ IsFiniteSet(Places(s, K)) /\ Counted(s, K) \in Nat
  BY PlacesFinite
<1>3. f \in [A -> B]
  <2> SUFFICES ASSUME NEW i \in A PROVE (IF i < n THEN i ELSE i + 1) \in B OBVIOUS
  <2>1. i \in 1..Len(t) /\ t[i] \in K BY DEF Places
  <2>2. CASE i < n BY <1>1, <2>1, <2>2 DEF Places
  <2>3. CASE ~(i < n)
    <3>1. i \in n..Len(t) /\ i + 1 \in 1..Len(s) /\ i + 1 # n BY <1>1, <2>1, <2>3
    <3>2. s[i + 1] \in K BY <2>1, <3>1
    <3>3. QED BY <2>3, <3>1, <3>2 DEF Places
  <2>4. QED BY <2>2, <2>3
<1>4. A \subseteq Nat BY DEF Places
<1>5. ASSUME NEW i \in A, NEW j \in A, f[i] = f[j] PROVE i = j
  <2>1. i \in Nat /\ j \in Nat BY <1>4
  <2>2. (IF i < n THEN i ELSE i + 1) = (IF j < n THEN j ELSE j + 1) BY <1>5
  <2>3. QED BY <1>1, <2>1, <2>2
<1>6. ASSUME NEW k \in B PROVE \E i \in A : f[i] = k
  <2>1. k \in 1..Len(s) /\ s[k] \in K /\ k # n BY DEF Places
  <2>2. CASE k < n
    <3>1. k \in 1..(n - 1) /\ k \in 1..Len(t) BY <1>1, <2>1, <2>2
    <3>2. k \in A BY <2>1, <3>1 DEF Places
    <3>3. QED BY <2>2, <3>2
  <2>3. CASE ~(k < n)
    <3>1. k - 1 \in n..Len(t) /\ k - 1 \in 1..Len(t) /\ (k - 1) + 1 = k /\ ~(k - 1 < n) BY <1>1, <2>1, <2>3
    <3>2. t[k - 1] = s[k] BY <3>1
    <3>3. k - 1 \in A BY <2>1, <3>1, <3>2 DEF Places
    <3>4. f[k - 1] = k BY <3>1, <3>3
    <3>5. QED BY <3>3, <3>4
  <2>4. QED BY <2>2, <2>3
<1>7. f \in Bijection(A, B)
  <2>1. f \in Injection(A, B) BY <1>3, <1>5 DEF Injection, IsInjective
  <2>2. f \in Surjection(A, B) BY <1>3, <1>6 DEF Surjection
  <2>3. QED BY <2>1, <2>2 DEF Bijection
<1> HIDE DEF f
<1>8. Cardinality(B) = Cardinality(A)
  <2>1. ExistsBijection(A, B) BY <1>7 DEF ExistsBijection
  <2> HIDE DEF A, B
  <2>2. QED BY <1>2, <2>1, FS_Bijection
<1>9. Cardinality(B) = IF n \in Places(s, K) THEN Counted(s, K) - 1 ELSE Counted(s, K)
  BY <1>2, FS_RemoveElement DEF Counted
<1>10. n \in Places(s, K) <=> s[n] \in K BY DEF Places
<1>11. Counted(t, K) = Cardinality(A) BY DEF Counted
<1> HIDE DEF A, B
<1> DEFINE c == Counted(s, K)
<1> DEFINE d == Counted(t, K)
<1>12. c \in Nat /\ d \in Nat /\ d = IF s[n] \in K THEN c - 1 ELSE c
  BY <1>2, <1>8, <1>9, <1>10, <1>11
<1> HIDE DEF c, d
<1>13. c = d + (IF s[n] \in K THEN 1 ELSE 0) BY <1>12
<1>14. QED BY <1>13 DEF c, d

LEMMA CountTail ==
  ASSUME NEW S, NEW s \in Seq(S), s # <<>>, NEW K
  PROVE  Counted(s, K) = Counted(Tail(s), K) + (IF Head(s) \in K THEN 1 ELSE 0)
<1>1. Len(s) \in Nat /\ Len(s) # 0 BY EmptySeq
<1>2. /\ Tail(s) \in Seq(S) /\ Len(Tail(s)) = Len(s) - 1 /\ Head(s) = s[1] /\ 1 \in 1..Len(s)
      /\ \A i \in 1..Len(Tail(s)) : Tail(s)[i] = s[i + 1]
  BY <1>1, HeadTailProperties
<1> DEFINE t == Tail(s)
<1> DEFINE n == 1
<1>3. /\ t \in Seq(S) /\ Len(t) = Len(s) - 1 /\ n \in 1..Len(s) /\ Head(s) = s[n]
      /\ \A i \in 1..(n - 1) : t[i] = s[i]
      /\ \A i \in n..Len(t) : t[i] = s[i + 1]
  BY <1>2
<1> HIDE DEF t, n
<1>4. Counted(s, K) = Counted(t, K) + (IF s[n] \in K THEN 1 ELSE 0)
  BY <1>3, CountWithout
<1>5. QED BY <1>3, <1>4 DEF t

LEMMA RemoveAtIsWithout ==
  ASSUME NEW S, NEW s \in Seq(S), NEW n \in 1..Len(s)
  PROVE  /\ RemoveAt(s, n) \in Seq(S) /\ Len(RemoveAt(s, n)) = Len(s) - 1
         /\ \A i \in 1..(n - 1) : RemoveAt(s, n)[i] = s[i]
         /\ \A i \in n..(Len(s) - 1) : RemoveAt(s, n)[i] = s[i + 1]
<1> DEFINE a == SubSeq(s, 1, n - 1)
<1> DEFINE b == SubSeq(s, n + 1, Len(s))
<1>1. Len(s) \in Nat /\ n \in Nat /\ n >= 1 /\ n <= Len(s) OBVIOUS
<1>2. a \in Seq(S) /\ Len(a) = n - 1 /\ \A i \in 1..(n - 1) : a[i] = s[i] BY <1>1, SubSeqProperties
<1>3. /\ b \in Seq(S) /\ Len(b) = Len(s) - n
      /\ \A i \in 1..(Len(s) - n) : b[i] = s[n + i]
  BY <1>1, SubSeqProperties
<1>4. RemoveAt(s, n) = a \o b BY DEF RemoveAt
<1> HIDE DEF a, b
<1> DEFINE u == a \o b
<1>5. /\ u \in Seq(S) /\ Len(u) = Len(a) + Len(b)
      /\ \A i \in 1..Len(a) + Len(b) : u[i] = IF i <= Len(a) THEN a[i] ELSE b[i - Len(a)]
  BY <1>2, <1>3, ConcatProperties
<1> HIDE DEF u
<1>6. Len(u) = Len(s) - 1
  <2> DEFINE l == Len(s)
  <2> DEFINE x == Len(a)
  <2> DEFINE y == Len(b)
  <2>1. l \in Int /\ n \in Int /\ x = n - 1 /\ y = l - n /\ Len(u) = x + y BY <1>1, <1>2, <1>3, <1>5
  <2> HIDE DEF l, x, y
  <2>2. x + y = l - 1 BY <2>1
  <2>3. QED BY <2>1, <2>2 DEF l
<1>7. ASSUME NEW i \in 1..(n - 1) PROVE u[i] = s[i]
  <2>1. i \in 1..Len(a) + Len(b) /\ i <= Len(a)
    <3>1. Len(a) = n - 1 /\ Len(b) \in Nat /\ i \in Int BY <1>1, <1>2, <1>3
    <3>2. QED BY <1>1, <3>1
  <2>2. u[i] = a[i] BY <1>5, <2>1
  <2>3. QED BY <1>2, <2>2
<1>8. ASSUME NEW i \in n..(Len(s) - 1) PROVE u[i] = s[i + 1]
  <2> DEFINE j == i - (n - 1)
  <2>1. i \in 1..Len(a) + Len(b) /\ ~(i <= Len(a)) /\ j \in 1..(Len(s) - n) /\ n + j = i + 1
    BY <1>1, <1>2, <1>3
  <2>2. u[i] = b[j] BY <1>2, <1>5, <2>1
  <2>3. QED BY <1>3, <2>1, <2>2
<1>9. QED BY <1>4, <1>5, <1>6, <1>7, <1>8 DEF u

LEMMA MinIsIn ==
  ASSUME NEW P \in SUBSET Nat, P # {}
  PROVE  Min(P) \in P
<1>1. PICK i \in P : \A j \in P : ~ (<<j, i>> \in OpToRel(<, Nat))
  BY WFMin, NatLessThanWellFounded, Zenon
<1>2. \A j \in P : ~ (j < i) BY <1>1, Zenon DEF OpToRel
<1>3. \A j \in P : i <= j BY <1>2
<1>4. QED BY <1>3 DEF Min

LEMMA EmptyIn == ASSUME NEW S, NEW s, s = <<>> PROVE s \in Seq(S)
  OBVIOUS

\* What one sequence appended to another holds.
LEMMA Joined ==
  ASSUME NEW S, NEW s \in Seq(S), NEW w \in Seq(S)
  PROVE  /\ s \o w \in Seq(S) /\ Len(s \o w) = Len(s) + Len(w)
         /\ Len(s) \in Nat /\ Len(w) \in Nat
         /\ \A i \in 1..Len(s) : i \in 1..Len(s \o w) /\ (s \o w)[i] = s[i]
         /\ \A i \in 1..Len(w) : Len(s) + i \in 1..Len(s \o w) /\ (s \o w)[Len(s) + i] = w[i]
         /\ \A i \in 1..Len(s \o w) :
              \/ i \in 1..Len(s) /\ (s \o w)[i] = s[i]
              \/ i - Len(s) \in 1..Len(w) /\ (s \o w)[i] = w[i - Len(s)]
<1> DEFINE u == s \o w
<1>1. Len(s) \in Nat /\ Len(w) \in Nat OBVIOUS
<1>2. /\ u \in Seq(S) /\ Len(u) = Len(s) + Len(w)
      /\ \A i \in 1..Len(s) + Len(w) : u[i] = IF i <= Len(s) THEN s[i] ELSE w[i - Len(s)]
  BY ConcatProperties
<1> HIDE DEF u
<1>3. ASSUME NEW i \in 1..Len(s) PROVE i \in 1..Len(u) /\ u[i] = s[i]
  <2>1. i \in 1..Len(s) + Len(w) /\ i <= Len(s) BY <1>1
  <2>2. QED BY <1>2, <2>1
<1>4. ASSUME NEW i \in 1..Len(w) PROVE Len(s) + i \in 1..Len(u) /\ u[Len(s) + i] = w[i]
  <2>1. Len(s) + i \in 1..Len(s) + Len(w) /\ ~(Len(s) + i <= Len(s)) /\ Len(s) + i - Len(s) = i BY <1>1
  <2>2. QED BY <1>2, <2>1
<1>5. ASSUME NEW i \in 1..Len(u)
      PROVE  \/ i \in 1..Len(s) /\ u[i] = s[i]
             \/ i - Len(s) \in 1..Len(w) /\ u[i] = w[i - Len(s)]
  <2>1. i \in 1..Len(s) + Len(w) BY <1>2
  <2>2. CASE i <= Len(s) BY <1>1, <1>2, <2>1, <2>2
  <2>3. CASE ~(i <= Len(s))
    <3>1. i - Len(s) \in 1..Len(w) BY <1>1, <2>1, <2>3
    <3>2. QED BY <1>2, <2>1, <2>3, <3>1
  <2>4. QED BY <2>2, <2>3
<1>6. QED BY <1>1, <1>2, <1>3, <1>4, <1>5 DEF u

LEMMA CountJoined ==
  ASSUME NEW S, NEW s \in Seq(S), NEW w \in Seq(S), NEW K, \A i \in 1..Len(w) : w[i] \notin K
  PROVE  Counted(s \o w, K) = Counted(s, K)
<1> DEFINE u == s \o w
<1>1. /\ \A i \in 1..Len(s) : i \in 1..Len(u) /\ u[i] = s[i]
      /\ \A i \in 1..Len(u) : \/ i \in 1..Len(s) /\ u[i] = s[i]
                              \/ i - Len(s) \in 1..Len(w) /\ u[i] = w[i - Len(s)]
  BY Joined
<1> HIDE DEF u
<1>2. Places(u, K) = Places(s, K) BY <1>1 DEF Places
<1>3. QED BY <1>2 DEF Counted, u

LEMMA JoinOne ==
  ASSUME NEW S, NEW s \in Seq(S), NEW x \in S
  PROVE  s \o <<x>> = Append(s, x) /\ <<x>> \in Seq(S) /\ Len(<<x>>) = 1 /\ <<x>>[1] = x
<1>1. <<x>> \in Seq(S) /\ Len(<<x>>) = 1 /\ <<x>>[1] = x OBVIOUS
<1>2. s \o <<x>> = Append(s, x) BY AppendIsConcat
<1>3. QED BY <1>1, <1>2

\* The tail of a sequence, place by place.
LEMMA Tailed ==
  ASSUME NEW S, NEW s \in Seq(S), s # <<>>
  PROVE  /\ Tail(s) \in Seq(S) /\ Len(s) \in Nat /\ Len(s) >= 1 /\ Len(Tail(s)) = Len(s) - 1
         /\ Head(s) = s[1] /\ s[1] \in S /\ 1 \in 1..Len(s)
         /\ \A i \in 1..Len(Tail(s)) : i + 1 \in 1..Len(s) /\ Tail(s)[i] = s[i + 1]
         /\ \A i \in 1..Len(s) : i # 1 => i - 1 \in 1..Len(Tail(s)) /\ Tail(s)[i - 1] = s[i]
<1> DEFINE t == Tail(s)
<1>1. Len(s) \in Nat /\ Len(s) # 0 BY EmptySeq
<1>2. t \in Seq(S) /\ Len(t) = Len(s) - 1 /\ Head(s) = s[1] /\ \A i \in 1..Len(t) : t[i] = s[i + 1]
  BY <1>1, HeadTailProperties
<1> HIDE DEF t
<1>3. Len(s) >= 1 /\ 1 \in 1..Len(s) BY <1>1
<1>4. s[1] \in S BY <1>3, ElementOfSeq
<1>5. \A i \in 1..Len(t) : i + 1 \in 1..Len(s) BY <1>1, <1>2
<1>6. ASSUME NEW i \in 1..Len(s), i # 1 PROVE i - 1 \in 1..Len(t) /\ t[i - 1] = s[i]
  <2>1. i - 1 \in 1..Len(t) /\ (i - 1) + 1 = i BY <1>1, <1>2, <1>6
  <2>2. QED BY <1>2, <2>1
<1>7. QED BY <1>1, <1>2, <1>3, <1>4, <1>5, <1>6 DEF t

-----------------------------------------------------------------------------
(* Requests to Hermes *)

Exchange ==
  [kind : Kinds, at : {"idle", "sent", "body", "error body", "streaming", "over"},
   timer : BOOLEAN, listening : BOOLEAN, reading : BOOLEAN, aborted : BOOLEAN,
   bytes : Nat, outcome : {"none", "refused", "retryable", "unclear", "answered"},
   sends : Nat, parts : Nat]
Reply ==
  [status : {"none", "ok", "refused", "busy", "failed"}, coded : BOOLEAN, size : Nat,
   declared : BOOLEAN, shape : {"good", "foreign", "broken"}]

\* A run was started only for a reply that does not deny it, and no reply is
\* awaited for a start that made one.
TakenOK ==
  /\ upstream.runs <= 1
  /\ exchange.kind = "start" /\ upstream.runs > 0 =>
       reply.status \in {"ok", "busy", "failed"} /\ ~reply.coded
  /\ exchange.kind # "start" => upstream.runs = 0
  /\ exchange.kind = "stop" /\ reply.status = "ok" /\ reply.shape = "good" => upstream.stopping
  /\ exchange.at = "idle" => upstream.runs = 0

\* Where a request stands, and what it said at its end, follow its reply.
EndOK ==
  /\ exchange.at = "body" => reply.status = "ok" /\ exchange.kind # "events"
  /\ exchange.at = "error body" => reply.status \in {"refused", "busy", "failed"}
  /\ exchange.at = "streaming" =>
       /\ exchange.kind = "events" /\ reply.status = "ok"
       /\ ~exchange.timer /\ exchange.listening
  /\ exchange.at = "sent" => exchange.listening
  /\ exchange.at = "over" => ~(exchange.timer \/ exchange.listening \/ exchange.reading)
  /\ exchange.outcome # "none" => exchange.at = "over"
  /\ exchange.outcome \in {"refused", "retryable"} =>
       reply.status = "refused" \/ (reply.status = "busy" /\ reply.coded)
  /\ exchange.outcome = "answered" =>
       /\ reply.status = "ok"
       /\ exchange.kind \notin {"approval", "events"} => reply.shape = "good"

RequestInv ==
  /\ exchange \in Exchange /\ exchange.bytes <= MaxBytes /\ reply \in Reply
  /\ upstream \in [runs : Nat, stopping : BOOLEAN]
  /\ TakenOK /\ EndOK

\* An answer that denies a start has started nothing.
LEMMA DeniedStartsNothing ==
  ASSUME RequestInv, exchange.outcome \in {"refused", "retryable"}
  PROVE  upstream.runs = 0
<1>1. upstream.runs \in Nat /\ TakenOK /\ EndOK BY DEF RequestInv
<1>2. reply.status = "refused" \/ (reply.status = "busy" /\ reply.coded) BY <1>1 DEF EndOK
<1>3. CASE exchange.kind # "start" BY <1>1, <1>3 DEF TakenOK
<1>4. CASE exchange.kind = "start"
  <2>1. ~(upstream.runs > 0) BY <1>1, <1>2, <1>4 DEF TakenOK
  <2>2. QED BY <1>1, <2>1
<1>5. QED BY <1>3, <1>4

LEMMA RequestInvKept == RequestInv => RequestsKept
<1> SUFFICES ASSUME RequestInv PROVE RequestsKept OBVIOUS
<1>1. upstream.runs \in Nat /\ upstream.runs <= 1 /\ TakenOK /\ EndOK BY DEF RequestInv, TakenOK
<1>2. exchange.kind = "start" /\ exchange.outcome \in {"refused", "retryable"} => upstream.runs = 0
  BY <1>1, DeniedStartsNothing DEF RequestInv
<1>3. exchange.kind = "stop" /\ exchange.outcome = "answered" => upstream.stopping
  BY <1>1 DEF TakenOK, EndOK
<1>4. ConclusionsHold BY <1>1, <1>2, <1>3 DEF ConclusionsHold, EndOK
<1>5. NothingIsLeft BY <1>1 DEF NothingIsLeft, RequestInv, EndOK
<1>6. QED BY <1>4, <1>5 DEF RequestsKept

LEMMA RequestInvInit == RequestInit => RequestInv
<1> SUFFICES ASSUME RequestInit PROVE RequestInv OBVIOUS
<1>1. /\ exchange \in Exchange /\ exchange.at = "idle" /\ exchange.outcome = "none"
      /\ exchange.bytes <= MaxBytes
  <2>1. PICK kind \in Kinds, aborted \in BOOLEAN :
          exchange = [kind |-> kind, at |-> "idle", timer |-> FALSE, listening |-> FALSE,
                      reading |-> FALSE, aborted |-> aborted, bytes |-> 0, outcome |-> "none",
                      sends |-> 0, parts |-> 0]
    BY DEF RequestInit
  <2>2. QED BY <2>1, BytesAssumption DEF Exchange
<1>2. reply \in Reply /\ reply.status = "none" BY DEF RequestInit, Reply, NoReply
<1>3. upstream \in [runs : Nat, stopping : BOOLEAN] /\ upstream.runs = 0 BY DEF RequestInit
<1>4. QED BY <1>1, <1>2, <1>3 DEF RequestInv, TakenOK, EndOK

\* The end of a request, whatever brought it.
LEMMA OverKeeps ==
  ASSUME RequestInv, UNCHANGED <<reply, upstream>>, NEW e \in Exchange,
         e.bytes <= MaxBytes, e.kind = exchange.kind, NEW result, RequestOver(e, result),
         \/ result = "unclear"
         \/ exchange.at = "error body" /\ \E coded \in {FALSE, reply.coded} : result = Told(reply.status, coded)
         \/ exchange.at = "body" /\ Fits /\ result = "answered"
         \/ exchange.at = "streaming" /\ result = "answered"
         \/ exchange.at = "sent" /\ reply.status \in {"refused", "busy", "failed"}
              /\ result = Told(reply.status, FALSE)
  PROVE  RequestInv'
<1>1. /\ result \in {"refused", "retryable", "unclear", "answered"}
      /\ result \in {"refused", "retryable"} =>
           reply.status = "refused" \/ (reply.status = "busy" /\ reply.coded)
      /\ result = "answered" =>
           /\ reply.status = "ok"
           /\ exchange.kind \notin {"approval", "events"} => reply.shape = "good"
  BY DEF RequestInv, EndOK, Told, Fits, Exchange, Reply
<1>2. /\ exchange' \in Exchange /\ exchange'.kind = exchange.kind /\ exchange'.at = "over"
      /\ ~(exchange'.timer \/ exchange'.listening \/ exchange'.reading)
      /\ exchange'.outcome = result /\ exchange'.bytes = e.bytes
  <2>1. exchange' = [e EXCEPT !.at = "over", !.timer = FALSE, !.listening = FALSE,
                              !.reading = FALSE, !.outcome = result]
    BY DEF RequestOver
  <2>2. QED BY <1>1, <2>1 DEF Exchange
<1>3. TakenOK' BY <1>2 DEF RequestInv, TakenOK
<1>4. EndOK' BY <1>1, <1>2 DEF EndOK
<1>5. QED BY <1>2, <1>3, <1>4 DEF RequestInv

\* A step of a request that goes on.
LEMMA GoesOnKeeps ==
  ASSUME RequestInv, UNCHANGED <<reply, upstream>>, exchange' \in Exchange,
         exchange'.bytes <= MaxBytes,
         exchange'.kind = exchange.kind, exchange'.outcome = "none", exchange'.at # "over",
         exchange'.at # "idle" \/ exchange.at = "idle" \/ exchange.outcome = "retryable",
         exchange'.at = "body" => reply.status = "ok" /\ exchange.kind # "events",
         exchange'.at = "error body" => reply.status \in {"refused", "busy", "failed"},
         exchange'.at = "streaming" =>
           /\ exchange.kind = "events" /\ reply.status = "ok"
           /\ ~exchange'.timer /\ exchange'.listening,
         exchange'.at = "sent" => exchange'.listening
  PROVE  RequestInv'
<1>1. TakenOK'
  <2>1. exchange.outcome = "retryable" => upstream.runs = 0
    BY DeniedStartsNothing
  <2>2. QED BY <2>1 DEF RequestInv, TakenOK
<1>2. EndOK' BY DEF EndOK
<1>3. QED BY <1>1, <1>2 DEF RequestInv

LEMMA RequestInvNext ==
  ASSUME RequestInv, [RequestNext]_requestVars
  PROVE  RequestInv'
<1> DEFINE e == exchange
<1>1. e \in Exchange /\ e.bytes \in Nat /\ e.bytes <= MaxBytes /\ e.sends \in Nat /\ e.parts \in Nat
      /\ reply \in Reply /\ TakenOK /\ EndOK
      /\ upstream \in [runs : Nat, stopping : BOOLEAN] /\ upstream.runs \in Nat
  BY DEF RequestInv, Exchange
<1>2. CASE SendsRequest
  <2>1. CASE e.aborted
    <3>1. RequestOver(e, "unclear") /\ UNCHANGED <<reply, upstream>> BY <1>2, <2>1 DEF SendsRequest
    <3>2. QED BY <1>1, <3>1, OverKeeps
  <2>2. CASE ~e.aborted
    <3> DEFINE sends == e.sends + 1
    <3>0. sends \in Nat BY <1>1
    <3>1. /\ exchange' = [e EXCEPT !.at = "sent", !.timer = TRUE, !.listening = TRUE, !.sends = sends]
          /\ reply' = NoReply /\ upstream' = upstream /\ e.at = "idle"
      BY <1>2, <2>2 DEF SendsRequest
    <3> HIDE DEF sends
    <3>2. /\ exchange' \in Exchange /\ exchange'.kind = e.kind /\ exchange'.at = "sent"
          /\ exchange'.listening /\ exchange'.outcome = e.outcome /\ exchange'.bytes = e.bytes
      BY <1>1, <3>0, <3>1 DEF Exchange
    <3>3. upstream.runs = 0 /\ e.outcome = "none" BY <1>1, <3>1 DEF TakenOK, EndOK
    <3>4. reply' \in Reply /\ reply'.status = "none" BY <3>1 DEF NoReply, Reply
    <3>5. TakenOK' BY <1>1, <3>1, <3>2, <3>3, <3>4 DEF TakenOK
    <3>6. EndOK' BY <3>2, <3>3 DEF EndOK
    <3>7. QED BY <1>1, <3>1, <3>2, <3>4, <3>5, <3>6 DEF RequestInv
  <2>3. QED BY <2>1, <2>2
<1>3. CASE HermesHandles
  <2>1. PICK taken \in BOOLEAN, coded \in BOOLEAN, declared \in BOOLEAN, size \in 0..MaxBytes + 1 :
          /\ \E status \in {"ok", "refused", "busy", "failed"}, shape \in {"good", "foreign", "broken"} :
               /\ taken => status # "refused" /\ ~coded
               /\ status = "ok" => (taken \/ shape # "good") /\ ~coded
               /\ status # "ok" => shape = "good"
               /\ reply' = [status |-> status, coded |-> coded, size |-> size,
                            declared |-> declared, shape |-> shape]
          /\ upstream' = [runs |-> IF taken /\ exchange.kind = "start" THEN upstream.runs + 1
                                   ELSE upstream.runs,
                          stopping |-> upstream.stopping \/ (taken /\ exchange.kind = "stop")]
    BY <1>3 DEF HermesHandles
  <2>1a. PICK status \in {"ok", "refused", "busy", "failed"}, shape \in {"good", "foreign", "broken"} :
           /\ taken => status # "refused" /\ ~coded
           /\ status = "ok" => (taken \/ shape # "good") /\ ~coded
           /\ reply' = [status |-> status, coded |-> coded, size |-> size,
                        declared |-> declared, shape |-> shape]
    BY <2>1
  <2>2. exchange' = e /\ e.at \in {"sent", "over"} /\ reply.status = "none"
    BY <1>3 DEF HermesHandles
  <2>3. /\ reply' \in Reply /\ reply'.status = status /\ reply'.coded = coded /\ reply'.shape = shape
    BY <2>1a, BytesAssumption DEF Reply
  <2>4. upstream.runs = 0 BY <1>1, <2>2 DEF TakenOK
  <2>5. /\ upstream' \in [runs : Nat, stopping : BOOLEAN]
        /\ upstream'.runs = IF taken /\ e.kind = "start" THEN 1 ELSE 0
        /\ upstream'.stopping = (upstream.stopping \/ (taken /\ e.kind = "stop"))
    BY <1>1, <2>1, <2>4
  <2>6. TakenOK' BY <2>1a, <2>2, <2>3, <2>5 DEF TakenOK
  <2>7. EndOK' BY <1>1, <2>2, <2>3 DEF EndOK
  <2>8. QED BY <1>1, <2>2, <2>3, <2>5, <2>6, <2>7 DEF RequestInv
<1>4. CASE HeaderArrives
  <2>1. UNCHANGED <<reply, upstream>> /\ e.at = "sent" /\ reply.status # "none" BY <1>4 DEF HeaderArrives
  <2>2. e.listening /\ e.outcome = "none" BY <1>1, <2>1 DEF EndOK
  <2>3. reply.status \in {"ok", "refused", "busy", "failed"} BY <1>1, <2>1 DEF Reply
  <2>4. CASE reply.status # "ok"
    <3>1. BeginsReading(e, "error body") BY <1>4, <2>4 DEF HeaderArrives
    <3>2. CASE reply.declared /\ reply.size > MaxBytes
      <4>1. RequestOver(e, Told(reply.status, FALSE)) BY <3>1, <3>2 DEF BeginsReading
      <4>2. QED BY <1>1, <2>1, <2>3, <2>4, <4>1, OverKeeps
    <3>3. CASE ~(reply.declared /\ reply.size > MaxBytes)
      <4>1. exchange' = [e EXCEPT !.at = "error body", !.reading = TRUE] BY <3>1, <3>3 DEF BeginsReading
      <4>2. /\ exchange' \in Exchange /\ exchange'.kind = e.kind /\ exchange'.at = "error body"
            /\ exchange'.outcome = "none" /\ exchange'.bytes = e.bytes
        BY <1>1, <2>2, <4>1 DEF Exchange
      <4>3. QED BY <1>1, <2>1, <2>3, <2>4, <4>2, GoesOnKeeps
    <3>4. QED BY <3>2, <3>3
  <2>5. CASE reply.status = "ok" /\ e.kind = "events"
    <3>1. BeginsReading([e EXCEPT !.timer = FALSE], "streaming") BY <1>4, <2>5 DEF HeaderArrives
    <3>2. exchange' = [e EXCEPT !.timer = FALSE, !.at = "streaming", !.reading = TRUE]
      BY <3>1 DEF BeginsReading
    <3>3. /\ exchange' \in Exchange /\ exchange'.kind = e.kind /\ exchange'.at = "streaming"
          /\ exchange'.outcome = "none" /\ ~exchange'.timer /\ exchange'.listening
          /\ exchange'.bytes = e.bytes
      BY <1>1, <2>2, <3>2 DEF Exchange
    <3>4. QED BY <1>1, <2>1, <2>5, <3>3, GoesOnKeeps
  <2>6. CASE reply.status = "ok" /\ e.kind # "events"
    <3>1. BeginsReading(e, "body") BY <1>4, <2>6 DEF HeaderArrives
    <3>2. CASE reply.declared /\ reply.size > MaxBytes
      <4>1. RequestOver(e, "unclear") BY <3>1, <3>2 DEF BeginsReading
      <4>2. QED BY <1>1, <2>1, <4>1, OverKeeps
    <3>3. CASE ~(reply.declared /\ reply.size > MaxBytes)
      <4>1. exchange' = [e EXCEPT !.at = "body", !.reading = TRUE] BY <3>1, <3>3 DEF BeginsReading
      <4>2. /\ exchange' \in Exchange /\ exchange'.kind = e.kind /\ exchange'.at = "body"
            /\ exchange'.outcome = "none" /\ exchange'.bytes = e.bytes
        BY <1>1, <2>2, <4>1 DEF Exchange
      <4>3. QED BY <1>1, <2>1, <2>6, <4>2, GoesOnKeeps
    <3>4. QED BY <3>2, <3>3
  <2>7. QED BY <2>4, <2>5, <2>6
\* What fails a request, at its point.
<1>5. ASSUME NEW x \in Exchange, x.bytes <= MaxBytes, x.kind = e.kind, RequestFails(x), UNCHANGED <<reply, upstream>>
      PROVE  RequestInv'
  <2>1. CASE e.at = "error body"
    <3>1. RequestOver(x, Told(reply.status, FALSE)) BY <1>5, <2>1 DEF RequestFails
    <3>2. QED BY <1>5, <2>1, <3>1, OverKeeps
  <2>2. CASE e.at # "error body"
    <3>1. RequestOver(x, "unclear") BY <1>5, <2>2 DEF RequestFails
    <3>2. QED BY <1>5, <3>1, OverKeeps
  <2>3. QED BY <2>1, <2>2
<1>6. CASE PartArrives
  <2>1. UNCHANGED <<reply, upstream>> /\ e.at \in {"body", "error body"} BY <1>6 DEF PartArrives
  <2>2. CASE e.bytes = MaxBytes
    <3>1. RequestFails(e) BY <1>6, <2>2 DEF PartArrives
    <3>2. QED BY <1>1, <1>5, <2>1, <3>1
  <2>3. CASE e.bytes # MaxBytes
    <3>1. exchange' = [e EXCEPT !.bytes = e.bytes + 1] BY <1>6, <2>3 DEF PartArrives
    <3>2. e.bytes + 1 \in Nat /\ e.bytes + 1 <= MaxBytes BY <1>1, <2>3, BytesAssumption
    <3>3. /\ exchange' \in Exchange /\ exchange'.kind = e.kind /\ exchange'.at = e.at
          /\ exchange'.outcome = e.outcome /\ exchange'.bytes = e.bytes + 1
      BY <1>1, <3>1, <3>2 DEF Exchange
    <3>4. e.outcome = "none" BY <1>1, <2>1 DEF EndOK
    <3>5. QED BY <1>1, <2>1, <3>2, <3>3, <3>4, GoesOnKeeps DEF EndOK
  <2>4. QED BY <2>2, <2>3
<1>7. CASE BodyEnds
  <2>1. UNCHANGED <<reply, upstream>> /\ e.at \in {"body", "error body"} BY <1>7 DEF BodyEnds
  <2>2. CASE e.at = "error body"
    <3>1. RequestOver(e, Told(reply.status, reply.coded)) BY <1>7, <2>2 DEF BodyEnds
    <3>2. QED BY <1>1, <2>1, <2>2, <3>1, OverKeeps
  <2>3. CASE e.at = "body" /\ Fits
    <3>1. RequestOver(e, "answered") BY <1>7, <2>3 DEF BodyEnds
    <3>2. QED BY <1>1, <2>1, <2>3, <3>1, OverKeeps
  <2>4. CASE e.at = "body" /\ ~Fits
    <3>1. RequestOver(e, "unclear") BY <1>7, <2>4 DEF BodyEnds
    <3>2. QED BY <1>1, <2>1, <3>1, OverKeeps
  <2>5. QED BY <2>1, <2>2, <2>3, <2>4
<1>8. CASE StreamGoesOn
  <2>1. UNCHANGED <<reply, upstream>> /\ e.at = "streaming" BY <1>8 DEF StreamGoesOn
  <2>2. CASE RequestOver(e, "unclear") BY <1>1, <2>1, <2>2, OverKeeps
  <2>3. ASSUME NEW n \in 0..MaxBytes, exchange' = [e EXCEPT !.bytes = n, !.parts = e.parts + 1]
        PROVE  RequestInv'
    <3> DEFINE parts == e.parts + 1
    <3>0. n \in Nat /\ n <= MaxBytes /\ parts \in Nat BY <1>1, BytesAssumption
    <3>a. exchange' = [e EXCEPT !.bytes = n, !.parts = parts] BY <2>3
    <3> HIDE DEF parts
    <3>1. /\ exchange' \in Exchange /\ exchange'.kind = e.kind /\ exchange'.at = e.at
          /\ exchange'.outcome = e.outcome /\ exchange'.timer = e.timer
          /\ exchange'.listening = e.listening /\ exchange'.bytes = n
      BY <1>1, <3>a, <3>0 DEF Exchange
    <3>2. /\ e.outcome = "none" /\ e.kind = "events" /\ reply.status = "ok"
          /\ ~e.timer /\ e.listening
      BY <1>1, <2>1 DEF EndOK
    <3>3. QED BY <2>1, <3>0, <3>1, <3>2, GoesOnKeeps
  <2>4. CASE e.bytes # MaxBytes /\ exchange' = [e EXCEPT !.bytes = e.bytes + 1, !.parts = e.parts + 1]
    <3>1. e.bytes + 1 \in 0..MaxBytes BY <1>1, <2>4, BytesAssumption
    <3>2. QED BY <2>3, <2>4, <3>1
  <2>5. CASE exchange' = [e EXCEPT !.bytes = 0, !.parts = e.parts + 1]
    <3>1. 0 \in 0..MaxBytes BY BytesAssumption
    <3>2. QED BY <2>3, <2>5, <3>1
  <2>6. QED BY <1>8, <2>2, <2>4, <2>5 DEF StreamGoesOn
<1>9. CASE StreamEnds
  <2>1. UNCHANGED <<reply, upstream>> /\ e.at = "streaming" /\ RequestOver(e, "answered")
    BY <1>9 DEF StreamEnds
  <2>2. QED BY <1>1, <2>1, OverKeeps
<1>10. CASE ConnectionBreaks
  <2>1. RequestFails(e) /\ UNCHANGED <<reply, upstream>> BY <1>10 DEF ConnectionBreaks
  <2>2. QED BY <1>1, <1>5, <2>1
<1>11. CASE DeadlinePasses
  <2>1. RequestOver(e, "unclear") /\ UNCHANGED <<reply, upstream>> BY <1>11 DEF DeadlinePasses
  <2>2. QED BY <1>1, <2>1, OverKeeps
<1>12. CASE CallerAborts
  <2> DEFINE x == [e EXCEPT !.aborted = TRUE]
  <2>1. /\ x \in Exchange /\ x.kind = e.kind /\ x.at = e.at /\ x.outcome = e.outcome
        /\ x.timer = e.timer /\ x.listening = e.listening /\ x.bytes = e.bytes
    BY <1>1 DEF Exchange
  <2>2. UNCHANGED <<reply, upstream>> /\ e.at # "over" BY <1>12 DEF CallerAborts
  <2>3. CASE e.listening
    <3>1. RequestFails(x) BY <1>12, <2>3 DEF CallerAborts
    <3> HIDE DEF x
    <3>2. QED BY <1>1, <1>5, <2>1, <2>2, <3>1
  <2>4. CASE ~e.listening
    <3>1. exchange' = x BY <1>12, <2>4 DEF CallerAborts
    <3> HIDE DEF x
    <3>2. e.outcome = "none" BY <1>1, <2>2 DEF EndOK
    <3>3. exchange'.at \notin {"streaming", "sent"} BY <1>1, <2>1, <2>4, <3>1 DEF EndOK
    <3>4. QED BY <1>1, <2>1, <2>2, <3>1, <3>2, <3>3, GoesOnKeeps DEF EndOK
  <2>5. QED BY <2>3, <2>4
<1>13. CASE RepeatsStart
  <2>1. /\ exchange' = [e EXCEPT !.at = "idle", !.outcome = "none", !.bytes = 0]
        /\ UNCHANGED <<reply, upstream>> /\ e.outcome = "retryable"
    BY <1>13 DEF RepeatsStart
  <2>2. /\ exchange' \in Exchange /\ exchange'.kind = e.kind /\ exchange'.at = "idle"
        /\ exchange'.outcome = "none" /\ exchange'.bytes = 0
    BY <1>1, <2>1 DEF Exchange
  <2>3. QED BY <2>1, <2>2, BytesAssumption, GoesOnKeeps
<1>14. CASE UNCHANGED requestVars
  BY <1>1, <1>14 DEF requestVars, RequestInv, TakenOK, EndOK
<1>15. QED BY <1>2, <1>3, <1>4, <1>6, <1>7, <1>8, <1>9, <1>10, <1>11, <1>12, <1>13, <1>14 DEF RequestNext

\* A request to Hermes ends, leaves nothing behind and says no more than it
\* knows: a start it calls refused has started nothing, repeated or not, and a
\* stop it calls taken was taken (hermes-runs.client.ts).
THEOREM RequestsAlwaysKept == RequestSpec => []RequestsKept
<1>1. RequestInv /\ [RequestNext]_requestVars => RequestInv' BY RequestInvNext
<1>2. QED BY <1>1, RequestInvInit, RequestInvKept, PTL DEF RequestSpec

-----------------------------------------------------------------------------
(* The brain of the voice service *)

\* The steps of a handler, in the order they are done.
Steps == {"switch", "restart", "renew", "spawn", "tell", "close", "clear", "save"}
Order == [step \in Steps |->
  CASE step = "switch" -> 1
    [] step \in {"restart", "renew"} -> 2
    [] step = "spawn" -> 3
    [] step = "tell" -> 4
    [] step = "close" -> 5
    [] step = "clear" -> 6
    [] step = "save" -> 7]
InOrder(t) == \A i, j \in 1..Len(t) : i < j => Order[t[i]] < Order[t[j]]
Has(t, step) == \E i \in 1..Len(t) : t[i] = step

\* The fields of the controller's state that the proof speaks of.
StateFields == {"state", "oks", "fails", "aged", "episode", "diag"}
ControllerOK(c) ==
  /\ DOMAIN c = StateFields
  /\ c.state \in {"up", "down"} /\ c.episode \in Nat /\ c.episode <= MaxEpisodes

News == {"spawn", "down", "up", "close"}
\* Of the current episode nothing above the rank has been told.
ToldUpTo(notes, episode, rank) ==
  episode # 0 => \A i \in 1..Len(notes[episode]) : Rank(notes[episode][i]) <= rank

\* What runs is what is saved, and the steps to do are in order.
ControllerFollows ==
  /\ ControllerOK(controller) /\ ControllerOK(saved)
  /\ serving \in BOOLEAN
  /\ ~serving => todo = <<>>
  /\ serving => controller.state = saved.state /\ controller.episode = saved.episode
  /\ todo \in Seq(Steps) /\ InOrder(todo)
  /\ todo # <<>> /\ Head(todo) = "switch" => Len(todo) >= 2
  /\ Has(todo, "spawn") => controller.state = "down"
  /\ Has(todo, "close") => controller.state = "up"

\* A file that names another brain than the state is about to be written.
SwitchPends ==
  serving /\ env # "none" /\ ~mishaps.missing /\ env # Brain(controller.state) =>
    todo # <<>> /\ Head(todo) = "switch"

\* What has been told of the current episode stays below what is still to tell.
DiaryFollows ==
  /\ diary \in [1..MaxEpisodes -> Seq(News)]
  /\ \A e \in 1..MaxEpisodes : e > saved.episode => diary[e] = <<>>
  /\ saved.state = "down" => ToldUpTo(diary, saved.episode, 2)
  /\ Has(todo, "spawn") => ToldUpTo(diary, saved.episode, 0)
  /\ Has(todo, "tell") => ToldUpTo(diary, saved.episode, IF saved.state = "down" THEN 1 ELSE 2)
  /\ Has(todo, "close") => ToldUpTo(diary, saved.episode, 3)

MishapsOK == DOMAIN mishaps = {"faults", "deaths", "missing"} /\ mishaps.missing \in BOOLEAN

BrainInv == ControllerFollows /\ SwitchPends /\ DiaryFollows /\ MishapsOK /\ ToldInOrder

LEMMA OrderValues ==
  /\ Order["switch"] = 1 /\ Order["restart"] = 2 /\ Order["renew"] = 2
  /\ Order["spawn"] = 3 /\ Order["tell"] = 4 /\ Order["close"] = 5 /\ Order["clear"] = 6
  /\ Order["save"] = 7
BY DEF Order, Steps

LEMMA OrderIsNumber == \A step \in Steps : Order[step] \in Int /\ Order[step] >= 1
<1> SUFFICES ASSUME NEW step \in Steps PROVE Order[step] \in Int /\ Order[step] >= 1 OBVIOUS
<1>1. \/ step = "switch" \/ step = "restart" \/ step = "renew" \/ step = "spawn"
      \/ step = "tell" \/ step = "close" \/ step = "clear" \/ step = "save"
  BY DEF Steps
<1>2. QED BY <1>1, OrderValues

\* The steps that are left once the first is done.
LEMMA TailInOrder ==
  ASSUME NEW t \in Seq(Steps), InOrder(t), t # <<>>
  PROVE  /\ Tail(t) \in Seq(Steps) /\ InOrder(Tail(t))
         /\ \A step : Has(Tail(t), step) => Has(t, step) /\ Order[Head(t)] < Order[step]
         /\ Head(t) \in Steps /\ Has(t, Head(t))
         /\ Len(Tail(t)) = Len(t) - 1
<1>1. /\ Tail(t) \in Seq(Steps) /\ Len(t) \in Nat /\ Len(t) # 0 /\ Len(Tail(t)) = Len(t) - 1
      /\ Head(t) = t[1] /\ \A i \in 1..Len(Tail(t)) : Tail(t)[i] = t[i + 1]
  <2>1. Len(t) \in Nat /\ Len(t) # 0 BY EmptySeq
  <2>2. QED BY <2>1, HeadTailProperties
<1>2. InOrder(Tail(t)) BY <1>1 DEF InOrder
<1>3. \A step : Has(Tail(t), step) => Has(t, step) /\ Order[Head(t)] < Order[step]
  <2> SUFFICES ASSUME NEW step, Has(Tail(t), step)
               PROVE  Has(t, step) /\ Order[Head(t)] < Order[step]
    OBVIOUS
  <2>1. PICK i \in 1..Len(Tail(t)) : Tail(t)[i] = step BY DEF Has
  <2>2. i + 1 \in 1..Len(t) /\ t[i + 1] = step /\ 1 \in 1..Len(t) /\ 1 < i + 1 BY <1>1, <2>1
  <2>3. QED BY <1>1, <2>2 DEF Has, InOrder
<1>4. 1 \in 1..Len(t) BY <1>1
<1>5. Head(t) \in Steps /\ Has(t, Head(t)) BY <1>1, <1>4 DEF Has
<1>6. QED BY <1>1, <1>2, <1>3, <1>5

\* Steps put before others that come after them.
LEMMA JoinInOrder ==
  ASSUME NEW s \in Seq(Steps), NEW t \in Seq(Steps), InOrder(s), InOrder(t),
         \A i \in 1..Len(s), j \in 1..Len(t) : Order[s[i]] < Order[t[j]]
  PROVE  /\ s \o t \in Seq(Steps) /\ InOrder(s \o t)
         /\ \A step : Has(s \o t, step) => Has(s, step) \/ Has(t, step)
         /\ s # <<>> => Head(s \o t) = s[1] /\ s \o t # <<>>
         /\ Len(s \o t) = Len(s) + Len(t)
<1> DEFINE u == s \o t
<1>1. /\ u \in Seq(Steps) /\ Len(u) = Len(s) + Len(t) /\ Len(s) \in Nat /\ Len(t) \in Nat
      /\ \A i \in 1..Len(s) + Len(t) : u[i] = IF i <= Len(s) THEN s[i] ELSE t[i - Len(s)]
  BY ConcatProperties
<1> HIDE DEF u
<1>2. \A i \in 1..Len(u) : \/ i \in 1..Len(s) /\ u[i] = s[i]
                           \/ i > Len(s) /\ i - Len(s) \in 1..Len(t) /\ u[i] = t[i - Len(s)]
  BY <1>1
<1>3. InOrder(u)
  <2> SUFFICES ASSUME NEW i \in 1..Len(u), NEW j \in 1..Len(u), i < j
               PROVE  Order[u[i]] < Order[u[j]]
    BY DEF InOrder
  <2>1. CASE i \in 1..Len(s) /\ j \in 1..Len(s)
    <3>1. u[i] = s[i] /\ u[j] = s[j] BY <1>1, <1>2, <2>1
    <3>2. Order[s[i]] < Order[s[j]] BY <2>1 DEF InOrder
    <3>3. QED BY <3>1, <3>2
  <2>2. CASE i \in 1..Len(s) /\ j > Len(s)
    <3>1. u[i] = s[i] /\ j - Len(s) \in 1..Len(t) /\ u[j] = t[j - Len(s)] BY <1>1, <1>2, <2>2
    <3>2. Order[s[i]] < Order[t[j - Len(s)]] BY <2>2, <3>1
    <3>3. QED BY <3>1, <3>2
  <2>3. CASE i > Len(s)
    <3>1. i - Len(s) \in 1..Len(t) /\ j - Len(s) \in 1..Len(t) /\ i - Len(s) < j - Len(s)
          /\ u[i] = t[i - Len(s)] /\ u[j] = t[j - Len(s)]
      BY <1>1, <1>2, <2>3
    <3>2. QED BY <3>1 DEF InOrder
  <2>4. QED BY <1>1, <2>1, <2>2, <2>3
<1>4. \A step : Has(u, step) => Has(s, step) \/ Has(t, step) BY <1>2 DEF Has
<1>5. s # <<>> => Head(u) = s[1] /\ u # <<>>
  <2> SUFFICES ASSUME s # <<>> PROVE Head(u) = s[1] /\ u # <<>> OBVIOUS
  <2>1. Len(s) # 0 BY EmptySeq
  <2>2. Len(u) # 0 /\ 1 \in 1..Len(u) /\ u[1] = s[1] BY <1>1, <1>2, <2>1
  <2>3. u # <<>> BY <2>2
  <2>4. QED BY <1>1, <2>2, <2>3, HeadTailProperties
<1>6. QED BY <1>1, <1>3, <1>4, <1>5 DEF u

\* A tick ends with its save.
LEMMA RestInOrder ==
  ASSUME NEW rest \in {<<>>, <<"save">>}
  PROVE  rest \in Seq(Steps) /\ InOrder(rest) /\ \A i \in 1..Len(rest) : rest[i] = "save"
<1>1. rest \in Seq(Steps) /\ \A i, j \in 1..Len(rest) : ~(i < j) /\ rest[i] = "save"
  <2>1. CASE rest = <<>> BY <2>1
  <2>2. CASE rest = <<"save">>
    <3>1. "save" \in Steps BY DEF Steps
    <3>2. QED BY <2>2, <3>1
  <2>3. QED BY <2>1, <2>2
<1>2. QED BY <1>1 DEF InOrder

\* The plans of the transitions.
LEMMA DownInOrder ==
  ASSUME NEW rest \in {<<>>, <<"save">>}
  PROVE  LET t == <<"switch", "restart", "spawn", "tell">> \o rest
         IN  /\ t \in Seq(Steps) /\ InOrder(t)
             /\ t # <<>> /\ Head(t) = "switch" /\ Len(t) >= 2 /\ ~Has(t, "close")
<1> DEFINE plan == <<"switch", "restart", "spawn", "tell">>
<1>1. /\ rest \in Seq(Steps) /\ InOrder(rest) /\ \A i \in 1..Len(rest) : rest[i] = "save"
  BY RestInOrder
<1>2. /\ plan[1] = "switch" /\ plan[2] = "restart" /\ plan[3] = "spawn" /\ plan[4] = "tell"
      /\ Len(plan) = 4 /\ plan # <<>>
  OBVIOUS
<1>3. plan \in Seq(Steps)
  <2>1. "switch" \in Steps /\ "restart" \in Steps /\ "spawn" \in Steps /\ "tell" \in Steps BY DEF Steps
  <2>2. QED BY <2>1
<1> HIDE DEF plan
<1>4. \A i \in 1..Len(plan) : Order[plan[i]] = i
  <2>1. \A i \in 1..4 : i = 1 \/ i = 2 \/ i = 3 \/ i = 4 OBVIOUS
  <2>2. QED BY <1>2, <2>1, OrderValues
<1>5. InOrder(plan) BY <1>4 DEF InOrder
<1>6. Order["save"] = 7 BY OrderValues
<1>7. \A i \in 1..Len(plan), j \in 1..Len(rest) : Order[plan[i]] < Order[rest[j]]
  BY <1>1, <1>2, <1>4, <1>6
<1>8. ~Has(rest, "close") /\ ~Has(plan, "close") BY <1>1, <1>2 DEF Has
<1>9. /\ plan \o rest \in Seq(Steps) /\ InOrder(plan \o rest)
      /\ Head(plan \o rest) = plan[1] /\ plan \o rest # <<>> /\ ~Has(plan \o rest, "close")
      /\ Len(plan \o rest) = Len(plan) + Len(rest)
  BY <1>1, <1>2, <1>3, <1>5, <1>7, <1>8, JoinInOrder
<1>10. Len(plan \o rest) >= 2 BY <1>1, <1>2, <1>9
<1>11. QED BY <1>2, <1>9, <1>10 DEF plan

LEMMA UpInOrder ==
  ASSUME NEW rest \in {<<>>, <<"save">>}
  PROVE  LET t == <<"switch", "restart", "tell", "close", "clear">> \o rest
         IN  /\ t \in Seq(Steps) /\ InOrder(t)
             /\ t # <<>> /\ Head(t) = "switch" /\ Len(t) >= 2 /\ ~Has(t, "spawn")
<1> DEFINE plan == <<"switch", "restart", "tell", "close", "clear">>
<1>1. /\ rest \in Seq(Steps) /\ InOrder(rest) /\ \A i \in 1..Len(rest) : rest[i] = "save"
  BY RestInOrder
<1>2. /\ plan[1] = "switch" /\ plan[2] = "restart" /\ plan[3] = "tell" /\ plan[4] = "close"
      /\ plan[5] = "clear" /\ Len(plan) = 5 /\ plan # <<>>
  OBVIOUS
<1>3. plan \in Seq(Steps)
  <2>1. /\ "switch" \in Steps /\ "restart" \in Steps /\ "tell" \in Steps
        /\ "close" \in Steps /\ "clear" \in Steps
    BY DEF Steps
  <2>2. QED BY <2>1
<1> HIDE DEF plan
<1>4. \A i \in 1..Len(plan) : Order[plan[i]] = IF i <= 2 THEN i ELSE i + 1
  <2>1. /\ Order[plan[1]] = 1 /\ Order[plan[2]] = 2 /\ Order[plan[3]] = 4
        /\ Order[plan[4]] = 5 /\ Order[plan[5]] = 6
    BY <1>2, OrderValues
  <2>2. \A i \in 1..5 : i = 1 \/ i = 2 \/ i = 3 \/ i = 4 \/ i = 5 OBVIOUS
  <2>3. QED BY <1>2, <2>1, <2>2
<1>5. InOrder(plan) BY <1>2, <1>4 DEF InOrder
<1>6. Order["save"] = 7 BY OrderValues
<1>7. \A i \in 1..Len(plan), j \in 1..Len(rest) : Order[plan[i]] < Order[rest[j]]
  BY <1>1, <1>2, <1>4, <1>6
<1>8. ~Has(rest, "spawn") /\ ~Has(plan, "spawn") BY <1>1, <1>2 DEF Has
<1>9. /\ plan \o rest \in Seq(Steps) /\ InOrder(plan \o rest)
      /\ Head(plan \o rest) = plan[1] /\ plan \o rest # <<>> /\ ~Has(plan \o rest, "spawn")
      /\ Len(plan \o rest) = Len(plan) + Len(rest)
  BY <1>1, <1>2, <1>3, <1>5, <1>7, <1>8, JoinInOrder
<1>10. Len(plan \o rest) >= 2 BY <1>1, <1>2, <1>9
<1>11. QED BY <1>2, <1>9, <1>10 DEF plan

LEMMA BrainInvInit == BrainInit => BrainInv
<1> SUFFICES ASSUME BrainInit PROVE BrainInv OBVIOUS
<1>1. ControllerOK(FreshState) BY BrainAssumption DEF ControllerOK, FreshState, StateFields
<1>2. todo = <<>> /\ todo \in Seq(Steps) /\ Len(todo) = 0 BY DEF BrainInit
<1>3. InOrder(todo) /\ \A step : ~Has(todo, step) BY <1>2 DEF InOrder, Has
<1>4. ControllerFollows BY <1>1, <1>2, <1>3 DEF ControllerFollows, BrainInit
<1>5. SwitchPends BY DEF SwitchPends, BrainInit
<1>6. diary = [e \in 1..MaxEpisodes |-> <<>>] /\ saved = FreshState BY DEF BrainInit
<1>7. DiaryFollows
  <2>1. saved.state = "up" BY <1>6 DEF FreshState
  <2>2. QED BY <1>3, <1>6, <2>1 DEF DiaryFollows
<1>8. MishapsOK BY DEF MishapsOK, BrainInit
<1>9. ToldInOrder BY <1>6 DEF ToldInOrder
<1>10. QED BY <1>4, <1>5, <1>7, <1>8, <1>9 DEF BrainInv

\* A step that adds nothing to the diary and only does what was to be done.
LEMMA DiaryStays ==
  ASSUME BrainInv, diary' = diary, saved'.state = saved.state, saved'.episode = saved.episode,
         \A step \in {"spawn", "tell", "close"} : Has(todo', step) => Has(todo, step)
  PROVE  DiaryFollows' /\ ToldInOrder'
<1>1. DiaryFollows' BY DEF BrainInv, DiaryFollows, ToldUpTo
<1>2. ToldInOrder' BY DEF BrainInv, ToldInOrder
<1>3. QED BY <1>1, <1>2

\* The handler's step, and what it leaves.
LEMMA DoesStep ==
  ASSUME BrainInv, NEW step, Doing(step)
  PROVE  /\ todo # <<>> /\ Head(todo) = step /\ serving
         /\ Tail(todo) \in Seq(Steps) /\ InOrder(Tail(todo))
         /\ \A s : Has(Tail(todo), s) => Has(todo, s) /\ Order[step] < Order[s]
         /\ step \in Steps /\ Has(todo, step)
         /\ step # "switch" => (Tail(todo) # <<>> => Head(Tail(todo)) # "switch")
<1>1. /\ todo # <<>> /\ Head(todo) = step /\ serving /\ todo \in Seq(Steps) /\ InOrder(todo)
  BY DEF Doing, BrainInv, ControllerFollows
<1>2. /\ Tail(todo) \in Seq(Steps) /\ InOrder(Tail(todo))
      /\ \A s : Has(Tail(todo), s) => Has(todo, s) /\ Order[step] < Order[s]
      /\ step \in Steps /\ Has(todo, step)
  BY <1>1, TailInOrder
<1>3. ASSUME Tail(todo) # <<>>, Head(Tail(todo)) = "switch" PROVE FALSE
  <2>1. Has(Tail(todo), "switch") BY <1>2, <1>3, TailInOrder
  <2>2. Order[step] < 1 BY <1>2, <2>1, OrderValues
  <2>3. Order[step] \in Int /\ Order[step] >= 1 BY <1>2, OrderIsNumber
  <2>4. QED BY <2>2, <2>3
<1>4. QED BY <1>1, <1>2, <1>3

\* A step that is done without a change of state, episode or file.
LEMMA StepDone ==
  ASSUME BrainInv, NEW step, Doing(step), step # "switch", todo' = Tail(todo), serving' = serving,
         ControllerOK(controller'), ControllerOK(saved'),
         controller'.state = controller.state, controller'.episode = controller.episode,
         saved'.state = controller.state, saved'.episode = controller.episode,
         env' = env, MishapsOK', mishaps'.missing = mishaps.missing
  PROVE  ControllerFollows' /\ SwitchPends'
<1>1. /\ serving /\ Tail(todo) \in Seq(Steps) /\ InOrder(Tail(todo))
      /\ \A s : Has(Tail(todo), s) => Has(todo, s)
      /\ Tail(todo) # <<>> => Head(Tail(todo)) # "switch"
      /\ Head(todo) = step
  BY DoesStep
<1>2. ControllerFollows /\ SwitchPends BY DEF BrainInv
<1>3. ControllerFollows' BY <1>1, <1>2 DEF ControllerFollows
<1>4. SwitchPends' BY <1>1, <1>2 DEF SwitchPends
<1>5. QED BY <1>3, <1>4

\* A note of the current episode comes after all that was told of it.
LEMMA NoteKeeps ==
  ASSUME BrainInv, NEW what \in News, Notes(what),
         controller.episode = saved.episode,
         ToldUpTo(diary, saved.episode, Rank(what) - 1)
  PROVE  /\ diary' \in [1..MaxEpisodes -> Seq(News)] /\ ToldInOrder'
         /\ \A e \in 1..MaxEpisodes : e > saved.episode => diary'[e] = <<>>
         /\ ToldUpTo(diary', saved.episode, Rank(what))
<1> DEFINE n == saved.episode
<1> DEFINE notes == diary[n]
<1>1. /\ diary \in [1..MaxEpisodes -> Seq(News)] /\ MaxEpisodes \in Nat
      /\ \A e \in 1..MaxEpisodes : e > n => diary[e] = <<>>
      /\ ToldInOrder /\ n \in Nat /\ n <= MaxEpisodes
  BY BrainAssumption DEF BrainInv, DiaryFollows, ControllerFollows, ControllerOK
<1>2. CASE n = 0
  <2>1. diary' = diary BY <1>2 DEF Notes
  <2>2. QED BY <1>1, <1>2, <2>1 DEF ToldUpTo, ToldInOrder
<1>3. CASE n # 0
  <2>1. n \in 1..MaxEpisodes /\ notes \in Seq(News) BY <1>1, <1>3
  <2>2. diary' = [diary EXCEPT ![n] = Append(notes, what)] BY <1>3 DEF Notes
  <2> DEFINE later == diary'[n]
  <2>3. /\ later = Append(notes, what) /\ later \in Seq(News)
        /\ \A e \in 1..MaxEpisodes : e # n => diary'[e] = diary[e]
        /\ diary' \in [1..MaxEpisodes -> Seq(News)]
    BY <1>1, <2>1, <2>2
  <2>4. /\ Len(notes) \in Nat /\ Len(later) = Len(notes) + 1
        /\ \A i \in 1..Len(notes) : later[i] = notes[i]
        /\ later[Len(notes) + 1] = what
    BY <2>1, <2>3, AppendProperties
  <2>5. \A i \in 1..Len(notes) : Rank(notes[i]) <= Rank(what) - 1 /\ Rank(notes[i]) \in Int
    <3>1. \A i \in 1..Len(notes) : notes[i] \in News BY <2>1, ElementOfSeq
    <3>2. QED BY <1>3, <3>1 DEF ToldUpTo, Rank, News
  <2>6. Rank(what) \in Int BY DEF Rank, News
  <2>7. ToldUpTo(diary', n, Rank(what))
    <3>1. ASSUME NEW i \in 1..Len(later) PROVE Rank(later[i]) <= Rank(what)
      <4>1. CASE i \in 1..Len(notes) BY <2>4, <2>5, <2>6, <4>1
      <4>2. CASE i = Len(notes) + 1 BY <2>4, <2>6, <4>2
      <4>3. QED BY <2>4, <4>1, <4>2
    <3>2. QED BY <3>1 DEF ToldUpTo
  <2>8. ToldInOrder'
    <3>1. DOMAIN diary' = 1..MaxEpisodes /\ DOMAIN later = 1..Len(later) BY <2>3
    <3>2. ASSUME NEW i \in 1..Len(later), NEW j \in 1..Len(later), i < j
          PROVE  Rank(later[i]) < Rank(later[j])
      <4>1. i \in 1..Len(notes) /\ later[i] = notes[i] BY <2>4, <3>2
      <4>2. CASE j = Len(notes) + 1 BY <2>4, <2>5, <2>6, <4>1, <4>2
      <4>3. CASE j # Len(notes) + 1
        <5>1. j \in 1..Len(notes) /\ later[j] = notes[j] BY <2>4, <4>3
        <5>2. DOMAIN notes = 1..Len(notes) /\ DOMAIN diary = 1..MaxEpisodes BY <1>1, <2>1
        <5>3. QED BY <1>1, <2>1, <3>2, <4>1, <5>1, <5>2 DEF ToldInOrder
      <4>4. QED BY <4>2, <4>3
    <3>3. ASSUME NEW e \in 1..MaxEpisodes, e # n, NEW i \in DOMAIN diary'[e], NEW j \in DOMAIN diary'[e], i < j
          PROVE  Rank(diary'[e][i]) < Rank(diary'[e][j])
      <4>1. diary'[e] = diary[e] /\ e \in DOMAIN diary BY <1>1, <2>3, <3>3
      <4>2. QED BY <1>1, <3>3, <4>1 DEF ToldInOrder
    <3>4. QED BY <3>1, <3>2, <3>3 DEF ToldInOrder
  <2>9. \A e \in 1..MaxEpisodes : e > n => diary'[e] = <<>> BY <1>1, <2>3
  <2>10. QED BY <2>3, <2>7, <2>8, <2>9
<1>4. QED BY <1>2, <1>3

LEMMA BrainInvNext ==
  ASSUME BrainInv, [BrainNext]_brainVars
  PROVE  BrainInv'
<1> DEFINE c == controller
<1>1. /\ ControllerFollows /\ SwitchPends /\ DiaryFollows /\ MishapsOK /\ ToldInOrder
      /\ ControllerOK(c) /\ ControllerOK(saved) /\ DOMAIN c = StateFields
      /\ c.episode \in Nat /\ c.state \in {"up", "down"} /\ MaxEpisodes \in Nat
  BY BrainAssumption DEF BrainInv, ControllerFollows, ControllerOK
<1>2. <<>> \in Seq(Steps) /\ InOrder(<<>>) /\ \A step : ~Has(<<>>, step) BY DEF InOrder, Has
<1>3. CASE UNCHANGED brainVars
  <2>1. ControllerFollows' BY <1>1, <1>3 DEF brainVars, ControllerFollows
  <2>2. SwitchPends' BY <1>1, <1>3 DEF brainVars, SwitchPends
  <2>3. DiaryFollows' /\ ToldInOrder' BY <1>1, <1>3 DEF brainVars, DiaryFollows, ToldUpTo, ToldInOrder
  <2>4. QED BY <1>1, <1>3, <2>1, <2>2, <2>3 DEF brainVars, BrainInv, MishapsOK
<1>4. CASE StartsServing
  <2>1. /\ serving' = TRUE /\ controller' = saved /\ todo' = Reconciled(saved.state)
        /\ saved' = saved /\ env' = env /\ diary' = diary /\ mishaps' = mishaps
    BY <1>4 DEF StartsServing
  <2>2. CASE env \notin {"none", Brain(saved.state)}
    <3>1. todo' = <<"switch", "restart">> BY <2>1, <2>2 DEF Reconciled
    <3> DEFINE t == todo'
    <3>2. t[1] = "switch" /\ t[2] = "restart" /\ Len(t) = 2 /\ t # <<>> /\ Head(t) = "switch" BY <3>1
    <3>3. t \in Seq(Steps)
      <4>1. "switch" \in Steps /\ "restart" \in Steps BY DEF Steps
      <4>2. QED BY <3>1, <4>1
    <3> HIDE DEF t
    <3>4. InOrder(t)
      <4>1. \A i, j \in 1..2 : i < j => i = 1 /\ j = 2 OBVIOUS
      <4>2. QED BY <3>2, <4>1, OrderValues DEF InOrder
    <3>5. ~Has(t, "spawn") /\ ~Has(t, "close") /\ ~Has(t, "tell") BY <3>2 DEF Has
    <3>6. ControllerFollows' BY <1>1, <2>1, <3>2, <3>3, <3>4, <3>5 DEF ControllerFollows, t
    <3>7. SwitchPends' BY <3>2 DEF SwitchPends, t
    <3>8. DiaryFollows' /\ ToldInOrder' BY <2>1, <3>5, DiaryStays DEF t
    <3>9. QED BY <1>1, <2>1, <3>6, <3>7, <3>8 DEF BrainInv, MishapsOK
  <2>3. CASE env \in {"none", Brain(saved.state)}
    <3>1. todo' = <<>> BY <2>1, <2>3 DEF Reconciled
    <3>2. ControllerFollows' BY <1>1, <1>2, <2>1, <3>1 DEF ControllerFollows
    <3>3. SwitchPends' BY <2>1, <2>3 DEF SwitchPends, Brain
    <3>4. DiaryFollows' /\ ToldInOrder' BY <1>2, <2>1, <3>1, DiaryStays
    <3>5. QED BY <1>1, <2>1, <3>2, <3>3, <3>4 DEF BrainInv, MishapsOK
  <2>4. QED BY <2>2, <2>3
<1>5. CASE ControllerDies
  <2>1. /\ serving' = FALSE /\ controller' = FreshState /\ todo' = <<>>
        /\ saved' = saved /\ diary' = diary
        /\ mishaps' = [mishaps EXCEPT !.deaths = @ + 1]
    BY <1>5 DEF ControllerDies
  <2>2. ControllerOK(FreshState) BY BrainAssumption DEF ControllerOK, FreshState, StateFields
  <2>3. ControllerFollows' BY <1>1, <1>2, <2>1, <2>2 DEF ControllerFollows
  <2>4. SwitchPends' BY <2>1 DEF SwitchPends
  <2>5. DiaryFollows' /\ ToldInOrder' BY <1>2, <2>1, DiaryStays
  <2>6. MishapsOK' BY <1>1, <2>1 DEF MishapsOK
  <2>7. QED BY <2>3, <2>4, <2>5, <2>6 DEF BrainInv
<1>6. ASSUME NEW d, DOMAIN d = StateFields, d.state = "up", d.episode = c.episode,
             AtRest, NEW rest \in {<<>>, <<"save">>}, GoesDown(d, rest),
             serving' = serving, diary' = diary, mishaps' = mishaps, c.state = "up"
      PROVE  BrainInv'
  <2> DEFINE n == d.episode + 1
  <2> DEFINE plan == <<"switch", "restart", "spawn", "tell">> \o rest
  <2>1. n \in Nat /\ n # 0 /\ n <= MaxEpisodes BY <1>1, <1>6 DEF GoesDown
  <2>2. /\ plan \in Seq(Steps) /\ InOrder(plan)
        /\ plan # <<>> /\ Head(plan) = "switch" /\ Len(plan) >= 2 /\ ~Has(plan, "close")
    BY DownInOrder
  <2>3. /\ controller' = [d EXCEPT !.state = "down", !.aged = FALSE, !.episode = n, !.diag = FALSE]
        /\ saved' = controller' /\ todo' = plan
    BY <1>6 DEF GoesDown, Saves
  <2> HIDE DEF n, plan
  <2>4. controller'.state = "down" /\ controller'.episode = n /\ DOMAIN controller' = StateFields
    BY <1>6, <2>3 DEF StateFields
  <2>5. ControllerOK(controller') BY <2>1, <2>4 DEF ControllerOK
  <2>6. ControllerFollows' BY <1>1, <1>6, <2>2, <2>3, <2>4, <2>5 DEF ControllerFollows, AtRest
  <2>7. SwitchPends' BY <2>2, <2>3 DEF SwitchPends
  <2>8. saved.episode = c.episode BY <1>1, <1>6 DEF ControllerFollows, AtRest
  <2>9. n > saved.episode /\ n \in 1..MaxEpisodes /\ saved'.episode = n /\ saved'.state = "down"
    BY <1>1, <1>6, <2>1, <2>3, <2>4, <2>8 DEF n
  <2>10. diary[n] = <<>> /\ \A e \in 1..MaxEpisodes : e > n => diary[e] = <<>>
    BY <1>1, <2>1, <2>8, <2>9 DEF DiaryFollows, ControllerOK
  <2>11. \A rank : ToldUpTo(diary', n, rank) BY <1>6, <2>10 DEF ToldUpTo
  <2>12. DiaryFollows' BY <1>1, <1>6, <2>2, <2>3, <2>9, <2>10, <2>11 DEF DiaryFollows
  <2>13. ToldInOrder' BY <1>1, <1>6 DEF ToldInOrder
  <2>14. QED BY <1>1, <1>6, <2>6, <2>7, <2>12, <2>13 DEF BrainInv, MishapsOK
<1>7. ASSUME NEW d, DOMAIN d = StateFields, d.state = "down", d.episode = c.episode,
             AtRest, NEW rest \in {<<>>, <<"save">>}, GoesUp(d, rest),
             serving' = serving, diary' = diary, mishaps' = mishaps, c.state = "down"
      PROVE  BrainInv'
  <2> DEFINE plan == <<"switch", "restart", "tell", "close", "clear">> \o rest
  <2>1. /\ plan \in Seq(Steps) /\ InOrder(plan)
        /\ plan # <<>> /\ Head(plan) = "switch" /\ Len(plan) >= 2 /\ ~Has(plan, "spawn")
    BY UpInOrder
  <2>2. controller' = [d EXCEPT !.state = "up"] /\ saved' = controller' /\ todo' = plan
    BY <1>7 DEF GoesUp, Saves
  <2> HIDE DEF plan
  <2>3. controller'.state = "up" /\ controller'.episode = c.episode /\ DOMAIN controller' = StateFields
    BY <1>7, <2>2 DEF StateFields
  <2>4. ControllerOK(controller') BY <1>1, <2>3 DEF ControllerOK
  <2>5. ControllerFollows' BY <1>1, <1>7, <2>1, <2>2, <2>3, <2>4 DEF ControllerFollows, AtRest
  <2>6. SwitchPends' BY <2>1, <2>2 DEF SwitchPends
  <2>7. saved.episode = c.episode /\ saved.state = "down" BY <1>1, <1>7 DEF ControllerFollows, AtRest
  <2>8. saved'.episode = saved.episode /\ saved'.state = "up" BY <2>2, <2>3, <2>7
  <2>9. ToldUpTo(diary, saved.episode, 2) BY <1>1, <2>7 DEF DiaryFollows
  <2>10. /\ ToldUpTo(diary', saved'.episode, 2) /\ ToldUpTo(diary', saved'.episode, 3)
    <3>1. saved.episode # 0 => diary[saved.episode] \in Seq(News)
      BY <1>1 DEF DiaryFollows, ControllerOK
    <3>2. saved.episode # 0 => \A i \in 1..Len(diary[saved.episode]) : Rank(diary[saved.episode][i]) \in Int
      BY <3>1, ElementOfSeq DEF Rank, News
    <3>3. QED BY <1>7, <2>8, <2>9, <3>2 DEF ToldUpTo
  <2>11. DiaryFollows' BY <1>1, <1>7, <2>1, <2>2, <2>8, <2>10 DEF DiaryFollows
  <2>12. ToldInOrder' BY <1>1, <1>7 DEF ToldInOrder
  <2>13. QED BY <1>1, <1>7, <2>5, <2>6, <2>11, <2>12 DEF BrainInv, MishapsOK
<1>8. CASE TakesCommand
  <2>1. AtRest /\ serving' = serving /\ env' = env /\ diary' = diary /\ mishaps' = mishaps
    BY <1>8 DEF TakesCommand
  <2>2. CASE c.state = "up" /\ GoesDown(c, <<>>)
    BY <1>1, <1>6, <2>1, <2>2
  <2>3. CASE c.state = "down" /\ GoesUp(c, <<>>)
    BY <1>1, <1>7, <2>1, <2>3
  <2>4. CASE UNCHANGED <<controller, saved, todo>>
    <3>1. ControllerFollows' BY <1>1, <2>1, <2>4 DEF ControllerFollows
    <3>2. SwitchPends' BY <1>1, <2>1, <2>4 DEF SwitchPends
    <3>3. DiaryFollows' /\ ToldInOrder' BY <1>1, <2>1, <2>4, DiaryStays
    <3>4. QED BY <1>1, <2>1, <3>1, <3>2, <3>3 DEF BrainInv, MishapsOK
  <2>5. QED BY <1>8, <2>2, <2>3, <2>4 DEF TakesCommand
<1>9. CASE CommandArrives
  <2>1. UNCHANGED <<serving, controller, saved, todo, env, voice, diary, mishaps>>
    BY <1>9 DEF CommandArrives
  <2>2. ControllerFollows' BY <1>1, <2>1 DEF ControllerFollows
  <2>3. SwitchPends' BY <1>1, <2>1 DEF SwitchPends
  <2>4. DiaryFollows' /\ ToldInOrder' BY <1>1, <2>1, DiaryStays
  <2>5. QED BY <1>1, <2>1, <2>2, <2>3, <2>4 DEF BrainInv, MishapsOK
<1>10. CASE Probes
  <2>1. AtRest /\ serving' = serving /\ env' = env /\ diary' = diary /\ mishaps' = mishaps
    BY <1>10 DEF Probes
  <2>2. PICK ok \in BOOLEAN :
          LET d == Probed(ok)
          IN  IF d.state = "up" /\ d.fails >= DownAfter THEN GoesDown(d, <<"save">>)
              ELSE IF d.state = "down" /\ d.oks >= UpAfter /\ d.aged THEN GoesUp(d, <<"save">>)
              ELSE controller' = d /\ todo' = <<"save">> /\ UNCHANGED saved
    BY <1>10 DEF Probes
  <2> DEFINE d == Probed(ok)
  <2>3. /\ DOMAIN d = StateFields /\ d.state = c.state /\ d.episode = c.episode
    BY <1>1 DEF Probed, StateFields
  <2> HIDE DEF d
  <2>4. CASE d.state = "up" /\ GoesDown(d, <<"save">>) BY <1>6, <2>1, <2>3, <2>4
  <2>5. CASE d.state = "down" /\ GoesUp(d, <<"save">>) BY <1>7, <2>1, <2>3, <2>5
  <2>6. CASE controller' = d /\ todo' = <<"save">> /\ UNCHANGED saved
    <3>1. /\ <<"save">> \in Seq(Steps) /\ InOrder(<<"save">>)
          /\ \A i \in 1..Len(<<"save">>) : <<"save">>[i] = "save"
      BY RestInOrder
    <3>2. \A step : Has(<<"save">>, step) => step = "save" BY <3>1 DEF Has
    <3>3. Head(<<"save">>) = "save" OBVIOUS
    <3>4. ControllerOK(controller') BY <1>1, <2>3, <2>6 DEF ControllerOK
    <3>5. ControllerFollows' BY <1>1, <2>1, <2>3, <2>6, <3>1, <3>2, <3>3, <3>4 DEF ControllerFollows, AtRest
    <3>6. SwitchPends' BY <1>1, <2>1, <2>3, <2>6 DEF SwitchPends, AtRest
    <3>7. DiaryFollows' /\ ToldInOrder' BY <2>1, <2>6, <3>2, DiaryStays
    <3>8. QED BY <1>1, <2>1, <3>5, <3>6, <3>7 DEF BrainInv, MishapsOK
  <2>7. QED BY <2>2, <2>4, <2>5, <2>6 DEF d
<1>11. CASE MinDownElapses
  <2>1. /\ AtRest /\ controller' = [c EXCEPT !.aged = TRUE] /\ saved' = controller'
        /\ UNCHANGED <<serving, todo, env, diary, mishaps>>
    BY <1>11 DEF MinDownElapses, Saves
  <2>2. /\ DOMAIN controller' = StateFields /\ controller'.state = c.state
        /\ controller'.episode = c.episode
    BY <1>1, <2>1 DEF StateFields
  <2>3. ControllerOK(controller') BY <1>1, <2>2 DEF ControllerOK
  <2>4. saved.state = c.state /\ saved.episode = c.episode BY <1>1, <2>1 DEF ControllerFollows, AtRest
  <2>5. ControllerFollows' BY <1>1, <2>1, <2>2, <2>3 DEF ControllerFollows
  <2>6. SwitchPends' BY <1>1, <2>1, <2>2 DEF SwitchPends
  <2>7. DiaryFollows' /\ ToldInOrder' BY <2>1, <2>2, <2>4, DiaryStays
  <2>8. QED BY <1>1, <2>1, <2>5, <2>6, <2>7 DEF BrainInv, MishapsOK
<1>12. CASE Switches
  <2> DEFINE left == Tail(Tail(todo))
  <2>1. /\ todo # <<>> /\ Head(todo) = "switch" /\ serving
        /\ Tail(todo) \in Seq(Steps) /\ InOrder(Tail(todo))
        /\ \A s : Has(Tail(todo), s) => Has(todo, s) /\ Order["switch"] < Order[s]
    BY <1>12, DoesStep DEF Switches
  <2>2. Tail(todo) # <<>>
    <3>1. todo \in Seq(Steps) /\ Len(todo) >= 2 BY <1>1, <2>1 DEF ControllerFollows
    <3>2. Len(Tail(todo)) = Len(todo) - 1 BY <1>1, <2>1, <3>1, TailInOrder DEF ControllerFollows
    <3>3. Len(todo) \in Nat BY <3>1
    <3> DEFINE n == Len(todo)
    <3> DEFINE m == Len(Tail(todo))
    <3> HIDE DEF n, m
    <3>4. m # 0
      <4>1. n \in Nat /\ n >= 2 /\ m = n - 1 BY <3>1, <3>2, <3>3 DEF n, m
      <4>2. QED BY <4>1
    <3>5. Len(<<>>) = 0 OBVIOUS
    <3>6. QED BY <3>4, <3>5 DEF m
  <2>3. /\ left \in Seq(Steps) /\ InOrder(left)
        /\ \A s : Has(left, s) => Has(Tail(todo), s) /\ Order[Head(Tail(todo))] < Order[s]
        /\ Head(Tail(todo)) \in Steps /\ Has(Tail(todo), Head(Tail(todo)))
    BY <2>1, <2>2, TailInOrder
  <2>4. \A s \in Steps : Order[s] \in Int BY OrderIsNumber
  <2>5. Order[Head(Tail(todo))] \in Int /\ Order[Head(Tail(todo))] >= 2
    BY <2>1, <2>3, <2>4, OrderValues
  <2>6. \A j \in 1..Len(left) : left[j] \in Steps /\ Order[left[j]] > 2
    <3>1. \A j \in 1..Len(left) : left[j] \in Steps BY <2>3, ElementOfSeq
    <3>2. \A j \in 1..Len(left) : Has(left, left[j]) BY DEF Has
    <3>3. QED BY <2>3, <2>4, <2>5, <3>1, <3>2
  <2> HIDE DEF left
  <2>7. ASSUME NEW step \in {"restart", "renew"}
        PROVE  /\ <<step>> \o left \in Seq(Steps) /\ InOrder(<<step>> \o left)
               /\ \A s \in {"spawn", "tell", "close"} : Has(<<step>> \o left, s) => Has(todo, s)
               /\ <<step>> \o left # <<>> /\ Head(<<step>> \o left) # "switch"
    <3>1. step \in Steps /\ Order[step] = 2 BY <2>7, OrderValues DEF Steps
    <3>2. /\ <<step>> \in Seq(Steps) /\ Len(<<step>>) = 1 /\ <<step>>[1] = step /\ <<step>> # <<>>
          /\ \A i \in 1..Len(<<step>>) : i = 1
      BY <3>1
    <3>3. InOrder(<<step>>) BY <3>2 DEF InOrder
    <3>4. \A i \in 1..Len(<<step>>), j \in 1..Len(left) : Order[<<step>>[i]] < Order[left[j]]
      BY <2>4, <2>6, <3>1, <3>2
    <3>5. \A s : Has(<<step>>, s) => s = step BY <3>2 DEF Has
    <3>6. /\ <<step>> \o left \in Seq(Steps) /\ InOrder(<<step>> \o left)
          /\ \A s : Has(<<step>> \o left, s) => Has(<<step>>, s) \/ Has(left, s)
          /\ Head(<<step>> \o left) = step /\ <<step>> \o left # <<>>
      BY <2>3, <3>2, <3>3, <3>4, JoinInOrder
    <3>7. QED BY <2>1, <2>3, <2>7, <3>5, <3>6
  <2>8. /\ serving' = serving /\ controller' = c /\ saved' = saved /\ diary' = diary
    BY <1>12 DEF Switches
  <2>9. CASE /\ todo' = (IF env # Target THEN <<"renew">> ELSE <<"restart">>) \o left
             /\ env' = Target /\ mishaps' = [mishaps EXCEPT !.missing = FALSE]
    <3>1. PICK step \in {"restart", "renew"} : todo' = <<step>> \o left BY <2>9
    <3>2. /\ todo' \in Seq(Steps) /\ InOrder(todo') /\ todo' # <<>> /\ Head(todo') # "switch"
          /\ \A s \in {"spawn", "tell", "close"} : Has(todo', s) => Has(todo, s)
      BY <2>7, <3>1
    <3>3. ControllerFollows' BY <1>1, <2>1, <2>8, <3>2 DEF ControllerFollows
    <3>4. SwitchPends' BY <2>8, <2>9 DEF SwitchPends, Target, Brain
    <3>5. DiaryFollows' /\ ToldInOrder' BY <2>8, <3>2, DiaryStays
    <3>6. MishapsOK' BY <1>1, <2>9 DEF MishapsOK
    <3>7. QED BY <3>3, <3>4, <3>5, <3>6 DEF BrainInv
  <2>10. CASE /\ mishaps' = [mishaps EXCEPT !.faults = @ + 1, !.missing = TRUE]
              /\ todo' = left /\ UNCHANGED env
    <3>1. todo' # <<>> => Head(todo') # "switch"
      <4> SUFFICES ASSUME left # <<>>, Head(left) = "switch" PROVE FALSE BY <2>10
      <4>1. Has(left, "switch") BY <2>3, TailInOrder
      <4>2. Order[Head(Tail(todo))] < 1 BY <2>3, <4>1, OrderValues
      <4> DEFINE n == Order[Head(Tail(todo))]
      <4>3. n < 1 /\ n \in Int /\ n >= 2 BY <2>5, <4>2
      <4> HIDE DEF n
      <4>4. QED BY <4>3
    <3>2. ControllerFollows' BY <1>1, <2>1, <2>3, <2>8, <2>10, <3>1 DEF ControllerFollows
    <3>3. mishaps'.missing = TRUE /\ MishapsOK' BY <1>1, <2>10 DEF MishapsOK
    <3>4. SwitchPends' BY <3>3 DEF SwitchPends
    <3>5. DiaryFollows' /\ ToldInOrder' BY <2>1, <2>3, <2>8, <2>10, DiaryStays
    <3>6. QED BY <3>2, <3>3, <3>4, <3>5 DEF BrainInv
  <2>11. QED BY <1>12, <2>9, <2>10 DEF Switches, left
<1>13. CASE RestartsService
  <2>1. /\ todo' = Tail(todo) /\ saved' = controller /\ UNCHANGED <<serving, controller, env, diary>>
        /\ mishaps' = mishaps \/ mishaps' = [mishaps EXCEPT !.faults = @ + 1]
    BY <1>13 DEF RestartsService, Fails
  <2>2. PICK step \in {"restart", "renew"} : Doing(step) BY <1>13 DEF RestartsService
  <2>3. MishapsOK' /\ mishaps'.missing = mishaps.missing BY <1>1, <2>1 DEF MishapsOK
  <2>4. serving /\ \A s : Has(Tail(todo), s) => Has(todo, s) BY <2>2, DoesStep
  <2>5. ControllerFollows' /\ SwitchPends' BY <1>1, <2>1, <2>2, <2>3, StepDone
  <2>6. saved.state = c.state /\ saved.episode = c.episode BY <1>1, <2>4 DEF ControllerFollows
  <2>7. DiaryFollows' /\ ToldInOrder' BY <2>1, <2>4, <2>6, DiaryStays
  <2>8. QED BY <2>3, <2>5, <2>7 DEF BrainInv
<1>14. CASE SpawnsDiagnosis
  <2>1. Doing("spawn") /\ todo' = Tail(todo) /\ UNCHANGED <<serving, env>> BY <1>14 DEF SpawnsDiagnosis
  <2>2. /\ serving /\ \A s : Has(Tail(todo), s) => Has(todo, s) /\ Order["spawn"] < Order[s]
        /\ Has(todo, "spawn")
    BY <2>1, DoesStep
  <2>3. /\ saved.state = c.state /\ saved.episode = c.episode /\ c.state = "down"
    BY <1>1, <2>2 DEF ControllerFollows
  <2>4. CASE Saves([c EXCEPT !.diag = TRUE]) /\ Notes("spawn") /\ UNCHANGED mishaps
    <3>1. /\ controller' = [c EXCEPT !.diag = TRUE] /\ saved' = controller' BY <2>4 DEF Saves
    <3>2. /\ DOMAIN controller' = StateFields /\ controller'.state = c.state
          /\ controller'.episode = c.episode
      BY <1>1, <3>1 DEF StateFields
    <3>3. ControllerOK(controller') BY <1>1, <3>2 DEF ControllerOK
    <3>4. MishapsOK' /\ mishaps'.missing = mishaps.missing BY <1>1, <2>4 DEF MishapsOK
    <3>5. ControllerFollows' /\ SwitchPends' BY <2>1, <2>3, <3>1, <3>2, <3>3, <3>4, StepDone
    <3>6. ToldUpTo(diary, saved.episode, Rank("spawn") - 1) /\ Rank("spawn") = 1
      <4>1. Rank("spawn") = 1 BY DEF Rank
      <4>2. QED BY <1>1, <2>2, <4>1 DEF DiaryFollows
    <3>7. /\ diary' \in [1..MaxEpisodes -> Seq(News)] /\ ToldInOrder'
          /\ \A e \in 1..MaxEpisodes : e > saved.episode => diary'[e] = <<>>
          /\ ToldUpTo(diary', saved.episode, 1)
      BY <2>3, <2>4, <3>6, NoteKeeps DEF News
    <3>8. ~Has(Tail(todo), "spawn")
      <4>1. ~(Order["spawn"] < Order["spawn"]) BY OrderValues
      <4>2. QED BY <2>2, <4>1
    <3>9. ~Has(Tail(todo), "close") BY <1>1, <2>2, <2>3 DEF ControllerFollows
    <3>10. ToldUpTo(diary', saved.episode, 2)
      <4>1. saved.episode # 0 => diary'[saved.episode] \in Seq(News)
        BY <1>1, <3>7 DEF ControllerOK
      <4>2. saved.episode # 0 => \A i \in 1..Len(diary'[saved.episode]) : Rank(diary'[saved.episode][i]) \in Int
        BY <4>1, ElementOfSeq DEF Rank, News
      <4>3. QED BY <3>7, <4>2 DEF ToldUpTo
    <3>11. DiaryFollows' BY <2>1, <2>3, <3>1, <3>2, <3>7, <3>8, <3>9, <3>10 DEF DiaryFollows
    <3>12. QED BY <3>4, <3>5, <3>7, <3>11 DEF BrainInv
  <2>5. CASE Fails("spawn") /\ UNCHANGED <<controller, saved, diary>>
    <3>1. mishaps' = [mishaps EXCEPT !.faults = @ + 1] BY <2>5 DEF Fails
    <3>2. MishapsOK' /\ mishaps'.missing = mishaps.missing BY <1>1, <3>1 DEF MishapsOK
    <3>3. ControllerFollows' /\ SwitchPends' BY <1>1, <2>1, <2>3, <2>5, <3>2, StepDone
    <3>4. DiaryFollows' /\ ToldInOrder' BY <2>1, <2>2, <2>5, DiaryStays
    <3>5. QED BY <3>2, <3>3, <3>4 DEF BrainInv
  <2>6. QED BY <1>14, <2>4, <2>5 DEF SpawnsDiagnosis
<1>15. CASE TellsOwner
  <2>1. /\ Doing("tell") /\ todo' = Tail(todo) /\ saved' = controller /\ Notes(c.state)
        /\ UNCHANGED <<serving, controller, env, mishaps>>
    BY <1>15 DEF TellsOwner
  <2>2. /\ serving /\ \A s : Has(Tail(todo), s) => Has(todo, s) /\ Order["tell"] < Order[s]
        /\ Has(todo, "tell")
    BY <2>1, DoesStep
  <2>3. /\ saved.state = c.state /\ saved.episode = c.episode BY <1>1, <2>2 DEF ControllerFollows
  <2>4. ControllerFollows' /\ SwitchPends' BY <1>1, <2>1, StepDone DEF MishapsOK
  <2>5. Rank("down") = 2 /\ Rank("up") = 3 BY DEF Rank
  <2>6. ToldUpTo(diary, saved.episode, Rank(c.state) - 1) /\ c.state \in News
    <3>1. CASE c.state = "down" BY <1>1, <2>2, <2>3, <2>5, <3>1 DEF DiaryFollows, News
    <3>2. CASE c.state = "up" BY <1>1, <2>2, <2>3, <2>5, <3>2 DEF DiaryFollows, News
    <3>3. QED BY <1>1, <3>1, <3>2
  <2>7. /\ diary' \in [1..MaxEpisodes -> Seq(News)] /\ ToldInOrder'
        /\ \A e \in 1..MaxEpisodes : e > saved.episode => diary'[e] = <<>>
        /\ ToldUpTo(diary', saved.episode, Rank(c.state))
    BY <2>1, <2>3, <2>6, NoteKeeps
  <2>8. ~Has(Tail(todo), "spawn") /\ ~Has(Tail(todo), "tell")
    <3>1. ~(Order["tell"] < Order["spawn"]) /\ ~(Order["tell"] < Order["tell"]) BY OrderValues
    <3>2. QED BY <2>2, <3>1
  <2>9. Has(Tail(todo), "close") => c.state = "up" BY <1>1, <2>2 DEF ControllerFollows
  <2>10. DiaryFollows' BY <2>1, <2>3, <2>5, <2>7, <2>8, <2>9 DEF DiaryFollows
  <2>11. QED BY <1>1, <2>1, <2>4, <2>7, <2>10 DEF BrainInv, MishapsOK
<1>16. CASE ClosesEpisode
  <2>1. /\ Doing("close") /\ todo' = Tail(todo) /\ Notes("close")
        /\ UNCHANGED <<serving, controller, saved, env, mishaps>>
    BY <1>16 DEF ClosesEpisode
  <2>2. /\ serving /\ \A s : Has(Tail(todo), s) => Has(todo, s) /\ Order["close"] < Order[s]
        /\ Has(todo, "close")
    BY <2>1, DoesStep
  <2>3. /\ saved.state = c.state /\ saved.episode = c.episode /\ c.state = "up"
    BY <1>1, <2>2 DEF ControllerFollows
  <2>4. ControllerFollows' /\ SwitchPends' BY <1>1, <2>1, <2>3, StepDone DEF MishapsOK
  <2>5. Rank("close") = 4 BY DEF Rank
  <2>6. ToldUpTo(diary, saved.episode, Rank("close") - 1) BY <1>1, <2>2, <2>5 DEF DiaryFollows
  <2>7. /\ diary' \in [1..MaxEpisodes -> Seq(News)] /\ ToldInOrder'
        /\ \A e \in 1..MaxEpisodes : e > saved.episode => diary'[e] = <<>>
    BY <2>1, <2>3, <2>6, NoteKeeps DEF News
  <2>8. ~Has(Tail(todo), "spawn") /\ ~Has(Tail(todo), "tell") /\ ~Has(Tail(todo), "close")
    <3>1. ~(Order["close"] < Order["spawn"]) /\ ~(Order["close"] < Order["tell"]) /\ ~(Order["close"] < Order["close"])
      BY OrderValues
    <3>2. QED BY <2>2, <3>1
  <2>9. DiaryFollows' BY <2>1, <2>3, <2>7, <2>8 DEF DiaryFollows
  <2>10. QED BY <1>1, <2>1, <2>4, <2>7, <2>9 DEF BrainInv, MishapsOK
<1>17. CASE ClearsEpisode
  <2>1. /\ Doing("clear") /\ todo' = Tail(todo) /\ controller' = [c EXCEPT !.diag = FALSE]
        /\ saved' = controller' /\ UNCHANGED <<serving, env, diary, mishaps>>
    BY <1>17 DEF ClearsEpisode, Saves
  <2>2. serving /\ \A s : Has(Tail(todo), s) => Has(todo, s) BY <2>1, DoesStep
  <2>3. saved.state = c.state /\ saved.episode = c.episode BY <1>1, <2>2 DEF ControllerFollows
  <2>4. /\ DOMAIN controller' = StateFields /\ controller'.state = c.state
        /\ controller'.episode = c.episode
    BY <1>1, <2>1 DEF StateFields
  <2>5. ControllerOK(controller') BY <1>1, <2>4 DEF ControllerOK
  <2>6. ControllerFollows' /\ SwitchPends' BY <1>1, <2>1, <2>4, <2>5, StepDone DEF MishapsOK
  <2>7. DiaryFollows' /\ ToldInOrder' BY <2>1, <2>2, <2>3, <2>4, DiaryStays
  <2>8. QED BY <1>1, <2>1, <2>6, <2>7 DEF BrainInv, MishapsOK
<1>18. CASE EndsTick
  <2>1. /\ Doing("save") /\ todo' = Tail(todo) /\ saved' = controller
        /\ UNCHANGED <<serving, controller, env, diary, mishaps>>
    BY <1>18 DEF EndsTick
  <2>2. serving /\ \A s : Has(Tail(todo), s) => Has(todo, s) BY <2>1, DoesStep
  <2>3. saved.state = c.state /\ saved.episode = c.episode BY <1>1, <2>2 DEF ControllerFollows
  <2>4. ControllerFollows' /\ SwitchPends' BY <1>1, <2>1, StepDone DEF MishapsOK
  <2>5. DiaryFollows' /\ ToldInOrder' BY <2>1, <2>2, <2>3, DiaryStays
  <2>6. QED BY <1>1, <2>1, <2>4, <2>5 DEF BrainInv, MishapsOK
<1>19. CASE ServiceComesBack
  <2>1. UNCHANGED <<serving, controller, saved, todo, env, mailbox, diary, mishaps>>
    BY <1>19 DEF ServiceComesBack
  <2>2. ControllerFollows' BY <1>1, <2>1 DEF ControllerFollows
  <2>3. SwitchPends' BY <1>1, <2>1 DEF SwitchPends
  <2>4. DiaryFollows' /\ ToldInOrder' BY <1>1, <2>1, DiaryStays
  <2>5. QED BY <1>1, <2>1, <2>2, <2>3, <2>4 DEF BrainInv, MishapsOK
<1>20. QED
  BY <1>3, <1>4, <1>5, <1>8, <1>9, <1>10, <1>11, <1>12, <1>13, <1>14, <1>15, <1>16, <1>17,
     <1>18, <1>19
  DEF BrainNext

LEMMA BrainInvKept == BrainInv => FailoverKept
<1> SUFFICES ASSUME BrainInv PROVE FailoverKept OBVIOUS
<1>1. FileFollows BY DEF BrainInv, SwitchPends, FileFollows, AtRest
<1>2. QED BY <1>1 DEF BrainInv, FailoverKept

\* Whatever dies or fails between its steps, no handler ends with an env file
\* that disagrees with the controller it has saved, and of every episode the
\* announcements and the record are made in their order (brain_failover.py).
THEOREM FailoverAlwaysKept == BrainSpec => []FailoverKept
<1>1. BrainInv /\ [BrainNext]_brainVars => BrainInv' BY BrainInvNext
<1>2. QED BY <1>1, BrainInvInit, BrainInvKept, PTL DEF BrainSpec

-----------------------------------------------------------------------------
(* Separate speech services *)

Items == [kind : {"user", "speech", "results"}, stale : BOOLEAN]
Speeches == {item \in Items : item.kind = "speech"}

HearingOK ==
  /\ DOMAIN hearing = {"ear", "connecting", "buffered", "awaiting", "gate", "timer", "utterance"}
  /\ {hearing.connecting, hearing.buffered, hearing.awaiting, hearing.gate, hearing.timer} \subseteq BOOLEAN
  /\ hearing.utterance \in Nat
  /\ ears \in [1..MaxEars -> [at : {"unused", "open", "shut", "left"}, heard : Nat]]
  /\ DOMAIN sendingAudio = {"at", "frames"} /\ sendingAudio.at \in {"none", "gate", "connect"}
InformedOK ==
  /\ DOMAIN informed = {"closed", "lost", "settled", "sayings", "bargeIns", "outside", "latch"}
  /\ {informed.closed, informed.lost, informed.outside} \subseteq BOOLEAN
  /\ informed.settled \in Seq(Nat)

\* Only one transcript is awaited, on the ear that is open, and no audio is
\* passed on meanwhile: so it ends the utterance that was committed last.
AwaitsOne ==
  /\ hearing.awaiting => hearing.gate
  /\ hearing.gate => ~hearing.buffered /\ sendingAudio.at # "connect"
  /\ hearing.awaiting => ~hearing.connecting /\ hearing.utterance >= 1
  /\ hearing.connecting => ~EarOpen
  /\ hearing.awaiting /\ hearing.ear \in 1..MaxEars => ears[hearing.ear].heard = hearing.utterance
  /\ Len(informed.settled) = hearing.utterance
EarInv ==
  HearingOK /\ InformedOK /\ (Alive => AwaitsOne) /\ GateIsReleased /\ UtterancesSettleOnce

\* Without an open response nothing runs, or what nobody listens to any more.
TurnInv ==
  /\ DOMAIN turn = DOMAIN NoTurn
  /\ turn.kind \in {"none", "user", "speech", "results"} /\ turn.step \in {"none", "brain", "synthesis", "drain"}
  /\ {turn.stale, turn.speaking} \subseteq BOOLEAN /\ turn.waiting \in Nat
  /\ DOMAIN speech = {"active", "owed", "voiced", "streaming"} /\ speech.active \in BOOLEAN
  /\ turn.kind = "none" \/ turn.stale => ~speech.active
  /\ ~speech.active /\ ~turn.stale => turn.step = "none" /\ ~turn.speaking /\ turn.waiting = 0
  /\ HeardInside

ChainInv == chain \in Seq(Items) /\ speech.owed = Counted(chain, Speeches)

RivaInv == EarInv /\ TurnInv /\ ChainInv

LEMMA RivaInvKept == RivaInv => RivaKept
<1> SUFFICES ASSUME RivaInv PROVE RivaKept OBVIOUS
<1>1. GateIsReleased /\ UtterancesSettleOnce BY DEF RivaInv, EarInv
<1>2. ResponsesEnd /\ HeardInside BY DEF RivaInv, TurnInv, ResponsesEnd
<1>3. OwedIsQueued
  <2>1. chain \in Seq(Items) /\ speech.owed = Counted(chain, Speeches) BY DEF RivaInv, ChainInv
  <2>2. DOMAIN chain = 1..Len(chain) /\ \A i \in 1..Len(chain) : chain[i] \in Items BY <2>1, ElementOfSeq
  <2>3. Places(chain, Speeches) = {i \in DOMAIN chain : chain[i].kind = "speech"}
    BY <2>2 DEF Places, Speeches
  <2>4. QED BY <2>1, <2>3 DEF Counted, OwedIsQueued
<1>4. QED BY <1>1, <1>2, <1>3 DEF RivaKept

LEMMA CountEmpty == ASSUME NEW K PROVE Counted(<<>>, K) = 0
<1>1. Places(<<>>, K) = {} BY DEF Places
<1>2. QED BY <1>1, FS_EmptySet DEF Counted

LEMMA RivaInvInit == RivaInit => RivaInv
<1> SUFFICES ASSUME RivaInit PROVE RivaInv OBVIOUS
<1>2. HearingOK
  <2>1. ears = [n \in 1..MaxEars |-> IF n = 1 THEN [at |-> "open", heard |-> 0] ELSE NoEar] BY DEF RivaInit
  <2>2. ears \in [1..MaxEars -> [at : {"unused", "open", "shut", "left"}, heard : Nat]]
    BY <2>1 DEF NoEar
  <2>3. QED BY <2>2 DEF HearingOK, RivaInit
<1>3. InformedOK /\ ~informed.lost /\ informed.settled = <<>> /\ ~informed.outside
  BY DEF InformedOK, RivaInit
<1>4. AwaitsOne BY <1>3 DEF AwaitsOne, RivaInit
<1>5. GateIsReleased /\ UtterancesSettleOnce
  BY <1>3 DEF GateIsReleased, UtterancesSettleOnce, RivaInit
<1>6. TurnInv BY <1>3 DEF TurnInv, RivaInit, NoTurn, HeardInside
<1>7. ChainInv
  <2>1. speech.owed = 0 /\ chain = <<>> BY DEF RivaInit
  <2>2. QED BY <2>1, CountEmpty DEF ChainInv
<1>8. QED BY <1>2, <1>3, <1>4, <1>5, <1>6, <1>7 DEF RivaInv, EarInv

\* What leaves the ear, the utterances and the socket alone.
LEMMA EarStays ==
  ASSUME EarInv, UNCHANGED <<ears, hearing, sendingAudio>>, InformedOK',
         informed'.closed = informed.closed, informed'.lost = informed.lost,
         informed'.settled = informed.settled
  PROVE  EarInv'
<1>1. HearingOK' BY DEF EarInv, HearingOK
<1>2. GateIsReleased' /\ UtterancesSettleOnce'
  BY DEF EarInv, GateIsReleased, UtterancesSettleOnce, Alive
<1>3. Alive' => AwaitsOne' BY DEF EarInv, AwaitsOne, Alive, EarOpen
<1>4. QED BY <1>1, <1>2, <1>3 DEF EarInv

LEMMA TurnStays ==
  ASSUME TurnInv, turn' = turn, speech' = speech, informed'.outside = informed.outside
  PROVE  TurnInv'
BY DEF TurnInv, HeardInside

LEMMA TurnEnds ==
  ASSUME TurnInv, turn' = NoTurn, DOMAIN speech' = DOMAIN speech, speech'.active = FALSE,
         informed'.outside = FALSE
  PROVE  TurnInv'
BY DEF TurnInv, HeardInside, NoTurn

LEMMA ChainStays ==
  ASSUME ChainInv, chain' = chain, speech'.owed = speech.owed
  PROVE  ChainInv'
BY DEF ChainInv

LEMMA ChainGrows ==
  ASSUME ChainInv, NEW kind \in {"user", "results"}, chain' = Append(chain, [kind |-> kind, stale |-> FALSE]),
         speech'.owed = speech.owed
  PROVE  ChainInv'
<1> DEFINE item == [kind |-> kind, stale |-> FALSE]
<1>1. item \in Items /\ item \notin Speeches BY DEF Items, Speeches
<1> HIDE DEF item
<1>2. chain \in Seq(Items) /\ chain' = Append(chain, item) BY DEF ChainInv, item
<1>3. chain' \in Seq(Items) BY <1>1, <1>2, AppendProperties
<1>4. Counted(chain', Speeches) = Counted(chain, Speeches) + 0 /\ Counted(chain, Speeches) \in Nat
  BY <1>1, <1>2, CountAppend, PlacesFinite
<1>5. QED BY <1>3, <1>4 DEF ChainInv

LEMMA OwesKeepsChain ==
  ASSUME ChainInv, TurnInv, Owes
  PROVE  ChainInv' /\ DOMAIN speech' = DOMAIN speech /\ speech'.active = speech.active
<1> DEFINE item == [kind |-> "speech", stale |-> FALSE]
<1> DEFINE n == speech.owed + 1
<1>1. item \in Items /\ item \in Speeches BY DEF Items, Speeches
<1> HIDE DEF item
<1>2. chain \in Seq(Items) /\ chain' = Append(chain, item) /\ speech' = [speech EXCEPT !.owed = n]
  BY DEF ChainInv, item, Owes, Waiting
<1>3. chain' \in Seq(Items) BY <1>1, <1>2, AppendProperties
<1>4. Counted(chain', Speeches) = n
  BY <1>1, <1>2, CountAppend, PlacesFinite DEF ChainInv
<1> HIDE DEF n
<1>5. DOMAIN speech' = DOMAIN speech /\ speech'.owed = n /\ speech'.active = speech.active
  BY <1>2 DEF TurnInv
<1>6. QED BY <1>3, <1>4, <1>5 DEF ChainInv

\* The session ends, by whichever way.
LEMMA ClosesKeeps ==
  ASSUME RivaInv, ClosesSession
  PROVE  RivaInv'
<1>1. HearingOK /\ InformedOK /\ TurnInv BY DEF RivaInv, EarInv
<1>2. /\ hearing' = [hearing EXCEPT !.gate = FALSE, !.timer = FALSE, !.awaiting = FALSE]
      /\ informed' = [informed EXCEPT !.closed = TRUE, !.lost = FALSE]
      /\ sendingAudio' = [sendingAudio EXCEPT !.at = "none"] /\ ears' = ears
      /\ turn' = NoTurn /\ chain' = <<>> /\ speech' = [speech EXCEPT !.active = FALSE, !.owed = 0]
  BY DEF ClosesSession
<1>3. HearingOK' /\ ~hearing'.gate BY <1>1, <1>2 DEF HearingOK
<1>4. InformedOK' /\ informed'.closed /\ informed'.outside = informed.outside
  BY <1>1, <1>2 DEF InformedOK
<1>5. EarInv' BY <1>3, <1>4 DEF EarInv, Alive, GateIsReleased, UtterancesSettleOnce
<1>6. DOMAIN speech' = DOMAIN speech /\ speech'.active = FALSE /\ speech'.owed = 0
  BY <1>1, <1>2 DEF TurnInv
<1>7. informed'.outside = FALSE BY <1>1, <1>4 DEF TurnInv, HeardInside, InformedOK
<1>8. TurnInv' BY <1>1, <1>2, <1>6, <1>7, TurnEnds
<1>9. ChainInv' BY <1>2, <1>6, CountEmpty DEF ChainInv
<1>10. QED BY <1>5, <1>8, <1>9 DEF RivaInv

\* A step of the ear that leaves the session open: what stands unless it says so.
LEMMA EarMoves ==
  ASSUME RivaInv, Alive, HearingOK', InformedOK', UNCHANGED <<turn, speech>>,
         informed'.outside = informed.outside, AwaitsOne', GateIsReleased', UtterancesSettleOnce',
         ChainInv'
  PROVE  RivaInv'
<1>1. EarInv' BY DEF EarInv
<1>2. TurnInv' BY TurnStays DEF RivaInv
<1>3. QED BY <1>1, <1>2 DEF RivaInv

LEMMA EarNextKeeps ==
  ASSUME RivaInv, EarNext
  PROVE  RivaInv'
<1> DEFINE h == hearing
<1>1. /\ EarInv /\ TurnInv /\ ChainInv /\ HearingOK /\ InformedOK /\ (Alive => AwaitsOne)
      /\ GateIsReleased /\ UtterancesSettleOnce
      /\ DOMAIN h = {"ear", "connecting", "buffered", "awaiting", "gate", "timer", "utterance"}
      /\ {h.connecting, h.buffered, h.awaiting, h.gate, h.timer} \subseteq BOOLEAN
      /\ h.utterance \in Nat
  BY DEF RivaInv, EarInv, HearingOK
<1>2. CASE RivaCloses BY <1>2, ClosesKeeps DEF RivaCloses
<1>3. CASE FrameComes
  <2>1. /\ Alive /\ sendingAudio' = [at |-> "gate", frames |-> sendingAudio.frames + 1]
        /\ UNCHANGED <<ears, hearing, chain, turn, speech, dialogue, informed>>
    BY <1>3 DEF FrameComes
  <2>2. HearingOK' BY <1>1, <2>1 DEF HearingOK
  <2>3. AwaitsOne' BY <1>1, <2>1 DEF AwaitsOne, EarOpen
  <2>4. InformedOK' /\ GateIsReleased' /\ UtterancesSettleOnce' /\ ChainInv'
    BY <1>1, <2>1 DEF InformedOK, GateIsReleased, UtterancesSettleOnce, ChainInv, Alive
  <2>5. QED BY <2>1, <2>2, <2>3, <2>4, EarMoves
<1>4. CASE FramePasses
  <2>1. /\ Alive /\ ~h.gate /\ EarOpen
        /\ hearing' = [h EXCEPT !.buffered = TRUE]
        /\ sendingAudio' = [sendingAudio EXCEPT !.at = "none"]
        /\ UNCHANGED <<ears, chain, turn, speech, dialogue, informed>>
    BY <1>4 DEF FramePasses, GateOpen
  <2>2. HearingOK' BY <1>1, <2>1 DEF HearingOK
  <2>3. AwaitsOne' BY <1>1, <2>1 DEF AwaitsOne, EarOpen
  <2>4. InformedOK' /\ GateIsReleased' /\ UtterancesSettleOnce' /\ ChainInv'
    BY <1>1, <2>1 DEF InformedOK, GateIsReleased, UtterancesSettleOnce, ChainInv, Alive
  <2>5. QED BY <2>1, <2>2, <2>3, <2>4, EarMoves
<1>5. CASE FrameReconnects
  <2>1. /\ Alive /\ ~h.gate /\ ~EarOpen
        /\ hearing' = [h EXCEPT !.connecting = TRUE]
        /\ sendingAudio' = [sendingAudio EXCEPT !.at = "connect"]
        /\ UNCHANGED <<ears, chain, turn, speech, dialogue, informed>>
    BY <1>5 DEF FrameReconnects, GateOpen
  <2>2. HearingOK' BY <1>1, <2>1 DEF HearingOK
  <2>3. AwaitsOne' BY <1>1, <2>1 DEF AwaitsOne, EarOpen
  <2>4. InformedOK' /\ GateIsReleased' /\ UtterancesSettleOnce' /\ ChainInv'
    BY <1>1, <2>1 DEF InformedOK, GateIsReleased, UtterancesSettleOnce, ChainInv, Alive
  <2>5. QED BY <2>1, <2>2, <2>3, <2>4, EarMoves
<1>6. CASE EarConnects
  <2> DEFINE buffered == h.buffered \/ sendingAudio.at = "connect"
  <2> DEFINE at == IF sendingAudio.at = "connect" THEN "none" ELSE sendingAudio.at
  <2>1. /\ Alive /\ h.connecting
        /\ ears' = [ears EXCEPT ![NextEar] = [at |-> "open", heard |-> 0]]
        /\ hearing' = [h EXCEPT !.connecting = FALSE, !.ear = NextEar, !.buffered = buffered]
        /\ sendingAudio' = [sendingAudio EXCEPT !.at = at]
        /\ UNCHANGED <<chain, turn, speech, dialogue, informed>>
    BY <1>6 DEF EarConnects
  <2>2. buffered \in BOOLEAN /\ at \in {"none", "gate"} /\ (h.gate => ~buffered)
    BY <1>1, <2>1 DEF HearingOK, AwaitsOne
  <2> HIDE DEF buffered, at
  <2>3. /\ hearing'.connecting = FALSE /\ hearing'.buffered = buffered /\ hearing'.gate = h.gate
        /\ hearing'.awaiting = h.awaiting /\ hearing'.timer = h.timer /\ hearing'.utterance = h.utterance
        /\ DOMAIN hearing' = DOMAIN h /\ sendingAudio'.at = at /\ DOMAIN sendingAudio' = {"at", "frames"}
    BY <1>1, <2>1 DEF HearingOK
  <2>4. ears' \in [1..MaxEars -> [at : {"unused", "open", "shut", "left"}, heard : Nat]]
    BY <1>1, <2>1 DEF HearingOK
  <2>5. HearingOK' BY <1>1, <2>2, <2>3, <2>4 DEF HearingOK
  <2>6. ~h.awaiting BY <1>1, <2>1 DEF AwaitsOne
  <2>7. AwaitsOne' BY <1>1, <2>1, <2>2, <2>3, <2>6 DEF AwaitsOne
  <2>8. InformedOK' /\ GateIsReleased' /\ UtterancesSettleOnce' /\ ChainInv'
    BY <1>1, <2>1, <2>3 DEF InformedOK, GateIsReleased, UtterancesSettleOnce, ChainInv, Alive
  <2>9. QED BY <2>1, <2>5, <2>7, <2>8, EarMoves
<1>7. CASE EarRefused
  <2>1. CASE ClosesSession BY <2>1, ClosesKeeps
  <2>2. CASE /\ hearing' = [h EXCEPT !.connecting = FALSE]
             /\ UNCHANGED <<ears, sendingAudio, chain, turn, speech, dialogue, informed>>
    <3>1. Alive BY <1>7 DEF EarRefused
    <3>2. HearingOK' BY <1>1, <2>2 DEF HearingOK
    <3>3. AwaitsOne' BY <1>1, <2>2, <3>1 DEF AwaitsOne, EarOpen
    <3>4. InformedOK' /\ GateIsReleased' /\ UtterancesSettleOnce' /\ ChainInv'
      BY <1>1, <2>2 DEF InformedOK, GateIsReleased, UtterancesSettleOnce, ChainInv, Alive
    <3>5. QED BY <2>2, <3>1, <3>2, <3>3, <3>4, EarMoves
  <2>3. QED BY <1>7, <2>1, <2>2 DEF EarRefused
<1>8. CASE UtteranceEnds
  <2>1. Alive /\ h.buffered /\ h.ear # 0 /\ sendingAudio.at = "none" BY <1>8 DEF UtteranceEnds
  <2>2. CASE ~EarOpen BY <1>8, <2>2, ClosesKeeps DEF UtteranceEnds
  <2>3. CASE EarOpen
    <3> DEFINE u == h.utterance + 1
    <3> DEFINE e == h.ear
    <3> DEFINE settled == Append(informed.settled, 0)
    <3>1. /\ hearing' = [h EXCEPT !.buffered = FALSE, !.awaiting = TRUE, !.gate = TRUE,
                                  !.timer = TRUE, !.utterance = u]
          /\ ears' = [ears EXCEPT ![e].heard = u]
          /\ informed' = [informed EXCEPT !.latch = TRUE, !.settled = settled]
          /\ UNCHANGED <<sendingAudio, chain, turn, speech, dialogue>>
      BY <1>8, <2>3 DEF UtteranceEnds
    <3>2. u \in Nat /\ u >= 1 /\ ~h.awaiting /\ ~h.connecting /\ informed.settled \in Seq(Nat)
          /\ Len(informed.settled) = h.utterance
      BY <1>1, <2>1, <2>3 DEF AwaitsOne, InformedOK
    <3>3. /\ settled \in Seq(Nat) /\ Len(settled) = u /\ settled[u] = 0
          /\ \A k \in 1..h.utterance : settled[k] = informed.settled[k]
      BY <3>2, AppendProperties
    <3> HIDE DEF u, settled
    <3>4. /\ hearing'.buffered = FALSE /\ hearing'.awaiting = TRUE /\ hearing'.gate = TRUE
          /\ hearing'.timer = TRUE /\ hearing'.utterance = u /\ hearing'.ear = e
          /\ hearing'.connecting = FALSE /\ DOMAIN hearing' = DOMAIN h
      BY <1>1, <3>1, <3>2
    <3>5. /\ informed'.settled = settled /\ InformedOK' /\ informed'.outside = informed.outside
          /\ informed'.closed = informed.closed
      BY <1>1, <3>1, <3>3 DEF InformedOK
    <3>6. /\ ears' \in [1..MaxEars -> [at : {"unused", "open", "shut", "left"}, heard : Nat]]
          /\ e \in 1..MaxEars => ears'[e].heard = u
      <4> HIDE DEF e
      <4>1. CASE e \in 1..MaxEars BY <1>1, <3>1, <3>2, <4>1 DEF HearingOK
      <4>2. CASE e \notin 1..MaxEars
        <5>1. ears' = ears BY <1>1, <3>1, <4>2 DEF HearingOK
        <5>2. QED BY <1>1, <4>2, <5>1 DEF HearingOK
      <4>3. QED BY <4>1, <4>2
    <3>7. HearingOK' BY <1>1, <3>1, <3>2, <3>4, <3>6 DEF HearingOK
    <3>8. AwaitsOne' BY <2>1, <3>1, <3>2, <3>3, <3>4, <3>5, <3>6 DEF AwaitsOne
    <3>9. GateIsReleased' BY <3>4 DEF GateIsReleased
    <3>10. UtterancesSettleOnce'
      <4>1. \A k \in 1..h.utterance : informed.settled[k] = 1
        BY <1>1, <2>1, <3>2 DEF UtterancesSettleOnce
      <4>2. ASSUME NEW k \in 1..u PROVE settled[k] = IF k = u THEN 0 ELSE 1
        <5>1. CASE k = u BY <3>3, <5>1
        <5>2. CASE k # u
          <6>1. k \in 1..h.utterance BY <1>1, <5>2 DEF u
          <6>2. QED BY <3>3, <4>1, <5>2, <6>1
        <5>3. QED BY <5>1, <5>2
      <4>3. DOMAIN settled = 1..u BY <3>3
      <4>4. QED BY <3>4, <3>5, <4>2, <4>3 DEF UtterancesSettleOnce
    <3>11. ChainInv' BY <1>1, <3>1 DEF ChainInv
    <3>12. QED BY <2>1, <3>1, <3>5, <3>7, <3>8, <3>9, <3>10, <3>11, EarMoves
  <2>4. QED BY <2>2, <2>3
\* The socket is given up, with what was awaited of it settled.
<1>9. ASSUME NEW n \in 1..MaxEars, Alive, Listens(n), Rotated(n),
             NEW settled, settled = (IF h.awaiting THEN SettledBy(h.utterance) ELSE informed.settled),
             DOMAIN informed' = DOMAIN informed, informed'.settled = settled,
             informed'.closed = informed.closed, informed'.lost = informed.lost,
             informed'.outside = informed.outside, ChainInv',
             UNCHANGED <<sendingAudio, turn, speech, dialogue>>
      PROVE  RivaInv'
  <2>1. /\ hearing' = [h EXCEPT !.awaiting = FALSE, !.gate = FALSE, !.timer = FALSE, !.ear = 0,
                                !.connecting = TRUE]
        /\ ears' = [ears EXCEPT ![n].at = "left"]
    BY <1>9 DEF Rotated
  <2>2. /\ ~hearing'.awaiting /\ ~hearing'.gate /\ hearing'.ear = 0 /\ hearing'.utterance = h.utterance
        /\ HearingOK'
    BY <1>1, <1>9, <2>1 DEF HearingOK
  <2>3. informed.settled \in Seq(Nat) /\ Len(informed.settled) = h.utterance
    BY <1>1, <1>9 DEF AwaitsOne, InformedOK
  <2>4. settled \in Seq(Nat) /\ Len(settled) = h.utterance /\ \A k \in 1..h.utterance : settled[k] = 1
    <3>1. CASE ~h.awaiting BY <1>1, <1>9, <2>3, <3>1 DEF UtterancesSettleOnce
    <3>2. CASE h.awaiting
      <4> DEFINE u == h.utterance
      <4> DEFINE x == informed.settled[u] + 1
      <4>1. u \in 1..u /\ x = 1
        BY <1>1, <1>9, <2>3, <3>2 DEF AwaitsOne, UtterancesSettleOnce
      <4>2. \A k \in 1..u : k # u => informed.settled[k] = 1
        BY <1>1, <1>9, <2>3 DEF UtterancesSettleOnce
      <4>3. settled = [informed.settled EXCEPT ![u] = x] BY <1>9, <3>2 DEF SettledBy
      <4> HIDE DEF x
      <4>4. settled \in Seq(Nat) /\ Len(settled) = Len(informed.settled) BY <2>3, <4>1, <4>3
      <4>5. \A k \in 1..u : settled[k] = 1 BY <2>3, <4>1, <4>2, <4>3
      <4>6. QED BY <2>3, <4>4, <4>5
    <3>3. QED BY <1>1, <3>1, <3>2
  <2>5. InformedOK' BY <1>1, <1>9, <2>4 DEF InformedOK
  <2>6. AwaitsOne' BY <1>9, <2>2, <2>4 DEF AwaitsOne, EarOpen
  <2>7. GateIsReleased' /\ UtterancesSettleOnce'
    BY <1>9, <2>2, <2>4 DEF GateIsReleased, UtterancesSettleOnce
  <2>8. QED BY <1>9, <2>2, <2>5, <2>6, <2>7, EarMoves
<1>10. ASSUME NEW n \in 1..MaxEars, Alive, Transcribed(n) PROVE RivaInv'
  <2>1. PICK heard \in {"nothing", "echo", "words"} :
          /\ chain' = IF heard = "words" THEN Append(chain, [kind |-> "user", stale |-> FALSE]) ELSE chain
          /\ informed' = [informed EXCEPT !.settled = SettledBy(ears[n].heard),
                                  !.latch = IF heard = "nothing" THEN FALSE ELSE @]
    BY <1>10 DEF Transcribed
  <2>2. /\ Listens(n) /\ h.awaiting /\ Rotated(n) /\ UNCHANGED <<sendingAudio, turn, speech, dialogue>>
    BY <1>10 DEF Transcribed
  <2>3. ears[n].heard = h.utterance BY <1>1, <1>10, <2>2 DEF Listens, AwaitsOne
  <2> DEFINE settled == SettledBy(h.utterance)
  <2> HIDE DEF settled
  <2>4. /\ DOMAIN informed' = DOMAIN informed /\ informed'.settled = settled
        /\ informed'.closed = informed.closed /\ informed'.lost = informed.lost
        /\ informed'.outside = informed.outside
    BY <1>1, <2>1, <2>3 DEF InformedOK, settled
  <2>5. ChainInv'
    <3>1. CASE chain' = chain BY <1>1, <2>2, <3>1 DEF ChainInv
    <3>2. CASE chain' = Append(chain, [kind |-> "user", stale |-> FALSE])
      BY <1>1, <2>2, <3>2, ChainGrows
    <3>3. QED BY <2>1, <3>1, <3>2
  <2>6. QED BY <1>9, <1>10, <2>2, <2>4, <2>5 DEF settled
<1>11. ASSUME NEW n \in 1..MaxEars, Alive, NotTranscribed(n) PROVE RivaInv'
  <2> DEFINE settled == IF h.awaiting THEN SettledBy(h.utterance) ELSE informed.settled
  <2>1. /\ Listens(n) /\ Rotated(n) /\ UNCHANGED <<sendingAudio, chain, turn, speech, dialogue>>
        /\ informed' = [informed EXCEPT !.latch = FALSE, !.settled = settled]
    BY <1>11 DEF NotTranscribed
  <2> HIDE DEF settled
  <2>2. /\ DOMAIN informed' = DOMAIN informed /\ informed'.settled = settled
        /\ informed'.closed = informed.closed /\ informed'.lost = informed.lost
        /\ informed'.outside = informed.outside
    BY <1>1, <2>1 DEF InformedOK
  <2>3. ChainInv' BY <1>1, <2>1 DEF ChainInv
  <2>4. QED BY <1>9, <1>11, <2>1, <2>2, <2>3 DEF settled
<1>12. ASSUME NEW n \in 1..MaxEars, Alive, EarShuts(n) PROVE RivaInv'
  <2>1. /\ ears[n].at = "open" /\ ears' = [ears EXCEPT ![n].at = "shut"]
        /\ UNCHANGED <<hearing, sendingAudio, chain, turn, speech, dialogue, informed>>
    BY <1>12 DEF EarShuts
  <2>2. /\ HearingOK' /\ \A k \in 1..MaxEars : ears'[k].heard = ears[k].heard
        /\ \A k : ears'[k].at = "open" => ears[k].at = "open"
    BY <1>1, <2>1 DEF HearingOK
  <2>3. EarOpen' => EarOpen BY <2>1, <2>2 DEF EarOpen
  <2>4. AwaitsOne' BY <1>1, <1>12, <2>1, <2>2, <2>3 DEF AwaitsOne
  <2>5. InformedOK' /\ GateIsReleased' /\ UtterancesSettleOnce' /\ ChainInv'
    BY <1>1, <2>1 DEF InformedOK, GateIsReleased, UtterancesSettleOnce, ChainInv, Alive
  <2>6. QED BY <1>12, <2>1, <2>2, <2>4, <2>5, EarMoves
<1>13. ASSUME NEW n \in 1..MaxEars, Alive, EarLost(n) PROVE RivaInv'
  <2>1. /\ ears' = [ears EXCEPT ![n].at = "left"]
        /\ UNCHANGED <<sendingAudio, chain, turn, speech, dialogue>>
    BY <1>13 DEF EarLost
  <2>2. ears' \in [1..MaxEars -> [at : {"unused", "open", "shut", "left"}, heard : Nat]]
    BY <1>1, <2>1 DEF HearingOK
  <2>3. CASE h.awaiting
    <3>1. /\ hearing' = [h EXCEPT !.ear = 0, !.timer = FALSE] /\ informed' = [informed EXCEPT !.lost = TRUE]
      BY <1>13, <2>3 DEF EarLost
    <3>2. HearingOK' /\ hearing'.ear = 0 /\ hearing'.gate = h.gate /\ hearing'.awaiting = h.awaiting
          /\ hearing'.buffered = h.buffered /\ hearing'.connecting = h.connecting
          /\ hearing'.utterance = h.utterance
      BY <1>1, <2>1, <2>2, <3>1 DEF HearingOK
    <3>3. /\ InformedOK' /\ informed'.lost = TRUE /\ informed'.closed = informed.closed
          /\ informed'.settled = informed.settled /\ informed'.outside = informed.outside
      BY <1>1, <3>1 DEF InformedOK
    <3>4. AwaitsOne' BY <1>1, <1>13, <2>1, <3>2, <3>3 DEF AwaitsOne, EarOpen
    <3>5. GateIsReleased' /\ UtterancesSettleOnce'
      BY <1>1, <3>2, <3>3 DEF GateIsReleased, UtterancesSettleOnce, Alive
    <3>6. ChainInv' BY <1>1, <2>1 DEF ChainInv
    <3>7. QED BY <1>13, <2>1, <3>2, <3>3, <3>4, <3>5, <3>6, EarMoves
  <2>4. CASE ~h.awaiting
    <3>1. hearing' = [h EXCEPT !.ear = 0, !.connecting = TRUE] /\ informed' = informed
      BY <1>13, <2>4 DEF EarLost
    <3>2. /\ HearingOK' /\ hearing'.ear = 0 /\ hearing'.gate = h.gate /\ hearing'.awaiting = h.awaiting
          /\ hearing'.buffered = h.buffered /\ hearing'.utterance = h.utterance
          /\ hearing'.timer = h.timer
      BY <1>1, <2>1, <2>2, <3>1 DEF HearingOK
    <3>3. InformedOK' BY <1>1, <3>1 DEF InformedOK
    <3>4. AwaitsOne' BY <1>1, <1>13, <2>1, <2>4, <3>1, <3>2 DEF AwaitsOne, EarOpen
    <3>5. GateIsReleased' /\ UtterancesSettleOnce'
      BY <1>1, <2>4, <3>1, <3>2 DEF GateIsReleased, UtterancesSettleOnce, Alive
    <3>6. ChainInv' BY <1>1, <2>1 DEF ChainInv
    <3>7. QED BY <1>13, <2>1, <3>1, <3>2, <3>3, <3>4, <3>5, <3>6, EarMoves
  <2>5. QED BY <2>3, <2>4
<1>14. QED
  BY <1>2, <1>3, <1>4, <1>5, <1>6, <1>7, <1>8, <1>10, <1>11, <1>12, <1>13 DEF EarNext

\* A step of the voice: the ear stands.
LEMMA VoiceMoves ==
  ASSUME RivaInv, UNCHANGED <<ears, hearing, sendingAudio>>, InformedOK',
         informed'.closed = informed.closed, informed'.lost = informed.lost,
         informed'.settled = informed.settled, TurnInv', ChainInv'
  PROVE  RivaInv'
BY EarStays DEF RivaInv

LEMMA VoiceNextKeeps ==
  ASSUME RivaInv, VoiceNext
  PROVE  RivaInv'
<1> DEFINE t == turn
<1>1. /\ EarInv /\ TurnInv /\ ChainInv /\ InformedOK /\ HeardInside
      /\ DOMAIN informed = {"closed", "lost", "settled", "sayings", "bargeIns", "outside", "latch"}
      /\ informed.outside = FALSE
      /\ DOMAIN t = {"kind", "step", "stale", "retried", "sentences", "waiting", "speaking", "broken"}
      /\ t.kind \in {"none", "user", "speech", "results"} /\ t.step \in {"none", "brain", "synthesis", "drain"}
      /\ {t.stale, t.speaking} \subseteq BOOLEAN /\ t.waiting \in Nat
      /\ DOMAIN speech = {"active", "owed", "voiced", "streaming"} /\ speech.active \in BOOLEAN
      /\ t.kind = "none" \/ t.stale => ~speech.active
      /\ ~speech.active /\ ~t.stale => t.step = "none" /\ ~t.speaking /\ t.waiting = 0
  BY DEF RivaInv, EarInv, InformedOK, TurnInv, NoTurn, HeardInside
\* A step of the turn that changes neither what is open nor what is queued.
<1>2. ASSUME DOMAIN t' = DOMAIN t, t'.kind = t.kind, t'.stale = t.stale,
             t'.step \in {"none", "brain", "synthesis", "drain"}, t'.speaking \in BOOLEAN, t'.waiting \in Nat,
             speech.active \/ t.stale,
             UNCHANGED <<ears, hearing, sendingAudio, chain>>,
             DOMAIN speech' = DOMAIN speech, speech'.active = speech.active, speech'.owed = speech.owed,
             DOMAIN informed' = DOMAIN informed, informed'.closed = informed.closed,
             informed'.lost = informed.lost, informed'.settled = informed.settled,
             informed'.outside = FALSE
      PROVE  RivaInv'
  <2>1. TurnInv' BY <1>1, <1>2 DEF TurnInv, HeardInside, NoTurn
  <2>2. ChainInv' BY <1>1, <1>2, ChainStays
  <2>3. InformedOK' BY <1>1, <1>2 DEF InformedOK
  <2>4. QED BY <1>2, <2>1, <2>2, <2>3, VoiceMoves
\* The turn is over.
<1>3. ASSUME t' = NoTurn, speech' = [speech EXCEPT !.active = IF Finishes THEN FALSE ELSE @],
             DOMAIN informed' = DOMAIN informed, informed'.closed = informed.closed,
             informed'.lost = informed.lost, informed'.settled = informed.settled,
             informed'.outside = FALSE, UNCHANGED <<ears, hearing, sendingAudio, chain>>
      PROVE  RivaInv'
  <2>1. DOMAIN speech' = DOMAIN speech /\ speech'.active = FALSE /\ speech'.owed = speech.owed
    BY <1>1, <1>3 DEF Finishes
  <2>2. TurnInv' BY <1>1, <1>3, <2>1, TurnEnds
  <2>3. ChainInv' BY <1>1, <1>3, <2>1, ChainStays
  <2>4. InformedOK' BY <1>1, <1>3 DEF InformedOK
  <2>5. QED BY <1>3, <2>2, <2>3, <2>4, VoiceMoves
<1>4. ASSUME TurnOver, UNCHANGED <<ears, hearing, sendingAudio, chain>> PROVE RivaInv'
  <2>1. /\ t' = NoTurn /\ speech' = [speech EXCEPT !.active = IF Finishes THEN FALSE ELSE @]
        /\ informed' = [informed EXCEPT !.latch = IF Finishes THEN FALSE ELSE @]
    BY <1>4 DEF TurnOver
  <2>2. /\ DOMAIN informed' = DOMAIN informed /\ informed'.closed = informed.closed
        /\ informed'.lost = informed.lost /\ informed'.settled = informed.settled
        /\ informed'.outside = FALSE
    BY <1>1, <2>1
  <2>3. QED BY <1>3, <1>4, <2>1, <2>2
<1>5. CASE GatewaySays
  <2>1. /\ informed' = [informed EXCEPT !.sayings = @ + 1]
        /\ UNCHANGED <<ears, hearing, sendingAudio, turn, dialogue>>
    BY <1>5 DEF GatewaySays
  <2>2. /\ InformedOK' /\ informed'.closed = informed.closed /\ informed'.lost = informed.lost
        /\ informed'.settled = informed.settled /\ informed'.outside = FALSE
    BY <1>1, <2>1 DEF InformedOK
  <2>3. CASE chain' = Waiting("user") /\ UNCHANGED speech
    <3>1. ChainInv' BY <1>1, <2>3, ChainGrows DEF Waiting
    <3>2. TurnInv' BY <1>1, <2>1, <2>2, <2>3, TurnStays
    <3>3. QED BY <2>1, <2>2, <3>1, <3>2, VoiceMoves
  <2>4. CASE Owes
    <3>1. ChainInv' /\ DOMAIN speech' = DOMAIN speech /\ speech'.active = speech.active
      BY <1>1, <2>4, OwesKeepsChain
    <3>2. TurnInv' BY <1>1, <2>1, <2>2, <3>1 DEF TurnInv, HeardInside
    <3>3. QED BY <2>1, <2>2, <3>1, <3>2, VoiceMoves
  <2>5. QED BY <1>5, <2>3, <2>4 DEF GatewaySays
<1>6. CASE ToolAnswered
  <2>1. UNCHANGED <<ears, hearing, sendingAudio, turn, informed>> BY <1>6 DEF ToolAnswered
  <2>2. InformedOK' /\ informed'.outside = FALSE BY <1>1, <2>1 DEF InformedOK
  <2>3. \/ Owes
        \/ UNCHANGED <<chain, speech>>
        \/ chain' = Waiting("results") /\ UNCHANGED speech
    BY <1>6 DEF ToolAnswered
  <2>4. CASE Owes
    <3>1. ChainInv' /\ DOMAIN speech' = DOMAIN speech /\ speech'.active = speech.active
      BY <1>1, <2>4, OwesKeepsChain
    <3>2. TurnInv' BY <1>1, <2>1, <2>2, <3>1 DEF TurnInv, HeardInside
    <3>3. QED BY <2>1, <2>2, <3>1, <3>2, VoiceMoves
  <2>5. CASE UNCHANGED <<chain, speech>>
    <3>1. ChainInv' BY <1>1, <2>5, ChainStays
    <3>2. TurnInv' BY <1>1, <2>1, <2>2, <2>5, TurnStays
    <3>3. QED BY <2>1, <2>2, <3>1, <3>2, VoiceMoves
  <2>6. CASE chain' = Waiting("results") /\ UNCHANGED speech
    <3>1. ChainInv' BY <1>1, <2>6, ChainGrows DEF Waiting
    <3>2. TurnInv' BY <1>1, <2>1, <2>2, <2>6, TurnStays
    <3>3. QED BY <2>1, <2>2, <3>1, <3>2, VoiceMoves
  <2>7. QED BY <2>3, <2>4, <2>5, <2>6
<1>7. CASE BargesIn
  <2>1. /\ chain' = Outdated
        /\ IF speech.active THEN turn' = [turn EXCEPT !.stale = TRUE] ELSE UNCHANGED turn
        /\ speech' = [speech EXCEPT !.active = FALSE]
        /\ informed' = [informed EXCEPT !.bargeIns = @ + 1, !.latch = IF speech.active THEN FALSE ELSE @]
        /\ UNCHANGED <<ears, hearing, sendingAudio, dialogue>>
    BY <1>7 DEF BargesIn
  <2>2. /\ InformedOK' /\ informed'.closed = informed.closed /\ informed'.lost = informed.lost
        /\ informed'.settled = informed.settled /\ informed'.outside = FALSE
    BY <1>1, <2>1 DEF InformedOK
  <2>3. speech'.active = FALSE /\ speech'.owed = speech.owed /\ DOMAIN speech' = DOMAIN speech
    BY <1>1, <2>1
  <2>4. TurnInv'
    <3>1. CASE speech.active
      <4>1. t' = [t EXCEPT !.stale = TRUE] BY <2>1, <3>1
      <4>2. /\ DOMAIN t' = DOMAIN t /\ t'.stale = TRUE /\ t'.kind = t.kind /\ t'.step = t.step
            /\ t'.speaking = t.speaking /\ t'.waiting = t.waiting
        BY <1>1, <4>1
      <4>3. QED BY <1>1, <2>2, <2>3, <4>2 DEF TurnInv, HeardInside
    <3>2. CASE ~speech.active BY <1>1, <2>1, <2>2, <2>3, <3>2 DEF TurnInv, HeardInside
    <3>3. QED BY <3>1, <3>2
  <2>5. ChainInv'
    <3>1. chain \in Seq(Items) /\ DOMAIN chain = 1..Len(chain) /\ Len(chain) \in Nat BY <1>1 DEF ChainInv
    <3>2. ASSUME NEW i \in 1..Len(chain)
          PROVE  /\ [chain[i] EXCEPT !.stale = @ \/ chain[i].kind = "speech"] \in Items
                 /\ [chain[i] EXCEPT !.stale = @ \/ chain[i].kind = "speech"].kind = chain[i].kind
                 /\ chain[i] \in Items
      <4>1. chain[i] \in Items BY <3>1, ElementOfSeq
      <4> DEFINE s == chain[i].stale \/ chain[i].kind = "speech"
      <4>2. s \in BOOLEAN BY <4>1 DEF Items
      <4> HIDE DEF s
      <4>3. [chain[i] EXCEPT !.stale = s] \in Items /\ [chain[i] EXCEPT !.stale = s].kind = chain[i].kind
        BY <4>1, <4>2 DEF Items
      <4>4. QED BY <4>1, <4>3 DEF s
    <3>3. chain' \in Seq(Items) /\ Len(chain') = Len(chain)
          /\ \A i \in 1..Len(chain) : chain'[i].kind = chain[i].kind
      <4>1. chain' = [i \in 1..Len(chain) |-> [chain[i] EXCEPT !.stale = @ \/ chain[i].kind = "speech"]]
        BY <2>1, <3>1 DEF Outdated
      <4>2. chain' \in [1..Len(chain) -> Items] BY <3>2, <4>1
      <4> DEFINE n == Len(chain)
      <4>3. n \in Nat /\ chain' \in [1..n -> Items] BY <3>1, <4>2
      <4>4. \A i \in 1..Len(chain) : chain'[i].kind = chain[i].kind BY <3>2, <4>1
      <4> HIDE DEF n
      <4>5. chain' \in Seq(Items) /\ Len(chain') = n BY <4>3
      <4>6. QED BY <4>4, <4>5 DEF n
    <3>4. \A i \in 1..Len(chain) : chain'[i] \in Speeches <=> chain[i] \in Speeches
      <4>1. \A i \in 1..Len(chain) : chain'[i] \in Items BY <3>3, ElementOfSeq
      <4>2. QED BY <3>2, <3>3, <4>1 DEF Speeches
    <3>5. Places(chain', Speeches) = Places(chain, Speeches) BY <3>3, <3>4 DEF Places
    <3>6. QED BY <1>1, <2>3, <3>3, <3>5 DEF ChainInv, Counted
  <2>6. QED BY <2>1, <2>2, <2>4, <2>5, VoiceMoves
<1>8. CASE ChainMoves
  <2> DEFINE next == Head(chain)
  <2> DEFINE owed == IF next.kind = "speech" THEN speech.owed - 1 ELSE speech.owed
  <2> DEFINE voiced == speech.voiced \/ next.kind = "speech"
  <2> DEFINE step == IF next.kind = "speech" THEN "synthesis" ELSE "brain"
  <2>1. /\ t.kind = "none" /\ chain # <<>> /\ chain' = Tail(chain)
        /\ UNCHANGED <<ears, hearing, sendingAudio, dialogue>>
        /\ \/ speech' = [speech EXCEPT !.owed = owed] /\ UNCHANGED <<turn, informed>>
           \/ /\ speech' = [speech EXCEPT !.owed = owed, !.active = TRUE, !.voiced = voiced]
              /\ turn' = [NoTurn EXCEPT !.kind = next.kind, !.step = step]
              /\ informed' = [informed EXCEPT !.latch = TRUE]
    BY <1>8 DEF ChainMoves, Opened
  <2>2. chain \in Seq(Items) /\ chain' \in Seq(Items) /\ next \in Items
    BY <1>1, <2>1, HeadTailProperties DEF ChainInv
  <2>3. /\ Counted(chain, Speeches) = Counted(chain', Speeches) + (IF next \in Speeches THEN 1 ELSE 0)
        /\ Counted(chain', Speeches) \in Nat
        /\ next \in Speeches <=> next.kind = "speech"
    BY <2>1, <2>2, CountTail, PlacesFinite DEF Speeches
  <2>4. next.kind \in {"user", "speech", "results"} /\ step \in {"brain", "synthesis"} BY <2>2 DEF Items
  <2>5. owed = Counted(chain', Speeches)
    <3>1. speech.owed = Counted(chain, Speeches) BY <1>1 DEF ChainInv
    <3> HIDE DEF next
    <3>2. QED BY <2>3, <3>1
  <2> HIDE DEF next, owed, voiced, step
  <2>6. CASE speech' = [speech EXCEPT !.owed = owed] /\ UNCHANGED <<turn, informed>>
    <3>1. DOMAIN speech' = DOMAIN speech /\ speech'.active = speech.active /\ speech'.owed = owed
      BY <1>1, <2>6
    <3>2. ChainInv' BY <2>2, <2>5, <3>1 DEF ChainInv
    <3>3. TurnInv' BY <1>1, <2>6, <3>1 DEF TurnInv, HeardInside
    <3>4. InformedOK' BY <1>1, <2>6 DEF InformedOK
    <3>5. QED BY <2>1, <2>6, <3>2, <3>3, <3>4, VoiceMoves
  <2>7. CASE /\ speech' = [speech EXCEPT !.owed = owed, !.active = TRUE, !.voiced = voiced]
             /\ turn' = [NoTurn EXCEPT !.kind = next.kind, !.step = step]
             /\ informed' = [informed EXCEPT !.latch = TRUE]
    <3>1. DOMAIN speech' = DOMAIN speech /\ speech'.active = TRUE /\ speech'.owed = owed
      BY <1>1, <2>7
    <3>2. ChainInv' BY <2>2, <2>5, <3>1 DEF ChainInv
    <3>3. /\ DOMAIN t' = DOMAIN NoTurn /\ t'.kind = next.kind /\ t'.step = step /\ t'.stale = FALSE
          /\ t'.speaking = FALSE /\ t'.waiting = 0
          /\ t'.stale \in BOOLEAN /\ t'.speaking \in BOOLEAN
      BY <2>7 DEF NoTurn
    <3>4. /\ InformedOK' /\ informed'.closed = informed.closed /\ informed'.lost = informed.lost
          /\ informed'.settled = informed.settled /\ informed'.outside = FALSE
      BY <1>1, <2>7 DEF InformedOK
    <3>5. /\ t'.kind \in {"user", "speech", "results"} /\ t'.step \in {"none", "brain", "synthesis", "drain"}
          /\ {t'.stale, t'.speaking} \subseteq BOOLEAN /\ t'.waiting \in Nat
          /\ DOMAIN speech' = {"active", "owed", "voiced", "streaming"}
      <4>1. t'.kind \in {"user", "speech", "results"} BY <2>4, <3>3
      <4>2. t'.step \in {"none", "brain", "synthesis", "drain"} BY <2>4, <3>3
      <4>3. {t'.stale, t'.speaking} \subseteq BOOLEAN /\ t'.waiting \in Nat
        <5>1. t'.stale \in BOOLEAN /\ t'.speaking \in BOOLEAN /\ t'.waiting \in Nat BY <3>3
        <5>2. QED BY <5>1
      <4>4. DOMAIN speech' = {"active", "owed", "voiced", "streaming"} BY <1>1, <3>1
      <4>5. QED BY <4>1, <4>2, <4>3, <4>4
    <3>6. TurnInv' BY <3>1, <3>3, <3>4, <3>5 DEF TurnInv, HeardInside
    <3>7. QED BY <2>1, <3>2, <3>4, <3>6, VoiceMoves
  <2>8. QED BY <2>1, <2>6, <2>7
<1>9. CASE Synthesized
  <2>1. /\ t.step = "synthesis" /\ t' = NoTurn
        /\ speech' = [speech EXCEPT !.active = IF Finishes THEN FALSE ELSE @]
        /\ informed' = [informed EXCEPT !.outside = @ \/ Outside, !.latch = IF Finishes THEN FALSE ELSE @]
        /\ UNCHANGED <<ears, hearing, sendingAudio, chain, dialogue>>
    BY <1>9 DEF Synthesized
  <2>2. ~Outside BY <1>1, <2>1 DEF Outside, Heard
  <2>3. /\ DOMAIN informed' = DOMAIN informed /\ informed'.closed = informed.closed
        /\ informed'.lost = informed.lost /\ informed'.settled = informed.settled
        /\ informed'.outside = (informed.outside \/ Outside)
    BY <1>1, <2>1
  <2>4. informed'.outside = FALSE BY <1>1, <2>2, <2>3
  <2>5. QED BY <1>3, <2>1, <2>3, <2>4
<1>10. CASE SynthesisFails BY <1>4, <1>10 DEF SynthesisFails
<1>11. CASE SentenceArrives
  <2> DEFINE sentences == t.sentences + 1
  <2> DEFINE waiting == t.waiting + 1
  <2>1. /\ t.step = "brain" /\ t' = [t EXCEPT !.sentences = sentences, !.waiting = waiting]
        /\ UNCHANGED <<ears, hearing, sendingAudio, chain, speech, dialogue, informed>>
    BY <1>11 DEF SentenceArrives
  <2>2. waiting \in Nat BY <1>1
  <2> HIDE DEF sentences, waiting
  <2>3. /\ DOMAIN t' = DOMAIN t /\ t'.kind = t.kind /\ t'.stale = t.stale /\ t'.step = t.step
        /\ t'.speaking = t.speaking /\ t'.waiting = waiting
    BY <1>1, <2>1
  <2>4. QED BY <1>1, <1>2, <2>1, <2>2, <2>3
<1>12. CASE SentenceBegins
  <2> DEFINE waiting == t.waiting - 1
  <2> DEFINE audible == ~t.broken /\ ~t.stale
  <2>1. /\ t.waiting > 0 /\ t' = [t EXCEPT !.waiting = waiting, !.speaking = audible]
        /\ speech' = [speech EXCEPT !.voiced = @ \/ (~t.broken /\ ~t.stale)]
        /\ UNCHANGED <<ears, hearing, sendingAudio, chain, dialogue, informed>>
    BY <1>12 DEF SentenceBegins
  <2>2. waiting \in Nat /\ audible \in BOOLEAN BY <1>1, <2>1
  <2> HIDE DEF waiting, audible
  <2>3. /\ DOMAIN t' = DOMAIN t /\ t'.kind = t.kind /\ t'.stale = t.stale /\ t'.step = t.step
        /\ t'.speaking = audible /\ t'.waiting = waiting
    BY <1>1, <2>1
  <2>4. DOMAIN speech' = DOMAIN speech /\ speech'.active = speech.active /\ speech'.owed = speech.owed
    BY <1>1, <2>1
  <2>5. speech.active \/ t.stale BY <1>1, <2>1
  <2>6. t'.step \in {"none", "brain", "synthesis", "drain"} BY <1>1, <2>3
  <2>7. QED BY <1>1, <1>2, <2>1, <2>2, <2>3, <2>4, <2>5, <2>6
<1>13. CASE SentenceEnds
  <2>1. t.speaking /\ UNCHANGED <<ears, hearing, sendingAudio, chain, speech, dialogue>>
    BY <1>13 DEF SentenceEnds
  <2>2. ~Outside /\ (speech.active \/ t.stale) BY <1>1, <2>1 DEF Outside, Heard
  <2>3. \/ t' = [t EXCEPT !.speaking = FALSE] /\ informed' = [informed EXCEPT !.outside = @ \/ Outside]
        \/ t' = [t EXCEPT !.speaking = FALSE, !.broken = TRUE] /\ informed' = informed
    BY <1>13 DEF SentenceEnds
  <2>4. /\ DOMAIN t' = DOMAIN t /\ t'.kind = t.kind /\ t'.stale = t.stale /\ t'.step = t.step
        /\ t'.speaking = FALSE /\ t'.waiting = t.waiting
    BY <1>1, <2>3
  <2>5. /\ DOMAIN informed' = DOMAIN informed /\ informed'.closed = informed.closed
        /\ informed'.lost = informed.lost /\ informed'.settled = informed.settled
        /\ informed'.outside = FALSE
    <3>1. CASE informed' = [informed EXCEPT !.outside = @ \/ Outside] BY <1>1, <2>2, <3>1
    <3>2. CASE informed' = informed BY <1>1, <3>2
    <3>3. QED BY <2>3, <3>1, <3>2
  <2>6. QED BY <1>1, <1>2, <2>1, <2>2, <2>4, <2>5
<1>14. CASE BrainIsEmpty
  <2>1. /\ t.step = "brain" /\ t' = [t EXCEPT !.retried = TRUE]
        /\ UNCHANGED <<ears, hearing, sendingAudio, chain, speech, dialogue, informed>>
    BY <1>14 DEF BrainIsEmpty, BrainStep
  <2>2. /\ DOMAIN t' = DOMAIN t /\ t'.kind = t.kind /\ t'.stale = t.stale /\ t'.step = t.step
        /\ t'.speaking = t.speaking /\ t'.waiting = t.waiting
    BY <1>1, <2>1
  <2>3. QED BY <1>1, <1>2, <2>1, <2>2
<1>15. CASE BrainSpeaks
  <2> DEFINE step == IF t.sentences > 0 THEN "drain" ELSE "synthesis"
  <2>1. /\ t.step = "brain" /\ t' = [t EXCEPT !.step = step]
        /\ speech' = [speech EXCEPT !.voiced = TRUE]
        /\ UNCHANGED <<ears, hearing, sendingAudio, chain, dialogue, informed>>
    BY <1>15 DEF BrainSpeaks
  <2>2. step \in {"drain", "synthesis"} OBVIOUS
  <2> HIDE DEF step
  <2>3. /\ DOMAIN t' = DOMAIN t /\ t'.kind = t.kind /\ t'.stale = t.stale /\ t'.step = step
        /\ t'.speaking = t.speaking /\ t'.waiting = t.waiting
    BY <1>1, <2>1
  <2>4. DOMAIN speech' = DOMAIN speech /\ speech'.active = speech.active /\ speech'.owed = speech.owed
    BY <1>1, <2>1
  <2>5. QED BY <1>1, <1>2, <2>1, <2>2, <2>3, <2>4
<1>16. CASE BrainCalls
  <2>1. /\ t.step = "brain" /\ t' = [t EXCEPT !.step = "drain"]
        /\ UNCHANGED <<ears, hearing, sendingAudio, chain, speech, informed>>
    BY <1>16 DEF BrainCalls
  <2>2. /\ DOMAIN t' = DOMAIN t /\ t'.kind = t.kind /\ t'.stale = t.stale /\ t'.step = "drain"
        /\ t'.speaking = t.speaking /\ t'.waiting = t.waiting
    BY <1>1, <2>1
  <2>3. QED BY <1>1, <1>2, <2>1, <2>2
<1>17. CASE BrainFails
  <2>1. /\ t.step = "brain" /\ t' = [t EXCEPT !.step = "drain"]
        /\ UNCHANGED <<ears, hearing, sendingAudio, chain, speech, dialogue, informed>>
    BY <1>17 DEF BrainFails, BrainStep
  <2>2. /\ DOMAIN t' = DOMAIN t /\ t'.kind = t.kind /\ t'.stale = t.stale /\ t'.step = "drain"
        /\ t'.speaking = t.speaking /\ t'.waiting = t.waiting
    BY <1>1, <2>1
  <2>3. QED BY <1>1, <1>2, <2>1, <2>2
<1>18. CASE AnswerOutdated BY <1>4, <1>18 DEF AnswerOutdated
<1>19. CASE AnswerDrained BY <1>4, <1>19 DEF AnswerDrained
<1>20. QED
  BY <1>5, <1>6, <1>7, <1>8, <1>9, <1>10, <1>11, <1>12, <1>13, <1>14, <1>15, <1>16, <1>17,
     <1>18, <1>19
  DEF VoiceNext

LEMMA RivaInvNext ==
  ASSUME RivaInv, [RivaNext]_rivaVars
  PROVE  RivaInv'
<1>1. CASE RivaNext BY <1>1, EarNextKeeps, VoiceNextKeeps DEF RivaNext
<1>2. CASE UNCHANGED rivaVars
  <2>1. EarInv'
    <3>1. InformedOK' BY <1>2 DEF RivaInv, EarInv, rivaVars, InformedOK
    <3>2. QED BY <1>2, <3>1, EarStays DEF RivaInv, rivaVars
  <2>2. TurnInv' BY <1>2, TurnStays DEF RivaInv, rivaVars
  <2>3. ChainInv' BY <1>2, ChainStays DEF RivaInv, rivaVars
  <2>4. QED BY <2>1, <2>2, <2>3 DEF RivaInv
<1>3. QED BY <1>1, <1>2

\* However ears, brain and voice interleave: whoever waits for a transcript is
\* released, an utterance that was committed is answered once, a response that
\* was opened ends before the next, no audio is passed on outside one, and what
\* a cancellation takes for queued speech is queued (riva-realtime.adapter.ts).
THEOREM RivaAlwaysKept == RivaSpec => []RivaKept
<1>1. RivaInv /\ [RivaNext]_rivaVars => RivaInv' BY RivaInvNext
<1>2. QED BY <1>1, RivaInvInit, RivaInvKept, PTL DEF RivaSpec

-----------------------------------------------------------------------------
(* The session with one speech provider *)

AskKinds == {"default", "notice", "vad"}
Messages ==
  [type : {"create"}, kind : AskKinds] \cup [type : {"input"}, after : Nat]
    \cup [type : {"commit"}] \cup [type : {"cancel"}, event : Nat, id : Nat]
Events ==
  [type : {"created", "call"}, id : Nat] \cup [type : {"done"}, id : Nat, call : BOOLEAN]
    \cup [type : {"inactive"}, event : Nat] \cup [type : {"started", "stopped"}]
VadAsks == {m \in Messages : m.type = "create" /\ m.kind = "vad"}

AdapterFields == {"closing", "pending", "active", "kind", "awaiting", "queue", "deferred",
  "cancelling", "endNotice", "cancels", "cancel", "suppressed", "terminal", "handled",
  "buffered", "skipStop", "turns"}
AdapterOK(a) ==
  /\ DOMAIN a = AdapterFields
  /\ a.closing = FALSE /\ a.pending \in AskKinds \cup {None} /\ a.active \in Nat
  /\ a.awaiting \in Nat /\ a.queue \in Seq(AskKinds)
  /\ a.deferred \in Seq([type : {"input"}, after : Nat])
  /\ a.cancelling \in BOOLEAN /\ a.endNotice \in BOOLEAN
  /\ a.cancels \subseteq [event : Nat, id : Nat]
  /\ a.turns \in Nat
ProviderOK(p) ==
  /\ DOMAIN p = {"active", "kind", "called", "last", "calls", "speech", "spoken", "answered", "collided"}
  /\ p.active \in Nat /\ p.last \in Nat /\ p.answered \in Nat /\ p.called \in BOOLEAN
  /\ p.collided = FALSE

\* The end of a response is on its way, behind the event at k.
IsDone(d, k, id) == \E j \in 1..Len(d) : j > k /\ d[j].type = "done" /\ d[j].id = id
NoCreates(u) == \A i \in 1..Len(u) : u[i].type # "create"
NoStarts(d) == \A i \in 1..Len(d) : d[i].type # "created"

\* One response at a time: the request that is pending is on its way to the
\* provider, which makes none, or its response is on its way back.
AskIsUp(a, u, d, p) ==
  /\ NoStarts(d) /\ p.active = 0
  /\ \E i \in 1..Len(u) : u[i].type = "create" /\ u[i].kind = a.pending
                          /\ \A j \in 1..Len(u) : u[j].type = "create" => j = i
StartIsDown(a, u, d, p) ==
  /\ NoCreates(u)
  /\ p.last # 0 /\ p.last \notin a.terminal
  /\ \E i \in 1..Len(d) : /\ d[i].type = "created" /\ d[i].id = p.last
                          /\ \A j \in 1..Len(d) : d[j].type = "created" => j = i
                          /\ p.active = p.last \/ IsDone(d, i, p.last)
OneAtATime(a, u, d, p) ==
  /\ a.pending = None => NoCreates(u) /\ NoStarts(d)
  /\ a.pending # None => a.active = 0 /\ (AskIsUp(a, u, d, p) \/ StartIsDown(a, u, d, p))
  /\ a.active # 0 => /\ a.active = p.last /\ a.active \notin a.terminal
                     /\ p.active = a.active \/ IsDone(d, 0, a.active)
  /\ a.pending = None /\ a.active = 0 => p.active = 0
  /\ a.cancelling => a.pending # None \/ a.active # 0

\* What is past is past: an event tells of a response that was made, its end
\* of one that is over, and a cancellation of one that was known.
ToldOf(a) == a.terminal \cup {a.active}
EventKnown(a, n, event) ==
  \/ event <= n
  \/ event > MaxAsks /\ event # MaxAsks /\ event - MaxAsks \in ToldOf(a) /\ event - MaxAsks # 0
PastIsPast(a, u, d, p, n) ==
  /\ n \in Nat /\ n <= MaxAsks
  /\ p.active \in {0, p.last} /\ a.terminal \subseteq 1..p.last
  /\ \A i \in 1..Len(d) : d[i].type \in {"created", "call", "done"} => d[i].id \in 1..p.last
  /\ \A i \in 1..Len(d) : d[i].type = "done" => d[i].id # p.active
  /\ \A c \in a.cancels : /\ EventKnown(a, n, c.event)
                          /\ c.id = 0 \/ c.id \in ToldOf(a)
                          /\ c.event > MaxAsks => c.id = c.event - MaxAsks
  /\ \A i \in 1..Len(u) : u[i].type = "cancel" =>
       /\ EventKnown(a, n, u[i].event)
       /\ \A c \in a.cancels : c.event = u[i].event => c.id = u[i].id
  /\ \A i \in 1..Len(d) : d[i].type = "inactive" =>
       /\ EventKnown(a, n, d[i].event)
       /\ \A c \in a.cancels : c.event = d[i].event /\ c.id # 0 /\ c.id = a.active =>
            \E j \in 1..i - 1 : d[j].type = "done" /\ d[j].id = c.id

\* The voice turns: those that wait for their response, with as many as
\* "extra" that are just being asked for.
VadsIn(q) == Counted(q, {"vad"})
TurnsAdd(a, u, p, extra) ==
  /\ a.awaiting = VadsIn(a.queue) + (IF a.pending = "vad" THEN 1 ELSE 0) + extra
  /\ a.turns = p.answered + Counted(u, VadAsks) + VadsIn(a.queue) + extra
  /\ a.deferred # <<>> => a.awaiting > 0
  /\ \A i \in 1..Len(a.deferred) : a.deferred[i].after <= a.turns
Before(u, i) == {j \in 1..(i - 1) : u[j] \in VadAsks}
InputsBehind(u, p) ==
  \A i \in 1..Len(u) : u[i].type = "input" => u[i].after <= p.answered + Cardinality(Before(u, i))

Shapes(a, u, d, p) ==
  AdapterOK(a) /\ u \in Seq(Messages) /\ d \in Seq(Events) /\ ProviderOK(p)

\* Responses that were cut off are over, or will not be listened to.
CutOffKnown(a, e) ==
  e \subseteq ToldOf(a) \ {0} /\ (a.active \in e => a.cancelling \/ a.suppressed = a.active)

OpenInv ==
  /\ Shapes(adapter, upward, downward, provider)
  /\ OneAtATime(adapter, upward, downward, provider)
  /\ PastIsPast(adapter, upward, downward, provider, asked)
  /\ TurnsAdd(adapter, upward, provider, 0)
  /\ CutOffKnown(adapter, ended)
  /\ adapter.handled = reported /\ resulted \subseteq reported
  /\ adapter.queue # <<>> /\ ~Busy(adapter) => reported # resulted

RealtimeInv ==
  /\ upward \in Seq(Messages) /\ ProviderOK(provider)
  /\ InputsBehind(upward, provider)
  /\ \/ adapter = ClosedAdapter
     \/ OpenInv

LEMMA RealtimeInvKept == RealtimeInv => ProviderKept
<1> SUFFICES ASSUME RealtimeInv PROVE ProviderKept OBVIOUS
<1>1. NeverCollides BY DEF RealtimeInv, ProviderOK, NeverCollides
<1>2. TurnSnapshot
  <2>1. /\ upward \in Seq(Messages) /\ DOMAIN upward = 1..Len(upward) /\ Len(upward) \in Nat
        /\ InputsBehind(upward, provider)
    BY DEF RealtimeInv
  <2>2. ASSUME NEW i \in 1..Len(upward) PROVE TurnsBefore(i) = Before(upward, i)
    <3>1. \A j \in 1..(i - 1) : j \in 1..Len(upward) BY <2>1
    <3>2. \A j \in 1..(i - 1) : upward[j] \in Messages BY <2>1, <3>1, ElementOfSeq
    <3>3. QED BY <3>2 DEF TurnsBefore, Before, VadAsks
  <2>3. QED BY <2>1, <2>2 DEF TurnSnapshot, InputsBehind
<1>3. CASE adapter = ClosedAdapter
  <2>1. adapter.awaiting = 0 /\ adapter.queue = <<>> /\ adapter.pending = None /\ adapter.closing
    BY <1>3 DEF ClosedAdapter, Fresh, None
  <2>2. {i \in DOMAIN adapter.queue : adapter.queue[i] = "vad"} = {} BY <2>1
  <2>3. TurnsAccounted BY <2>1, <2>2, FS_EmptySet DEF TurnsAccounted, None
  <2>4. NothingStuck BY <2>1 DEF NothingStuck, IsUp
  <2>5. QED BY <1>1, <1>2, <2>3, <2>4 DEF ProviderKept, TurnsKept
<1>4. CASE OpenInv
  <2>1. TurnsAccounted
    <3>1. adapter.queue \in Seq(AskKinds) BY <1>4 DEF OpenInv, Shapes, AdapterOK
    <3>2. {i \in DOMAIN adapter.queue : adapter.queue[i] = "vad"} = Places(adapter.queue, {"vad"})
      BY <3>1 DEF Places
    <3>3. VadsIn(adapter.queue) \in Nat BY <3>1, PlacesFinite DEF VadsIn
    <3> DEFINE v == VadsIn(adapter.queue)
    <3> DEFINE w == adapter.awaiting
    <3> DEFINE b == IF adapter.pending = "vad" THEN 1 ELSE 0
    <3>4. v \in Nat /\ b \in Nat /\ w = v + b + 0 BY <1>4, <3>3 DEF OpenInv, TurnsAdd
    <3>5. v = Cardinality({i \in DOMAIN adapter.queue : adapter.queue[i] = "vad"})
      BY <3>2 DEF VadsIn, Counted
    <3>6. w = v + b
      <4> HIDE DEF v, w, b
      <4>1. QED BY <3>4
    <3>7. QED BY <3>5, <3>6 DEF TurnsAccounted
  <2>2. NothingStuck
    <3> SUFFICES ASSUME upward = <<>>, downward = <<>>, provider.active = 0, reported = resulted
                 PROVE  adapter.queue = <<>> /\ adapter.deferred = <<>> /\ ~Busy(adapter)
      BY DEF NothingStuck
    <3>1. Len(upward) = 0 /\ Len(downward) = 0 OBVIOUS
    <3>2. OneAtATime(adapter, upward, downward, provider) BY <1>4 DEF OpenInv
    <3>3. \A k, id : ~IsDone(downward, k, id) BY <3>1 DEF IsDone
    <3>4. ~AskIsUp(adapter, upward, downward, provider) /\ ~StartIsDown(adapter, upward, downward, provider)
      BY <3>1 DEF AskIsUp, StartIsDown
    <3>5. adapter.pending = None /\ adapter.active = 0 /\ ~adapter.cancelling
      BY <3>2, <3>3, <3>4 DEF OneAtATime
    <3>6. ~Busy(adapter) BY <3>5 DEF Busy
    <3>7. adapter.queue = <<>> BY <1>4, <3>6 DEF OpenInv
    <3>8. VadsIn(adapter.queue) = 0
      <4>1. Places(adapter.queue, {"vad"}) = {} BY <3>7 DEF Places
      <4>2. QED BY <4>1, FS_EmptySet DEF VadsIn, Counted
    <3>9. adapter.awaiting = 0 BY <1>4, <3>5, <3>8 DEF OpenInv, TurnsAdd, None
    <3>10. adapter.deferred = <<>> BY <1>4, <3>9 DEF OpenInv, TurnsAdd
    <3>11. QED BY <3>6, <3>7, <3>10
  <2>3. QED BY <1>1, <1>2, <2>1, <2>2 DEF ProviderKept, TurnsKept
<1>5. QED BY <1>3, <1>4 DEF RealtimeInv

LEMMA RealtimeInvInit == RealtimeInit => RealtimeInv
<1> SUFFICES ASSUME RealtimeInit PROVE RealtimeInv OBVIOUS
<1>1. MaxAsks \in Nat BY RealtimeAssumption
<1>2. /\ adapter = Fresh /\ upward = <<>> /\ downward = <<>> /\ asked = 0
      /\ ended = {} /\ reported = {} /\ resulted = {}
      /\ provider.active = 0 /\ provider.last = 0 /\ provider.answered = 0 /\ ProviderOK(provider)
  BY DEF RealtimeInit, ProviderOK
<1>3. /\ DOMAIN adapter = AdapterFields /\ adapter.closing = FALSE /\ adapter.pending = None
      /\ adapter.active = 0 /\ adapter.awaiting = 0 /\ adapter.queue = <<>> /\ adapter.deferred = <<>>
      /\ adapter.cancelling = FALSE /\ adapter.endNotice = FALSE /\ adapter.cancels = {}
      /\ adapter.turns = 0 /\ adapter.terminal = {} /\ adapter.handled = {}
  BY <1>2 DEF Fresh, AdapterFields
<1>4. Len(upward) = 0 /\ Len(downward) = 0 /\ Len(adapter.deferred) = 0 /\ Len(adapter.queue) = 0
  BY <1>2, <1>3
<1>5. upward \in Seq(Messages) /\ downward \in Seq(Events)
 BY <1>2, EmptyIn
<1>6. AdapterOK(adapter)
  <2> DEFINE D == [type : {"input"}, after : Nat]
  <2>3. adapter.queue = <<>> /\ adapter.deferred = <<>> BY <1>3
  <2> HIDE DEF D
  <2>4. adapter.queue \in Seq(AskKinds)
    <3> DEFINE q == adapter.queue
    <3>1. q = <<>> BY <2>3
    <3> HIDE DEF q
    <3>2. q \in Seq(AskKinds) BY <3>1, EmptyIn
    <3>3. QED BY <3>2 DEF q
  <2>5. adapter.deferred \in Seq(D)
    <3> DEFINE q == adapter.deferred
    <3>1. q = <<>> BY <2>3
    <3> HIDE DEF q
    <3>2. q \in Seq(D) BY <3>1, EmptyIn
    <3>3. QED BY <3>2 DEF q
  <2>6. /\ DOMAIN adapter = AdapterFields /\ adapter.closing = FALSE
        /\ adapter.pending \in AskKinds \cup {None} /\ adapter.active \in Nat
        /\ adapter.awaiting \in Nat /\ adapter.turns \in Nat
        /\ adapter.cancels \subseteq [event : Nat, id : Nat]
    BY <1>3
  <2>7. adapter.cancelling \in BOOLEAN /\ adapter.endNotice \in BOOLEAN BY <1>2 DEF Fresh
  <2>8. QED BY <2>4, <2>5, <2>6, <2>7 DEF AdapterOK, D
<1>7. Shapes(adapter, upward, downward, provider) BY <1>2, <1>5, <1>6 DEF Shapes
<1>8. OneAtATime(adapter, upward, downward, provider)
  BY <1>2, <1>3, <1>4 DEF OneAtATime, NoCreates, NoStarts
<1>9. PastIsPast(adapter, upward, downward, provider, asked)
  BY <1>1, <1>2, <1>3, <1>4 DEF PastIsPast
<1>10. VadsIn(adapter.queue) = 0 /\ Counted(upward, VadAsks) = 0
  <2>1. Places(adapter.queue, {"vad"}) = {} /\ Places(upward, VadAsks) = {} BY <1>4 DEF Places
  <2>2. QED BY <2>1, FS_EmptySet DEF VadsIn, Counted
<1>11. TurnsAdd(adapter, upward, provider, 0) BY <1>2, <1>3, <1>4, <1>10 DEF TurnsAdd, None
<1>12. CutOffKnown(adapter, ended) BY <1>2, <1>3 DEF CutOffKnown, ToldOf
<1>13. InputsBehind(upward, provider) BY <1>4 DEF InputsBehind
<1>14. OpenInv BY <1>2, <1>3, <1>7, <1>8, <1>9, <1>11, <1>12 DEF OpenInv
<1>15. QED BY <1>2, <1>5, <1>13, <1>14 DEF RealtimeInv

\* All of it, with "x" voice turns that are just being asked for.
Core(a, u, d, p, n, x) ==
  /\ Shapes(a, u, d, p) /\ OneAtATime(a, u, d, p) /\ PastIsPast(a, u, d, p, n)
  /\ TurnsAdd(a, u, p, x) /\ InputsBehind(u, p)

\* What asking for a response leaves alone.
Alike(a, b) ==
  /\ b.active = a.active /\ b.terminal = a.terminal /\ b.handled = a.handled
  /\ b.cancelling = a.cancelling /\ b.suppressed = a.suppressed /\ b.cancels = a.cancels
Quieted(a) == a.queue = <<>> \/ Busy(a)
Asked(kind) == IF kind = "vad" THEN 1 ELSE 0
Sent(a, step, u, d, p, n) ==
  /\ step.out \in Seq(Messages) /\ InputsBehind(u \o step.out, p)
  /\ \/ step.a = ClosedAdapter
     \/ Core(step.a, u \o step.out, d, p, n, 0) /\ Alike(a, step.a) /\ Quieted(step.a)

LEMMA MessageIs ==
  /\ \A k \in AskKinds : /\ [type |-> "create", kind |-> k] \in Messages
                         /\ [type |-> "create", kind |-> k] \in VadAsks <=> k = "vad"
  /\ \A k \in Nat : [type |-> "input", after |-> k] \in Messages
  /\ [type |-> "commit"] \in Messages
  /\ \A e \in Nat, i \in Nat : [type |-> "cancel", event |-> e, id |-> i] \in Messages
  /\ \A m \in VadAsks : m \in Messages /\ m.type = "create" /\ m.kind = "vad"
<1>1. ASSUME NEW k \in AskKinds
      PROVE  /\ [type |-> "create", kind |-> k] \in Messages
             /\ [type |-> "create", kind |-> k] \in VadAsks <=> k = "vad"
  <2>1. [type |-> "create", kind |-> k] \in Messages BY DEF Messages
  <2>2. QED BY <2>1 DEF VadAsks
<1>2. \A k \in Nat : [type |-> "input", after |-> k] \in Messages BY DEF Messages
<1>3. [type |-> "commit"] \in Messages BY DEF Messages
<1>4. \A e \in Nat, i \in Nat : [type |-> "cancel", event |-> e, id |-> i] \in Messages BY DEF Messages
<1>5. \A m \in VadAsks : m \in Messages /\ m.type = "create" /\ m.kind = "vad" BY DEF VadAsks
<1>6. QED BY <1>1, <1>2, <1>3, <1>4, <1>5

\* The fields of a message of each type.
LEMMA MessageHas ==
  ASSUME NEW m \in Messages
  PROVE  /\ m.type = "create" => m.kind \in AskKinds
         /\ m.type = "input" => m.after \in Nat
         /\ m.type = "cancel" => m.event \in Nat /\ m.id \in Nat
BY DEF Messages

LEMMA EventHas ==
  ASSUME NEW e \in Events
  PROVE  /\ e.type \in {"created", "call", "done"} => e.id \in Nat
         /\ e.type = "done" => e.call \in BOOLEAN
         /\ e.type = "inactive" => e.event \in Nat
BY DEF Events

LEMMA InputsJoined ==
  ASSUME NEW p, ProviderOK(p), NEW u \in Seq(Messages), InputsBehind(u, p), NEW w \in Seq(Messages),
         \A i \in 1..Len(w) : w[i].type = "input" => w[i].after <= p.answered + Counted(u, VadAsks)
  PROVE  InputsBehind(u \o w, p)
<1> DEFINE v == u \o w
<1>1. /\ v \in Seq(Messages) /\ Len(u) \in Nat /\ Len(w) \in Nat
      /\ \A i \in 1..Len(u) : i \in 1..Len(v) /\ v[i] = u[i]
      /\ \A i \in 1..Len(v) : \/ i \in 1..Len(u) /\ v[i] = u[i]
                              \/ i - Len(u) \in 1..Len(w) /\ v[i] = w[i - Len(u)]
  BY Joined
<1> HIDE DEF v
<1>2. IsFiniteSet(Places(u, VadAsks)) /\ Counted(u, VadAsks) \in Nat BY PlacesFinite
<1> SUFFICES ASSUME NEW i \in 1..Len(v), v[i].type = "input"
             PROVE  v[i].after <= p.answered + Cardinality(Before(v, i))
  BY DEF InputsBehind, v
<1>3. p.answered \in Nat BY DEF ProviderOK
<1>4. IsFiniteSet(Before(v, i)) /\ Cardinality(Before(v, i)) \in Nat
  <2>1. i \in Int /\ IsFiniteSet(1..(i - 1)) BY <1>1, FS_Interval
  <2>2. Before(v, i) \in SUBSET (1..(i - 1)) BY DEF Before
  <2>3. QED BY <2>1, <2>2, FS_Subset, FS_CardinalityType
<1>5. CASE i \in 1..Len(u) /\ v[i] = u[i]
  <2>1. Before(v, i) = Before(u, i)
    <3>1. \A j \in 1..(i - 1) : j \in 1..Len(u) BY <1>1, <1>5
    <3>2. QED BY <1>1, <3>1 DEF Before
  <2>2. QED BY <1>5, <2>1 DEF InputsBehind
<1>6. CASE i - Len(u) \in 1..Len(w) /\ v[i] = w[i - Len(u)]
  <2>1. v[i] \in Messages /\ v[i].after \in Nat
    <3>1. v[i] \in Messages BY <1>1, ElementOfSeq
    <3>2. QED BY <3>1, MessageHas
  <2>2. Places(u, VadAsks) \in SUBSET Before(v, i)
    <3>1. \A j \in 1..Len(u) : j \in 1..(i - 1) BY <1>1, <1>6
    <3>2. QED BY <1>1, <3>1 DEF Places, Before
  <2>3. Counted(u, VadAsks) <= Cardinality(Before(v, i)) BY <1>4, <2>2, FS_Subset DEF Counted
  <2>4. v[i].after <= p.answered + Counted(u, VadAsks) BY <1>6
  <2> DEFINE c == Counted(u, VadAsks)
  <2> DEFINE b == Cardinality(Before(v, i))
  <2> DEFINE t == v[i].after
  <2> DEFINE z == p.answered
  <2>5. c \in Nat /\ b \in Nat /\ t \in Nat /\ z \in Nat /\ c <= b /\ t <= z + c
    BY <1>2, <1>3, <1>4, <2>1, <2>3, <2>4
  <2> HIDE DEF c, b, t, z
  <2>6. t <= z + b BY <2>5
  <2>7. QED BY <2>6 DEF b, t, z
<1>7. QED BY <1>1, <1>5, <1>6

LEMMA PastSent ==
  ASSUME NEW a, NEW b, NEW d, NEW p, NEW n, NEW u \in Seq(Messages), NEW w \in Seq(Messages),
         PastIsPast(a, u, d, p, n), \A i \in 1..Len(w) : w[i].type # "cancel", Alike(a, b)
  PROVE  PastIsPast(b, u \o w, d, p, n)
<1> DEFINE v == u \o w
<1>1. \A i \in 1..Len(v) : \/ i \in 1..Len(u) /\ v[i] = u[i]
                           \/ i - Len(u) \in 1..Len(w) /\ v[i] = w[i - Len(u)]
  BY Joined
<1> HIDE DEF v
<1>2. ToldOf(b) = ToldOf(a) /\ b.cancels = a.cancels /\ b.terminal = a.terminal /\ b.active = a.active
  BY DEF Alike, ToldOf
<1>3. \A event : EventKnown(b, n, event) <=> EventKnown(a, n, event) BY <1>2 DEF EventKnown
<1>4. \A i \in 1..Len(v) : v[i].type = "cancel" => i \in 1..Len(u) /\ v[i] = u[i] BY <1>1
<1>5. QED BY <1>2, <1>3, <1>4 DEF PastIsPast, v

LEMMA OneSent ==
  ASSUME NEW a, NEW b, NEW d, NEW p, NEW u \in Seq(Messages), NEW w \in Seq(Messages),
         OneAtATime(a, u, d, p), \A i \in 1..Len(w) : w[i].type # "create",
         Alike(a, b), b.pending = a.pending
  PROVE  OneAtATime(b, u \o w, d, p)
<1> DEFINE v == u \o w
<1>1. /\ \A i \in 1..Len(u) : i \in 1..Len(v) /\ v[i] = u[i]
      /\ \A i \in 1..Len(v) : \/ i \in 1..Len(u) /\ v[i] = u[i]
                              \/ i - Len(u) \in 1..Len(w) /\ v[i] = w[i - Len(u)]
  BY Joined
<1> HIDE DEF v
<1>2. \A i \in 1..Len(v) : v[i].type = "create" => i \in 1..Len(u) /\ v[i] = u[i] BY <1>1
<1>3. NoCreates(u) => NoCreates(v) BY <1>2 DEF NoCreates
<1>4. AskIsUp(a, u, d, p) => AskIsUp(b, v, d, p)
  <2> SUFFICES ASSUME AskIsUp(a, u, d, p) PROVE AskIsUp(b, v, d, p) OBVIOUS
  <2>1. PICK i \in 1..Len(u) : /\ u[i].type = "create" /\ u[i].kind = a.pending
                               /\ \A j \in 1..Len(u) : u[j].type = "create" => j = i
    BY DEF AskIsUp
  <2>2. i \in 1..Len(v) /\ v[i] = u[i] BY <1>1
  <2>3. \A j \in 1..Len(v) : v[j].type = "create" => j = i BY <1>2, <2>1
  <2>4. QED BY <2>1, <2>2, <2>3 DEF AskIsUp
<1>5. StartIsDown(a, u, d, p) => StartIsDown(b, v, d, p) BY <1>3 DEF StartIsDown, Alike
<1>6. QED BY <1>3, <1>4, <1>5 DEF OneAtATime, Alike, v

LEMMA CreateKeeps ==
  ASSUME NEW a, NEW u, NEW d, NEW p, NEW n, NEW kind \in AskKinds,
         Core(a, u, d, p, n, Asked(kind)), ~Busy(a)
  PROVE  /\ Core(Create(a, kind).a, u \o Create(a, kind).out, d, p, n, 0)
         /\ Alike(a, Create(a, kind).a) /\ Busy(Create(a, kind).a)
         /\ Create(a, kind).out \in Seq(Messages)
<1> DEFINE b == [a EXCEPT !.pending = kind]
<1> DEFINE m == [type |-> "create", kind |-> kind]
<1> DEFINE w == <<m>>
<1>1. Create(a, kind).a = b /\ Create(a, kind).out = w BY DEF Create, Step
<1>2. /\ AdapterOK(a) /\ u \in Seq(Messages) /\ d \in Seq(Events) /\ ProviderOK(p)
      /\ OneAtATime(a, u, d, p) /\ PastIsPast(a, u, d, p, n) /\ TurnsAdd(a, u, p, Asked(kind))
      /\ InputsBehind(u, p)
  BY DEF Core, Shapes
<1>3. a.pending = None /\ a.active = 0 /\ ~a.cancelling BY DEF Busy
<1>4. /\ AdapterOK(b) /\ Alike(a, b) /\ b.pending = kind /\ b.active = 0
      /\ b.queue = a.queue /\ b.awaiting = a.awaiting /\ b.deferred = a.deferred /\ b.turns = a.turns
      /\ b.cancelling = a.cancelling /\ b.terminal = a.terminal
  BY <1>2, <1>3 DEF AdapterOK, Alike, AdapterFields
<1>5. kind # None BY DEF AskKinds, None
<1>6. /\ m \in Messages /\ (m \in VadAsks <=> kind = "vad") /\ m.type = "create" /\ m.kind = kind
  BY MessageIs
<1>7. u \o w = Append(u, m) /\ w \in Seq(Messages) /\ Len(w) = 1 /\ w[1] = m
  <2> HIDE DEF m
  <2>1. QED BY <1>2, <1>6, JoinOne
<1> HIDE DEF b, m, w
<1> DEFINE v == u \o w
<1>8. /\ v \in Seq(Messages) /\ Len(v) = Len(u) + 1 /\ Len(u) \in Nat
      /\ \A i \in 1..Len(v) : \/ i \in 1..Len(u) /\ v[i] = u[i]
                              \/ i - Len(u) \in 1..Len(w) /\ v[i] = w[i - Len(u)]
      /\ v[Len(u) + 1] = m /\ Len(u) + 1 \in 1..Len(v)
  <2>1. 1 \in 1..Len(w) BY <1>7
  <2>2. QED BY <1>2, <1>7, <2>1, Joined
<1>9. OneAtATime(b, v, d, p)
  <2>1. NoCreates(u) /\ NoStarts(d) /\ p.active = 0 BY <1>2, <1>3 DEF OneAtATime
  <2>2. \A j \in 1..Len(v) : v[j].type = "create" => j = Len(u) + 1
    BY <1>7, <1>8, <2>1 DEF NoCreates
  <2>3. AskIsUp(b, v, d, p) BY <1>4, <1>6, <1>8, <2>1, <2>2 DEF AskIsUp
  <2>4. QED BY <1>3, <1>4, <1>5, <2>3 DEF OneAtATime
<1>10. PastIsPast(b, v, d, p, n)
  <2>1. \A i \in 1..Len(w) : w[i].type # "cancel" BY <1>6, <1>7
  <2>2. QED BY <1>2, <1>4, <1>7, <2>1, PastSent
<1>11. TurnsAdd(b, v, p, 0)
  <2> DEFINE q == VadsIn(a.queue)
  <2> DEFINE c == Counted(u, VadAsks)
  <2> DEFINE e == Counted(v, VadAsks)
  <2> DEFINE k == Asked(kind)
  <2> DEFINE z == p.answered
  <2>1. q \in Nat /\ c \in Nat /\ z \in Nat /\ k \in {0, 1} /\ (kind = "vad" <=> k = 1)
    <3>1. a.queue \in Seq(AskKinds) BY <1>2 DEF AdapterOK
    <3>2. VadsIn(a.queue) \in Nat BY <3>1, PlacesFinite DEF VadsIn
    <3>3. Counted(u, VadAsks) \in Nat BY <1>2, PlacesFinite
    <3>4. QED BY <1>2, <3>2, <3>3 DEF ProviderOK, Asked
  <2>2. e = c + k
    <3>1. e = c + (IF m \in VadAsks THEN 1 ELSE 0) BY <1>2, <1>6, <1>7, CountAppend
    <3>2. QED BY <1>6, <3>1 DEF Asked
  <2>3. a.awaiting = q + 0 + k /\ a.turns = z + c + q + k
    BY <1>2, <1>3 DEF TurnsAdd, None
  <2>4. b.awaiting = a.awaiting /\ b.turns = a.turns /\ (IF b.pending = "vad" THEN 1 ELSE 0) = k
        /\ VadsIn(b.queue) = q
    BY <1>4, <2>1
  <2>5. b.deferred # <<>> => b.awaiting > 0 BY <1>2, <1>4 DEF TurnsAdd
  <2>6. \A i \in 1..Len(b.deferred) : b.deferred[i].after <= b.turns BY <1>2, <1>4 DEF TurnsAdd
  <2>7. b.awaiting = q + k + 0 /\ b.turns = z + e + q + 0
    <3> HIDE DEF q, c, e, k, z
    <3>1. QED BY <2>1, <2>2, <2>3, <2>4
  <2>8. QED BY <2>4, <2>5, <2>6, <2>7 DEF TurnsAdd
<1>12. InputsBehind(v, p)
  <2>1. \A i \in 1..Len(w) : w[i].type # "input" BY <1>6, <1>7
  <2>2. QED BY <1>2, <1>7, <2>1, InputsJoined
<1>13. Core(b, v, d, p, n, 0) BY <1>2, <1>4, <1>8, <1>9, <1>10, <1>11, <1>12 DEF Core, Shapes
<1>14. Busy(b) BY <1>4, <1>5 DEF Busy
<1>15. QED BY <1>1, <1>4, <1>7, <1>13, <1>14

\* The queue may be changed when its voice turns stay counted.
LEMMA QueueKeeps ==
  ASSUME NEW a, NEW u, NEW d, NEW p, NEW n, NEW x \in Nat, NEW y \in Nat, NEW q \in Seq(AskKinds),
         Core(a, u, d, p, n, x), VadsIn(q) + y = VadsIn(a.queue) + x
  PROVE  /\ Core([a EXCEPT !.queue = q], u, d, p, n, y)
         /\ Alike(a, [a EXCEPT !.queue = q]) /\ (Busy([a EXCEPT !.queue = q]) <=> Busy(a))
         /\ [a EXCEPT !.queue = q].queue = q
<1> DEFINE b == [a EXCEPT !.queue = q]
<1>1. /\ AdapterOK(a) /\ u \in Seq(Messages) /\ d \in Seq(Events) /\ ProviderOK(p)
      /\ OneAtATime(a, u, d, p) /\ PastIsPast(a, u, d, p, n) /\ TurnsAdd(a, u, p, x)
      /\ InputsBehind(u, p)
  BY DEF Core, Shapes
<1>2. /\ b.pending = a.pending /\ b.active = a.active /\ b.awaiting = a.awaiting /\ b.queue = q
      /\ b.deferred = a.deferred /\ b.cancelling = a.cancelling /\ b.endNotice = a.endNotice
      /\ b.cancels = a.cancels /\ b.turns = a.turns /\ b.terminal = a.terminal
      /\ b.closing = a.closing /\ DOMAIN b = DOMAIN a /\ Alike(a, b)
  BY <1>1 DEF AdapterOK, AdapterFields, Alike
<1> HIDE DEF b
<1>3. AdapterOK(b) BY <1>1, <1>2 DEF AdapterOK
<1>4. OneAtATime(b, u, d, p)
  BY <1>1, <1>2 DEF OneAtATime, AskIsUp, StartIsDown
<1>5. PastIsPast(b, u, d, p, n)
  BY <1>1, <1>2 DEF PastIsPast, EventKnown, ToldOf
<1>6. TurnsAdd(b, u, p, y)
  <2> DEFINE v == VadsIn(a.queue)
  <2> DEFINE w == VadsIn(q)
  <2> DEFINE c == Counted(u, VadAsks)
  <2> DEFINE z == p.answered
  <2> DEFINE k == IF a.pending = "vad" THEN 1 ELSE 0
  <2>1. v \in Nat /\ w \in Nat /\ c \in Nat /\ z \in Nat /\ k \in Nat
    <3>1. a.queue \in Seq(AskKinds) BY <1>1 DEF AdapterOK
    <3>2. VadsIn(a.queue) \in Nat BY <3>1, PlacesFinite DEF VadsIn
    <3>3. VadsIn(q) \in Nat BY PlacesFinite DEF VadsIn
    <3>4. Counted(u, VadAsks) \in Nat BY <1>1, PlacesFinite
    <3>5. QED BY <1>1, <3>2, <3>3, <3>4 DEF ProviderOK
  <2>2. w + y = v + x OBVIOUS
  <2>3. a.awaiting = v + k + x /\ a.turns = z + c + v + x BY <1>1 DEF TurnsAdd
  <2>4. a.awaiting = w + k + y /\ a.turns = z + c + w + y
    <3> DEFINE t == a.awaiting
    <3> DEFINE r == a.turns
    <3>1. t = v + k + x /\ r = z + c + v + x BY <2>3
    <3> HIDE DEF v, w, c, z, k, t, r
    <3>2. t = w + k + y /\ r = z + c + w + y BY <2>1, <2>2, <3>1
    <3>3. QED BY <3>2 DEF t, r
  <2>5. QED BY <1>1, <1>2, <2>4 DEF TurnsAdd
<1>7. Busy(b) <=> Busy(a) BY <1>2 DEF Busy
<1>8. Core(b, u, d, p, n, y) BY <1>1, <1>3, <1>4, <1>5, <1>6 DEF Core, Shapes
<1>9. QED BY <1>2, <1>7, <1>8 DEF b

LEMMA QueuedKeeps ==
  ASSUME NEW a, NEW u, NEW d, NEW p, NEW n, NEW kind \in AskKinds,
         Core(a, u, d, p, n, Asked(kind))
  PROVE  /\ Core([a EXCEPT !.queue = Append(@, kind)], u, d, p, n, 0)
         /\ Alike(a, [a EXCEPT !.queue = Append(@, kind)])
         /\ (Busy([a EXCEPT !.queue = Append(@, kind)]) <=> Busy(a))
<1>1. a.queue \in Seq(AskKinds) BY DEF Core, Shapes, AdapterOK
<1> DEFINE q == Append(a.queue, kind)
<1>2. q \in Seq(AskKinds) BY <1>1
<1>3. VadsIn(q) = VadsIn(a.queue) + (IF kind \in {"vad"} THEN 1 ELSE 0)
  BY <1>1, CountAppend DEF VadsIn
<1>4. VadsIn(q) = VadsIn(a.queue) + Asked(kind) BY <1>3 DEF Asked
<1>5. [a EXCEPT !.queue = Append(@, kind)] = [a EXCEPT !.queue = q] OBVIOUS
<1>6. Asked(kind) \in Nat /\ VadsIn(q) \in Nat
  <2>1. Asked(kind) \in Nat BY DEF Asked
  <2>2. VadsIn(q) \in Nat BY <1>2, PlacesFinite DEF VadsIn
  <2>3. QED BY <2>1, <2>2
<1> HIDE DEF q
<1>7. VadsIn(q) + 0 = VadsIn(a.queue) + Asked(kind)
  <2> DEFINE v == VadsIn(q)
  <2>1. v \in Nat /\ v = VadsIn(a.queue) + Asked(kind) BY <1>4, <1>6
  <2> HIDE DEF v
  <2>2. v + 0 = VadsIn(a.queue) + Asked(kind) BY <2>1
  <2>3. QED BY <2>2 DEF v
<1> DEFINE y == 0
<1> DEFINE x == Asked(kind)
<1>8. x \in Nat /\ y \in Nat /\ VadsIn(q) + y = VadsIn(a.queue) + x /\ Core(a, u, d, p, n, x)
  BY <1>6, <1>7
<1> HIDE DEF x, y
<1> DEFINE b == [a EXCEPT !.queue = q]
<1>9. Core(b, u, d, p, n, y) /\ Alike(a, b) /\ (Busy(b) <=> Busy(a)) BY <1>2, <1>8, QueueKeeps
<1>10. QED BY <1>5, <1>9 DEF y

LEMMA UnqueuedKeeps ==
  ASSUME NEW a, NEW u, NEW d, NEW p, NEW n, Core(a, u, d, p, n, 0), NEW i \in 1..Len(a.queue)
  PROVE  /\ Core([a EXCEPT !.queue = RemoveAt(@, i)], u, d, p, n, Asked(a.queue[i]))
         /\ Alike(a, [a EXCEPT !.queue = RemoveAt(@, i)])
         /\ (Busy([a EXCEPT !.queue = RemoveAt(@, i)]) <=> Busy(a))
         /\ a.queue[i] \in AskKinds
<1>1. a.queue \in Seq(AskKinds) BY DEF Core, Shapes, AdapterOK
<1> DEFINE q == RemoveAt(a.queue, i)
<1> DEFINE kind == a.queue[i]
<1>2. kind \in AskKinds BY <1>1, ElementOfSeq
<1>3. /\ q \in Seq(AskKinds) /\ Len(q) = Len(a.queue) - 1
      /\ \A j \in 1..(i - 1) : q[j] = a.queue[j]
      /\ \A j \in i..(Len(a.queue) - 1) : q[j] = a.queue[j + 1]
  BY <1>1, RemoveAtIsWithout
<1>4. [a EXCEPT !.queue = RemoveAt(@, i)] = [a EXCEPT !.queue = q] OBVIOUS
<1> HIDE DEF q
<1>5. Counted(a.queue, {"vad"}) = Counted(q, {"vad"}) + (IF a.queue[i] \in {"vad"} THEN 1 ELSE 0)
  <2> DEFINE s == a.queue
  <2>1. /\ s \in Seq(AskKinds) /\ q \in Seq(AskKinds) /\ i \in 1..Len(s) /\ Len(q) = Len(s) - 1
        /\ \A j \in 1..(i - 1) : q[j] = s[j]
    BY <1>1, <1>3
  <2>2. \A j \in i..Len(q) : q[j] = s[j + 1] BY <1>3
  <2> DEFINE K == {"vad"}
  <2> HIDE DEF s, K
  <2>3. Counted(s, K) = Counted(q, K) + (IF s[i] \in K THEN 1 ELSE 0)
    BY <2>1, <2>2, CountWithout
  <2>4. QED BY <2>3 DEF s, K
<1>6. VadsIn(a.queue) = VadsIn(q) + Asked(kind) BY <1>5 DEF Asked, VadsIn
<1>7. Asked(kind) \in Nat /\ VadsIn(a.queue) \in Nat
  <2>1. Asked(kind) \in Nat BY DEF Asked
  <2>2. VadsIn(a.queue) \in Nat BY <1>1, PlacesFinite DEF VadsIn
  <2>3. QED BY <2>1, <2>2
<1>8. VadsIn(q) + Asked(kind) = VadsIn(a.queue) + 0 BY <1>6, <1>7
<1> HIDE DEF kind
<1>9. QED BY <1>2, <1>3, <1>4, <1>7, <1>8, QueueKeeps DEF kind

LEMMA NoneSent ==
  ASSUME NEW a, NEW u, NEW d, NEW p, NEW n, Core(a, u, d, p, n, 0)
  PROVE  /\ <<>> \in Seq(Messages) /\ u \o <<>> = u
         /\ Sent(a, Still(ClosedAdapter), u, d, p, n)
         /\ Quieted(a) => Sent(a, Still(a), u, d, p, n)
<1>1. u \in Seq(Messages) /\ InputsBehind(u, p) BY DEF Core, Shapes
<1>2. <<>> \in Seq(Messages) BY EmptySeq
<1>3. u \o <<>> = u BY <1>1, ConcatEmptySeq
<1>4. \A b : Still(b).a = b /\ Still(b).out = <<>> BY DEF Still, Step
<1>5. Alike(a, a) BY DEF Alike
<1>6. QED BY <1>1, <1>2, <1>3, <1>4, <1>5 DEF Sent

LEMMA FlushedKeeps ==
  ASSUME NEW a, NEW u, NEW d, NEW p, NEW n, Core(a, u, d, p, n, 0)
  PROVE  Sent(a, Flushed(a), u, d, p, n)
<1>1. a.queue \in Seq(AskKinds) /\ a.closing = FALSE BY DEF Core, Shapes, AdapterOK
<1>2. CASE a.queue = <<>> \/ Busy(a) BY <1>1, <1>2, NoneSent DEF Flushed, Quieted
<1>3. CASE ~(a.queue = <<>> \/ Busy(a)) /\ NextAsk(a) = 0 BY <1>1, <1>3, NoneSent DEF Flushed
<1>4. CASE ~(a.queue = <<>> \/ Busy(a)) /\ NextAsk(a) # 0
  <2> DEFINE i == NextAsk(a)
  <2> DEFINE b == [a EXCEPT !.queue = RemoveAt(@, i)]
  <2> DEFINE kind == a.queue[i]
  <2>1. i \in 1..Len(a.queue)
    <3>1. Len(a.queue) \in Nat \ {0} BY <1>1, <1>4, EmptySeq
    <3>2. CASE a.awaiting > 0
      <4> DEFINE P == {j \in 1..Len(a.queue) : a.queue[j] = "vad"}
      <4>1. SelectInSeq(a.queue, LAMBDA k : k = "vad") = IF P = {} THEN 0 ELSE Min(P)
        BY DEF SelectInSeq
      <4>2. P # {} BY <1>4, <3>2, <4>1 DEF NextAsk
      <4>3. P \in SUBSET Nat OBVIOUS
      <4> HIDE DEF P
      <4>4. Min(P) \in P BY <4>2, <4>3, MinIsIn
      <4>5. i = Min(P) BY <3>2, <4>1, <4>2 DEF NextAsk
      <4>6. QED BY <4>4, <4>5 DEF P
    <3>3. CASE ~(a.awaiting > 0) BY <3>1, <3>3 DEF NextAsk
    <3>4. QED BY <3>2, <3>3
  <2>2. Flushed(a) = Create(b, kind) BY <1>1, <1>4 DEF Flushed
  <2> HIDE DEF i
  <2>3. /\ Core(b, u, d, p, n, Asked(kind)) /\ Alike(a, b) /\ (Busy(b) <=> Busy(a))
        /\ kind \in AskKinds
    BY <2>1, UnqueuedKeeps
  <2> HIDE DEF b, kind
  <2> DEFINE s == Create(b, kind)
  <2>4. /\ Core(s.a, u \o s.out, d, p, n, 0) /\ Alike(b, s.a) /\ Busy(s.a) /\ s.out \in Seq(Messages)
    BY <1>4, <2>3, CreateKeeps
  <2> HIDE DEF s
  <2>5. InputsBehind(u \o s.out, p) BY <2>4 DEF Core
  <2>6. Alike(a, s.a) BY <2>3, <2>4 DEF Alike
  <2>7. Sent(a, s, u, d, p, n) BY <2>4, <2>5, <2>6 DEF Sent, Quieted
  <2>8. QED BY <2>2, <2>7 DEF s
<1>5. QED BY <1>2, <1>3, <1>4

LEMMA RequestedKeeps ==
  ASSUME NEW a, NEW u, NEW d, NEW p, NEW n, NEW kind \in AskKinds,
         Core(a, u, d, p, n, Asked(kind))
  PROVE  Sent(a, Requested(a, kind), u, d, p, n)
<1>1. CASE ~(Busy(a) \/ a.queue # <<>>)
  <2> DEFINE s == Create(a, kind)
  <2>1. Requested(a, kind) = s BY <1>1 DEF Requested
  <2>2. /\ Core(s.a, u \o s.out, d, p, n, 0) /\ Alike(a, s.a) /\ Busy(s.a) /\ s.out \in Seq(Messages)
    BY <1>1, CreateKeeps
  <2> HIDE DEF s
  <2>3. InputsBehind(u \o s.out, p) BY <2>2 DEF Core
  <2>4. QED BY <2>1, <2>2, <2>3 DEF Sent, Quieted
<1>2. CASE (Busy(a) \/ a.queue # <<>>) /\ Merges(a, kind)
  <2>1. Asked(kind) = 0 BY <1>2 DEF Merges, Asked
  <2>2. Requested(a, kind) = Flushed(a) BY <1>2 DEF Requested
  <2>3. Core(a, u, d, p, n, 0) BY <2>1
  <2>4. QED BY <2>2, <2>3, FlushedKeeps
<1>3. CASE (Busy(a) \/ a.queue # <<>>) /\ ~Merges(a, kind)
  <2> DEFINE b == [a EXCEPT !.queue = Append(@, kind)]
  <2>1. Requested(a, kind) = Flushed(b) BY <1>3 DEF Requested
  <2>2. Core(b, u, d, p, n, 0) /\ Alike(a, b) BY QueuedKeeps
  <2> HIDE DEF b
  <2> DEFINE s == Flushed(b)
  <2>3. Sent(b, s, u, d, p, n) BY <2>2, FlushedKeeps
  <2> HIDE DEF s
  <2>4. Sent(a, s, u, d, p, n) BY <2>2, <2>3 DEF Sent, Alike
  <2>5. QED BY <2>1, <2>4 DEF s
<1>4. QED BY <1>1, <1>2, <1>3

\* Other fields of the adapter do not matter.
LEMMA SameKeeps ==
  ASSUME NEW a, NEW b, NEW u, NEW d, NEW p, NEW n, NEW x, Core(a, u, d, p, n, x),
         DOMAIN b = AdapterFields, b.closing = FALSE, b.endNotice \in BOOLEAN,
         b.pending = a.pending, b.active = a.active, b.awaiting = a.awaiting, b.queue = a.queue,
         b.deferred = a.deferred, b.cancelling = a.cancelling, b.cancels \subseteq a.cancels,
         b.turns = a.turns, b.terminal = a.terminal
  PROVE  Core(b, u, d, p, n, x)
<1>1. /\ AdapterOK(a) /\ u \in Seq(Messages) /\ d \in Seq(Events) /\ ProviderOK(p)
      /\ OneAtATime(a, u, d, p) /\ PastIsPast(a, u, d, p, n) /\ TurnsAdd(a, u, p, x)
      /\ InputsBehind(u, p)
  BY DEF Core, Shapes
<1>2. AdapterOK(b) BY <1>1 DEF AdapterOK
<1>3. OneAtATime(b, u, d, p) BY <1>1 DEF OneAtATime, AskIsUp, StartIsDown
<1>4. PastIsPast(b, u, d, p, n) BY <1>1 DEF PastIsPast, EventKnown, ToldOf
<1>5. TurnsAdd(b, u, p, x) BY <1>1 DEF TurnsAdd
<1>6. QED BY <1>1, <1>2, <1>3, <1>4, <1>5 DEF Core, Shapes

\* Messages that ask for nothing and cancel nothing.
LEMMA QuietKeeps ==
  ASSUME NEW a, NEW u, NEW d, NEW p, NEW n, NEW x, Core(a, u, d, p, n, x), NEW w \in Seq(Messages),
         \A i \in 1..Len(w) : w[i].type # "create" /\ w[i].type # "cancel",
         \A i \in 1..Len(w) : w[i].type = "input" => w[i].after <= p.answered + Counted(u, VadAsks)
  PROVE  Core(a, u \o w, d, p, n, x)
<1>1. /\ AdapterOK(a) /\ u \in Seq(Messages) /\ d \in Seq(Events) /\ ProviderOK(p)
      /\ OneAtATime(a, u, d, p) /\ PastIsPast(a, u, d, p, n) /\ TurnsAdd(a, u, p, x)
      /\ InputsBehind(u, p)
  BY DEF Core, Shapes
<1> DEFINE v == u \o w
<1>2. v \in Seq(Messages) BY <1>1, Joined
<1>3. Alike(a, a) BY DEF Alike
<1>4. OneAtATime(a, v, d, p) BY <1>1, <1>3, OneSent
<1>5. PastIsPast(a, v, d, p, n) BY <1>1, <1>3, PastSent
<1>6. Counted(v, VadAsks) = Counted(u, VadAsks)
  <2>1. \A i \in 1..Len(w) : w[i] \notin VadAsks BY DEF VadAsks
  <2>2. QED BY <1>1, <2>1, CountJoined
<1>7. InputsBehind(v, p) BY <1>1, InputsJoined
<1> HIDE DEF v
<1>8. TurnsAdd(a, v, p, x) BY <1>1, <1>6 DEF TurnsAdd
<1>9. QED BY <1>1, <1>2, <1>4, <1>5, <1>7, <1>8 DEF Core, Shapes, v

LEMMA InputKeeps ==
  ASSUME NEW a, NEW u, NEW d, NEW p, NEW n, Core(a, u, d, p, n, 0)
  PROVE  /\ Core(InputSent(a).a, u \o InputSent(a).out, d, p, n, 0)
         /\ Alike(a, InputSent(a).a) /\ InputSent(a).out \in Seq(Messages)
<1> DEFINE s == InputSent(a)
<1> DEFINE m == Input(a)
<1>1. /\ AdapterOK(a) /\ u \in Seq(Messages) /\ d \in Seq(Events) /\ ProviderOK(p)
      /\ OneAtATime(a, u, d, p) /\ PastIsPast(a, u, d, p, n) /\ TurnsAdd(a, u, p, 0)
      /\ InputsBehind(u, p)
  BY DEF Core, Shapes
<1>2. a.turns \in Nat /\ a.awaiting \in Nat BY <1>1 DEF AdapterOK
<1>3. m \in Messages /\ m.type = "input" /\ m.after = a.turns BY <1>2, MessageIs DEF Input
<1>4. m \in [type : {"input"}, after : Nat] BY <1>2 DEF Input
<1>5. CASE a.awaiting = 0
  <2> DEFINE w == <<m>>
  <2>1. s.a = a /\ s.out = w BY <1>5 DEF InputSent, Step
  <2>2. w \in Seq(Messages) /\ Len(w) = 1 /\ w[1] = m
    <3> HIDE DEF m
    <3>1. QED BY <1>1, <1>3, JoinOne
  <2>3. a.turns <= p.answered + Counted(u, VadAsks)
    <3> DEFINE q == VadsIn(a.queue)
    <3> DEFINE c == Counted(u, VadAsks)
    <3> DEFINE z == p.answered
    <3> DEFINE t == a.turns
    <3> DEFINE k == IF a.pending = "vad" THEN 1 ELSE 0
    <3>1. q \in Nat /\ c \in Nat /\ z \in Nat /\ t \in Nat /\ k \in Nat
      <4>1. a.queue \in Seq(AskKinds) BY <1>1 DEF AdapterOK
      <4>2. VadsIn(a.queue) \in Nat BY <4>1, PlacesFinite DEF VadsIn
      <4>3. Counted(u, VadAsks) \in Nat BY <1>1, PlacesFinite
      <4>4. QED BY <1>1, <1>2, <4>2, <4>3 DEF ProviderOK
    <3>2. 0 = q + k + 0 /\ t = z + c + q + 0 BY <1>1, <1>5 DEF TurnsAdd
    <3> HIDE DEF q, c, z, t, k
    <3>3. t <= z + c BY <3>1, <3>2
    <3>4. QED BY <3>3 DEF c, z, t
  <2> HIDE DEF m, w
  <2>4. /\ \A i \in 1..Len(w) : w[i].type # "create" /\ w[i].type # "cancel"
        /\ \A i \in 1..Len(w) : w[i].type = "input" => w[i].after <= p.answered + Counted(u, VadAsks)
    BY <1>3, <2>2, <2>3
  <2>5. Core(a, u \o w, d, p, n, 0) BY <2>2, <2>4, QuietKeeps
  <2>6. Alike(a, a) BY DEF Alike
  <2>7. QED BY <2>1, <2>2, <2>5, <2>6
<1>6. CASE a.awaiting # 0
  <2> DEFINE D == [type : {"input"}, after : Nat]
  <2> DEFINE q == Append(a.deferred, m)
  <2> DEFINE b == [a EXCEPT !.deferred = q]
  <2>1. s = Still(b) BY <1>6 DEF InputSent
  <2>2. s.a = b /\ s.out = <<>> BY <2>1 DEF Still, Step
  <2>3. /\ AdapterOK(b) /\ Alike(a, b) /\ b.deferred = q /\ b.awaiting = a.awaiting
        /\ b.turns = a.turns /\ b.queue = a.queue /\ b.pending = a.pending /\ b.cancels = a.cancels
        /\ b.active = a.active /\ b.terminal = a.terminal /\ b.cancelling = a.cancelling
    <3>1. a.deferred \in Seq(D) BY <1>1 DEF AdapterOK
    <3>2. m \in D BY <1>4
    <3> HIDE DEF D, m
    <3>3. q \in Seq(D) BY <3>1, <3>2
    <3> HIDE DEF q
    <3>4. QED BY <1>1, <3>3 DEF AdapterOK, AdapterFields, Alike, D
  <2>4. \A i \in 1..Len(q) : q[i].after <= a.turns
    <3>1. a.deferred \in Seq(D) BY <1>1 DEF AdapterOK
    <3>2. m \in D /\ m.after = a.turns BY <1>3, <1>4
    <3> HIDE DEF D, m
    <3>3. /\ Len(q) = Len(a.deferred) + 1 /\ Len(a.deferred) \in Nat /\ q[Len(a.deferred) + 1] = m
          /\ \A i \in 1..Len(a.deferred) : q[i] = a.deferred[i]
      BY <3>1, <3>2, AppendProperties
    <3> HIDE DEF q
    <3>4. \A i \in 1..Len(a.deferred) : a.deferred[i].after <= a.turns BY <1>1 DEF TurnsAdd
    <3>5. ASSUME NEW i \in 1..Len(q) PROVE q[i].after <= a.turns
      <4>1. CASE i \in 1..Len(a.deferred) BY <3>3, <3>4, <4>1
      <4>2. CASE i = Len(a.deferred) + 1 BY <1>2, <3>2, <3>3, <4>2
      <4>3. QED BY <3>3, <4>1, <4>2
    <3>6. QED BY <3>5
  <2> HIDE DEF q, b, m
  <2>5. TurnsAdd(b, u, p, 0)
    <3>1. b.awaiting > 0 BY <1>2, <1>6, <2>3
    <3>2. QED BY <1>1, <2>3, <2>4, <3>1 DEF TurnsAdd
  <2>6. OneAtATime(b, u, d, p) BY <1>1, <2>3 DEF OneAtATime, AskIsUp, StartIsDown
  <2>7. PastIsPast(b, u, d, p, n) BY <1>1, <2>3 DEF PastIsPast, EventKnown, ToldOf
  <2>8. Core(b, u, d, p, n, 0) BY <1>1, <2>3, <2>5, <2>6, <2>7 DEF Core, Shapes
  <2>9. u \o <<>> = u /\ <<>> \in Seq(Messages) BY NoneSent
  <2>10. QED BY <2>2, <2>3, <2>8, <2>9
<1>7. QED BY <1>5, <1>6

\* One step after another.
LEMMA ThenKeeps ==
  ASSUME NEW a, NEW u \in Seq(Messages), NEW d, NEW p, NEW n, NEW kind \in AskKinds,
         NEW b, NEW w \in Seq(Messages), Core(b, u \o w, d, p, n, Asked(kind)), Alike(a, b)
  PROVE  Sent(a, Step(Requested(b, kind).a, w \o Requested(b, kind).out), u, d, p, n)
<1> DEFINE s == Requested(b, kind)
<1> DEFINE o == w \o s.out
<1>1. Sent(b, s, u \o w, d, p, n) BY RequestedKeeps
<1> HIDE DEF s
<1>2. s.out \in Seq(Messages) BY <1>1 DEF Sent
<1>3. o \in Seq(Messages) BY <1>2, Joined
<1>4. (u \o w) \o s.out = u \o o
  <2> DEFINE x == s.out
  <2>1. x \in Seq(Messages) BY <1>2
  <2> HIDE DEF x
  <2>2. (u \o w) \o x = u \o (w \o x) BY <2>1, ConcatAssociative
  <2>3. QED BY <2>2 DEF x
<1> HIDE DEF o
<1>5. /\ InputsBehind(u \o o, p)
      /\ \/ s.a = ClosedAdapter
         \/ Core(s.a, u \o o, d, p, n, 0) /\ Alike(b, s.a) /\ Quieted(s.a)
  BY <1>1, <1>4 DEF Sent
<1>6. Alike(b, s.a) => Alike(a, s.a) BY DEF Alike
<1>7. Step(s.a, o).a = s.a /\ Step(s.a, o).out = o BY DEF Step
<1>8. Sent(a, Step(s.a, o), u, d, p, n) BY <1>3, <1>5, <1>6, <1>7 DEF Sent
<1>9. QED BY <1>8 DEF s, o

\* A request leaves the invariant as it was.
LEMMA SentIsInv ==
  ASSUME NEW a, NEW step, upward \in Seq(Messages), ProviderOK(provider'),
         Sent(a, step, upward, downward', provider', asked'), Does(step),
         CutOffKnown(a, ended'), a.handled = reported', resulted' \subseteq reported'
  PROVE  RealtimeInv'
<1> DEFINE b == step.a
<1> DEFINE v == upward \o step.out
<1>1. adapter' = b /\ upward' = v BY DEF Does
<1>2. /\ step.out \in Seq(Messages) /\ InputsBehind(v, provider')
      /\ \/ b = ClosedAdapter
         \/ Core(b, v, downward', provider', asked', 0) /\ Alike(a, b) /\ Quieted(b)
  BY DEF Sent
<1>3. v \in Seq(Messages) BY <1>2, Joined
<1> HIDE DEF b, v
<1>4. ASSUME Core(b, v, downward', provider', asked', 0), Alike(a, b), Quieted(b)
      PROVE  OpenInv'
  <2>1. CutOffKnown(b, ended') /\ b.handled = reported' BY <1>4 DEF CutOffKnown, ToldOf, Alike
  <2>2. QED BY <1>1, <1>4, <2>1 DEF OpenInv, Core, Quieted
<1>5. QED BY <1>1, <1>2, <1>3, <1>4 DEF RealtimeInv

LEMMA LaterKeeps ==
  ASSUME NEW a, NEW u, NEW d, NEW p, NEW n, NEW x, Core(a, u, d, p, n, x),
         NEW m \in Nat, n <= m, m <= MaxAsks
  PROVE  Core(a, u, d, p, m, x)
<1>1. PastIsPast(a, u, d, p, n) /\ n \in Nat BY DEF Core, PastIsPast
<1>2. u \in Seq(Messages) /\ d \in Seq(Events) /\ a.cancels \subseteq [event : Nat, id : Nat]
  BY DEF Core, Shapes, AdapterOK
<1>3. ASSUME NEW event \in Nat, EventKnown(a, n, event) PROVE EventKnown(a, m, event)
  BY <1>1, <1>3 DEF EventKnown
<1>4. \A c \in a.cancels : c.event \in Nat BY <1>2
<1>5. \A i \in 1..Len(u) : u[i].type = "cancel" => u[i].event \in Nat
  BY <1>2, ElementOfSeq, MessageHas
<1>6. \A i \in 1..Len(d) : d[i].type = "inactive" => d[i].event \in Nat
  BY <1>2, ElementOfSeq, EventHas
<1>7. PastIsPast(a, u, d, p, m) BY <1>1, <1>3, <1>4, <1>5, <1>6 DEF PastIsPast
<1>8. QED BY <1>7 DEF Core

LEMMA OpenHas ==
  ASSUME RealtimeInv, OpenInv
  PROVE  /\ Core(adapter, upward, downward, provider, asked, 0)
         /\ upward \in Seq(Messages) /\ downward \in Seq(Events)
         /\ AdapterOK(adapter) /\ ProviderOK(provider)
         /\ CutOffKnown(adapter, ended) /\ adapter.handled = reported /\ resulted \subseteq reported
BY DEF RealtimeInv, OpenInv, Core, Shapes

LEMMA SendsKept ==
  ASSUME Core(adapter, upward, downward', provider', asked', 0), Sends,
         CutOffKnown(adapter, ended'), adapter.handled = reported', resulted' \subseteq reported'
  PROVE  RealtimeInv'
<1> DEFINE s == InputSent(adapter)
<1> DEFINE b == s.a
<1> DEFINE w == s.out
<1> DEFINE t == Step(Requested(b, "default").a, w \o Requested(b, "default").out)
<1>1. Then(s, LAMBDA a : Requested(a, "default")) = t BY DEF Then
<1>2. Does(t) BY <1>1 DEF Sends
<1>3. /\ Core(b, upward \o w, downward', provider', asked', 0) /\ Alike(adapter, b)
      /\ w \in Seq(Messages)
  BY InputKeeps
<1>4. upward \in Seq(Messages) /\ ProviderOK(provider') BY DEF Core, Shapes
<1>5. "default" \in AskKinds /\ Asked("default") = 0 BY DEF AskKinds, Asked
<1> DEFINE kind == "default"
<1>6. /\ kind \in AskKinds /\ Core(b, upward \o w, downward', provider', asked', Asked(kind))
      /\ t = Step(Requested(b, kind).a, w \o Requested(b, kind).out)
  BY <1>3, <1>5
<1> HIDE DEF s, b, w, kind, t
<1>7. Sent(adapter, Step(Requested(b, kind).a, w \o Requested(b, kind).out),
           upward, downward', provider', asked')
  BY <1>3, <1>4, <1>6, ThenKeeps
<1>8. Sent(adapter, t, upward, downward', provider', asked') BY <1>6, <1>7
<1>9. QED BY <1>2, <1>4, <1>8, SentIsInv

LEMMA RequestedKept ==
  ASSUME NEW a, NEW kind \in AskKinds, Core(a, upward, downward', provider', asked', Asked(kind)),
         Does(Requested(a, kind)),
         CutOffKnown(a, ended'), a.handled = reported', resulted' \subseteq reported'
  PROVE  RealtimeInv'
<1> DEFINE s == Requested(a, kind)
<1>1. Sent(a, s, upward, downward', provider', asked') /\ Does(s) BY RequestedKeeps
<1>2. upward \in Seq(Messages) /\ ProviderOK(provider') BY DEF Core, Shapes
<1> HIDE DEF s
<1>3. QED BY <1>1, <1>2, SentIsInv

LEMMA SendsTextKept == ASSUME RealtimeInv, OpenInv, SendsText PROVE RealtimeInv'
<1>1. /\ asked' = asked + 1 /\ asked < MaxAsks /\ Sends
      /\ downward' = downward /\ provider' = provider
      /\ ended' = ended /\ reported' = reported /\ resulted' = resulted
  BY DEF SendsText, Asks
<1>2. asked \in Nat /\ MaxAsks \in Nat BY RealtimeAssumption DEF OpenInv, PastIsPast
<1>3. asked' \in Nat /\ asked <= asked' /\ asked' <= MaxAsks BY <1>1, <1>2
<1>4. Core(adapter, upward, downward', provider', asked', 0) BY <1>1, <1>3, OpenHas, LaterKeeps
<1>5. QED BY <1>1, <1>4, OpenHas, SendsKept

LEMMA SendsToolResultKept == ASSUME RealtimeInv, OpenInv, SendsToolResult PROVE RealtimeInv'
<1>1. /\ asked' = asked /\ Sends /\ downward' = downward /\ provider' = provider
      /\ ended' = ended /\ reported' = reported
      /\ \E id \in reported \ resulted : resulted' = resulted \cup {id}
  BY DEF SendsToolResult
<1>2. resulted' \subseteq reported' BY <1>1, OpenHas
<1>3. QED BY <1>1, <1>2, OpenHas, SendsKept

LEMMA SendsNoticeKept == ASSUME RealtimeInv, OpenInv, SendsNotice PROVE RealtimeInv'
<1>1. /\ asked' = asked + 1 /\ asked < MaxAsks /\ Does(Requested(adapter, "notice"))
      /\ downward' = downward /\ provider' = provider
      /\ ended' = ended /\ reported' = reported /\ resulted' = resulted
  BY DEF SendsNotice, Asks
<1>2. asked \in Nat /\ MaxAsks \in Nat BY RealtimeAssumption DEF OpenInv, PastIsPast
<1>3. asked' \in Nat /\ asked <= asked' /\ asked' <= MaxAsks BY <1>1, <1>2
<1>4. Core(adapter, upward, downward', provider', asked', 0) BY <1>1, <1>3, OpenHas, LaterKeeps
<1>5. "notice" \in AskKinds /\ Asked("notice") = 0 BY DEF AskKinds, Asked
<1>6. QED BY <1>1, <1>4, <1>5, OpenHas, RequestedKept

LEMMA StreamsAudioKept == ASSUME RealtimeInv, OpenInv, StreamsAudio PROVE RealtimeInv'
<1> DEFINE b == [adapter EXCEPT !.buffered = TRUE]
<1>1. adapter' = b /\ UNCHANGED <<upward, downward, provider, asked, ended, reported, resulted>>
  BY DEF StreamsAudio, gatewayVars
<1>2. Core(b, upward, downward, provider, asked, 0) /\ Alike(adapter, b)
      /\ b.queue = adapter.queue /\ b.pending = adapter.pending
  <2>1. /\ DOMAIN b = AdapterFields /\ b.closing = FALSE /\ b.endNotice \in BOOLEAN
        /\ b.pending = adapter.pending /\ b.active = adapter.active /\ b.awaiting = adapter.awaiting
        /\ b.queue = adapter.queue /\ b.deferred = adapter.deferred
        /\ b.cancelling = adapter.cancelling /\ b.cancels \subseteq adapter.cancels
        /\ b.turns = adapter.turns /\ b.terminal = adapter.terminal /\ Alike(adapter, b)
    BY OpenHas DEF AdapterOK, AdapterFields, Alike
  <2> HIDE DEF b
  <2>2. QED BY <2>1, OpenHas, SameKeeps
<1> HIDE DEF b
<1>3. OpenInv'
  <2>1. Busy(b) <=> Busy(adapter) BY <1>2 DEF Busy, Alike
  <2>2. CutOffKnown(b, ended) /\ b.handled = reported
    BY <1>2, OpenHas DEF CutOffKnown, ToldOf, Alike
  <2>3. QED BY <1>1, <1>2, <2>1, <2>2 DEF OpenInv, Core
<1>4. QED BY <1>1, <1>2, <1>3, OpenHas DEF RealtimeInv, Core

LEMMA EndsAudioKept == ASSUME RealtimeInv, OpenInv, EndsAudio PROVE RealtimeInv'
<1> DEFINE b == [adapter EXCEPT !.buffered = FALSE, !.skipStop = TRUE]
<1> DEFINE m == [type |-> "commit"]
<1> DEFINE w == <<m>>
<1> DEFINE t == Step(Requested(b, "default").a, w \o Requested(b, "default").out)
<1>1. /\ asked' = asked + 1 /\ asked < MaxAsks /\ Does(t)
      /\ downward' = downward /\ provider' = provider
      /\ ended' = ended /\ reported' = reported /\ resulted' = resulted
  <2>1. Then(Step(b, w), LAMBDA a : Requested(a, "default")) = t BY DEF Then, Step
  <2>2. QED BY <2>1 DEF EndsAudio, Asks
<1>2. asked \in Nat /\ MaxAsks \in Nat BY RealtimeAssumption DEF OpenInv, PastIsPast
<1>3. asked' \in Nat /\ asked <= asked' /\ asked' <= MaxAsks BY <1>1, <1>2
<1>4. Core(adapter, upward, downward', provider', asked', 0) BY <1>1, <1>3, OpenHas, LaterKeeps
<1>5. Core(b, upward, downward', provider', asked', 0) /\ Alike(adapter, b)
  <2>1. /\ DOMAIN b = AdapterFields /\ b.closing = FALSE /\ b.endNotice \in BOOLEAN
        /\ b.pending = adapter.pending /\ b.active = adapter.active /\ b.awaiting = adapter.awaiting
        /\ b.queue = adapter.queue /\ b.deferred = adapter.deferred
        /\ b.cancelling = adapter.cancelling /\ b.cancels \subseteq adapter.cancels
        /\ b.turns = adapter.turns /\ b.terminal = adapter.terminal /\ Alike(adapter, b)
    BY OpenHas DEF AdapterOK, AdapterFields, Alike
  <2> HIDE DEF b
  <2>2. QED BY <1>4, <2>1, SameKeeps
<1>6. m \in Messages /\ m.type = "commit" BY MessageIs
<1>7. w \in Seq(Messages) /\ Len(w) = 1 /\ w[1] = m
  <2> HIDE DEF m
  <2>1. QED BY <1>6, OpenHas, JoinOne
<1> DEFINE kind == "default"
<1>8. /\ kind \in AskKinds /\ Asked(kind) = 0
      /\ t = Step(Requested(b, kind).a, w \o Requested(b, kind).out)
  BY DEF AskKinds, Asked
<1> HIDE DEF b, m, w, t, kind
<1>9. Core(b, upward \o w, downward', provider', asked', 0)
  <2>1. /\ \A i \in 1..Len(w) : w[i].type # "create" /\ w[i].type # "cancel" /\ w[i].type # "input"
    BY <1>6, <1>7
  <2>2. QED BY <1>5, <1>7, <2>1, QuietKeeps
<1>10. Sent(adapter, Step(Requested(b, kind).a, w \o Requested(b, kind).out),
            upward, downward', provider', asked')
  BY <1>5, <1>7, <1>8, <1>9, OpenHas, ThenKeeps
<1>11. Sent(adapter, t, upward, downward', provider', asked') BY <1>8, <1>10
<1>12. QED BY <1>1, <1>11, OpenHas, SentIsInv

\* No cancellation with this number has been sent.
FreshCancel(a, u, d, event) ==
  /\ \A c \in a.cancels : c.event # event
  /\ \A i \in 1..Len(u) : u[i].type = "cancel" => u[i].event # event
  /\ \A i \in 1..Len(d) : d[i].type = "inactive" => d[i].event # event

LEMMA CancelledHas ==
  ASSUME NEW a, NEW id, NEW event, DOMAIN a = AdapterFields
  PROVE  /\ Cancelled(a, id, event).a.active = a.active
         /\ Cancelled(a, id, event).a.terminal = a.terminal
         /\ Cancelled(a, id, event).a.handled = a.handled
         /\ Cancelled(a, id, event).a.cancelling
BY DEF Cancelled, Step, AdapterFields

LEMMA CancelledKeeps ==
  ASSUME NEW a, NEW u, NEW d, NEW p, NEW n, NEW x, Core(a, u, d, p, n, x),
         NEW id \in Nat, NEW event \in Nat, id = 0 \/ id \in ToldOf(a), EventKnown(a, n, event),
         event > MaxAsks => id = event - MaxAsks, FreshCancel(a, u, d, event),
         a.pending # None \/ a.active # 0
  PROVE  /\ Core(Cancelled(a, id, event).a, u \o Cancelled(a, id, event).out, d, p, n, x)
         /\ Cancelled(a, id, event).out \in Seq(Messages)
<1> DEFINE b == Cancelled(a, id, event).a
<1> DEFINE m == [type |-> "cancel", event |-> event, id |-> id]
<1> DEFINE w == <<m>>
<1> DEFINE v == u \o w
<1>1. /\ AdapterOK(a) /\ u \in Seq(Messages) /\ d \in Seq(Events) /\ ProviderOK(p)
      /\ OneAtATime(a, u, d, p) /\ PastIsPast(a, u, d, p, n) /\ TurnsAdd(a, u, p, x)
      /\ InputsBehind(u, p)
  BY DEF Core, Shapes
<1>2. m \in Messages /\ m.type = "cancel" /\ m.event = event /\ m.id = id BY MessageIs
<1>3. w \in Seq(Messages) /\ Len(w) = 1 /\ w[1] = m
  <2> HIDE DEF m
  <2>1. QED BY <1>1, <1>2, JoinOne
<1>4. Cancelled(a, id, event).out = w BY DEF Cancelled, Step
<1> DEFINE c0 == [event |-> event, id |-> id]
<1>5. /\ DOMAIN b = AdapterFields /\ b.closing = a.closing /\ b.pending = a.pending
      /\ b.active = a.active /\ b.awaiting = a.awaiting /\ b.queue = a.queue
      /\ b.deferred = a.deferred /\ b.endNotice = a.endNotice /\ b.turns = a.turns
      /\ b.terminal = a.terminal /\ b.handled = a.handled
      /\ b.cancelling = TRUE /\ b.cancelling \in BOOLEAN
      /\ b.cancels = a.cancels \cup {c0}
  BY <1>1 DEF Cancelled, Step, AdapterOK, AdapterFields
<1>6. c0 \in [event : Nat, id : Nat] /\ c0.event = event /\ c0.id = id OBVIOUS
<1> HIDE DEF b, m, w, c0
<1>7. /\ \A i \in 1..Len(u) : i \in 1..Len(v) /\ v[i] = u[i]
      /\ \A i \in 1..Len(v) : \/ i \in 1..Len(u) /\ v[i] = u[i]
                              \/ i - Len(u) \in 1..Len(w) /\ v[i] = w[i - Len(u)]
      /\ v \in Seq(Messages)
  <2>1. u \in Seq(Messages) /\ w \in Seq(Messages) BY <1>1, <1>3
  <2>2. QED BY <2>1, Joined
<1> HIDE DEF v
<1>8. AdapterOK(b) BY <1>1, <1>5, <1>6 DEF AdapterOK
<1>9. OneAtATime(b, v, d, p)
  <2>1. \A i \in 1..Len(v) : v[i].type = "create" => i \in 1..Len(u) /\ v[i] = u[i]
    BY <1>2, <1>3, <1>7
  <2>2. NoCreates(u) => NoCreates(v) BY <2>1 DEF NoCreates
  <2>3. AskIsUp(a, u, d, p) => AskIsUp(b, v, d, p)
    <3> SUFFICES ASSUME AskIsUp(a, u, d, p) PROVE AskIsUp(b, v, d, p) OBVIOUS
    <3>1. PICK i \in 1..Len(u) : /\ u[i].type = "create" /\ u[i].kind = a.pending
                                 /\ \A j \in 1..Len(u) : u[j].type = "create" => j = i
      BY DEF AskIsUp
    <3>2. i \in 1..Len(v) /\ v[i] = u[i] BY <1>7
    <3>3. \A j \in 1..Len(v) : v[j].type = "create" => j = i BY <2>1, <3>1
    <3>4. QED BY <1>5, <3>1, <3>2, <3>3 DEF AskIsUp
  <2>4. StartIsDown(a, u, d, p) => StartIsDown(b, v, d, p) BY <1>5, <2>2 DEF StartIsDown
  <2>5. QED BY <1>1, <1>5, <2>2, <2>3, <2>4 DEF OneAtATime
<1>10. PastIsPast(b, v, d, p, n)
  <2>1. ToldOf(b) = ToldOf(a) BY <1>5 DEF ToldOf
  <2>2. \A e : EventKnown(b, n, e) <=> EventKnown(a, n, e) BY <2>1 DEF EventKnown
  <2>3. ASSUME NEW c \in b.cancels
        PROVE  /\ EventKnown(b, n, c.event)
               /\ c.id = 0 \/ c.id \in ToldOf(b)
               /\ c.event > MaxAsks => c.id = c.event - MaxAsks
    <3>1. CASE c \in a.cancels BY <1>1, <2>1, <2>2, <3>1 DEF PastIsPast
    <3>2. CASE c = c0 BY <1>6, <2>1, <2>2, <3>2
    <3>3. QED BY <1>5, <3>1, <3>2
  <2>4. ASSUME NEW i \in 1..Len(v), v[i].type = "cancel"
        PROVE  /\ EventKnown(b, n, v[i].event)
               /\ \A c \in b.cancels : c.event = v[i].event => c.id = v[i].id
    <3>1. CASE i \in 1..Len(u) /\ v[i] = u[i]
      <4>1. /\ EventKnown(a, n, u[i].event)
            /\ \A c \in a.cancels : c.event = u[i].event => c.id = u[i].id
        BY <1>1, <2>4, <3>1 DEF PastIsPast
      <4>2. u[i].event # event BY <2>4, <3>1 DEF FreshCancel
      <4>3. QED BY <1>5, <1>6, <2>2, <3>1, <4>1, <4>2
    <3>2. CASE i - Len(u) \in 1..Len(w) /\ v[i] = w[i - Len(u)]
      <4>1. v[i] = m BY <1>3, <3>2
      <4>2. \A c \in b.cancels : c.event = event => c = c0 BY <1>5 DEF FreshCancel
      <4>3. QED BY <1>2, <1>6, <2>2, <4>1, <4>2
    <3>3. QED BY <1>7, <3>1, <3>2
  <2>5. ASSUME NEW i \in 1..Len(d), d[i].type = "inactive"
        PROVE  /\ EventKnown(b, n, d[i].event)
               /\ \A c \in b.cancels : c.event = d[i].event /\ c.id # 0 /\ c.id = b.active =>
                    \E j \in 1..i - 1 : d[j].type = "done" /\ d[j].id = c.id
    <3>1. /\ EventKnown(a, n, d[i].event)
          /\ \A c \in a.cancels : c.event = d[i].event /\ c.id # 0 /\ c.id = a.active =>
               \E j \in 1..i - 1 : d[j].type = "done" /\ d[j].id = c.id
      BY <1>1, <2>5 DEF PastIsPast
    <3>2. d[i].event # event BY <2>5 DEF FreshCancel
    <3>3. QED BY <1>5, <1>6, <2>2, <3>1, <3>2
  <2>6. QED BY <1>1, <1>5, <2>3, <2>4, <2>5 DEF PastIsPast
<1>11. \A i \in 1..Len(w) : w[i].type # "input" /\ w[i] \notin VadAsks
  BY <1>2, <1>3 DEF VadAsks
<1>12. InputsBehind(v, p) BY <1>1, <1>3, <1>11, InputsJoined DEF v
<1>13. Counted(v, VadAsks) = Counted(u, VadAsks) BY <1>1, <1>3, <1>11, CountJoined DEF v
<1>14. TurnsAdd(b, v, p, x) BY <1>1, <1>5, <1>13 DEF TurnsAdd
<1>15. Core(b, v, d, p, n, x) BY <1>1, <1>7, <1>8, <1>9, <1>10, <1>12, <1>14 DEF Core, Shapes
<1>16. QED BY <1>3, <1>4, <1>5, <1>15 DEF b, v

LEMMA CancelsResponseKept == ASSUME RealtimeInv, OpenInv, CancelsResponse PROVE RealtimeInv'
<1> DEFINE a == adapter
<1>1. /\ asked' = asked + 1 /\ asked < MaxAsks
      /\ a.pending # None \/ a.active # 0
      /\ IF a.cancelling THEN UNCHANGED <<adapter, upward>> ELSE Does(CancelNow(a, asked'))
      /\ ended' = ended \cup ({a.active} \ {0})
      /\ downward' = downward /\ provider' = provider /\ reported' = reported /\ resulted' = resulted
  BY DEF CancelsResponse, Asks
<1>2. asked \in Nat /\ MaxAsks \in Nat BY RealtimeAssumption DEF OpenInv, PastIsPast
<1>3. asked' \in Nat /\ asked <= asked' /\ asked' <= MaxAsks BY <1>1, <1>2
<1>4. Core(a, upward, downward', provider', asked', 0) BY <1>1, <1>3, OpenHas, LaterKeeps
<1>5. Busy(a) BY <1>1 DEF Busy
<1>6. ended' \subseteq ToldOf(a) \ {0} BY <1>1, OpenHas DEF CutOffKnown, ToldOf
<1>7. CASE a.cancelling
  <2>1. CutOffKnown(a, ended') BY <1>6, <1>7 DEF CutOffKnown
  <2>2. adapter' = a /\ upward' = upward BY <1>1, <1>7
  <2>3. OpenInv' BY <1>1, <1>4, <1>5, <2>1, <2>2, OpenHas DEF OpenInv, Core
  <2>4. QED BY <1>4, <2>2, <2>3 DEF RealtimeInv, Core, Shapes
<1>8. CASE ~a.cancelling /\ (a.active = 0 /\ a.pending = "notice")
  <2> DEFINE b == [a EXCEPT !.endNotice = TRUE]
  <2>1. CancelNow(a, asked') = Still(b) BY <1>8 DEF CancelNow
  <2>2. adapter' = b /\ upward' = upward
    <3>1. adapter' = Still(b).a /\ upward' = upward \o Still(b).out BY <1>1, <1>8, <2>1 DEF Does
    <3>2. Still(b).a = b /\ Still(b).out = <<>> BY DEF Still, Step
    <3>3. upward \o <<>> = upward BY OpenHas, ConcatEmptySeq
    <3>4. QED BY <3>1, <3>2, <3>3
  <2>3. /\ DOMAIN b = AdapterFields /\ b.closing = FALSE /\ b.endNotice \in BOOLEAN
        /\ b.pending = a.pending /\ b.active = a.active /\ b.awaiting = a.awaiting
        /\ b.queue = a.queue /\ b.deferred = a.deferred
        /\ b.cancelling = a.cancelling /\ b.cancels \subseteq a.cancels
        /\ b.turns = a.turns /\ b.terminal = a.terminal /\ Alike(a, b)
    BY OpenHas DEF AdapterOK, AdapterFields, Alike
  <2> HIDE DEF b
  <2>4. Core(b, upward, downward', provider', asked', 0) BY <1>4, <2>3, SameKeeps
  <2>5. CutOffKnown(b, ended') /\ b.handled = reported
    <3>1. ended' = ended BY <1>1, <1>8
    <3>2. QED BY <2>3, <3>1, OpenHas DEF CutOffKnown, ToldOf, Alike
  <2>6. Busy(b) BY <1>5, <2>3 DEF Busy
  <2>7. OpenInv' BY <1>1, <2>2, <2>4, <2>5, <2>6, OpenHas DEF OpenInv, Core
  <2>8. QED BY <2>2, <2>4, <2>7 DEF RealtimeInv, Core, Shapes
<1>9. CASE ~a.cancelling /\ ~(a.active = 0 /\ a.pending = "notice")
  <2> DEFINE s == Cancelled(a, a.active, asked')
  <2> DEFINE b == s.a
  <2> DEFINE v == upward \o s.out
  <2>1. adapter' = b /\ upward' = v BY <1>1, <1>9 DEF CancelNow, Does
  <2>2. FreshCancel(a, upward, downward', asked')
    <3>1. \A e \in Nat : EventKnown(a, asked, e) => e # asked' BY <1>1, <1>2 DEF EventKnown
    <3>2. PastIsPast(a, upward, downward, provider, asked) BY OpenHas DEF Core
    <3>3. \A c \in a.cancels : c.event \in Nat BY OpenHas DEF AdapterOK
    <3>4. \A i \in 1..Len(upward) : upward[i].type = "cancel" => upward[i].event \in Nat
      BY OpenHas, ElementOfSeq, MessageHas
    <3>5. \A i \in 1..Len(downward) : downward[i].type = "inactive" => downward[i].event \in Nat
      BY OpenHas, ElementOfSeq, EventHas
    <3>6. QED BY <1>1, <3>1, <3>2, <3>3, <3>4, <3>5 DEF PastIsPast, FreshCancel
  <2>3. a.active \in Nat /\ a.active \in ToldOf(a) BY OpenHas DEF AdapterOK, ToldOf
  <2> DEFINE e == asked'
  <2>4. EventKnown(a, e, e) /\ ~(e > MaxAsks) /\ e \in Nat
    <3>1. e \in Nat /\ e <= MaxAsks BY <1>3
    <3> HIDE DEF e
    <3>2. e <= e /\ ~(e > MaxAsks) BY <1>2, <3>1
    <3>3. QED BY <3>1, <3>2 DEF EventKnown
  <2>5. /\ Core(b, v, downward', provider', asked', 0)
        /\ b.active = a.active /\ b.terminal = a.terminal /\ b.handled = a.handled
        /\ b.cancelling = TRUE
    <3> DEFINE id == a.active
    <3> DEFINE d == downward'
    <3> DEFINE p == provider'
    <3>1. /\ Core(a, upward, d, p, e, 0) /\ FreshCancel(a, upward, d, e) /\ id \in Nat
          /\ id \in ToldOf(a) /\ (a.pending # None \/ a.active # 0)
      BY <1>1, <1>4, <2>2, <2>3
    <3> HIDE DEF a, e, id, d, p
    <3> DEFINE t == Cancelled(a, id, e)
    <3> HIDE DEF s, b, v
    <3>4. (id = 0 \/ id \in ToldOf(a)) /\ EventKnown(a, e, e) /\ (e > MaxAsks => id = e - MaxAsks)
      BY <2>4, <3>1
    <3>2. /\ Core(t.a, upward \o t.out, d, p, e, 0)
          /\ t.a.active = a.active /\ t.a.terminal = a.terminal /\ t.a.handled = a.handled
          /\ t.a.cancelling
      <4> HIDE DEF t
      <4>1. Core(a, upward, d, p, e, 0) /\ FreshCancel(a, upward, d, e) /\ id \in Nat /\ e \in Nat
        BY <2>4, <3>1
      <4>2. a.pending # None \/ a.active # 0 BY <3>1
      <4>3. Core(Cancelled(a, id, e).a, upward \o Cancelled(a, id, e).out, d, p, e, 0)
        BY <4>1, <4>2, <3>4, CancelledKeeps
      <4>4. DOMAIN a = AdapterFields BY <4>1 DEF Core, Shapes, AdapterOK
      <4>5. /\ Cancelled(a, id, e).a.active = a.active
            /\ Cancelled(a, id, e).a.terminal = a.terminal
            /\ Cancelled(a, id, e).a.handled = a.handled
            /\ Cancelled(a, id, e).a.cancelling
        BY <4>4, CancelledHas
      <4>6. QED BY <4>3, <4>5 DEF t
    <3>3. QED BY <3>2 DEF a, e, id, d, p, s, b, v
  <2> HIDE DEF s, b, v
  <2>6. CutOffKnown(b, ended') /\ b.handled = reported
    BY <1>6, <2>5, OpenHas DEF CutOffKnown, ToldOf
  <2>7. Busy(b) BY <2>5 DEF Busy
  <2>8. OpenInv' BY <1>1, <2>1, <2>5, <2>6, <2>7, OpenHas DEF OpenInv, Core
  <2>9. QED BY <2>1, <2>5, <2>8 DEF RealtimeInv, Core, Shapes
<1>10. QED BY <1>7, <1>8, <1>9

LEMMA ClosedKept ==
  ASSUME RealtimeInv, adapter' = ClosedAdapter, upward' = upward, provider' = provider
  PROVE  RealtimeInv'
BY DEF RealtimeInv

LEMMA DoesStill ==
  ASSUME RealtimeInv, NEW b, Does(Still(b))
  PROVE  adapter' = b /\ upward' = upward
<1>1. adapter' = Still(b).a /\ upward' = upward \o Still(b).out BY DEF Does
<1>2. Still(b).a = b /\ Still(b).out = <<>> BY DEF Still, Step
<1>3. upward \o <<>> = upward BY ConcatEmptySeq DEF RealtimeInv
<1>4. QED BY <1>1, <1>2, <1>3

LEMMA ShutsDownKept == ASSUME RealtimeInv, OpenInv, ShutsDown PROVE RealtimeInv'
  BY ClosedKept DEF ShutsDown

\* An event is heard that tells nothing of a response's beginning, nor of the
\* end of the active one.
LEMMA HeardKeeps ==
  ASSUME NEW a, NEW u, NEW d, NEW p, NEW n, NEW x, Core(a, u, d, p, n, x), d # <<>>,
         Head(d).type # "created",
         Head(d).type = "done" /\ a.active # 0 => Head(d).id # a.active
  PROVE  Core(a, u, Tail(d), p, n, x)
<1> DEFINE t == Tail(d)
<1>1. /\ AdapterOK(a) /\ u \in Seq(Messages) /\ d \in Seq(Events) /\ ProviderOK(p)
      /\ OneAtATime(a, u, d, p) /\ PastIsPast(a, u, d, p, n) /\ TurnsAdd(a, u, p, x)
      /\ InputsBehind(u, p)
  BY DEF Core, Shapes
<1>2. /\ t \in Seq(Events) /\ Len(d) \in Nat /\ Len(t) = Len(d) - 1 /\ Head(d) = d[1]
      /\ \A i \in 1..Len(t) : i + 1 \in 1..Len(d) /\ t[i] = d[i + 1]
      /\ \A i \in 1..Len(d) : i # 1 => i - 1 \in 1..Len(t) /\ t[i - 1] = d[i]
  <2>1. d \in Seq(Events) BY <1>1
  <2>2. QED BY <2>1, Tailed
<1> HIDE DEF t
<1>3. NoStarts(d) => NoStarts(t) BY <1>2 DEF NoStarts
<1>4. StartIsDown(a, u, d, p) => StartIsDown(a, u, t, p)
  <2> SUFFICES ASSUME StartIsDown(a, u, d, p) PROVE StartIsDown(a, u, t, p) OBVIOUS
  <2>1. PICK i \in 1..Len(d) : /\ d[i].type = "created" /\ d[i].id = p.last
                               /\ \A j \in 1..Len(d) : d[j].type = "created" => j = i
                               /\ p.active = p.last \/ IsDone(d, i, p.last)
    BY DEF StartIsDown
  <2> DEFINE k == i - 1
  <2>2. i # 1 BY <1>2, <2>1
  <2>3. k \in 1..Len(t) /\ t[k] = d[i] BY <1>2, <2>2
  <2>4. \A j \in 1..Len(t) : t[j].type = "created" => j = k
    <3>1. \A j \in 1..Len(t) : t[j].type = "created" => j + 1 = i BY <1>2, <2>1
    <3>2. \A j \in 1..Len(t) : j + 1 = i => j = i - 1 BY <1>2
    <3>3. QED BY <3>1, <3>2
  <2>5. IsDone(d, i, p.last) => IsDone(t, k, p.last)
    <3> SUFFICES ASSUME IsDone(d, i, p.last) PROVE IsDone(t, k, p.last) OBVIOUS
    <3>1. PICK j \in 1..Len(d) : j > i /\ d[j].type = "done" /\ d[j].id = p.last BY DEF IsDone
    <3>2. j # 1 /\ j - 1 > k BY <1>2, <3>1
    <3>3. j - 1 \in 1..Len(t) /\ t[j - 1] = d[j] BY <1>2, <3>2
    <3>4. QED BY <3>1, <3>2, <3>3 DEF IsDone
  <2> HIDE DEF k
  <2>6. QED BY <2>1, <2>3, <2>4, <2>5 DEF StartIsDown
<1>5. a.active # 0 /\ IsDone(d, 0, a.active) => IsDone(t, 0, a.active)
  <2> SUFFICES ASSUME a.active # 0, IsDone(d, 0, a.active) PROVE IsDone(t, 0, a.active) OBVIOUS
  <2>1. PICK j \in 1..Len(d) : d[j].type = "done" /\ d[j].id = a.active BY DEF IsDone
  <2>2. j # 1 BY <1>2, <2>1
  <2>3. j - 1 \in 1..Len(t) /\ t[j - 1] = d[j] BY <1>2, <2>2
  <2>4. j - 1 > 0 BY <1>2, <2>3
  <2>5. QED BY <2>1, <2>3, <2>4 DEF IsDone
<1>6. AskIsUp(a, u, d, p) => AskIsUp(a, u, t, p) BY <1>3 DEF AskIsUp
<1>7. OneAtATime(a, u, t, p) BY <1>1, <1>3, <1>4, <1>5, <1>6 DEF OneAtATime
<1>8. PastIsPast(a, u, t, p, n)
  <2>1. ASSUME NEW i \in 1..Len(t), t[i].type = "inactive"
        PROVE  /\ EventKnown(a, n, t[i].event)
               /\ \A c \in a.cancels : c.event = t[i].event /\ c.id # 0 /\ c.id = a.active =>
                    \E j \in 1..i - 1 : t[j].type = "done" /\ t[j].id = c.id
    <3>1. i + 1 \in 1..Len(d) /\ t[i] = d[i + 1] /\ (i + 1) - 1 = i BY <1>2
    <3>2. /\ EventKnown(a, n, d[i + 1].event)
          /\ \A c \in a.cancels : c.event = d[i + 1].event /\ c.id # 0 /\ c.id = a.active =>
               \E j \in 1..(i + 1) - 1 : d[j].type = "done" /\ d[j].id = c.id
      BY <1>1, <2>1, <3>1 DEF PastIsPast
    <3>3. ASSUME NEW c \in a.cancels, c.event = t[i].event, c.id # 0, c.id = a.active
          PROVE  \E j \in 1..i - 1 : t[j].type = "done" /\ t[j].id = c.id
      <4>1. PICK j \in 1..i : d[j].type = "done" /\ d[j].id = c.id BY <3>1, <3>2, <3>3
      <4>2. j \in 1..Len(d) BY <1>2, <3>1
      <4>3. j # 1 BY <1>2, <3>3, <4>1
      <4>4. j - 1 \in 1..i - 1 /\ t[j - 1] = d[j] BY <1>2, <4>2, <4>3
      <4>5. QED BY <4>1, <4>4
    <3>4. QED BY <3>1, <3>2, <3>3
  <2>2. /\ \A i \in 1..Len(t) : t[i].type \in {"created", "call", "done"} => t[i].id \in 1..p.last
        /\ \A i \in 1..Len(t) : t[i].type = "done" => t[i].id # p.active
    BY <1>1, <1>2 DEF PastIsPast
  <2>3. QED BY <1>1, <2>1, <2>2 DEF PastIsPast
<1>9. QED BY <1>1, <1>2, <1>7, <1>8 DEF Core, Shapes, t

LEMMA OverHas ==
  ASSUME NEW a, NEW id, DOMAIN a = AdapterFields
  PROVE  /\ DOMAIN Over(a, id) = AdapterFields /\ Over(a, id).closing = a.closing
         /\ Over(a, id).pending = None /\ Over(a, id).active = 0
         /\ Over(a, id).awaiting = a.awaiting /\ Over(a, id).queue = a.queue
         /\ Over(a, id).deferred = a.deferred /\ Over(a, id).cancels = a.cancels
         /\ ~Over(a, id).cancelling /\ Over(a, id).cancelling \in BOOLEAN
         /\ Over(a, id).endNotice \in BOOLEAN /\ Over(a, id).turns = a.turns
         /\ Over(a, id).terminal = a.terminal \cup {id} /\ Over(a, id).handled = a.handled
BY DEF Over, AdapterFields

\* The end of the active response.
LEMMA ResponseOverKeeps ==
  ASSUME NEW a, NEW u, NEW d, NEW p, NEW n, Core(a, u, d, p, n, 0), d # <<>>,
         Head(d).type = "done", Head(d).id = a.active, a.active # 0
  PROVE  Core(Over(a, a.active), u, Tail(d), p, n, 0)
<1> DEFINE b == Over(a, a.active)
<1>1. /\ AdapterOK(a) /\ u \in Seq(Messages) /\ d \in Seq(Events) /\ ProviderOK(p)
      /\ OneAtATime(a, u, d, p) /\ PastIsPast(a, u, d, p, n) /\ TurnsAdd(a, u, p, 0)
      /\ InputsBehind(u, p)
  BY DEF Core, Shapes
<1>2. 1 \in 1..Len(d) /\ Head(d) = d[1]
  <2>1. d \in Seq(Events) BY <1>1
  <2>2. QED BY <2>1, Tailed
<1>3. /\ DOMAIN b = AdapterFields /\ b.closing = a.closing /\ b.pending = None /\ b.active = 0
      /\ b.awaiting = a.awaiting /\ b.queue = a.queue /\ b.deferred = a.deferred
      /\ b.cancels = a.cancels /\ ~b.cancelling /\ b.cancelling \in BOOLEAN
      /\ b.endNotice \in BOOLEAN /\ b.turns = a.turns /\ b.terminal = a.terminal \cup {a.active}
  <2> DEFINE id == a.active
  <2>1. DOMAIN a = AdapterFields BY <1>1 DEF AdapterOK
  <2> HIDE DEF id
  <2> DEFINE e == Over(a, id)
  <2>2. /\ DOMAIN e = AdapterFields /\ e.closing = a.closing /\ e.pending = None /\ e.active = 0
        /\ e.awaiting = a.awaiting /\ e.queue = a.queue /\ e.deferred = a.deferred
        /\ e.cancels = a.cancels /\ ~e.cancelling /\ e.cancelling \in BOOLEAN
        /\ e.endNotice \in BOOLEAN /\ e.turns = a.turns /\ e.terminal = a.terminal \cup {id}
    BY <2>1, OverHas
  <2>3. QED BY <2>2 DEF id
<1> HIDE DEF b
<1>4. a.pending = None /\ NoCreates(u) /\ NoStarts(d) /\ a.active = p.last
  BY <1>1 DEF OneAtATime
<1>5. p.active = 0
  <2>1. d[1].id # p.active /\ p.active \in {0, p.last} BY <1>1, <1>2 DEF PastIsPast
  <2>2. QED BY <1>2, <1>4, <2>1
<1>6. AdapterOK(b) BY <1>1, <1>3 DEF AdapterOK
<1>7. OneAtATime(b, u, d, p) BY <1>3, <1>4, <1>5 DEF OneAtATime
<1>8. PastIsPast(b, u, d, p, n)
  <2>1. ToldOf(a) \subseteq ToldOf(b) BY <1>3 DEF ToldOf
  <2>2. \A e : EventKnown(a, n, e) => EventKnown(b, n, e) BY <2>1 DEF EventKnown
  <2>3. a.active \in 1..p.last /\ b.terminal \subseteq 1..p.last
    <3>1. d[1].id \in 1..p.last /\ a.terminal \subseteq 1..p.last BY <1>1, <1>2 DEF PastIsPast
    <3>2. QED BY <1>2, <1>3, <3>1
  <2>4. \A c \in b.cancels : /\ EventKnown(b, n, c.event)
                             /\ c.id = 0 \/ c.id \in ToldOf(b)
                             /\ c.event > MaxAsks => c.id = c.event - MaxAsks
    BY <1>1, <1>3, <2>1, <2>2 DEF PastIsPast
  <2>5. \A i \in 1..Len(u) : u[i].type = "cancel" =>
          /\ EventKnown(b, n, u[i].event)
          /\ \A c \in b.cancels : c.event = u[i].event => c.id = u[i].id
    BY <1>1, <1>3, <2>2 DEF PastIsPast
  <2>6. \A i \in 1..Len(d) : d[i].type = "inactive" =>
          /\ EventKnown(b, n, d[i].event)
          /\ \A c \in b.cancels : ~(c.id # 0 /\ c.id = b.active)
    BY <1>1, <1>3, <2>2 DEF PastIsPast
  <2>7. QED BY <1>1, <2>3, <2>4, <2>5, <2>6 DEF PastIsPast
<1>9. TurnsAdd(b, u, p, 0) BY <1>1, <1>3, <1>4 DEF TurnsAdd
<1>10. Core(b, u, d, p, n, 0) BY <1>1, <1>6, <1>7, <1>8, <1>9 DEF Core, Shapes
<1>11. Core(b, u, Tail(d), p, n, 0) BY <1>2, <1>3, <1>10, HeardKeeps
<1>12. QED BY <1>11 DEF b

\* What the adapter knows of the event it receives.
LEMMA ReceivesHas ==
  ASSUME RealtimeInv, OpenInv, NEW type, Receives(type)
  PROVE  /\ downward # <<>> /\ Head(downward).type = type /\ downward' = Tail(downward)
         /\ Head(downward) = downward[1] /\ Head(downward) \in Events /\ 1 \in 1..Len(downward)
         /\ type \in {"created", "call", "done"} =>
              Head(downward).id \in 1..provider.last /\ provider.last \in Nat
<1>1. downward # <<>> /\ Head(downward).type = type /\ downward' = Tail(downward) BY DEF Receives
<1>2. downward \in Seq(Events) BY OpenHas
<1>3. 1 \in 1..Len(downward) /\ Head(downward) = downward[1] /\ downward[1] \in Events
  BY <1>1, <1>2, Tailed
<1>4. PastIsPast(adapter, upward, downward, provider, asked) BY OpenHas DEF Core
<1>5. type \in {"created", "call", "done"} => downward[1].id \in 1..provider.last
  BY <1>1, <1>3, <1>4 DEF PastIsPast
<1>6. provider.last \in Nat BY OpenHas DEF ProviderOK
<1>7. QED BY <1>1, <1>3, <1>5, <1>6

\* The adapter's own notes, on an event that changes nothing else.
LEMMA HearsSpeechKept == ASSUME RealtimeInv, OpenInv, HearsSpeech PROVE RealtimeInv'
<1> DEFINE a == adapter
<1> DEFINE cut == IF a.kind # "notice" THEN a.active ELSE 0
<1> DEFINE b == [a EXCEPT !.skipStop = FALSE, !.suppressed = IF cut # 0 THEN cut ELSE @]
<1>1. /\ Receives("started") /\ adapter' = b /\ ended' = ended \cup ({cut} \ {0})
      /\ upward' = upward /\ provider' = provider /\ asked' = asked
      /\ reported' = reported /\ resulted' = resulted
  BY DEF HearsSpeech
<1>2. Core(a, upward, Tail(downward), provider, asked, 0) /\ downward' = Tail(downward)
  BY <1>1, ReceivesHas, OpenHas, HeardKeeps
<1>3. /\ DOMAIN b = AdapterFields /\ b.closing = FALSE /\ b.endNotice \in BOOLEAN
      /\ b.pending = a.pending /\ b.active = a.active /\ b.awaiting = a.awaiting
      /\ b.queue = a.queue /\ b.deferred = a.deferred
      /\ b.cancelling = a.cancelling /\ b.cancels \subseteq a.cancels
      /\ b.turns = a.turns /\ b.terminal = a.terminal /\ b.handled = a.handled
      /\ b.suppressed = IF cut # 0 THEN cut ELSE a.suppressed
  BY OpenHas DEF AdapterOK, AdapterFields
<1>4. Core(b, upward, Tail(downward), provider, asked, 0)
  <2> HIDE DEF b
  <2>1. QED BY <1>2, <1>3, SameKeeps
<1>5. a.queue # <<>> /\ ~Busy(a) => reported # resulted BY DEF OpenInv
<1> HIDE DEF b
<1>6. Busy(b) <=> Busy(a) BY <1>3 DEF Busy
<1>7. CutOffKnown(b, ended')
  <2>1. ToldOf(b) = ToldOf(a) BY <1>3 DEF ToldOf
  <2>2. CutOffKnown(a, ended) BY OpenHas
  <2>3. cut = 0 \/ cut = a.active OBVIOUS
  <2>4. CASE cut = 0 BY <1>1, <1>3, <2>1, <2>2, <2>4 DEF CutOffKnown
  <2>5. CASE cut # 0
    <3>1. ended' \subseteq ToldOf(b) \ {0} BY <1>1, <2>1, <2>2, <2>3, <2>5 DEF CutOffKnown, ToldOf
    <3>2. b.suppressed = b.active BY <1>3, <2>3, <2>5
    <3>3. QED BY <3>1, <3>2 DEF CutOffKnown
  <2>6. QED BY <2>4, <2>5
<1>8. OpenInv' BY <1>1, <1>2, <1>3, <1>4, <1>5, <1>6, <1>7, OpenHas DEF OpenInv, Core
<1>9. QED BY <1>1, <1>4, <1>8 DEF RealtimeInv, Core, Shapes

LEMMA HearsPauseKept == ASSUME RealtimeInv, OpenInv, HearsPause PROVE RealtimeInv'
<1> DEFINE a == adapter
<1> DEFINE b == [a EXCEPT !.buffered = FALSE]
<1> DEFINE next == [b EXCEPT !.awaiting = @ + 1, !.turns = @ + 1]
<1> DEFINE d == Tail(downward)
<1>1. /\ Receives("stopped")
      /\ IF a.skipStop THEN Does(Still([b EXCEPT !.skipStop = FALSE]))
         ELSE IF Overflows(next, "vad") THEN Does(Still(ClosedAdapter))
         ELSE Does(Requested(next, "vad"))
      /\ provider' = provider /\ asked' = asked /\ ended' = ended
      /\ reported' = reported /\ resulted' = resulted
  BY DEF HearsPause, gatewayVars
<1>2. Core(a, upward, d, provider, asked, 0) /\ downward' = d
  BY <1>1, ReceivesHas, OpenHas, HeardKeeps
<1>3. CASE a.skipStop
  <2> DEFINE c == [b EXCEPT !.skipStop = FALSE]
  <2>1. adapter' = c /\ upward' = upward BY <1>1, <1>3, DoesStill
  <2>2. /\ DOMAIN c = AdapterFields /\ c.closing = FALSE /\ c.endNotice \in BOOLEAN
        /\ c.pending = a.pending /\ c.active = a.active /\ c.awaiting = a.awaiting
        /\ c.queue = a.queue /\ c.deferred = a.deferred
        /\ c.cancelling = a.cancelling /\ c.cancels \subseteq a.cancels
        /\ c.turns = a.turns /\ c.terminal = a.terminal /\ c.handled = a.handled
        /\ c.suppressed = a.suppressed
    BY OpenHas DEF AdapterOK, AdapterFields
  <2> HIDE DEF c
  <2>3. Core(c, upward, d, provider, asked, 0) BY <1>2, <2>2, SameKeeps
  <2>4. Busy(c) <=> Busy(a) BY <2>2 DEF Busy
  <2>5. CutOffKnown(c, ended) BY <2>2, OpenHas DEF CutOffKnown, ToldOf
  <2>6. OpenInv' BY <1>1, <1>2, <2>1, <2>2, <2>3, <2>4, <2>5, OpenHas DEF OpenInv, Core
  <2>7. QED BY <1>1, <2>1, <2>3, <2>6 DEF RealtimeInv, Core, Shapes
<1>4. CASE ~a.skipStop /\ Overflows(next, "vad")
  <2>1. adapter' = ClosedAdapter /\ upward' = upward BY <1>1, <1>4, DoesStill
  <2>2. QED BY <1>1, <2>1, ClosedKept
<1>5. CASE ~a.skipStop /\ ~Overflows(next, "vad")
  <2>1. a.awaiting \in Nat /\ a.turns \in Nat BY OpenHas DEF AdapterOK
  <2> DEFINE w == a.awaiting + 1
  <2> DEFINE t == a.turns + 1
  <2>2. w \in Nat /\ t \in Nat /\ w > 0 /\ a.turns <= t BY <2>1
  <2>3. w = a.awaiting + 1 /\ t = a.turns + 1 OBVIOUS
  <2> HIDE DEF w, t
  <2>4. /\ DOMAIN next = AdapterFields /\ next.closing = a.closing /\ next.endNotice = a.endNotice
        /\ next.pending = a.pending /\ next.active = a.active /\ next.awaiting = w
        /\ next.queue = a.queue /\ next.deferred = a.deferred
        /\ next.cancelling = a.cancelling /\ next.cancels = a.cancels
        /\ next.turns = t /\ next.terminal = a.terminal /\ next.handled = a.handled
        /\ next.suppressed = a.suppressed
    BY <2>3, OpenHas DEF AdapterOK, AdapterFields
  <2>5. Does(Requested(next, "vad")) BY <1>1, <1>5
  <2> HIDE DEF next
  <2>6. /\ AdapterOK(a) /\ upward \in Seq(Messages) /\ d \in Seq(Events) /\ ProviderOK(provider)
        /\ OneAtATime(a, upward, d, provider) /\ PastIsPast(a, upward, d, provider, asked)
        /\ TurnsAdd(a, upward, provider, 0) /\ InputsBehind(upward, provider)
    BY <1>2 DEF Core, Shapes
  <2>7. AdapterOK(next) BY <2>2, <2>4, <2>6 DEF AdapterOK
  <2>8. OneAtATime(next, upward, d, provider) BY <2>4, <2>6 DEF OneAtATime, AskIsUp, StartIsDown
  <2>9. PastIsPast(next, upward, d, provider, asked) BY <2>4, <2>6 DEF PastIsPast, EventKnown, ToldOf
  <2>10. TurnsAdd(next, upward, provider, 1)
    <3> DEFINE v == VadsIn(a.queue)
    <3> DEFINE c == Counted(upward, VadAsks)
    <3> DEFINE z == provider.answered
    <3> DEFINE k == IF a.pending = "vad" THEN 1 ELSE 0
    <3> DEFINE w0 == a.awaiting
    <3> DEFINE t0 == a.turns
    <3>1. v \in Nat /\ c \in Nat /\ z \in Nat /\ k \in Nat
      <4>1. a.queue \in Seq(AskKinds) BY <2>6 DEF AdapterOK
      <4>2. VadsIn(a.queue) \in Nat BY <4>1, PlacesFinite DEF VadsIn
      <4>3. Counted(upward, VadAsks) \in Nat BY <2>6, PlacesFinite
      <4>4. QED BY <2>6, <4>2, <4>3 DEF ProviderOK
    <3>2. w0 = v + k + 0 /\ t0 = z + c + v + 0 BY <2>6 DEF TurnsAdd
    <3>3. w = w0 + 1 /\ t = t0 + 1 BY <2>3
    <3>4. w = v + k + 1 /\ t = z + c + v + 1
      <4> HIDE DEF v, c, z, k, w0, t0
      <4>1. QED BY <3>1, <3>2, <3>3
    <3>5. \A i \in 1..Len(a.deferred) : a.deferred[i].after <= t
      <4>1. a.deferred \in Seq([type : {"input"}, after : Nat]) BY <2>6 DEF AdapterOK
      <4>2. \A i \in 1..Len(a.deferred) : a.deferred[i].after \in Nat
        <5> SUFFICES ASSUME NEW i \in 1..Len(a.deferred) PROVE a.deferred[i].after \in Nat OBVIOUS
        <5>1. a.deferred[i] \in [type : {"input"}, after : Nat] BY <4>1, ElementOfSeq
        <5>2. QED BY <5>1
      <4>3. \A i \in 1..Len(a.deferred) : a.deferred[i].after <= a.turns BY <2>6 DEF TurnsAdd
      <4>4. QED BY <2>1, <2>2, <4>2, <4>3
    <3>6. QED BY <2>2, <2>4, <3>4, <3>5 DEF TurnsAdd
  <2>11. "vad" \in AskKinds /\ Asked("vad") = 1 BY DEF AskKinds, Asked
  <2>12. Core(next, upward, d, provider, asked, 1)
    BY <2>6, <2>7, <2>8, <2>9, <2>10 DEF Core, Shapes
  <2>13. CutOffKnown(next, ended) /\ next.handled = reported
    BY <2>4, OpenHas DEF CutOffKnown, ToldOf
  <2> HIDE DEF a, d
  <2>14. QED BY <1>1, <1>2, <2>5, <2>11, <2>12, <2>13, OpenHas, RequestedKept
<1>6. QED BY <1>3, <1>4, <1>5

LEMMA ToolCalledKept == ASSUME RealtimeInv, OpenInv, ToolCalled PROVE RealtimeInv'
<1> DEFINE a == adapter
<1> DEFINE id == Head(downward).id
<1> DEFINE b == [a EXCEPT !.handled = @ \cup {id}]
<1>1. /\ Receives("call")
      /\ IF id \in a.handled \/ Suppresses(a, id) \/ id # a.active
         THEN UNCHANGED <<adapter, reported>>
         ELSE adapter' = b /\ reported' = reported \cup {id}
      /\ upward' = upward /\ provider' = provider /\ asked' = asked /\ ended' = ended
      /\ resulted' = resulted
  BY DEF ToolCalled
<1>2. Core(a, upward, Tail(downward), provider, asked, 0) /\ downward' = Tail(downward)
  BY <1>1, ReceivesHas, OpenHas, HeardKeeps
<1>3. CASE adapter' = adapter /\ reported' = reported
  <2>1. OpenInv' BY <1>1, <1>2, <1>3, OpenHas DEF OpenInv, Core
  <2>2. QED BY <1>1, <1>3, <2>1 DEF RealtimeInv
<1>4. CASE id = a.active /\ adapter' = b /\ reported' = reported \cup {id}
  <2>1. /\ DOMAIN b = AdapterFields /\ b.closing = FALSE /\ b.endNotice \in BOOLEAN
        /\ b.pending = a.pending /\ b.active = a.active /\ b.awaiting = a.awaiting
        /\ b.queue = a.queue /\ b.deferred = a.deferred
        /\ b.cancelling = a.cancelling /\ b.cancels \subseteq a.cancels
        /\ b.turns = a.turns /\ b.terminal = a.terminal /\ b.handled = a.handled \cup {id}
        /\ b.suppressed = a.suppressed
    BY OpenHas DEF AdapterOK, AdapterFields
  <2>2. id # 0
    <3>1. id \in 1..provider.last /\ provider.last \in Nat BY <1>1, ReceivesHas
    <3>2. QED BY <3>1
  <2> HIDE DEF b, id
  <2>3. Core(b, upward, Tail(downward), provider, asked, 0) BY <1>2, <2>1, SameKeeps
  <2>4. Busy(b) BY <1>4, <2>1, <2>2 DEF Busy
  <2>5. CutOffKnown(b, ended) /\ b.handled = reported'
    BY <1>4, <2>1, OpenHas DEF CutOffKnown, ToldOf
  <2>6. resulted' \subseteq reported' BY <1>1, <1>4, OpenHas
  <2>7. OpenInv' BY <1>1, <1>2, <1>4, <2>3, <2>4, <2>5, <2>6 DEF OpenInv, Core
  <2>8. QED BY <1>1, <1>4, <2>3, <2>7 DEF RealtimeInv, Core, Shapes
<1>5. QED BY <1>1, <1>3, <1>4

LEMMA ResponseEndsKept == ASSUME RealtimeInv, OpenInv, ResponseEnds PROVE RealtimeInv'
<1> DEFINE a == adapter
<1> DEFINE id == Head(downward).id
<1> DEFINE news == Head(downward).call /\ id \notin a.handled /\ ~Suppresses(a, id)
<1> DEFINE over == Over(a, id)
<1> DEFINE d == Tail(downward)
<1>1. /\ Receives("done")
      /\ IF ~Concerns(a, id) THEN UNCHANGED <<adapter, upward, reported>>
         ELSE IF news THEN Does(Still([over EXCEPT !.handled = @ \cup {id}]))
                           /\ reported' = reported \cup {id}
         ELSE Does(Flushed(over)) /\ UNCHANGED reported
      /\ provider' = provider /\ asked' = asked /\ ended' = ended /\ resulted' = resulted
  BY DEF ResponseEnds
<1>2. /\ id \in 1..provider.last /\ provider.last \in Nat /\ downward # <<>> /\ downward' = d
      /\ Head(downward).type = "done"
  BY <1>1, ReceivesHas
<1>3. CASE ~Concerns(a, id)
  <2>1. a.active # 0 => id # a.active
    <3>1. OneAtATime(a, upward, downward, provider) BY OpenHas DEF Core
    <3>2. QED BY <1>3, <3>1 DEF OneAtATime, Concerns
  <2>2. Core(a, upward, d, provider, asked, 0) BY <1>2, <2>1, OpenHas, HeardKeeps
  <2>3. OpenInv' BY <1>1, <1>2, <1>3, <2>2, OpenHas DEF OpenInv, Core
  <2>4. QED BY <1>1, <1>3, <2>3 DEF RealtimeInv
<1>4. CASE Concerns(a, id)
  <2>1. id = a.active /\ id # 0 BY <1>2, <1>4 DEF Concerns
  <2>2. Core(Over(a, a.active), upward, d, provider, asked, 0) BY <1>2, <2>1, OpenHas, ResponseOverKeeps
  <2>3. Core(over, upward, d, provider, asked, 0) BY <2>1, <2>2
  <2>4. /\ DOMAIN over = AdapterFields /\ over.closing = a.closing
        /\ over.pending = None /\ over.active = 0 /\ ~over.cancelling /\ over.cancelling \in BOOLEAN
        /\ over.endNotice \in BOOLEAN
        /\ over.terminal = a.terminal \cup {id} /\ over.handled = a.handled
    BY OpenHas, OverHas DEF AdapterOK
  <2> HIDE DEF over
  <2>5. CutOffKnown(over, ended) BY <2>1, <2>4, OpenHas DEF CutOffKnown, ToldOf
  <2>6. CASE news
    <3> DEFINE b == [over EXCEPT !.handled = @ \cup {id}]
    <3>1. adapter' = b /\ upward' = upward /\ reported' = reported \cup {id}
      BY <1>1, <1>4, <2>6, DoesStill
    <3>2. /\ DOMAIN b = AdapterFields /\ b.closing = FALSE /\ b.endNotice \in BOOLEAN
          /\ b.pending = over.pending /\ b.active = over.active /\ b.awaiting = over.awaiting
          /\ b.queue = over.queue /\ b.deferred = over.deferred
          /\ b.cancelling = over.cancelling /\ b.cancels \subseteq over.cancels
          /\ b.turns = over.turns /\ b.terminal = over.terminal /\ b.handled = a.handled \cup {id}
      BY <2>4, OpenHas DEF AdapterOK, AdapterFields
    <3> HIDE DEF b
    <3>3. Core(b, upward, d, provider, asked, 0) BY <2>3, <3>2, SameKeeps
    <3>4. CutOffKnown(b, ended) BY <2>4, <2>5, <3>2 DEF CutOffKnown, ToldOf
    <3>5. b.handled = reported' BY <3>1, <3>2, OpenHas
    <3>6. resulted \subseteq reported' /\ reported' # resulted
      <4>1. id \notin reported BY <2>6, OpenHas
      <4>2. QED BY <3>1, <4>1, OpenHas
    <3>7. OpenInv' BY <1>1, <1>2, <3>1, <3>3, <3>4, <3>5, <3>6 DEF OpenInv, Core
    <3>8. QED BY <1>1, <3>1, <3>3, <3>7 DEF RealtimeInv, Core, Shapes
  <2>7. CASE ~news
    <3> DEFINE s == Flushed(over)
    <3>1. Does(s) /\ reported' = reported BY <1>1, <1>4, <2>7
    <3>2. Sent(over, s, upward, d, provider, asked) BY <2>3, FlushedKeeps
    <3> HIDE DEF s, d
    <3>3. QED BY <1>1, <1>2, <2>4, <2>5, <3>1, <3>2, OpenHas, SentIsInv
  <2>8. QED BY <2>6, <2>7
<1>5. QED BY <1>3, <1>4

LEMMA CancelTooLateKept == ASSUME RealtimeInv, OpenInv, CancelTooLate PROVE RealtimeInv'
<1> DEFINE a == adapter
<1> DEFINE event == Head(downward).event
<1> DEFINE mine == {c \in a.cancels : c.event = event}
<1> DEFINE settled == [a EXCEPT !.cancels = @ \ mine]
<1>1. /\ Receives("inactive")
      /\ IF mine # {} /\ a.cancel # event THEN Does(Still(settled))
         ELSE IF \E c \in mine : c.id # 0 /\ a.active = c.id
         THEN Does(Flushed(Over(settled, a.active)))
         ELSE Does(Still(ClosedAdapter))
      /\ provider' = provider /\ asked' = asked /\ ended' = ended
      /\ reported' = reported /\ resulted' = resulted
  BY DEF CancelTooLate, gatewayVars
<1>2. Core(a, upward, Tail(downward), provider, asked, 0) /\ downward' = Tail(downward)
  BY <1>1, ReceivesHas, OpenHas, HeardKeeps
<1>3. CASE mine # {} /\ a.cancel # event
  <2>1. adapter' = settled /\ upward' = upward BY <1>1, <1>3, DoesStill
  <2>2. /\ DOMAIN settled = AdapterFields /\ settled.closing = FALSE /\ settled.endNotice \in BOOLEAN
        /\ settled.pending = a.pending /\ settled.active = a.active
        /\ settled.awaiting = a.awaiting /\ settled.queue = a.queue
        /\ settled.deferred = a.deferred
        /\ settled.cancelling = a.cancelling /\ settled.cancels \subseteq a.cancels
        /\ settled.turns = a.turns /\ settled.terminal = a.terminal
        /\ settled.handled = a.handled /\ settled.suppressed = a.suppressed
    BY OpenHas DEF AdapterOK, AdapterFields
  <2> HIDE DEF settled
  <2>3. Core(settled, upward, Tail(downward), provider, asked, 0) BY <1>2, <2>2, SameKeeps
  <2>4. Busy(settled) <=> Busy(a) BY <2>2 DEF Busy
  <2>5. CutOffKnown(settled, ended) BY <2>2, OpenHas DEF CutOffKnown, ToldOf
  <2>6. OpenInv' BY <1>1, <1>2, <2>1, <2>2, <2>3, <2>4, <2>5, OpenHas DEF OpenInv, Core
  <2>7. QED BY <1>1, <2>1, <2>3, <2>6 DEF RealtimeInv, Core, Shapes
<1>4. ~ \E c \in mine : c.id # 0 /\ a.active = c.id
  <2>1. 1 \in 1..Len(downward) /\ downward[1].type = "inactive" /\ event = downward[1].event
    BY <1>1, ReceivesHas
  <2>2. PastIsPast(a, upward, downward, provider, asked) BY OpenHas DEF Core
  <2>3. \A c \in a.cancels : c.event = event /\ c.id # 0 /\ c.id = a.active =>
          \E j \in 1..1 - 1 : downward[j].type = "done" /\ downward[j].id = c.id
    BY <2>1, <2>2 DEF PastIsPast
  <2>4. 1..1 - 1 = {} OBVIOUS
  <2>5. QED BY <2>3, <2>4
<1>5. CASE ~(mine # {} /\ a.cancel # event)
  <2>1. adapter' = ClosedAdapter /\ upward' = upward BY <1>1, <1>4, <1>5, DoesStill
  <2>2. QED BY <1>1, <2>1, ClosedKept
<1>6. QED BY <1>3, <1>5

\* A response begins: it is the one that was asked for.
LEMMA BeginsAsAsked ==
  ASSUME NEW a, NEW u, NEW d, NEW p, NEW n, Core(a, u, d, p, n, 0), d # <<>>,
         Head(d).type = "created"
  PROVE  /\ a.pending # None /\ a.active = 0 /\ NoCreates(u) /\ NoStarts(Tail(d))
         /\ Head(d).id = p.last /\ p.last # 0 /\ p.last \notin a.terminal
         /\ p.active = p.last \/ IsDone(Tail(d), 0, p.last)
<1> DEFINE t == Tail(d)
<1>1. OneAtATime(a, u, d, p) /\ d \in Seq(Events) BY DEF Core, Shapes
<1>2. /\ t \in Seq(Events) /\ Len(d) \in Nat /\ Len(t) = Len(d) - 1 /\ Head(d) = d[1]
      /\ 1 \in 1..Len(d)
      /\ \A i \in 1..Len(t) : i + 1 \in 1..Len(d) /\ t[i] = d[i + 1]
      /\ \A i \in 1..Len(d) : i # 1 => i - 1 \in 1..Len(t) /\ t[i - 1] = d[i]
  <2>1. d \in Seq(Events) BY <1>1
  <2>2. QED BY <2>1, Tailed
<1> HIDE DEF t
<1>3. ~NoStarts(d) BY <1>2 DEF NoStarts
<1>4. a.pending # None /\ a.active = 0 BY <1>1, <1>3 DEF OneAtATime
<1>5. StartIsDown(a, u, d, p) BY <1>1, <1>3, <1>4 DEF OneAtATime, AskIsUp
<1>6. PICK i \in 1..Len(d) : /\ d[i].type = "created" /\ d[i].id = p.last
                             /\ \A j \in 1..Len(d) : d[j].type = "created" => j = i
                             /\ p.active = p.last \/ IsDone(d, i, p.last)
  BY <1>5 DEF StartIsDown
<1>7. i = 1 BY <1>2, <1>6
<1>8. NoStarts(t)
  <2>1. \A j \in 1..Len(t) : t[j].type = "created" => j + 1 = 1 BY <1>2, <1>6, <1>7
  <2>2. \A j \in 1..Len(t) : j + 1 # 1 BY <1>2
  <2>3. QED BY <2>1, <2>2 DEF NoStarts
<1>9. IsDone(d, i, p.last) => IsDone(t, 0, p.last)
  <2> SUFFICES ASSUME IsDone(d, i, p.last) PROVE IsDone(t, 0, p.last) OBVIOUS
  <2>1. PICK j \in 1..Len(d) : j > 1 /\ d[j].type = "done" /\ d[j].id = p.last BY <1>7 DEF IsDone
  <2>2. j # 1 /\ j - 1 > 0 BY <1>2, <2>1
  <2>3. j - 1 \in 1..Len(t) /\ t[j - 1] = d[j] BY <1>2, <2>2
  <2>4. QED BY <2>1, <2>2, <2>3 DEF IsDone
<1>10. p.last # 0 /\ p.last \notin a.terminal /\ NoCreates(u) BY <1>5 DEF StartIsDown
<1>11. QED BY <1>2, <1>4, <1>6, <1>7, <1>8, <1>9, <1>10 DEF t

LEMMA BegunHas ==
  ASSUME NEW a, NEW id, DOMAIN a = AdapterFields
  PROVE  /\ DOMAIN Begun(a, id) = AdapterFields /\ Begun(a, id).closing = a.closing
         /\ Begun(a, id).pending = None /\ Begun(a, id).active = id
         /\ Begun(a, id).awaiting =
              IF a.pending = "vad" /\ a.awaiting > 0 THEN a.awaiting - 1 ELSE a.awaiting
         /\ Begun(a, id).queue = a.queue /\ Begun(a, id).deferred = a.deferred
         /\ Begun(a, id).cancels = a.cancels /\ Begun(a, id).cancelling = a.cancelling
         /\ Begun(a, id).endNotice \in BOOLEAN /\ Begun(a, id).turns = a.turns
         /\ Begun(a, id).terminal = a.terminal /\ Begun(a, id).handled = a.handled
         /\ Begun(a, id).suppressed = IF a.cancelling THEN id ELSE a.suppressed
BY DEF Begun, AdapterFields

LEMMA BegunKeeps ==
  ASSUME NEW a, NEW u, NEW d, NEW p, NEW n, Core(a, u, d, p, n, 0), d # <<>>,
         Head(d).type = "created"
  PROVE  LET b == Begun(a, p.last)
             t == Tail(d)
         IN  /\ AdapterOK(b) /\ t \in Seq(Events) /\ OneAtATime(b, u, t, p)
             /\ PastIsPast(b, u, t, p, n)
             /\ b.awaiting = VadsIn(b.queue) + 0 + 0
             /\ b.turns = p.answered + Counted(u, VadAsks) + VadsIn(b.queue) + 0
             /\ FreshCancel(b, u, t, MaxAsks + p.last)
<1> DEFINE id == p.last
<1> DEFINE b == Begun(a, id)
<1> DEFINE t == Tail(d)
<1>1. /\ AdapterOK(a) /\ u \in Seq(Messages) /\ d \in Seq(Events) /\ ProviderOK(p)
      /\ OneAtATime(a, u, d, p) /\ PastIsPast(a, u, d, p, n) /\ TurnsAdd(a, u, p, 0)
      /\ InputsBehind(u, p)
  BY DEF Core, Shapes
<1>2. /\ a.pending # None /\ a.active = 0 /\ NoCreates(u) /\ NoStarts(t)
      /\ id # 0 /\ id \notin a.terminal /\ (p.active = id \/ IsDone(t, 0, id))
  BY BeginsAsAsked
<1>3. id \in Nat /\ MaxAsks \in Nat BY <1>1, RealtimeAssumption DEF ProviderOK
<1>4. /\ t \in Seq(Events) /\ Len(d) \in Nat /\ Len(t) = Len(d) - 1
      /\ \A i \in 1..Len(t) : i + 1 \in 1..Len(d) /\ t[i] = d[i + 1]
  <2>1. d \in Seq(Events) BY <1>1
  <2>2. QED BY <2>1, Tailed
<1> HIDE DEF id
<1>5. /\ DOMAIN b = AdapterFields /\ b.closing = a.closing
      /\ b.pending = None /\ b.active = id
      /\ b.awaiting = IF a.pending = "vad" /\ a.awaiting > 0 THEN a.awaiting - 1 ELSE a.awaiting
      /\ b.queue = a.queue /\ b.deferred = a.deferred
      /\ b.cancels = a.cancels /\ b.cancelling = a.cancelling
      /\ b.endNotice \in BOOLEAN /\ b.turns = a.turns /\ b.terminal = a.terminal
  <2>1. DOMAIN a = AdapterFields BY <1>1 DEF AdapterOK
  <2>2. QED BY <2>1, BegunHas
<1> HIDE DEF b, t
<1> DEFINE v == VadsIn(a.queue)
<1> DEFINE c == Counted(u, VadAsks)
<1> DEFINE z == p.answered
<1> DEFINE k == IF a.pending = "vad" THEN 1 ELSE 0
<1> DEFINE w0 == a.awaiting
<1> DEFINE w == b.awaiting
<1>6. v \in Nat /\ c \in Nat /\ z \in Nat /\ k \in {0, 1} /\ (a.pending = "vad" <=> k = 1)
  <2>1. a.queue \in Seq(AskKinds) BY <1>1 DEF AdapterOK
  <2>2. VadsIn(a.queue) \in Nat BY <2>1, PlacesFinite DEF VadsIn
  <2>3. Counted(u, VadAsks) \in Nat BY <1>1, PlacesFinite
  <2>4. QED BY <1>1, <2>2, <2>3 DEF ProviderOK
<1>7. w \in Nat /\ w = v + 0 + 0
  <2>1. w0 = v + k + 0 BY <1>1 DEF TurnsAdd
  <2>2. w = IF k = 1 /\ w0 > 0 THEN w0 - 1 ELSE w0 BY <1>5, <1>6
  <2> HIDE DEF v, k, w0, w
  <2>3. QED BY <1>6, <2>1, <2>2
<1>8. b.turns = z + c + v + 0 BY <1>1, <1>5 DEF TurnsAdd
<1>9. AdapterOK(b)
  <2>1. b.awaiting \in Nat BY <1>7
  <2> HIDE DEF w
  <2>2. QED BY <1>1, <1>3, <1>5, <2>1 DEF AdapterOK
<1>10. OneAtATime(b, u, t, p) BY <1>2, <1>5 DEF OneAtATime, id
<1>11. ToldOf(b) = a.terminal \cup {id} /\ ToldOf(a) = a.terminal \cup {0} BY <1>2, <1>5 DEF ToldOf
<1>12. \A e : EventKnown(a, n, e) => EventKnown(b, n, e)
  <2>1. ASSUME NEW e, e - MaxAsks \in ToldOf(a), e - MaxAsks # 0 PROVE e - MaxAsks \in ToldOf(b)
    BY <1>11, <2>1
  <2>2. QED BY <2>1 DEF EventKnown
<1>13. PastIsPast(b, u, t, p, n)
  <2>1. \A f \in b.cancels : /\ EventKnown(b, n, f.event)
                             /\ f.id = 0 \/ f.id \in a.terminal
                             /\ f.event > MaxAsks => f.id = f.event - MaxAsks
    BY <1>1, <1>5, <1>11, <1>12 DEF PastIsPast
  <2>2. \A i \in 1..Len(u) : u[i].type = "cancel" =>
          /\ EventKnown(b, n, u[i].event)
          /\ \A f \in b.cancels : f.event = u[i].event => f.id = u[i].id
    BY <1>1, <1>5, <1>12 DEF PastIsPast
  <2>3. \A i \in 1..Len(t) : t[i].type = "inactive" =>
          /\ EventKnown(b, n, t[i].event)
          /\ \A f \in b.cancels : ~(f.id # 0 /\ f.id = b.active)
    BY <1>1, <1>2, <1>4, <1>5, <1>12, <2>1 DEF PastIsPast
  <2>4. /\ \A i \in 1..Len(t) : t[i].type \in {"created", "call", "done"} => t[i].id \in 1..p.last
        /\ \A i \in 1..Len(t) : t[i].type = "done" => t[i].id # p.active
    BY <1>1, <1>4 DEF PastIsPast
  <2>5. QED BY <1>1, <1>5, <1>11, <2>1, <2>2, <2>3, <2>4 DEF PastIsPast
<1>14. FreshCancel(b, u, t, MaxAsks + id)
  <2> DEFINE e == MaxAsks + id
  <2>1. ~EventKnown(a, n, e)
    <3>1. n \in Nat /\ n <= MaxAsks BY <1>1 DEF PastIsPast
    <3>2. ~(e <= n) BY <1>2, <1>3, <3>1
    <3>3. e - MaxAsks = id BY <1>3
    <3> HIDE DEF e
    <3>4. e - MaxAsks \notin ToldOf(a) BY <1>2, <1>11, <3>3
    <3>5. QED BY <3>2, <3>4 DEF EventKnown
  <2> HIDE DEF e
  <2>2. \A f \in a.cancels : f.event # e BY <1>1, <2>1 DEF PastIsPast
  <2>3. \A i \in 1..Len(u) : u[i].type = "cancel" => u[i].event # e BY <1>1, <2>1 DEF PastIsPast
  <2>4. \A i \in 1..Len(d) : d[i].type = "inactive" => d[i].event # e BY <1>1, <2>1 DEF PastIsPast
  <2>5. \A i \in 1..Len(t) : t[i].type = "inactive" => t[i].event # e BY <1>4, <2>4
  <2>6. QED BY <1>5, <2>2, <2>3, <2>5 DEF FreshCancel, e
<1>15. VadsIn(b.queue) = v BY <1>5
<1>16. QED BY <1>4, <1>7, <1>8, <1>9, <1>10, <1>13, <1>14, <1>15 DEF id, b, t

\* What waited for the voice turns goes out behind the last of them.
LEMMA WithDeferredKeeps ==
  ASSUME NEW b, NEW u, NEW d, NEW p, NEW n, u \in Seq(Messages), d \in Seq(Events), ProviderOK(p),
         AdapterOK(b), OneAtATime(b, u, d, p), PastIsPast(b, u, d, p, n), InputsBehind(u, p),
         b.pending = None,
         b.awaiting = VadsIn(b.queue) + 0 + 0,
         b.turns = p.answered + Counted(u, VadAsks) + VadsIn(b.queue) + 0,
         \A i \in 1..Len(b.deferred) : b.deferred[i].after <= b.turns
  PROVE  LET s == WithDeferred(b)
         IN  /\ s.out \in Seq(Messages) /\ Core(s.a, u \o s.out, d, p, n, 0)
             /\ DOMAIN s.a = AdapterFields /\ s.a.active = b.active /\ s.a.terminal = b.terminal
             /\ s.a.handled = b.handled /\ s.a.cancelling = b.cancelling
             /\ s.a.suppressed = b.suppressed /\ s.a.cancels = b.cancels
             /\ \A i \in 1..Len(s.out) : s.out[i].type = "input"
<1> DEFINE s == WithDeferred(b)
<1>0. DOMAIN b = AdapterFields /\ b.awaiting \in Nat /\ b.turns \in Nat
      /\ b.deferred \in Seq([type : {"input"}, after : Nat])
  BY DEF AdapterOK
<1>1. CASE b.awaiting > 0
  <2>1. s.a = b /\ s.out = <<>> BY <1>1 DEF WithDeferred, Still, Step
  <2>2. TurnsAdd(b, u, p, 0) BY <1>1 DEF TurnsAdd, None
  <2>3. Core(b, u, d, p, n, 0) BY <2>2 DEF Core, Shapes
  <2>4. u \o <<>> = u /\ <<>> \in Seq(Messages) BY <2>3, NoneSent
  <2>5. Len(<<>>) = 0 OBVIOUS
  <2>6. QED BY <1>0, <2>1, <2>3, <2>4, <2>5
<1>2. CASE ~(b.awaiting > 0)
  <2> DEFINE c == [b EXCEPT !.deferred = <<>>]
  <2> DEFINE w == b.deferred
  <2>1. s.a = c /\ s.out = w BY <1>2 DEF WithDeferred, Step
  <2> DEFINE D == [type : {"input"}, after : Nat]
  <2>2. /\ DOMAIN c = AdapterFields /\ c.closing = b.closing /\ c.pending = b.pending
        /\ c.active = b.active /\ c.awaiting = b.awaiting /\ c.queue = b.queue
        /\ c.deferred = <<>> /\ c.cancels = b.cancels /\ c.cancelling = b.cancelling
        /\ c.endNotice = b.endNotice /\ c.turns = b.turns /\ c.terminal = b.terminal
        /\ c.handled = b.handled /\ c.suppressed = b.suppressed
    BY <1>0 DEF AdapterFields
  <2> HIDE DEF c, s
  <2>3. c.deferred \in Seq(D)
    <3> DEFINE q == c.deferred
    <3>1. q = <<>> BY <2>2
    <3> HIDE DEF q
    <3>2. q \in Seq(D) BY <3>1, EmptyIn
    <3>3. QED BY <3>2 DEF q
  <2>4. AdapterOK(c) BY <2>2, <2>3 DEF AdapterOK
  <2>5. OneAtATime(c, u, d, p) BY <2>2 DEF OneAtATime, AskIsUp, StartIsDown
  <2>6. PastIsPast(c, u, d, p, n) BY <2>2 DEF PastIsPast, EventKnown, ToldOf
  <2>7. TurnsAdd(c, u, p, 0)
    <3>1. Len(c.deferred) = 0 BY <2>2
    <3>2. QED BY <2>2, <3>1 DEF TurnsAdd, None
  <2>8. Core(c, u, d, p, n, 0) BY <2>4, <2>5, <2>6, <2>7 DEF Core, Shapes
  <2>9. w \in Seq(Messages)
    <3>1. D \subseteq Messages BY DEF Messages
    <3>2. w \in Seq(D) BY <1>0
    <3> HIDE DEF D, w
    <3>3. QED BY <3>1, <3>2
  <2>10. \A i \in 1..Len(w) : w[i].type = "input"
    <3> SUFFICES ASSUME NEW i \in 1..Len(w) PROVE w[i].type = "input" OBVIOUS
    <3>1. w[i] \in D BY <1>0, ElementOfSeq
    <3>2. QED BY <3>1
  <2>11. b.turns = p.answered + Counted(u, VadAsks)
    <3> DEFINE v == VadsIn(b.queue)
    <3> DEFINE k == Counted(u, VadAsks)
    <3> DEFINE z == p.answered
    <3> DEFINE a0 == b.awaiting
    <3> DEFINE t == b.turns
    <3>1. v \in Nat /\ k \in Nat /\ z \in Nat
      <4>1. b.queue \in Seq(AskKinds) BY DEF AdapterOK
      <4>2. VadsIn(b.queue) \in Nat BY <4>1, PlacesFinite DEF VadsIn
      <4>3. Counted(u, VadAsks) \in Nat BY PlacesFinite
      <4>4. QED BY <4>2, <4>3 DEF ProviderOK
    <3>2. a0 \in Nat /\ ~(a0 > 0) /\ a0 = v + 0 + 0 /\ t = z + k + v + 0 BY <1>0, <1>2
    <3> HIDE DEF v, k, z, a0, t
    <3>3. t = z + k BY <3>1, <3>2
    <3>4. QED BY <3>3 DEF t, z, k
  <2>12. \A i \in 1..Len(w) : w[i].after <= p.answered + Counted(u, VadAsks) BY <2>11
  <2> HIDE DEF w
  <2>13. Core(c, u \o w, d, p, n, 0) BY <2>8, <2>9, <2>10, <2>12, QuietKeeps
  <2>14. QED BY <2>1, <2>2, <2>9, <2>10, <2>13 DEF s
<1>3. QED BY <1>1, <1>2

LEMMA ResponseStartsKept == ASSUME RealtimeInv, OpenInv, ResponseStarts PROVE RealtimeInv'
<1> DEFINE a == adapter
<1> DEFINE d == Tail(downward)
<1> DEFINE id == Head(downward).id
<1> DEFINE b == Begun(a, id)
<1> DEFINE s == WithDeferred(b)
<1> DEFINE EndsNotice(f) == IF a.endNotice THEN Cancelled(f, id, MaxAsks + id) ELSE Still(f)
<1> DEFINE new == Then(s, EndsNotice)
<1>1. /\ Receives("created")
      /\ IF id \in a.terminal \/ a.active # 0 THEN UNCHANGED <<adapter, upward, ended>>
         ELSE IF a.pending = None THEN Does(Still(ClosedAdapter)) /\ UNCHANGED ended
         ELSE /\ Does(new)
              /\ ended' = IF a.cancelling \/ a.endNotice THEN ended \cup {id} ELSE ended
      /\ provider' = provider /\ asked' = asked /\ reported' = reported /\ resulted' = resulted
  BY DEF ResponseStarts
<1>2. /\ downward # <<>> /\ downward' = d /\ Head(downward).type = "created"
      /\ Core(a, upward, downward, provider, asked, 0)
  BY <1>1, ReceivesHas, OpenHas
<1>3. /\ a.pending # None /\ a.active = 0 /\ id = provider.last /\ id # 0 /\ id \notin a.terminal
  BY <1>2, BeginsAsAsked
<1>4. Does(new) /\ ended' = IF a.cancelling \/ a.endNotice THEN ended \cup {id} ELSE ended
  BY <1>1, <1>3
<1>5. /\ AdapterOK(b) /\ d \in Seq(Events) /\ OneAtATime(b, upward, d, provider)
      /\ PastIsPast(b, upward, d, provider, asked)
      /\ b.awaiting = VadsIn(b.queue) + 0 + 0
      /\ b.turns = provider.answered + Counted(upward, VadAsks) + VadsIn(b.queue) + 0
      /\ FreshCancel(b, upward, d, MaxAsks + id)
  BY <1>2, <1>3, BegunKeeps
<1>6. DOMAIN a = AdapterFields BY OpenHas DEF AdapterOK
<1>7. id \in Nat /\ MaxAsks \in Nat /\ MaxAsks + id \in Nat
  <2>1. provider.last \in Nat BY OpenHas DEF ProviderOK
  <2>2. QED BY <1>3, <2>1, RealtimeAssumption
<1> HIDE DEF id
<1>8. /\ b.pending = None /\ b.active = id /\ b.deferred = a.deferred /\ b.turns = a.turns
      /\ b.terminal = a.terminal /\ b.handled = a.handled
      /\ b.suppressed = IF a.cancelling THEN id ELSE a.suppressed
  BY <1>6, BegunHas
<1>9. b.cancelling <=> a.cancelling BY <1>6 DEF Begun, AdapterFields
<1>10. \A i \in 1..Len(b.deferred) : b.deferred[i].after <= b.turns
  BY <1>2, <1>8 DEF Core, TurnsAdd
<1>11. InputsBehind(upward, provider) BY <1>2 DEF Core
<1> HIDE DEF b, d
<1>12. /\ s.out \in Seq(Messages) /\ Core(s.a, upward \o s.out, d, provider, asked, 0)
       /\ DOMAIN s.a = AdapterFields /\ s.a.active = b.active /\ s.a.terminal = b.terminal
       /\ s.a.handled = b.handled /\ s.a.cancelling = b.cancelling
       /\ s.a.suppressed = b.suppressed /\ s.a.cancels = b.cancels
       /\ \A i \in 1..Len(s.out) : s.out[i].type = "input"
  BY <1>5, <1>8, <1>10, <1>11, OpenHas, WithDeferredKeeps
<1> DEFINE c == s.a
<1> DEFINE w == s.out
<1> DEFINE v == upward \o w
<1>13. FreshCancel(c, v, d, MaxAsks + id)
  <2>1. \A i \in 1..Len(v) : v[i].type = "cancel" => i \in 1..Len(upward) /\ v[i] = upward[i]
    <3>1. upward \in Seq(Messages) /\ w \in Seq(Messages) BY <1>12, OpenHas
    <3> HIDE DEF w, v
    <3>2. \A i \in 1..Len(v) : \/ i \in 1..Len(upward) /\ v[i] = upward[i]
                               \/ i - Len(upward) \in 1..Len(w) /\ v[i] = w[i - Len(upward)]
      BY <3>1, Joined DEF v
    <3>3. \A i \in 1..Len(w) : w[i].type # "cancel" BY <1>12 DEF w
    <3>4. QED BY <3>2, <3>3
  <2> HIDE DEF v
  <2>2. QED BY <1>5, <1>12, <2>1 DEF FreshCancel
<1>14. v \in Seq(Messages) /\ w \in Seq(Messages) BY <1>12, OpenHas, Joined
<1> HIDE DEF s
<1>15. ended \subseteq a.terminal BY <1>3, OpenHas DEF CutOffKnown, ToldOf
<1>16. c.active = id /\ c.terminal = a.terminal /\ c.handled = reported /\ (c.cancelling <=> a.cancelling)
       /\ (a.cancelling => c.suppressed = id)
  BY <1>8, <1>9, <1>12, OpenHas
<1>17. ended' \subseteq (a.terminal \cup {id}) \ {0}
  <2>1. 0 \notin ended BY OpenHas DEF CutOffKnown
  <2>2. QED BY <1>3, <1>4, <1>15, <2>1
<1>18. CASE a.endNotice
  <2> DEFINE e == Cancelled(c, id, MaxAsks + id)
  <2>1. new = Step(e.a, w \o e.out) BY <1>18 DEF Then
  <2>2. /\ Core(c, v, d, provider, asked, 0) /\ id \in ToldOf(c)
        /\ EventKnown(c, asked, MaxAsks + id) /\ c.active # 0
        /\ (MaxAsks + id > MaxAsks => id = MaxAsks + id - MaxAsks)
    <3>1. id \in ToldOf(c) BY <1>16 DEF ToldOf
    <3>2. MaxAsks + id > MaxAsks /\ MaxAsks + id # MaxAsks /\ (MaxAsks + id) - MaxAsks = id
      BY <1>3, <1>7
    <3>3. EventKnown(c, asked, MaxAsks + id) BY <1>3, <3>1, <3>2 DEF EventKnown
    <3>4. c.active # 0 BY <1>3, <1>16
    <3>5. MaxAsks + id > MaxAsks => id = MaxAsks + id - MaxAsks BY <1>7, <3>2
    <3>6. Core(c, v, d, provider, asked, 0) BY <1>12
    <3>7. QED BY <3>1, <3>3, <3>4, <3>5, <3>6
  <2> DEFINE x == MaxAsks + id
  <2>3. /\ Core(c, v, d, provider, asked, 0) /\ id \in ToldOf(c) /\ EventKnown(c, asked, x)
        /\ c.active # 0 /\ (x > MaxAsks => id = x - MaxAsks) /\ x \in Nat /\ FreshCancel(c, v, d, x)
    BY <1>7, <1>13, <2>2
  <2>4. e = Cancelled(c, id, x) OBVIOUS
  <2> HIDE DEF c, v, w, x, e, new
  <2>5. Core(Cancelled(c, id, x).a, v \o Cancelled(c, id, x).out, d, provider, asked, 0)
        /\ Cancelled(c, id, x).out \in Seq(Messages)
    BY <1>7, <2>3, CancelledKeeps
  <2>6. Core(e.a, v \o e.out, d, provider, asked, 0) /\ e.out \in Seq(Messages) BY <2>4, <2>5
  <2>7. /\ e.a.active = c.active /\ e.a.terminal = c.terminal /\ e.a.handled = c.handled
        /\ e.a.cancelling
    <3>1. DOMAIN c = AdapterFields BY <1>12 DEF c
    <3>2. /\ Cancelled(c, id, x).a.active = c.active
          /\ Cancelled(c, id, x).a.terminal = c.terminal
          /\ Cancelled(c, id, x).a.handled = c.handled
          /\ Cancelled(c, id, x).a.cancelling
      BY <3>1, CancelledHas
    <3>3. QED BY <2>4, <3>2
  <2> DEFINE o == w \o e.out
  <2>8. o \in Seq(Messages) /\ v \o e.out = upward \o o
    <3> DEFINE y == e.out
    <3>1. y \in Seq(Messages) /\ upward \in Seq(Messages) BY <2>6, OpenHas
    <3> HIDE DEF y
    <3>2. (upward \o w) \o y = upward \o (w \o y) BY <1>14, <3>1, ConcatAssociative
    <3>3. w \o y \in Seq(Messages) BY <1>14, <3>1, Joined
    <3>4. QED BY <3>2, <3>3 DEF y, v
  <2> HIDE DEF o
  <2>9. Core(e.a, upward \o o, d, provider, asked, 0) BY <2>6, <2>8
  <2>10. new.a = e.a /\ new.out = o BY <2>1 DEF Step, o
  <2>11. Sent(e.a, new, upward, d, provider, asked)
    <3>1. Alike(e.a, e.a) BY DEF Alike
    <3>2. Quieted(e.a) BY <2>7 DEF Quieted, Busy
    <3>3. InputsBehind(upward \o o, provider) BY <2>9 DEF Core
    <3>4. QED BY <2>8, <2>9, <2>10, <3>1, <3>2, <3>3 DEF Sent
  <2>12. CutOffKnown(e.a, ended') /\ e.a.handled = reported
    BY <1>16, <1>17, <2>7 DEF CutOffKnown, ToldOf
  <2>13. QED BY <1>1, <1>2, <1>4, <2>11, <2>12, OpenHas, SentIsInv
<1>19. CASE ~a.endNotice
  <2>1. new = Step(c, w \o <<>>) BY <1>19 DEF Then, Still, Step
  <2> HIDE DEF c, v, w, new
  <2>2. w \o <<>> = w BY <1>14, ConcatEmptySeq
  <2>3. new.a = c /\ new.out = w BY <2>1, <2>2 DEF Step
  <2>4. Core(c, upward \o w, d, provider, asked, 0) BY <1>12 DEF c, w
  <2>5. Sent(c, new, upward, d, provider, asked)
    <3>1. Alike(c, c) BY DEF Alike
    <3>2. Quieted(c) BY <1>3, <1>16 DEF Quieted, Busy
    <3>3. InputsBehind(upward \o w, provider) BY <2>4 DEF Core
    <3>4. QED BY <1>14, <2>3, <2>4, <3>1, <3>2, <3>3 DEF Sent
  <2>6. CutOffKnown(c, ended') /\ c.handled = reported
    <3>1. CASE a.cancelling BY <1>16, <1>17, <3>1 DEF CutOffKnown, ToldOf
    <3>2. CASE ~a.cancelling
      <4>1. ended' = ended BY <1>4, <1>19, <3>2
      <4>2. id \notin ended' BY <1>3, <1>15, <4>1
      <4>3. QED BY <1>16, <1>17, <4>2 DEF CutOffKnown, ToldOf
    <3>3. QED BY <3>1, <3>2
  <2>7. QED BY <1>1, <1>2, <1>4, <2>5, <2>6, OpenHas, SentIsInv
<1>20. QED BY <1>18, <1>19

\* What the provider tells of the response it makes, and of the user.
LEMMA ToldKeeps ==
  ASSUME NEW a, NEW u, NEW d, NEW p, NEW n, NEW x, Core(a, u, d, p, n, x), NEW q, ProviderOK(q),
         NEW w \in Seq(Events), q.last = p.last, q.answered = p.answered,
         \A i \in 1..Len(w) : w[i].type \in {"call", "done", "started", "stopped"},
         \A i \in 1..Len(w) : w[i].type \in {"call", "done"} => w[i].id = p.active /\ p.active # 0,
         \/ q.active = p.active /\ \A i \in 1..Len(w) : w[i].type # "done"
         \/ q.active = 0 /\ \E i \in 1..Len(w) : w[i].type = "done"
  PROVE  Core(a, u, d \o w, q, n, x)
<1> DEFINE e == d \o w
<1>1. /\ AdapterOK(a) /\ u \in Seq(Messages) /\ d \in Seq(Events) /\ ProviderOK(p)
      /\ OneAtATime(a, u, d, p) /\ PastIsPast(a, u, d, p, n) /\ TurnsAdd(a, u, p, x)
      /\ InputsBehind(u, p)
  BY DEF Core, Shapes
<1>2. /\ e \in Seq(Events) /\ Len(d) \in Nat /\ Len(w) \in Nat
      /\ \A i \in 1..Len(d) : i \in 1..Len(e) /\ e[i] = d[i]
      /\ \A i \in 1..Len(w) : Len(d) + i \in 1..Len(e) /\ e[Len(d) + i] = w[i]
      /\ \A i \in 1..Len(e) : \/ i \in 1..Len(d) /\ e[i] = d[i]
                              \/ i - Len(d) \in 1..Len(w) /\ e[i] = w[i - Len(d)]
  <2>1. d \in Seq(Events) /\ w \in Seq(Events) BY <1>1
  <2>2. QED BY <2>1, Joined
<1> HIDE DEF e
<1>3. \A i \in 1..Len(e) : e[i].type \in {"created", "inactive"} => i \in 1..Len(d) /\ e[i] = d[i]
  BY <1>2
<1>4. NoStarts(d) => NoStarts(e) BY <1>3 DEF NoStarts
<1>5. \A k, id : IsDone(d, k, id) => IsDone(e, k, id)
  <2> SUFFICES ASSUME NEW k, NEW id, IsDone(d, k, id) PROVE IsDone(e, k, id) OBVIOUS
  <2>1. PICK j \in 1..Len(d) : j > k /\ d[j].type = "done" /\ d[j].id = id BY DEF IsDone
  <2>2. QED BY <1>2, <2>1 DEF IsDone
<1>6. \A k \in 0..Len(d) : p.active = q.active \/ (p.active # 0 => IsDone(e, k, p.active))
  <2> SUFFICES ASSUME NEW k \in 0..Len(d), p.active # q.active, p.active # 0
               PROVE  IsDone(e, k, p.active)
    OBVIOUS
  <2>1. PICK i \in 1..Len(w) : w[i].type = "done" OBVIOUS
  <2>2. w[i].id = p.active BY <2>1
  <2>3. Len(d) + i > k BY <1>2
  <2>4. QED BY <1>2, <2>1, <2>2, <2>3 DEF IsDone
<1>7. p.active = 0 => q.active = 0 OBVIOUS
<1>8. AskIsUp(a, u, d, p) => AskIsUp(a, u, e, q) BY <1>4, <1>7 DEF AskIsUp
<1>9. StartIsDown(a, u, d, p) => StartIsDown(a, u, e, q)
  <2> SUFFICES ASSUME StartIsDown(a, u, d, p) PROVE StartIsDown(a, u, e, q) OBVIOUS
  <2>1. PICK i \in 1..Len(d) : /\ d[i].type = "created" /\ d[i].id = p.last
                               /\ \A j \in 1..Len(d) : d[j].type = "created" => j = i
                               /\ p.active = p.last \/ IsDone(d, i, p.last)
    BY DEF StartIsDown
  <2>2. i \in 1..Len(e) /\ e[i] = d[i] /\ i \in 0..Len(d) BY <1>2
  <2>3. \A j \in 1..Len(e) : e[j].type = "created" => j = i BY <1>3, <2>1
  <2>4. p.last # 0 BY DEF StartIsDown
  <2>5. q.active = q.last \/ IsDone(e, i, q.last) BY <1>5, <1>6, <2>1, <2>2, <2>4
  <2>6. QED BY <2>1, <2>2, <2>3, <2>5 DEF StartIsDown
<1>10. OneAtATime(a, u, e, q)
  <2>1. 0 \in 0..Len(d) BY <1>2
  <2>2. a.active # 0 /\ (p.active = a.active \/ IsDone(d, 0, a.active))
          => q.active = a.active \/ IsDone(e, 0, a.active)
    BY <1>5, <1>6, <2>1
  <2>3. QED BY <1>1, <1>4, <1>7, <1>8, <1>9, <2>2 DEF OneAtATime
<1>11. PastIsPast(a, u, e, q, n)
  <2>1. ASSUME NEW i \in 1..Len(e), e[i].type = "inactive"
        PROVE  /\ EventKnown(a, n, e[i].event)
               /\ \A c \in a.cancels : c.event = e[i].event /\ c.id # 0 /\ c.id = a.active =>
                    \E j \in 1..i - 1 : e[j].type = "done" /\ e[j].id = c.id
    <3>1. i \in 1..Len(d) /\ e[i] = d[i] BY <1>3, <2>1
    <3>2. /\ EventKnown(a, n, d[i].event)
          /\ \A c \in a.cancels : c.event = d[i].event /\ c.id # 0 /\ c.id = a.active =>
               \E j \in 1..i - 1 : d[j].type = "done" /\ d[j].id = c.id
      BY <1>1, <2>1, <3>1 DEF PastIsPast
    <3>3. \A j \in 1..i - 1 : j \in 1..Len(d) /\ e[j] = d[j] BY <1>2, <3>1
    <3>4. QED BY <3>1, <3>2, <3>3
  <2>2. p.active \in {0, p.last} /\ q.active \in {0, q.last} BY <1>1 DEF PastIsPast
  <2>3. ASSUME NEW i \in 1..Len(e), e[i].type \in {"created", "call", "done"}
        PROVE  e[i].id \in 1..q.last
    <3>1. CASE i \in 1..Len(d) /\ e[i] = d[i] BY <1>1, <2>3, <3>1 DEF PastIsPast
    <3>2. CASE i - Len(d) \in 1..Len(w) /\ e[i] = w[i - Len(d)]
      <4>1. e[i].id = p.active /\ p.active # 0 BY <1>3, <2>3, <3>2
      <4>2. p.last \in Nat BY <1>1 DEF ProviderOK
      <4>3. QED BY <2>2, <4>1, <4>2
    <3>3. QED BY <1>2, <3>1, <3>2
  <2>4. ASSUME NEW i \in 1..Len(e), e[i].type = "done" PROVE e[i].id # q.active
    <3>1. CASE q.active = p.active /\ \A j \in 1..Len(w) : w[j].type # "done"
      <4>1. i \in 1..Len(d) /\ e[i] = d[i] BY <1>2, <2>4, <3>1
      <4>2. QED BY <1>1, <2>4, <3>1, <4>1 DEF PastIsPast
    <3>2. CASE q.active = 0
      <4>1. e[i].id \in 1..q.last BY <2>3, <2>4
      <4>2. QED BY <3>2, <4>1
    <3>3. QED BY <3>1, <3>2
  <2>5. QED BY <1>1, <2>1, <2>2, <2>3, <2>4 DEF PastIsPast
<1>12. TurnsAdd(a, u, q, x) BY <1>1 DEF TurnsAdd
<1>13. InputsBehind(u, q) BY <1>1 DEF InputsBehind
<1>14. QED BY <1>1, <1>2, <1>10, <1>11, <1>12, <1>13 DEF Core, Shapes, e

\* The places before the next one, after the first is taken away.
LEMMA BeforeTail ==
  ASSUME NEW u \in Seq(Messages), u # <<>>, NEW i \in 1..Len(Tail(u))
  PROVE  /\ Cardinality(Before(u, i + 1)) = Cardinality(Before(Tail(u), i))
                                            + (IF Head(u) \in VadAsks THEN 1 ELSE 0)
         /\ Cardinality(Before(Tail(u), i)) \in Nat
<1> DEFINE t == Tail(u)
<1>1. /\ t \in Seq(Messages) /\ Len(u) \in Nat /\ Len(u) >= 1 /\ Len(t) = Len(u) - 1
      /\ Head(u) = u[1] /\ \A j \in 1..Len(t) : t[j] = u[j + 1]
  BY Tailed
<1> HIDE DEF t
<1>2. i \in Nat /\ i >= 1 /\ i <= Len(t) /\ i <= Len(u) BY <1>1 DEF t
<1> DEFINE v == SubSeq(u, 1, i)
<1>3. v \in Seq(Messages) /\ Len(v) = i /\ \A j \in 1..i : v[j] = u[j]
  <2>1. SubSeq(u, 1, i) \in Seq(Messages) BY <1>1, <1>2, SubSeqProperties
  <2>2. Len(SubSeq(u, 1, i)) = i BY <1>1, <1>2, SubSeqProperties
  <2>3. \A j \in 1..i : SubSeq(u, 1, i)[j] = u[j] BY <1>1, <1>2, SubSeqProperties
  <2>4. QED BY <2>1, <2>2, <2>3
<1> HIDE DEF v
<1>4. v # <<>>
  <2>1. Len(v) # 0 BY <1>2, <1>3
  <2>2. QED BY <2>1
<1>5. Counted(v, VadAsks) = Counted(Tail(v), VadAsks) + (IF Head(v) \in VadAsks THEN 1 ELSE 0)
  BY <1>3, <1>4, CountTail
<1>6. /\ Tail(v) \in Seq(Messages) /\ Len(Tail(v)) = i - 1 /\ Head(v) = u[1]
      /\ \A j \in 1..(i - 1) : Tail(v)[j] = u[j + 1]
  <2>1. /\ Tail(v) \in Seq(Messages) /\ Len(Tail(v)) = Len(v) - 1 /\ Head(v) = v[1]
        /\ \A j \in 1..Len(Tail(v)) : j + 1 \in 1..Len(v) /\ Tail(v)[j] = v[j + 1]
    BY <1>3, <1>4, Tailed
  <2>2. QED BY <1>2, <1>3, <2>1
<1>7. Places(v, VadAsks) = Before(u, i + 1)
  <2>1. (i + 1) - 1 = i BY <1>2
  <2>2. QED BY <1>3, <2>1 DEF Places, Before
<1>8. Places(Tail(v), VadAsks) = Before(t, i)
  <2>1. \A j \in 1..(i - 1) : j \in 1..Len(t) BY <1>1, <1>2
  <2>2. QED BY <1>1, <1>6, <2>1 DEF Places, Before
<1>9. Counted(Tail(v), VadAsks) \in Nat BY <1>6, PlacesFinite
<1>10. Head(v) = Head(u) BY <1>1, <1>6
<1>11. QED BY <1>5, <1>7, <1>8, <1>9, <1>10 DEF Counted, t

\* A message is read that asks for nothing.
LEMMA ReadKeeps ==
  ASSUME NEW a, NEW u, NEW d, NEW p, NEW n, NEW x, Core(a, u, d, p, n, x), u # <<>>,
         Head(u).type # "create"
  PROVE  Core(a, Tail(u), d, p, n, x)
<1> DEFINE t == Tail(u)
<1>1. /\ AdapterOK(a) /\ u \in Seq(Messages) /\ d \in Seq(Events) /\ ProviderOK(p)
      /\ OneAtATime(a, u, d, p) /\ PastIsPast(a, u, d, p, n) /\ TurnsAdd(a, u, p, x)
      /\ InputsBehind(u, p)
  BY DEF Core, Shapes
<1>2. /\ t \in Seq(Messages) /\ Len(u) \in Nat /\ Len(t) = Len(u) - 1 /\ Head(u) = u[1]
      /\ \A i \in 1..Len(t) : i + 1 \in 1..Len(u) /\ t[i] = u[i + 1]
      /\ \A i \in 1..Len(u) : i # 1 => i - 1 \in 1..Len(t) /\ t[i - 1] = u[i]
  <2>1. u \in Seq(Messages) BY <1>1
  <2>2. QED BY <2>1, Tailed
<1>3. Head(u) \notin VadAsks BY DEF VadAsks
<1>4. Counted(u, VadAsks) = Counted(t, VadAsks)
  <2> DEFINE c == Counted(u, VadAsks)
  <2> DEFINE e == Counted(t, VadAsks)
  <2>1. c = e + (IF Head(u) \in VadAsks THEN 1 ELSE 0) BY <1>1, CountTail
  <2>2. e \in Nat BY <1>2, PlacesFinite
  <2> HIDE DEF c, e
  <2>3. c = e BY <1>3, <2>1, <2>2
  <2>4. QED BY <2>3 DEF c, e
<1>5. \A i \in 1..Len(t) : Cardinality(Before(u, i + 1)) = Cardinality(Before(t, i))
  <2> SUFFICES ASSUME NEW i \in 1..Len(t)
               PROVE  Cardinality(Before(u, i + 1)) = Cardinality(Before(t, i))
    OBVIOUS
  <2> DEFINE c == Cardinality(Before(u, i + 1))
  <2> DEFINE e == Cardinality(Before(t, i))
  <2>1. c = e + (IF Head(u) \in VadAsks THEN 1 ELSE 0) /\ e \in Nat BY <1>1, BeforeTail
  <2> HIDE DEF c, e
  <2>2. c = e BY <1>3, <2>1
  <2>3. QED BY <2>2 DEF c, e
<1> HIDE DEF t
<1>6. NoCreates(u) => NoCreates(t) BY <1>2 DEF NoCreates
<1>7. AskIsUp(a, u, d, p) => AskIsUp(a, t, d, p)
  <2> SUFFICES ASSUME AskIsUp(a, u, d, p) PROVE AskIsUp(a, t, d, p) OBVIOUS
  <2>1. PICK i \in 1..Len(u) : /\ u[i].type = "create" /\ u[i].kind = a.pending
                               /\ \A j \in 1..Len(u) : u[j].type = "create" => j = i
    BY DEF AskIsUp
  <2>2. i # 1 BY <1>2, <2>1
  <2>3. i - 1 \in 1..Len(t) /\ t[i - 1] = u[i] BY <1>2, <2>2
  <2>4. \A j \in 1..Len(t) : t[j].type = "create" => j = i - 1
    <3>1. \A j \in 1..Len(t) : t[j].type = "create" => j + 1 = i BY <1>2, <2>1
    <3>2. \A j \in 1..Len(t) : j + 1 = i => j = i - 1 BY <1>2
    <3>3. QED BY <3>1, <3>2
  <2>5. QED BY <2>1, <2>3, <2>4 DEF AskIsUp
<1>8. StartIsDown(a, u, d, p) => StartIsDown(a, t, d, p) BY <1>6 DEF StartIsDown
<1>9. OneAtATime(a, t, d, p) BY <1>1, <1>6, <1>7, <1>8 DEF OneAtATime
<1>10. PastIsPast(a, t, d, p, n)
  <2>1. ASSUME NEW i \in 1..Len(t), t[i].type = "cancel"
        PROVE  /\ EventKnown(a, n, t[i].event)
               /\ \A c \in a.cancels : c.event = t[i].event => c.id = t[i].id
    <3>1. i + 1 \in 1..Len(u) /\ t[i] = u[i + 1] BY <1>2
    <3>2. /\ EventKnown(a, n, u[i + 1].event)
          /\ \A c \in a.cancels : c.event = u[i + 1].event => c.id = u[i + 1].id
      BY <1>1, <2>1, <3>1 DEF PastIsPast
    <3>3. QED BY <3>1, <3>2
  <2>2. QED BY <1>1, <2>1 DEF PastIsPast
<1>11. TurnsAdd(a, t, p, x) BY <1>1, <1>4 DEF TurnsAdd
<1>12. InputsBehind(t, p) BY <1>1, <1>2, <1>5 DEF InputsBehind
<1>13. QED BY <1>1, <1>2, <1>9, <1>10, <1>11, <1>12 DEF Core, Shapes, t

\* A step of the provider.
LEMMA ProviderIsInv ==
  ASSUME RealtimeInv, OpenInv, Core(adapter, upward', downward', provider', asked, 0),
         UNCHANGED <<adapter, gatewayVars>>
  PROVE  RealtimeInv'
<1>1. adapter' = adapter /\ asked' = asked /\ ended' = ended /\ reported' = reported
      /\ resulted' = resulted
  BY DEF gatewayVars
<1>2. OpenInv' BY <1>1 DEF OpenInv, Core
<1>3. QED BY <1>1, <1>2 DEF RealtimeInv, Core, Shapes

LEMMA EventIs ==
  /\ \A k \in Nat : [type |-> "created", id |-> k] \in Events /\ [type |-> "call", id |-> k] \in Events
  /\ \A k \in Nat, b \in BOOLEAN : [type |-> "done", id |-> k, call |-> b] \in Events
  /\ \A k \in Nat : [type |-> "inactive", event |-> k] \in Events
  /\ [type |-> "started"] \in Events /\ [type |-> "stopped"] \in Events
<1>1. \A k \in Nat : [type |-> "created", id |-> k] \in Events /\ [type |-> "call", id |-> k] \in Events
  BY DEF Events
<1>2. \A k \in Nat, b \in BOOLEAN : [type |-> "done", id |-> k, call |-> b] \in Events BY DEF Events
<1>3. \A k \in Nat : [type |-> "inactive", event |-> k] \in Events BY DEF Events
<1>4. [type |-> "started"] \in Events /\ [type |-> "stopped"] \in Events BY DEF Events
<1>5. QED BY <1>1, <1>2, <1>3, <1>4

LEMMA EndsHas ==
  ASSUME NEW p, ProviderOK(p)
  PROVE  /\ ProviderOK(Ends(p)) /\ Ends(p).active = 0 /\ Ends(p).last = p.last
         /\ Ends(p).answered = p.answered
<1> DEFINE q == Ends(p)
<1>1. /\ DOMAIN q = DOMAIN p /\ q.active = 0 /\ q.last = p.last /\ q.answered = p.answered
      /\ q.called \in BOOLEAN /\ q.collided = p.collided
  BY DEF Ends, ProviderOK
<1>2. QED BY <1>1 DEF ProviderOK

LEMMA ProviderCallsKept == ASSUME RealtimeInv, OpenInv, ProviderCalls PROVE RealtimeInv'
<1> DEFINE p == provider
<1> DEFINE q == [p EXCEPT !.called = TRUE, !.calls = @ + 1]
<1> DEFINE m == [type |-> "call", id |-> p.active]
<1> DEFINE w == <<m>>
<1>1. /\ p.active # 0 /\ provider' = q
      /\ downward' = downward \o w \/ downward' = downward
      /\ upward' = upward /\ UNCHANGED <<adapter, gatewayVars>>
  BY DEF ProviderCalls, Emits
<1>2. /\ Core(adapter, upward, downward, p, asked, 0) /\ ProviderOK(p) /\ downward \in Seq(Events)
  BY OpenHas
<1>3. /\ DOMAIN q = DOMAIN p /\ q.active = p.active /\ q.last = p.last /\ q.answered = p.answered
      /\ q.called \in BOOLEAN /\ q.collided = p.collided
  BY <1>2 DEF ProviderOK
<1> HIDE DEF q
<1>4. ProviderOK(q) BY <1>2, <1>3 DEF ProviderOK
<1>5. m \in Events /\ m.type = "call" /\ m.id = p.active
  <2>1. p.active \in Nat BY <1>2 DEF ProviderOK
  <2>2. QED BY <2>1, EventIs
<1>6. w \in Seq(Events) /\ Len(w) = 1 /\ w[1] = m
  <2> HIDE DEF m
  <2>1. QED BY <1>2, <1>5, JoinOne
<1> HIDE DEF m, w, p
<1>7. Core(adapter, upward, downward \o w, q, asked, 0)
  <2>1. \A i \in 1..Len(w) : w[i].type = "call" /\ w[i].id = p.active /\ p.active # 0
    BY <1>1, <1>5, <1>6
  <2>2. QED BY <1>2, <1>3, <1>4, <1>6, <2>1, ToldKeeps
<1>8. Core(adapter, upward, downward, q, asked, 0)
  <2> DEFINE e == <<>>
  <2>1. e \in Seq(Events) /\ Len(e) = 0 BY EmptySeq
  <2>2. downward \o e = downward BY <1>2, ConcatEmptySeq
  <2> HIDE DEF e
  <2>3. \A i \in 1..Len(e) : FALSE BY <2>1
  <2>4. Core(adapter, upward, downward \o e, q, asked, 0)
    BY <1>2, <1>3, <1>4, <2>1, <2>3, ToldKeeps
  <2>5. QED BY <2>2, <2>4
<1>9. QED BY <1>1, <1>7, <1>8, ProviderIsInv

LEMMA ProviderFinishesKept == ASSUME RealtimeInv, OpenInv, ProviderFinishes PROVE RealtimeInv'
<1> DEFINE p == provider
<1> DEFINE m == DoneEvent(p.called)
<1>1. /\ p.active # 0 /\ provider' = Ends(p)
      /\ upward' = upward /\ UNCHANGED <<adapter, gatewayVars>>
      /\ \E k \in 1..2 : downward' = downward \o [i \in 1..k |-> m]
  BY DEF ProviderFinishes, Emits
<1>2. /\ Core(adapter, upward, downward, p, asked, 0) /\ ProviderOK(p) BY OpenHas
<1>3. m \in Events /\ m.type = "done" /\ m.id = p.active
  <2>1. p.active \in Nat /\ p.called \in BOOLEAN BY <1>2 DEF ProviderOK
  <2>2. QED BY <2>1, EventIs DEF DoneEvent
<1> HIDE DEF m
<1>4. PICK k \in 1..2 : downward' = downward \o [i \in 1..k |-> m] BY <1>1
<1> DEFINE w == [i \in 1..k |-> m]
<1>5. w \in Seq(Events) /\ Len(w) = k /\ \A i \in 1..Len(w) : w[i] = m
  <2>1. k \in Nat OBVIOUS
  <2>2. QED BY <1>3, <2>1
<1>6. 1 \in 1..Len(w) BY <1>5
<1> DEFINE q == Ends(p)
<1>7. ProviderOK(q) /\ q.active = 0 /\ q.last = p.last /\ q.answered = p.answered BY <1>2, EndsHas
<1>8. downward' = downward \o w /\ provider' = q BY <1>1, <1>4
<1> HIDE DEF w, q, p
<1>9. /\ \A i \in 1..Len(w) : w[i].type = "done" /\ w[i].id = p.active /\ p.active # 0
      /\ \E i \in 1..Len(w) : w[i].type = "done"
  BY <1>1, <1>3, <1>5, <1>6
<1>10. Core(adapter, upward, downward \o w, q, asked, 0) BY <1>2, <1>5, <1>7, <1>9, ToldKeeps
<1>11. QED BY <1>1, <1>8, <1>10, ProviderIsInv

LEMMA ProviderReadsKept == ASSUME RealtimeInv, OpenInv, ProviderReads PROVE RealtimeInv'
<1>1. /\ upward # <<>> /\ Head(upward).type # "create" /\ upward' = Tail(upward)
      /\ downward' = downward /\ provider' = provider /\ UNCHANGED <<adapter, gatewayVars>>
  BY DEF ProviderReads, Reads
<1>2. Core(adapter, Tail(upward), downward, provider, asked, 0) BY <1>1, OpenHas, ReadKeeps
<1>3. QED BY <1>1, <1>2, ProviderIsInv

LEMMA UserSpeaksKept == ASSUME RealtimeInv, OpenInv, UserSpeaks PROVE RealtimeInv'
<1> DEFINE p == provider
<1> DEFINE cut == p.active # 0 /\ p.kind # "notice"
<1> DEFINE q == [(IF cut THEN Ends(p) ELSE p) EXCEPT !.speech = "speaking"]
<1> DEFINE m == DoneEvent(p.called)
<1> DEFINE x == <<[type |-> "started"]>>
<1> DEFINE y == IF cut THEN <<m>> ELSE <<>>
<1> DEFINE w == x \o y
<1>1. /\ provider' = q /\ downward' = downward \o w
      /\ upward' = upward /\ UNCHANGED <<adapter, gatewayVars>>
  BY DEF UserSpeaks, Emits
<1>2. Core(adapter, upward, downward, p, asked, 0) /\ ProviderOK(p) BY OpenHas
<1>3. m \in Events /\ m.type = "done" /\ m.id = p.active
  <2>1. p.active \in Nat /\ p.called \in BOOLEAN BY <1>2 DEF ProviderOK
  <2>2. QED BY <2>1, EventIs DEF DoneEvent
<1>4. ProviderOK(Ends(p)) /\ Ends(p).active = 0 /\ Ends(p).last = p.last
      /\ Ends(p).answered = p.answered
  BY <1>2, EndsHas
<1>5. /\ ProviderOK(q) /\ q.last = p.last /\ q.answered = p.answered
      /\ q.active = IF cut THEN 0 ELSE p.active
  <2> DEFINE r == IF cut THEN Ends(p) ELSE p
  <2>1. /\ ProviderOK(r) /\ r.last = p.last /\ r.answered = p.answered
        /\ r.active = IF cut THEN 0 ELSE p.active
    BY <1>2, <1>4
  <2> HIDE DEF r, cut
  <2> DEFINE s == [r EXCEPT !.speech = "speaking"]
  <2>2. /\ DOMAIN s = DOMAIN r /\ s.active = r.active /\ s.last = r.last /\ s.answered = r.answered
        /\ s.called = r.called /\ s.collided = r.collided
    BY <2>1 DEF ProviderOK
  <2>3. q = s BY DEF r
  <2> HIDE DEF s, q
  <2>4. ProviderOK(s) BY <2>1, <2>2 DEF ProviderOK
  <2>5. QED BY <2>1, <2>2, <2>3, <2>4
<1> HIDE DEF q, m
<1>6. x \in Seq(Events) /\ Len(x) = 1 /\ x[1].type = "started" BY EventIs
<1>7. /\ y \in Seq(Events) /\ \A i \in 1..Len(y) : y[i] = m /\ cut
      /\ cut => \E i \in 1..Len(y) : y[i] = m
  <2>1. CASE cut
    <3>1. y = <<m>> BY <2>1
    <3> HIDE DEF y
    <3>2. <<m>> \in Seq(Events) /\ Len(<<m>>) = 1 /\ <<m>>[1] = m BY <1>3
    <3>3. 1 \in 1..Len(y) /\ y[1] = m BY <3>1, <3>2
    <3>4. \A i \in 1..Len(y) : y[i] = m BY <3>1, <3>2
    <3>5. QED BY <2>1, <3>1, <3>2, <3>3, <3>4
  <2>2. CASE ~cut
    <3>1. y = <<>> BY <2>2
    <3> HIDE DEF y
    <3>2. y \in Seq(Events) /\ Len(y) = 0 BY <3>1, EmptyIn
    <3>3. QED BY <2>2, <3>2
  <2>3. QED BY <2>1, <2>2
<1> HIDE DEF x, y
<1>8. /\ w \in Seq(Events) /\ Len(x) \in Nat
      /\ \A i \in 1..Len(y) : Len(x) + i \in 1..Len(w) /\ w[Len(x) + i] = y[i]
      /\ \A i \in 1..Len(w) : \/ i \in 1..Len(x) /\ w[i] = x[i]
                              \/ i - Len(x) \in 1..Len(y) /\ w[i] = y[i - Len(x)]
  <2>1. x \in Seq(Events) /\ y \in Seq(Events) BY <1>6, <1>7
  <2>2. QED BY <2>1, Joined
<1>11. cut => p.active # 0 OBVIOUS
<1> HIDE DEF w, cut, p
<1>9. ASSUME NEW i \in 1..Len(w)
      PROVE  w[i].type = "started" \/ (w[i] = m /\ cut)
  <2>1. CASE i \in 1..Len(x) /\ w[i] = x[i]
    <3>1. Len(x) = 1 BY <1>6
    <3>2. i = 1 BY <2>1, <3>1
    <3>3. w[i] = x[1] BY <2>1, <3>2
    <3>4. w[i].type = "started" BY <1>6, <3>3
    <3>5. QED BY <3>4
  <2>2. CASE i - Len(x) \in 1..Len(y) /\ w[i] = y[i - Len(x)] BY <1>7, <2>2
  <2>3. QED BY <1>8, <2>1, <2>2
<1>10. ASSUME cut PROVE \E i \in 1..Len(w) : w[i].type = "done"
  <2>1. PICK i \in 1..Len(y) : y[i] = m BY <1>7, <1>10
  <2>2. QED BY <1>3, <1>8, <2>1
<1>12. /\ \A i \in 1..Len(w) : w[i].type \in {"call", "done", "started", "stopped"}
       /\ \A i \in 1..Len(w) : w[i].type \in {"call", "done"} => w[i].id = p.active /\ p.active # 0
  BY <1>3, <1>9, <1>11
<1>13. \/ q.active = p.active /\ \A i \in 1..Len(w) : w[i].type # "done"
       \/ q.active = 0 /\ \E i \in 1..Len(w) : w[i].type = "done"
  <2>1. CASE cut BY <1>5, <1>10, <2>1
  <2>2. CASE ~cut BY <1>5, <1>9, <2>2
  <2>3. QED BY <2>1, <2>2
<1>14. Core(adapter, upward, downward \o w, q, asked, 0)
  BY <1>2, <1>5, <1>8, <1>12, <1>13, ToldKeeps
<1>15. QED BY <1>1, <1>14, ProviderIsInv

LEMMA UserPausesKept == ASSUME RealtimeInv, OpenInv, UserPauses PROVE RealtimeInv'
<1> DEFINE p == provider
<1> DEFINE q == [p EXCEPT !.speech = "silent", !.spoken = @ + 1]
<1> DEFINE w == <<[type |-> "stopped"]>>
<1>1. /\ provider' = q /\ downward' = downward \o w
      /\ upward' = upward /\ UNCHANGED <<adapter, gatewayVars>>
  BY DEF UserPauses, Emits
<1>2. Core(adapter, upward, downward, p, asked, 0) /\ ProviderOK(p) BY OpenHas
<1>3. /\ DOMAIN q = DOMAIN p /\ q.active = p.active /\ q.last = p.last /\ q.answered = p.answered
      /\ q.called = p.called /\ q.collided = p.collided
  BY <1>2 DEF ProviderOK
<1> HIDE DEF q
<1>4. ProviderOK(q) BY <1>2, <1>3 DEF ProviderOK
<1>5. w \in Seq(Events) /\ \A i \in 1..Len(w) : w[i].type = "stopped" BY EventIs
<1> HIDE DEF w, p
<1>6. Core(adapter, upward, downward \o w, q, asked, 0) BY <1>2, <1>3, <1>4, <1>5, ToldKeeps
<1>7. QED BY <1>1, <1>6, ProviderIsInv

\* A cancellation comes too late: its response, if it is the one the adapter
\* still thinks active, has its end on the way.
LEMMA MissedKeeps ==
  ASSUME NEW a, NEW u, NEW d, NEW p, NEW n, Core(a, u, d, p, n, 0), u # <<>>,
         Head(u).type = "cancel",
         ~(p.active # 0 /\ Head(u).id = p.active)
  PROVE  Core(a, u, d \o <<[type |-> "inactive", event |-> Head(u).event]>>, p, n, 0)
<1> DEFINE m == [type |-> "inactive", event |-> Head(u).event]
<1> DEFINE w == <<m>>
<1> DEFINE e == d \o w
<1>1. /\ AdapterOK(a) /\ u \in Seq(Messages) /\ d \in Seq(Events) /\ ProviderOK(p)
      /\ OneAtATime(a, u, d, p) /\ PastIsPast(a, u, d, p, n) /\ TurnsAdd(a, u, p, 0)
      /\ InputsBehind(u, p)
  BY DEF Core, Shapes
<1>2. Head(u) = u[1] /\ 1 \in 1..Len(u) /\ u[1] \in Messages
  <2>1. u \in Seq(Messages) BY <1>1
  <2>2. QED BY <2>1, Tailed
<1>3. u[1].event \in Nat /\ u[1].id \in Nat BY <1>2, MessageHas
<1>4. m \in Events /\ m.type = "inactive" /\ m.event = u[1].event
  <2>1. Head(u).event \in Nat BY <1>2, <1>3
  <2>2. QED BY <1>2, <2>1, EventIs
<1> HIDE DEF m
<1>5. w \in Seq(Events) /\ Len(w) = 1 /\ w[1] = m BY <1>4
<1> HIDE DEF w
<1>6. /\ e \in Seq(Events) /\ Len(d) \in Nat /\ Len(w) \in Nat /\ Len(e) = Len(d) + Len(w)
      /\ \A i \in 1..Len(d) : i \in 1..Len(e) /\ e[i] = d[i]
      /\ \A i \in 1..Len(e) : \/ i \in 1..Len(d) /\ e[i] = d[i]
                              \/ i - Len(d) \in 1..Len(w) /\ e[i] = w[i - Len(d)]
  <2>1. d \in Seq(Events) /\ w \in Seq(Events) BY <1>1, <1>5
  <2>2. QED BY <2>1, Joined
<1> HIDE DEF e
<1>7. \A i \in 1..Len(e) : \/ i \in 1..Len(d) /\ e[i] = d[i]
                           \/ i = Len(d) + 1 /\ e[i] = m
  <2>1. \A i \in 1..Len(e) : i - Len(d) \in 1..Len(w) => i - Len(d) = 1 /\ i = Len(d) + 1
    BY <1>5, <1>6
  <2>2. QED BY <1>5, <1>6, <2>1
<1>8. \A i \in 1..Len(e) : e[i].type # "inactive" => i \in 1..Len(d) /\ e[i] = d[i]
  BY <1>4, <1>7
<1>9. NoStarts(d) => NoStarts(e) BY <1>8 DEF NoStarts
<1>10. \A k, id : IsDone(d, k, id) => IsDone(e, k, id)
  <2> SUFFICES ASSUME NEW k, NEW id, IsDone(d, k, id) PROVE IsDone(e, k, id) OBVIOUS
  <2>1. PICK j \in 1..Len(d) : j > k /\ d[j].type = "done" /\ d[j].id = id BY DEF IsDone
  <2>2. QED BY <1>6, <2>1 DEF IsDone
<1>11. AskIsUp(a, u, d, p) => AskIsUp(a, u, e, p) BY <1>9 DEF AskIsUp
<1>12. StartIsDown(a, u, d, p) => StartIsDown(a, u, e, p)
  <2> SUFFICES ASSUME StartIsDown(a, u, d, p) PROVE StartIsDown(a, u, e, p) OBVIOUS
  <2>1. PICK i \in 1..Len(d) : /\ d[i].type = "created" /\ d[i].id = p.last
                               /\ \A j \in 1..Len(d) : d[j].type = "created" => j = i
                               /\ p.active = p.last \/ IsDone(d, i, p.last)
    BY DEF StartIsDown
  <2>2. i \in 1..Len(e) /\ e[i] = d[i] BY <1>6
  <2>3. \A j \in 1..Len(e) : e[j].type = "created" => j = i BY <1>8, <2>1
  <2>4. QED BY <1>10, <2>1, <2>2, <2>3 DEF StartIsDown
<1>13. OneAtATime(a, u, e, p) BY <1>1, <1>9, <1>10, <1>11, <1>12 DEF OneAtATime
<1>14. PastIsPast(a, u, e, p, n)
  <2>1. ASSUME NEW i \in 1..Len(e), e[i].type = "inactive"
        PROVE  /\ EventKnown(a, n, e[i].event)
               /\ \A c \in a.cancels : c.event = e[i].event /\ c.id # 0 /\ c.id = a.active =>
                    \E j \in 1..i - 1 : e[j].type = "done" /\ e[j].id = c.id
    <3>1. CASE i \in 1..Len(d) /\ e[i] = d[i]
      <4>1. /\ EventKnown(a, n, d[i].event)
            /\ \A c \in a.cancels : c.event = d[i].event /\ c.id # 0 /\ c.id = a.active =>
                 \E j \in 1..i - 1 : d[j].type = "done" /\ d[j].id = c.id
        BY <1>1, <2>1, <3>1 DEF PastIsPast
      <4>2. \A j \in 1..i - 1 : j \in 1..Len(d) /\ e[j] = d[j] BY <1>6, <3>1
      <4>3. QED BY <3>1, <4>1, <4>2
    <3>2. CASE i = Len(d) + 1 /\ e[i] = m
      <4>1. /\ EventKnown(a, n, u[1].event)
            /\ \A c \in a.cancels : c.event = u[1].event => c.id = u[1].id
        BY <1>1, <1>2 DEF PastIsPast
      <4>2. ASSUME NEW c \in a.cancels, c.event = e[i].event, c.id # 0, c.id = a.active
            PROVE  \E j \in 1..i - 1 : e[j].type = "done" /\ e[j].id = c.id
        <5>1. c.id = u[1].id BY <1>4, <3>2, <4>1, <4>2
        <5>2. p.active # a.active BY <1>2, <4>2, <5>1
        <5>3. IsDone(d, 0, a.active) BY <1>1, <4>2, <5>2 DEF OneAtATime
        <5>4. PICK j \in 1..Len(d) : d[j].type = "done" /\ d[j].id = a.active BY <5>3 DEF IsDone
        <5>5. j \in 1..i - 1 BY <1>6, <3>2
        <5>6. QED BY <1>6, <4>2, <5>4, <5>5
      <4>3. QED BY <1>4, <3>2, <4>1, <4>2
    <3>3. QED BY <1>7, <3>1, <3>2
  <2>2. /\ \A i \in 1..Len(e) : e[i].type \in {"created", "call", "done"} => e[i].id \in 1..p.last
        /\ \A i \in 1..Len(e) : e[i].type = "done" => e[i].id # p.active
    BY <1>1, <1>8 DEF PastIsPast
  <2>3. QED BY <1>1, <2>1, <2>2 DEF PastIsPast
<1>15. Core(a, u, e, p, n, 0) BY <1>1, <1>6, <1>13, <1>14 DEF Core, Shapes
<1>16. QED BY <1>15 DEF e, w, m

LEMMA ProviderCancelsKept == ASSUME RealtimeInv, OpenInv, ProviderCancels PROVE RealtimeInv'
<1> DEFINE p == provider
<1> DEFINE c == Head(upward)
<1> DEFINE hit == /\ p.active # 0
                  /\ IF c.id = 0 THEN p.kind # "notice" ELSE c.id = p.active
<1> DEFINE m == DoneEvent(p.called)
<1>1. /\ upward # <<>> /\ c.type = "cancel" /\ upward' = Tail(upward)
      /\ UNCHANGED <<adapter, gatewayVars>>
      /\ hit => provider' = Ends(p) /\ downward' = downward \o <<m>>
      /\ ~hit => provider' = p /\ downward' = downward \o <<[type |-> "inactive", event |-> c.event]>>
  BY DEF ProviderCancels, Reads, Emits
<1>2. Core(adapter, upward, downward, p, asked, 0) /\ ProviderOK(p) /\ downward \in Seq(Events)
  BY OpenHas
<1>3. CASE hit
  <2>1. m \in Events /\ m.type = "done" /\ m.id = p.active
    <3>1. p.active \in Nat /\ p.called \in BOOLEAN BY <1>2 DEF ProviderOK
    <3>2. QED BY <3>1, EventIs DEF DoneEvent
  <2> DEFINE w == <<m>>
  <2>2. provider' = Ends(p) /\ downward' = downward \o w /\ p.active # 0 BY <1>1, <1>3
  <2> HIDE DEF m
  <2>3. w \in Seq(Events) /\ Len(w) = 1 /\ w[1] = m BY <2>1
  <2> DEFINE q == Ends(p)
  <2>4. ProviderOK(q) /\ q.active = 0 /\ q.last = p.last /\ q.answered = p.answered BY <1>2, EndsHas
  <2>5. provider' = q BY <2>2
  <2> HIDE DEF w, q
  <2>6. /\ \A i \in 1..Len(w) : w[i].type = "done" /\ w[i].id = p.active /\ p.active # 0
        /\ \E i \in 1..Len(w) : w[i].type = "done"
    <3>1. 1 \in 1..Len(w) /\ w[1].type = "done" BY <2>1, <2>3
    <3>2. QED BY <2>1, <2>2, <2>3, <3>1
  <2> HIDE DEF p
  <2>7. Core(adapter, upward, downward \o w, q, asked, 0) BY <1>2, <2>3, <2>4, <2>6, ToldKeeps
  <2> DEFINE e == downward \o w
  <2>8. Core(adapter, upward, e, q, asked, 0) /\ downward' = e BY <2>2, <2>7
  <2> HIDE DEF e
  <2>9. Core(adapter, Tail(upward), e, q, asked, 0) BY <1>1, <2>8, ReadKeeps
  <2>10. QED BY <1>1, <2>5, <2>8, <2>9, ProviderIsInv
<1>4. CASE ~hit
  <2>1. ~(p.active # 0 /\ c.id = p.active) BY <1>4
  <2> DEFINE e == downward \o <<[type |-> "inactive", event |-> c.event]>>
  <2>2. provider' = p /\ downward' = e BY <1>1, <1>4
  <2>3. Core(adapter, upward, e, p, asked, 0) BY <1>1, <1>2, <2>1, MissedKeeps
  <2> HIDE DEF e
  <2>4. Core(adapter, Tail(upward), e, p, asked, 0) BY <1>1, <2>3, ReadKeeps
  <2>5. QED BY <1>1, <2>2, <2>4, ProviderIsInv
<1>5. QED BY <1>3, <1>4

\* The provider begins the response it is asked for.
LEMMA CreatedKeeps ==
  ASSUME NEW a, NEW u, NEW d, NEW p, NEW n, Core(a, u, d, p, n, 0), u # <<>>,
         Head(u).type = "create", NEW q, ProviderOK(q), q.last = p.last + 1, q.active = q.last,
         q.answered = p.answered + Asked(Head(u).kind)
  PROVE  p.active = 0 /\ Core(a, Tail(u), d \o <<[type |-> "created", id |-> q.last]>>, q, n, 0)
<1> DEFINE id == q.last
<1> DEFINE m == [type |-> "created", id |-> id]
<1> DEFINE w == <<m>>
<1> DEFINE e == d \o w
<1> DEFINE t == Tail(u)
<1>1. /\ AdapterOK(a) /\ u \in Seq(Messages) /\ d \in Seq(Events) /\ ProviderOK(p)
      /\ OneAtATime(a, u, d, p) /\ PastIsPast(a, u, d, p, n) /\ TurnsAdd(a, u, p, 0)
      /\ InputsBehind(u, p)
  BY DEF Core, Shapes
<1>2. /\ t \in Seq(Messages) /\ Len(u) \in Nat /\ Len(t) = Len(u) - 1 /\ Head(u) = u[1]
      /\ 1 \in 1..Len(u) /\ u[1] \in Messages
      /\ \A i \in 1..Len(t) : i + 1 \in 1..Len(u) /\ t[i] = u[i + 1]
  <2>1. u \in Seq(Messages) BY <1>1
  <2>2. QED BY <2>1, Tailed
<1>3. p.last \in Nat /\ id \in Nat /\ id # 0 /\ id = p.last + 1
      /\ id \notin 1..p.last /\ 1..p.last \subseteq 1..id
  <2>1. p.last \in Nat BY <1>1 DEF ProviderOK
  <2>2. QED BY <2>1
<1>4. m \in Events /\ m.type = "created" /\ m.id = id BY <1>3, EventIs
<1> HIDE DEF m
<1>5. w \in Seq(Events) /\ Len(w) = 1 /\ w[1] = m BY <1>4
<1> HIDE DEF w
<1>6. /\ e \in Seq(Events) /\ Len(d) \in Nat /\ Len(w) \in Nat /\ Len(e) = Len(d) + Len(w)
      /\ \A i \in 1..Len(d) : i \in 1..Len(e) /\ e[i] = d[i]
      /\ \A i \in 1..Len(w) : Len(d) + i \in 1..Len(e) /\ e[Len(d) + i] = w[i]
      /\ \A i \in 1..Len(e) : \/ i \in 1..Len(d) /\ e[i] = d[i]
                              \/ i - Len(d) \in 1..Len(w) /\ e[i] = w[i - Len(d)]
  <2>1. d \in Seq(Events) /\ w \in Seq(Events) BY <1>1, <1>5
  <2>2. QED BY <2>1, Joined
<1> HIDE DEF e
<1>7. \A i \in 1..Len(e) : \/ i \in 1..Len(d) /\ e[i] = d[i]
                           \/ i = Len(d) + 1 /\ e[i] = m
  <2>1. \A i \in 1..Len(e) : i - Len(d) \in 1..Len(w) => i - Len(d) = 1 /\ i = Len(d) + 1
    BY <1>5, <1>6
  <2>2. QED BY <1>5, <1>6, <2>1
<1>8. Len(d) + 1 \in 1..Len(e) /\ e[Len(d) + 1] = m
  <2>1. 1 \in 1..Len(w) BY <1>5
  <2>2. QED BY <1>5, <1>6, <2>1
<1>9. ~NoCreates(u) BY <1>2 DEF NoCreates
<1>10. a.pending # None /\ a.active = 0 /\ AskIsUp(a, u, d, p)
  BY <1>1, <1>9 DEF OneAtATime, StartIsDown
<1>11. NoStarts(d) /\ p.active = 0 BY <1>10 DEF AskIsUp
<1>12. PICK i \in 1..Len(u) : \A j \in 1..Len(u) : u[j].type = "create" => j = i
  BY <1>10 DEF AskIsUp
<1> HIDE DEF t, id
<1>13. NoCreates(t)
  <2>1. i = 1 BY <1>2, <1>12
  <2>2. \A j \in 1..Len(t) : t[j].type = "create" => j + 1 = 1 BY <1>2, <1>12, <2>1
  <2>3. \A j \in 1..Len(t) : j + 1 # 1 BY <1>2
  <2>4. QED BY <2>2, <2>3 DEF NoCreates
<1>14. OneAtATime(a, t, e, q)
  <2>1. \A j \in 1..Len(e) : e[j].type = "created" => j = Len(d) + 1 BY <1>7, <1>11 DEF NoStarts
  <2>2. id \notin a.terminal BY <1>1, <1>3 DEF PastIsPast
  <2>3. StartIsDown(a, t, e, q) BY <1>3, <1>4, <1>8, <1>13, <2>1, <2>2 DEF StartIsDown, id
  <2>4. QED BY <1>1, <1>10, <2>3 DEF OneAtATime
<1>15. PastIsPast(a, t, e, q, n)
  <2>1. ASSUME NEW j \in 1..Len(t), t[j].type = "cancel"
        PROVE  /\ EventKnown(a, n, t[j].event)
               /\ \A c \in a.cancels : c.event = t[j].event => c.id = t[j].id
    <3>1. j + 1 \in 1..Len(u) /\ t[j] = u[j + 1] BY <1>2
    <3>2. /\ EventKnown(a, n, u[j + 1].event)
          /\ \A c \in a.cancels : c.event = u[j + 1].event => c.id = u[j + 1].id
      BY <1>1, <2>1, <3>1 DEF PastIsPast
    <3>3. QED BY <3>1, <3>2
  <2>2. ASSUME NEW j \in 1..Len(e), e[j].type = "inactive"
        PROVE  /\ EventKnown(a, n, e[j].event)
               /\ \A c \in a.cancels : c.event = e[j].event /\ c.id # 0 /\ c.id = a.active =>
                    \E k \in 1..j - 1 : e[k].type = "done" /\ e[k].id = c.id
    <3>1. j \in 1..Len(d) /\ e[j] = d[j] BY <1>4, <1>7, <2>2
    <3>2. EventKnown(a, n, d[j].event) BY <1>1, <2>2, <3>1 DEF PastIsPast
    <3>3. QED BY <1>10, <3>1, <3>2
  <2>3. ASSUME NEW j \in 1..Len(e), e[j].type \in {"created", "call", "done"}
        PROVE  e[j].id \in 1..id
    <3>1. CASE j \in 1..Len(d) /\ e[j] = d[j]
      <4>1. e[j].id \in 1..p.last BY <1>1, <2>3, <3>1 DEF PastIsPast
      <4>2. QED BY <1>3, <4>1
    <3>2. CASE e[j] = m BY <1>3, <1>4, <3>2
    <3>3. QED BY <1>7, <3>1, <3>2
  <2>4. ASSUME NEW j \in 1..Len(e), e[j].type = "done" PROVE e[j].id # id
    <3>1. j \in 1..Len(d) /\ e[j] = d[j] BY <1>4, <1>7, <2>4
    <3>2. e[j].id \in 1..p.last BY <1>1, <2>4, <3>1 DEF PastIsPast
    <3>3. QED BY <1>3, <3>2
  <2>5. a.terminal \subseteq 1..id BY <1>1, <1>3 DEF PastIsPast
  <2>6. q.active = id /\ q.last = id BY DEF id
  <2>7. QED BY <1>1, <2>1, <2>2, <2>3, <2>4, <2>5, <2>6 DEF PastIsPast
<1> DEFINE k == Asked(Head(u).kind)
<1> DEFINE z == p.answered
<1>16. k \in {0, 1} /\ (Head(u) \in VadAsks <=> k = 1) /\ z \in Nat /\ q.answered = z + k
  <2>1. Head(u) \in VadAsks <=> Head(u).kind = "vad" BY <1>2 DEF VadAsks
  <2>2. QED BY <1>1, <2>1 DEF Asked, ProviderOK
<1>17. TurnsAdd(a, t, q, 0)
  <2> DEFINE c == Counted(u, VadAsks)
  <2> DEFINE f == Counted(t, VadAsks)
  <2> DEFINE v == VadsIn(a.queue)
  <2> DEFINE r == a.turns
  <2> DEFINE y == q.answered
  <2>1. c = f + (IF Head(u) \in VadAsks THEN 1 ELSE 0)
    <3>1. u \in Seq(Messages) BY <1>1
    <3>2. QED BY <3>1, CountTail DEF t
  <2>2. f \in Nat /\ v \in Nat
    <3>1. f \in Nat BY <1>2, PlacesFinite
    <3>2. a.queue \in Seq(AskKinds) BY <1>1 DEF AdapterOK
    <3>3. VadsIn(a.queue) \in Nat BY <3>2, PlacesFinite DEF VadsIn
    <3>4. QED BY <3>1, <3>3
  <2>3. r = z + c + v + 0 /\ y = z + k BY <1>1, <1>16 DEF TurnsAdd
  <2>4. r = y + f + v + 0
    <3> HIDE DEF c, f, v, r, y, k, z
    <3>1. c = f + k BY <1>16, <2>1
    <3>2. QED BY <1>16, <2>2, <2>3, <3>1
  <2>5. QED BY <1>1, <2>4 DEF TurnsAdd
<1>18. InputsBehind(t, q)
  <2> SUFFICES ASSUME NEW j \in 1..Len(t), t[j].type = "input"
               PROVE  t[j].after <= q.answered + Cardinality(Before(t, j))
    BY DEF InputsBehind
  <2> DEFINE c == Cardinality(Before(u, j + 1))
  <2> DEFINE f == Cardinality(Before(t, j))
  <2> DEFINE y == q.answered
  <2>1. c = f + (IF Head(u) \in VadAsks THEN 1 ELSE 0) /\ f \in Nat
    <3>1. u \in Seq(Messages) BY <1>1
    <3>2. QED BY <3>1, BeforeTail DEF t
  <2>2. j + 1 \in 1..Len(u) /\ t[j] = u[j + 1] BY <1>2
  <2>3. t[j].after <= z + c BY <1>1, <2>2 DEF InputsBehind
  <2>4. z + c = y + f
    <3>1. y = z + k BY <1>16
    <3> HIDE DEF c, f, y, k, z
    <3>2. c = f + k BY <1>16, <2>1
    <3>3. QED BY <1>16, <2>1, <3>1, <3>2
  <2>5. QED BY <2>3, <2>4
<1>19. Core(a, t, e, q, n, 0) BY <1>1, <1>2, <1>6, <1>14, <1>15, <1>17, <1>18 DEF Core, Shapes
<1>20. QED BY <1>11, <1>19 DEF t, e, w, m, id

LEMMA ProviderCreatesKept == ASSUME RealtimeInv, OpenInv, ProviderCreates PROVE RealtimeInv'
<1> DEFINE p == provider
<1> DEFINE id == p.last + 1
<1> DEFINE kind == Head(upward).kind
<1> DEFINE q == [p EXCEPT !.active = id, !.last = id, !.kind = kind,
                          !.answered = IF kind = "vad" THEN @ + 1 ELSE @]
<1>1. /\ upward # <<>> /\ Head(upward).type = "create" /\ upward' = Tail(upward)
      /\ UNCHANGED <<adapter, gatewayVars>>
      /\ p.active = 0 => provider' = q /\ downward' = downward \o <<[type |-> "created", id |-> id]>>
  BY DEF ProviderCreates, Reads, Emits
<1>2. Core(adapter, upward, downward, p, asked, 0) /\ ProviderOK(p) BY OpenHas
<1>3. p.last \in Nat /\ p.answered \in Nat BY <1>2 DEF ProviderOK
<1>4. id \in Nat /\ (IF kind = "vad" THEN p.answered + 1 ELSE p.answered) \in Nat BY <1>3
<1>5. /\ DOMAIN q = DOMAIN p /\ q.active = id /\ q.last = id /\ q.called = p.called
      /\ q.collided = p.collided
      /\ q.answered = IF kind = "vad" THEN p.answered + 1 ELSE p.answered
  BY <1>2 DEF ProviderOK
<1> HIDE DEF q
<1>6. ProviderOK(q) BY <1>2, <1>4, <1>5 DEF ProviderOK
<1>7. q.answered = p.answered + Asked(kind) BY <1>3, <1>5 DEF Asked
<1>8. q.last = p.last + 1 /\ q.active = q.last BY <1>5
<1>9. p.active = 0
      /\ Core(adapter, Tail(upward), downward \o <<[type |-> "created", id |-> q.last]>>, q, asked, 0)
  BY <1>1, <1>2, <1>6, <1>7, <1>8, CreatedKeeps
<1>10. Core(adapter, upward', downward', provider', asked, 0) BY <1>1, <1>5, <1>9
<1>11. QED BY <1>1, <1>10, ProviderIsInv

LEMMA RealtimeInvNext == RealtimeInv /\ [RealtimeNext]_realtimeVars => RealtimeInv'
<1> SUFFICES ASSUME RealtimeInv, [RealtimeNext]_realtimeVars PROVE RealtimeInv'
  OBVIOUS
<1>1. CASE UNCHANGED realtimeVars
  BY <1>1 DEF realtimeVars, RealtimeInv, OpenInv
<1>2. CASE RealtimeNext
  <2>1. IsUp
    BY <1>2 DEF RealtimeNext, SendsText, SendsToolResult, SendsNotice, StreamsAudio, EndsAudio,
      CancelsResponse, ShutsDown, HearsSpeech, HearsPause, ResponseStarts, ToolCalled,
      ResponseEnds, CancelTooLate, ProviderCreates, ProviderCalls, ProviderFinishes,
      ProviderCancels, ProviderReads, UserSpeaks, UserPauses, Asks, Receives, Reads
  <2>2. OpenInv
    <3>1. ClosedAdapter.closing BY DEF ClosedAdapter, Fresh
    <3>2. QED BY <2>1, <3>1 DEF RealtimeInv, IsUp
  <2>3. CASE SendsText BY <2>2, <2>3, SendsTextKept
  <2>4. CASE SendsToolResult BY <2>2, <2>4, SendsToolResultKept
  <2>5. CASE SendsNotice BY <2>2, <2>5, SendsNoticeKept
  <2>6. CASE StreamsAudio BY <2>2, <2>6, StreamsAudioKept
  <2>7. CASE EndsAudio BY <2>2, <2>7, EndsAudioKept
  <2>8. CASE CancelsResponse BY <2>2, <2>8, CancelsResponseKept
  <2>9. CASE ShutsDown BY <2>2, <2>9, ShutsDownKept
  <2>10. CASE HearsSpeech BY <2>2, <2>10, HearsSpeechKept
  <2>11. CASE HearsPause BY <2>2, <2>11, HearsPauseKept
  <2>12. CASE ResponseStarts BY <2>2, <2>12, ResponseStartsKept
  <2>13. CASE ToolCalled BY <2>2, <2>13, ToolCalledKept
  <2>14. CASE ResponseEnds BY <2>2, <2>14, ResponseEndsKept
  <2>15. CASE CancelTooLate BY <2>2, <2>15, CancelTooLateKept
  <2>16. CASE ProviderCreates BY <2>2, <2>16, ProviderCreatesKept
  <2>17. CASE ProviderCalls BY <2>2, <2>17, ProviderCallsKept
  <2>18. CASE ProviderFinishes BY <2>2, <2>18, ProviderFinishesKept
  <2>19. CASE ProviderCancels BY <2>2, <2>19, ProviderCancelsKept
  <2>20. CASE ProviderReads BY <2>2, <2>20, ProviderReadsKept
  <2>21. CASE UserSpeaks BY <2>2, <2>21, UserSpeaksKept
  <2>22. CASE UserPauses BY <2>2, <2>22, UserPausesKept
  <2>23. QED
    BY <1>2, <2>3, <2>4, <2>5, <2>6, <2>7, <2>8, <2>9, <2>10, <2>11, <2>12, <2>13, <2>14,
       <2>15, <2>16, <2>17, <2>18, <2>19, <2>20, <2>21, <2>22 DEF RealtimeNext
<1>3. QED BY <1>1, <1>2

\* A call is reported by ToolCalled and by ResponseEnds, and by them only of
\* the active response, when that is not cut off.
LEMMA ReportedIsLive ==
  ASSUME RealtimeInv, RealtimeNext, NEW id, id \in reported' \ reported
  PROVE  id \notin ended
<1>1. ToolCalled \/ ResponseEnds
  BY DEF RealtimeNext, SendsText, SendsToolResult, SendsNotice, StreamsAudio, EndsAudio,
    CancelsResponse, ShutsDown, HearsSpeech, HearsPause, ResponseStarts,
    CancelTooLate, ProviderCreates, ProviderCalls, ProviderFinishes,
    ProviderCancels, ProviderReads, UserSpeaks, UserPauses, gatewayVars
<1>2. IsUp /\ id = adapter.active /\ ~Suppresses(adapter, id)
  <2>1. CASE ToolCalled BY <2>1 DEF ToolCalled, Receives
  <2>2. CASE ResponseEnds BY <2>2 DEF ResponseEnds, Receives, Concerns
  <2>3. QED BY <1>1, <2>1, <2>2
<1>3. OpenInv
  <2>1. ClosedAdapter.closing BY DEF ClosedAdapter, Fresh
  <2>2. QED BY <1>2, <2>1 DEF RealtimeInv, IsUp
<1>4. CutOffKnown(adapter, ended) BY <1>3 DEF OpenInv
<1>5. QED BY <1>2, <1>4 DEF CutOffKnown, Suppresses

LEMMA ProviderAlwaysKept == RealtimeSpec => []ProviderKept
<1>1. RealtimeInit => RealtimeInv BY RealtimeInvInit
<1>2. RealtimeInv /\ [RealtimeNext]_realtimeVars => RealtimeInv' BY RealtimeInvNext
<1>3. RealtimeInv => ProviderKept BY RealtimeInvKept
<1>4. QED BY <1>1, <1>2, <1>3, PTL DEF RealtimeSpec

\* A tool call that completes in a response the gateway or the user has cut
\* off is never given to the gateway, whatever the order of the cancellation,
\* the speech, the call and the end of the response.
THEOREM CutOffIsAlwaysSilent == RealtimeSpec => CutOffIsSilent
<1>1. RealtimeInit => RealtimeInv BY RealtimeInvInit
<1>2. RealtimeInv /\ [RealtimeNext]_realtimeVars => RealtimeInv' BY RealtimeInvNext
<1>3. RealtimeInv /\ [RealtimeNext]_realtimeVars
        => [\A id \in reported' \ reported : id \notin ended]_realtimeVars
  BY ReportedIsLive
<1>4. QED BY <1>1, <1>2, <1>3, PTL DEF RealtimeSpec, CutOffIsSilent
=============================================================================
