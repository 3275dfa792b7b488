----------------------------- MODULE BrowserProofs -----------------------------
(***************************************************************************)
(* What the clients keep.  The page: one socket at a time and a connection *)
(* that is always on its way back; a microphone that records as long as    *)
(* the page asks and notices that are told of as they are played; a view   *)
(* of a task that never goes back; a face that shows what it was told; and *)
(* narrations that are asked for once.  The bridge of the dashboard: what  *)
(* it took it passes on, in order.  The commands of the installed service: *)
(* what they report is so.  For every value of the constants of the        *)
(* modules extended here.                                                  *)
(***************************************************************************)
EXTENDS BrowserConnection, BrowserAudio, BrowserTasks, VoicePresence, TaskNarration,
        DashboardRelay, ServiceManager,
        FiniteSetTheorems, SequenceTheorems, WellFoundedInduction, TLAPS

-----------------------------------------------------------------------------
(* The connection *)

Attempt == [open : BOOLEAN, socket : Sockets \cup {0}, gen : Nat]
Page ==
  [state : {"idle", "connecting", "starting", "ready", "closing", "closed", "failed"},
   socket : Sockets \cup {0}, gen : Nat, session : BOOLEAN, attempt : Attempt,
   supervisor : {"idle", "connecting", "connected", "reconnecting", "stopped"},
   connecting : BOOLEAN, timer : BOOLEAN, stopped : BOOLEAN, intentional : BOOLEAN]

PageTypeOK ==
  /\ page \in Page
  /\ wire \in [Sockets -> [state : {"new", "connecting", "open", "closing", "closed"}, gen : Nat]]
  /\ forcing \subseteq Sockets /\ leaving \subseteq Sockets
  /\ clicks \in [forced : Nat, gaveUp : Nat, missed : Nat]

\* The attempt of the client is the one of the supervisor, a timer waits only
\* between attempts, and nothing is under way before the start.
AttemptOK ==
  /\ page.attempt.open <=> page.connecting
  /\ ~page.connecting => page.attempt.socket = 0
  /\ page.connecting => ~page.timer /\ page.supervisor \in {"connecting", "stopped"}
  /\ page.attempt.socket # 0 => page.socket \in {0, page.attempt.socket}
  /\ page.supervisor = "stopped" => page.stopped
  /\ page.timer => ~page.stopped
  /\ page.supervisor = "idle" =>
       page.socket = 0 /\ ~page.connecting /\ ~page.timer /\ forcing = {}

\* A socket in use is the page's, and no other is about to be opened.
LiveOK ==
  \A s \in Sockets : Live(s) =>
    /\ page.socket = s /\ ~AwaitsUrl /\ ~page.timer
    /\ ~page.connecting => wire[s].state = "open" /\ (page.state = "ready" \/ forcing # {})

\* A forced reconnect waits for the page's own socket; as long as none missed
\* its end, a close is taken for intended only while one waits.
ForceOK ==
  /\ forcing # {} =>
       /\ ~page.connecting /\ ~page.timer /\ page.state = "closing"
       /\ forcing \subseteq {page.socket}
  /\ page.intentional /\ ~page.stopped /\ clicks.missed = 0 => forcing # {}

\* The inductive invariant.
PageInv == PageTypeOK /\ AttemptOK /\ LiveOK /\ ForceOK /\ StrandedByForce

LEMMA Smallest ==
  ASSUME NEW T, T \subseteq Nat, T # {}
  PROVE  \E i \in T : \A j \in T : i <= j
<1>1. PICK i \in T : \A j \in T : ~ (<<j, i>> \in OpToRel(<, Nat))
  BY WFMin, NatLessThanWellFounded, Zenon
<1>2. \A j \in T : ~ (j < i)
  BY <1>1, Zenon DEF OpToRel
<1>3. \A j \in T : i <= j BY <1>2
<1>4. QED BY <1>3

LEMMA PageInitial ==
  ASSUME PageInit
  PROVE  PageInv
<1> USE PageAssumption DEF PageInit
<1>1. PageTypeOK BY DEF PageTypeOK, Page, Attempt, NoAttempt
<1>2. AttemptOK BY DEF AttemptOK, NoAttempt
<1>3. LiveOK BY DEF LiveOK, Live
<1>4. ForceOK BY DEF ForceOK
<1>5. StrandedByForce BY DEF StrandedByForce
<1>6. QED BY <1>1, <1>2, <1>3, <1>4, <1>5 DEF PageInv

\* One socket, since every socket in use is the page's.
LEMMA OneIsLive ==
  ASSUME PageTypeOK, LiveOK
  PROVE  OneSocket
<1> DEFINE L == {s \in Sockets : Live(s)}
<1>1. CASE L = {} BY <1>1, FS_EmptySet DEF OneSocket
<1>2. CASE L # {}
  <2>1. L = {page.socket} BY <1>2 DEF LiveOK
  <2>2. QED BY <2>1, FS_Singleton DEF OneSocket
<1>3. QED BY <1>1, <1>2

\* An attempt begins unless there is one, or a connection, or the supervisor
\* was stopped.
LEMMA RunsResult ==
  ASSUME NEW p \in Page
  PROVE  /\ RunsAttempt(p) \in Page
         /\ p.stopped \/ p.connecting \/ Connected(p) => RunsAttempt(p) = p
         /\ ~p.stopped /\ ~p.connecting /\ ~Connected(p) =>
              /\ ~RunsAttempt(p).timer /\ RunsAttempt(p).connecting /\ ~RunsAttempt(p).stopped
              /\ RunsAttempt(p).supervisor = "connecting"
              /\ RunsAttempt(p).attempt.open /\ RunsAttempt(p).attempt.socket = 0
              /\ RunsAttempt(p).socket = p.socket /\ RunsAttempt(p).intentional = p.intentional
<1>1. CASE p.stopped \/ p.connecting \/ Connected(p)
  BY <1>1 DEF RunsAttempt
<1>2. CASE ~(p.stopped \/ p.connecting \/ Connected(p))
  <2> DEFINE a == [open |-> TRUE, socket |-> 0, gen |-> p.gen + 1]
             q == [p EXCEPT !.timer = FALSE, !.connecting = TRUE, !.supervisor = "connecting",
                            !.state = "connecting", !.gen = @ + 1, !.attempt = a]
  <2>0. p.gen + 1 \in Nat BY DEF Page
  <2>1. a \in Attempt BY <2>0 DEF Attempt
  <2>2. q \in Page
    <3> HIDE DEF a
    <3>1. QED BY <2>0, <2>1 DEF Page
  <2>3. RunsAttempt(p) = q BY <1>2 DEF RunsAttempt
  <2>4. /\ ~q.timer /\ q.connecting /\ q.stopped = p.stopped /\ q.supervisor = "connecting"
        /\ q.attempt = a /\ q.socket = p.socket /\ q.intentional = p.intentional
    BY DEF Page
  <2>5. QED BY <1>2, <2>2, <2>3, <2>4
<1>3. QED BY <1>1, <1>2

\* A failed attempt leaves a timer behind, unless the supervisor was stopped.
LEMMA FailsResult ==
  ASSUME NEW p \in Page, p.timer => ~p.stopped
  PROVE  LET q == AttemptFails(p)
         IN  /\ q \in Page
             /\ ~q.connecting /\ ~q.attempt.open /\ q.attempt.socket = 0
             /\ (q.timer <=> ~p.stopped) /\ q.stopped = p.stopped
             /\ q.socket = p.socket /\ q.intentional = p.intentional /\ q.gen = p.gen
             /\ q.supervisor = IF p.stopped \/ p.timer THEN p.supervisor ELSE "reconnecting"
             /\ p.state = "closing" => q.state \in {"closing", "failed"}
<1> DEFINE r == [p EXCEPT !.state = IF p.attempt.gen = p.gen /\ @ # "closed" THEN "failed" ELSE @,
                          !.attempt = NoAttempt, !.connecting = FALSE]
<1>1. NoAttempt \in Attempt BY DEF NoAttempt, Attempt
<1>2. r \in Page BY <1>1 DEF Page
<1>3. /\ ~r.connecting /\ r.attempt = NoAttempt /\ r.timer = p.timer /\ r.stopped = p.stopped
      /\ r.socket = p.socket /\ r.intentional = p.intentional /\ r.gen = p.gen
      /\ r.supervisor = p.supervisor
      /\ p.state = "closing" => r.state \in {"closing", "failed"}
  BY DEF Page
<1>4. AttemptFails(p) = Schedules(r) BY Zenon DEF AttemptFails
<1>5. CASE r.stopped \/ r.timer
  <2> HIDE DEF r
  <2>1. AttemptFails(p) = r BY <1>4, <1>5 DEF Schedules
  <2>2. r.timer <=> ~p.stopped BY <1>3, <1>5
  <2>3. QED BY <1>2, <1>3, <1>5, <2>1, <2>2 DEF NoAttempt
<1>6. CASE ~(r.stopped \/ r.timer)
  <2> DEFINE q == [r EXCEPT !.timer = TRUE, !.supervisor = "reconnecting"]
  <2> HIDE DEF r
  <2>1. q \in Page BY <1>2 DEF Page
  <2>2. AttemptFails(p) = q BY <1>4, <1>6 DEF Schedules
  <2>3. /\ ~q.connecting /\ q.attempt = NoAttempt /\ q.timer /\ q.stopped = r.stopped
        /\ q.socket = r.socket /\ q.intentional = r.intentional /\ q.gen = r.gen
        /\ q.supervisor = "reconnecting" /\ q.state = r.state
    BY <1>2, <1>3 DEF Page
  <2>4. QED BY <1>3, <1>6, <2>1, <2>2, <2>3 DEF NoAttempt
<1>7. QED BY <1>5, <1>6

\* The end of the current socket: retried, unless it was intended.
LEMMA CloseResult ==
  ASSUME NEW p \in Page, p.timer => ~p.stopped
  PROVE  LET q == HandlesClose(p)
         IN  /\ q \in Page
             /\ q.connecting = p.connecting /\ q.attempt = p.attempt /\ q.socket = p.socket
             /\ q.stopped = p.stopped /\ q.state = p.state /\ q.gen = p.gen
             /\ p.stopped => q = p
             /\ q.intentional => p.intentional /\ p.stopped
             /\ p.intentional => q.timer = p.timer /\ q.supervisor = p.supervisor
             /\ p.supervisor # "connected" => q.timer = p.timer /\ q.supervisor = p.supervisor
             /\ ~p.stopped /\ ~p.intentional /\ p.supervisor = "connected" =>
                  q.timer /\ (q.supervisor = IF p.timer THEN p.supervisor ELSE "reconnecting")
<1>1. CASE p.stopped BY <1>1 DEF HandlesClose, Page
<1>2. CASE ~p.stopped /\ p.intentional
  <2> DEFINE q == [p EXCEPT !.intentional = FALSE]
  <2>1. HandlesClose(p) = q BY <1>2 DEF HandlesClose
  <2>2. q \in Page BY DEF Page
  <2>3. QED BY <1>2, <2>1, <2>2 DEF Page
<1>3. CASE ~p.stopped /\ ~p.intentional /\ p.supervisor # "connected"
  BY <1>3 DEF HandlesClose, Page
<1>4. CASE ~p.stopped /\ ~p.intentional /\ p.supervisor = "connected" /\ p.timer
  BY <1>4 DEF HandlesClose, Schedules, Page
<1>5. CASE ~p.stopped /\ ~p.intentional /\ p.supervisor = "connected" /\ ~p.timer
  <2> DEFINE q == [p EXCEPT !.timer = TRUE, !.supervisor = "reconnecting"]
  <2>1. HandlesClose(p) = q BY <1>5 DEF HandlesClose, Schedules
  <2>2. q \in Page BY DEF Page
  <2>3. QED BY <1>5, <2>1, <2>2 DEF Page
<1>6. QED BY <1>1, <1>2, <1>3, <1>4, <1>5 DEF Page

LEMMA StartsStep ==
  ASSUME PageInv, Starts \/ TimerFires
  PROVE  PageInv'
<1> USE DEF PageInv
<1> PICK p \in Page : /\ page' = RunsAttempt(p) /\ UNCHANGED <<wire, forcing, leaving, clicks>>
                      /\ p = [page EXCEPT !.timer = FALSE]
                      /\ ~page.stopped /\ ~page.connecting /\ ~Connected(p)
                      /\ \A s \in Sockets : ~Live(s)
                      /\ forcing = {}
  <2>1. CASE Starts
    <3>1. page = [page EXCEPT !.timer = FALSE] BY <2>1 DEF Starts, AttemptOK, PageTypeOK, Page
    <3>2. \A s \in Sockets : ~Live(s) BY <2>1 DEF Starts, AttemptOK, LiveOK, Sockets
    <3>3. ~page.connecting /\ ~Connected(page) /\ forcing = {} /\ ~page.stopped
      BY <2>1 DEF Starts, AttemptOK, Connected
    <3>4. QED BY <2>1, <3>1, <3>2, <3>3 DEF Starts, PageTypeOK
  <2>2. CASE TimerFires
    <3> DEFINE p == [page EXCEPT !.timer = FALSE]
    <3>1. p \in Page BY DEF PageTypeOK, Page
    <3>2. \A s \in Sockets : ~Live(s) BY <2>2 DEF TimerFires, LiveOK
    <3>3. ~page.connecting /\ ~page.stopped BY <2>2 DEF TimerFires, AttemptOK
    <3>4. forcing = {} BY <2>2 DEF TimerFires, ForceOK
    <3>5. ~Connected(p)
      BY <3>1, <3>2 DEF Connected, Live, Page, PageTypeOK
    <3>6. QED BY <2>2, <3>1, <3>2, <3>3, <3>4, <3>5 DEF TimerFires
  <2>3. QED BY <2>1, <2>2
<1>1. ~p.stopped /\ ~p.connecting /\ p.socket = page.socket /\ p.intentional = page.intentional
  BY DEF PageTypeOK, Page
<1>2. PageTypeOK'
  <2>1. page' \in Page BY <1>1, RunsResult
  <2>2. QED BY <2>1 DEF PageTypeOK
<1>3. AttemptOK' BY <1>1, RunsResult DEF AttemptOK
<1>4. LiveOK' BY DEF LiveOK, Live
<1>5. ForceOK' BY <1>1, RunsResult DEF ForceOK
<1>6. StrandedByForce' BY <1>1, RunsResult DEF StrandedByForce, Tended
<1>7. QED BY <1>2, <1>3, <1>4, <1>5, <1>6
\* A socket that is closed is not in use; nothing else of a socket changes.
Wire == [Sockets -> [state : {"new", "connecting", "open", "closing", "closed"}, gen : Nat]]

LEMMA ClosingResult ==
  ASSUME wire \in Wire, NEW s \in Sockets, wire' \in {Closing(s), [wire EXCEPT ![s].state = "closed"]}
  PROVE  /\ wire' \in Wire
         /\ \A t \in Sockets : /\ Live(t)' <=> Live(t) /\ t # s
                               /\ wire'[t].gen = wire[t].gen
                               /\ t # s => wire'[t] = wire[t]
<1>1. CASE wire' = Closing(s) BY <1>1 DEF Closing, Live, Wire
<1>2. CASE wire' = [wire EXCEPT ![s].state = "closed"] BY <1>2 DEF Live, Wire
<1>3. QED BY <1>1, <1>2

\* No socket is in use while the URL is awaited.
LEMMA AwaitedAlone ==
  ASSUME PageInv, AwaitsUrl
  PROVE  /\ page.connecting /\ ~page.timer /\ page.attempt.socket = 0
         /\ forcing = {}
         /\ \A s \in Sockets : ~Live(s)
BY DEF PageInv, AwaitsUrl, AttemptOK, LiveOK, ForceOK

LEMMA UrlStep ==
  ASSUME PageInv, UrlResolves \/ UrlFails
  PROVE  PageInv'
<1> USE DEF PageInv
<1>1. AwaitsUrl BY DEF UrlResolves, UrlFails
<1>2. /\ page.connecting /\ ~page.timer /\ page.attempt.socket = 0 /\ forcing = {}
      /\ \A s \in Sockets : ~Live(s)
  BY <1>1, AwaitedAlone
<1>3. page \in Page BY DEF PageTypeOK
<1>4. CASE page' = AttemptFails(page) /\ UNCHANGED <<wire, forcing, leaving, clicks>>
  <2>1. /\ page' \in Page /\ ~page'.connecting /\ ~page'.attempt.open /\ page'.attempt.socket = 0
        /\ (page'.timer <=> ~page.stopped) /\ page'.stopped = page.stopped
        /\ page'.socket = page.socket /\ page'.intentional = page.intentional
        /\ page'.supervisor = IF page.stopped THEN page.supervisor ELSE "reconnecting"
    BY <1>2, <1>3, <1>4, FailsResult
  <2>2. PageTypeOK' BY <1>4, <2>1 DEF PageTypeOK
  <2>3. AttemptOK' BY <1>2, <2>1, <1>4 DEF AttemptOK
  <2>4. LiveOK' BY <1>2, <1>4 DEF LiveOK, Live
  <2>5. ForceOK' BY <1>2, <1>4, <2>1 DEF ForceOK
  <2>6. StrandedByForce' BY <1>4, <2>1 DEF StrandedByForce, Tended
  <2>7. QED BY <2>2, <2>3, <2>4, <2>5, <2>6
<1>5. CASE UrlResolves /\ page.attempt.gen = page.gen
  <2> DEFINE s == CHOOSE x \in Unused : \A y \in Unused : x <= y
  <2>1. Unused \subseteq Nat /\ Unused # {} /\ Unused \subseteq Sockets
    BY <1>5 DEF Unused, Sockets, UrlResolves
  <2>2. s \in Sockets BY <2>1, Smallest
  <2> HIDE DEF s
  <2>3. /\ page' = [page EXCEPT !.socket = s, !.attempt.socket = s]
        /\ wire' = [wire EXCEPT ![s] = [state |-> "connecting", gen |-> page.gen]]
        /\ UNCHANGED <<forcing, leaving, clicks>>
    BY <1>5 DEF UrlResolves, s
  <2>4. page.gen \in Nat /\ page.attempt \in Attempt BY <1>3 DEF Page
  <2>5. [page.attempt EXCEPT !.socket = s] \in Attempt BY <2>2, <2>4 DEF Attempt
  <2>6. /\ page' \in Page
        /\ page'.socket = s /\ page'.attempt.socket = s /\ page'.attempt.open = page.attempt.open
        /\ page'.connecting = page.connecting /\ page'.timer = page.timer
        /\ page'.stopped = page.stopped /\ page'.intentional = page.intentional
        /\ page'.supervisor = page.supervisor
    BY <1>3, <2>2, <2>3, <2>5 DEF Page, Attempt
  <2>7. /\ wire' \in Wire /\ wire'[s].state = "connecting"
        /\ \A t \in Sockets \ {s} : wire'[t] = wire[t]
    BY <2>2, <2>3, <2>4 DEF PageTypeOK, Wire
  <2>8. PageTypeOK' BY <2>3, <2>6, <2>7 DEF PageTypeOK, Wire
  <2>9. AttemptOK' BY <1>2, <2>2, <2>6, <2>3 DEF AttemptOK, Sockets
  <2>10. LiveOK' BY <1>2, <2>2, <2>6, <2>7 DEF LiveOK, Live, AwaitsUrl, Sockets
  <2>11. ForceOK' BY <1>2, <2>3, <2>6 DEF ForceOK
  <2>12. StrandedByForce' BY <1>2, <2>6 DEF StrandedByForce, Tended
  <2>13. QED BY <2>8, <2>9, <2>10, <2>11, <2>12
<1>6. QED BY <1>4, <1>5 DEF UrlResolves, UrlFails

LEMMA OpensStep ==
  ASSUME PageInv, NEW s \in Sockets, SocketOpens(s)
  PROVE  PageInv'
<1> USE DEF PageInv, SocketOpens
<1>1. page.connecting BY DEF LiveOK, Live
<1>2. /\ wire' \in Wire /\ wire'[s].state = "open"
      /\ \A t \in Sockets : wire'[t].gen = wire[t].gen /\ (Live(t)' <=> Live(t))
  BY DEF PageTypeOK, Wire, Live
<1>3. page' \in {page, [page EXCEPT !.state = "starting"]} OBVIOUS
<1>4. /\ page' \in Page
      /\ page'.socket = page.socket /\ page'.attempt = page.attempt
      /\ page'.connecting = page.connecting /\ page'.timer = page.timer
      /\ page'.stopped = page.stopped /\ page'.intentional = page.intentional
      /\ page'.supervisor = page.supervisor
  BY <1>3 DEF PageTypeOK, Page
<1>5. forcing = {} BY <1>1 DEF ForceOK
<1>6. PageTypeOK' BY <1>2, <1>4 DEF PageTypeOK, Wire
<1>7. AttemptOK' BY <1>4 DEF AttemptOK
<1>8. LiveOK' BY <1>1, <1>2, <1>4 DEF LiveOK, AwaitsUrl
<1>9. ForceOK' BY <1>4, <1>5 DEF ForceOK
<1>10. StrandedByForce' BY <1>1, <1>4 DEF StrandedByForce, Tended
<1>11. QED BY <1>6, <1>7, <1>8, <1>9, <1>10
LEMMA ReadyStep ==
  ASSUME PageInv, NEW s \in Sockets, SessionReady(s)
  PROVE  PageInv'
<1> USE DEF PageInv, SessionReady
<1> DEFINE p == [page EXCEPT !.session = TRUE, !.state = "ready"]
<1>1. /\ Live(s) /\ page.socket = s /\ forcing = {} /\ ~AwaitsUrl /\ s # 0
      /\ \A t \in Sockets : Live(t) => t = s
  BY DEF IsCurrent, Live, ForceOK, LiveOK, Sockets
<1>2. page \in Page BY DEF PageTypeOK
<1>3. /\ p \in Page /\ p.state = "ready" /\ p.socket = s /\ p.gen = page.gen
      /\ p.attempt = page.attempt /\ p.supervisor = page.supervisor
      /\ p.connecting = page.connecting /\ p.timer = page.timer
      /\ p.stopped = page.stopped /\ p.intentional = page.intentional
  BY <1>1, <1>2 DEF Page
<1>4. CASE page.attempt.socket = s
  <2>1. page' = [p EXCEPT !.attempt = NoAttempt, !.connecting = FALSE, !.supervisor = "connected"]
    BY <1>4 DEF AttemptSucceeds
  <2> HIDE DEF p
  <2>2. NoAttempt \in Attempt BY DEF NoAttempt, Attempt
  <2>3. /\ page' \in Page /\ page'.state = "ready" /\ page'.socket = s /\ page'.gen = page.gen
        /\ ~page'.connecting /\ page'.attempt = NoAttempt /\ page'.supervisor = "connected"
        /\ page'.timer = page.timer /\ page'.stopped = page.stopped
        /\ page'.intentional = page.intentional
    BY <1>3, <2>1, <2>2 DEF Page
  <2>4. PageTypeOK' BY <2>3 DEF PageTypeOK
  <2>5. ~page.timer BY <1>1 DEF LiveOK
  <2>6. AttemptOK' BY <2>3, <2>5 DEF AttemptOK, NoAttempt
  <2>7. LiveOK' BY <1>1, <2>3, <2>5 DEF LiveOK, Live, AwaitsUrl, NoAttempt
  <2>8. ForceOK' BY <1>1, <2>3 DEF ForceOK
  <2>9. StrandedByForce' BY <1>1, <2>3 DEF StrandedByForce, Tended, IsCurrent
  <2>10. QED BY <2>4, <2>6, <2>7, <2>8, <2>9
<1>5. CASE page.attempt.socket # s
  <2>1. page' = p BY <1>5
  <2> HIDE DEF p
  <2>3. PageTypeOK' BY <1>3, <2>1 DEF PageTypeOK
  <2>4. AttemptOK' BY <1>3, <2>1 DEF AttemptOK
  <2>5. LiveOK' BY <1>1, <1>3, <2>1 DEF LiveOK, Live, AwaitsUrl
  <2>6. ForceOK' BY <1>1, <1>3, <2>1 DEF ForceOK
  <2>7. StrandedByForce' BY <1>1, <1>3, <2>1 DEF StrandedByForce, Tended, IsCurrent
  <2>8. QED BY <2>3, <2>4, <2>5, <2>6, <2>7
<1>6. QED BY <1>4, <1>5

\* An attempt on a socket breaks off: the socket is closed, a timer waits.
LEMMA BreaksOff ==
  ASSUME PageInv, NEW s \in Sockets, page.attempt.socket = s,
         page' = AttemptFails(page), wire' = Closing(s), UNCHANGED <<forcing, leaving, clicks>>
  PROVE  PageInv'
<1> USE DEF PageInv
<1>1. /\ page.connecting /\ ~page.timer /\ page.socket \in {0, s} /\ forcing = {} /\ s # 0
      /\ \A t \in Sockets : Live(t) => t = s
  BY DEF AttemptOK, ForceOK, LiveOK, Sockets
<1>2. page \in Page /\ wire \in Wire BY DEF PageTypeOK, Wire
<1>3. /\ wire' \in Wire /\ \A t \in Sockets : ~Live(t)'
  BY <1>1, <1>2, ClosingResult
<1>4. /\ page' \in Page /\ ~page'.connecting /\ ~page'.attempt.open /\ page'.attempt.socket = 0
      /\ (page'.timer <=> ~page.stopped) /\ page'.stopped = page.stopped
      /\ page'.socket = page.socket /\ page'.intentional = page.intentional
      /\ page'.supervisor = IF page.stopped THEN page.supervisor ELSE "reconnecting"
  BY <1>1, <1>2, FailsResult
<1>5. PageTypeOK' BY <1>3, <1>4 DEF PageTypeOK, Wire
<1>6. AttemptOK' BY <1>1, <1>4 DEF AttemptOK
<1>7. LiveOK' BY <1>3 DEF LiveOK
<1>8. ForceOK' BY <1>1, <1>4 DEF ForceOK
<1>9. StrandedByForce' BY <1>1, <1>4 DEF StrandedByForce, Tended
<1>10. QED BY <1>5, <1>6, <1>7, <1>8, <1>9

LEMMA RejectedStep ==
  ASSUME PageInv, NEW s \in Sockets, StartupRejected(s)
  PROVE  PageInv'
<1> USE DEF PageInv, StartupRejected
<1>1. CASE page.attempt.socket = s BY <1>1, BreaksOff
<1>2. CASE page.attempt.socket # s
  <2>1. page' = page /\ UNCHANGED <<forcing, leaving, clicks>> BY <1>2
  <2>2. page.socket = s /\ Live(s) BY DEF IsCurrent, Live
  <2>4. wire \in Wire BY DEF PageTypeOK, Wire
  <2>5. /\ wire' \in Wire
        /\ \A t \in Sockets : ~Live(t)' /\ wire'[t].gen = wire[t].gen
    BY <2>2, <2>4, ClosingResult DEF LiveOK
  <2>6. PageTypeOK' BY <2>1, <2>5 DEF PageTypeOK, Wire
  <2>7. AttemptOK' BY <2>1 DEF AttemptOK
  <2>8. LiveOK' BY <2>5 DEF LiveOK
  <2>9. ForceOK' BY <2>1 DEF ForceOK
  <2>10. Tended' <=> Tended
    BY <2>1, <2>2, <2>5 DEF Tended, IsCurrent, PageTypeOK, Page
  <2>11. StrandedByForce' BY <2>1, <2>10 DEF StrandedByForce
  <2>12. QED BY <2>6, <2>7, <2>8, <2>9, <2>11
<1>3. QED BY <1>1, <1>2

LEMMA TimesOutStep ==
  ASSUME PageInv, ConnectTimesOut
  PROVE  PageInv'
<1>1. page.attempt.socket \in Sockets
  BY DEF PageInv, PageTypeOK, Page, Attempt, ConnectTimesOut
<1>2. QED BY <1>1, BreaksOff DEF ConnectTimesOut

LEMMA EmptiedResult ==
  ASSUME NEW p \in Page
  PROVE  LET q == Emptied(p)
         IN  /\ q \in Page /\ q.socket = 0 /\ q.state = "closed"
             /\ q.gen = p.gen /\ q.attempt = p.attempt /\ q.supervisor = p.supervisor
             /\ q.connecting = p.connecting /\ q.timer = p.timer /\ q.stopped = p.stopped
             /\ q.intentional = p.intentional
BY DEF Emptied, Page

\* The current socket is gone: the supervisor is told, and the attempt on it
\* ends.
LEMMA ToldResult ==
  ASSUME PageInv, NEW p \in Page, p.timer = page.timer, p.stopped = page.stopped,
         p.connecting = page.connecting, p.attempt = page.attempt,
         p.supervisor = page.supervisor, p.intentional = page.intentional
  PROVE  LET q == HandlesClose(Emptied(p))
         IN  /\ q \in Page /\ q.socket = 0 /\ q.stopped = page.stopped
             /\ q.connecting = page.connecting /\ q.attempt = page.attempt
             /\ q.connecting => ~q.timer /\ q.supervisor \in {"connecting", "stopped"}
             /\ q.supervisor = "stopped" => q.stopped
             /\ q.timer => ~q.stopped
             /\ page.timer => q.timer
             /\ q.supervisor = "idle" => page.supervisor = "idle" /\ ~q.timer
             /\ q.intentional => q.stopped
             /\ q.stopped \/ q.timer \/ page.supervisor # "connected" \/ page.intentional
             /\ page.supervisor # "connected" => q.supervisor = page.supervisor
<1> DEFINE e == Emptied(p)
<1>1. /\ e \in Page /\ e.socket = 0 /\ e.state = "closed"
      /\ e.gen = p.gen /\ e.attempt = p.attempt /\ e.supervisor = p.supervisor
      /\ e.connecting = p.connecting /\ e.timer = p.timer /\ e.stopped = p.stopped
      /\ e.intentional = p.intentional
  BY EmptiedResult
<1> HIDE DEF e
<1>2. e.timer => ~e.stopped BY <1>1 DEF PageInv, AttemptOK
<1> DEFINE q == HandlesClose(e)
<1>3. /\ q \in Page
      /\ q.connecting = e.connecting /\ q.attempt = e.attempt /\ q.socket = e.socket
      /\ q.stopped = e.stopped /\ q.state = e.state /\ q.gen = e.gen
      /\ e.stopped => q = e
      /\ q.intentional => e.intentional /\ e.stopped
      /\ e.intentional => q.timer = e.timer /\ q.supervisor = e.supervisor
      /\ e.supervisor # "connected" => q.timer = e.timer /\ q.supervisor = e.supervisor
      /\ ~e.stopped /\ ~e.intentional /\ e.supervisor = "connected" =>
           q.timer /\ (q.supervisor = IF e.timer THEN e.supervisor ELSE "reconnecting")
  BY <1>1, <1>2, CloseResult
<1> HIDE DEF q
<1>4. /\ q \in Page /\ q.socket = 0 /\ q.stopped = page.stopped
      /\ q.connecting = page.connecting /\ q.attempt = page.attempt
      /\ q.connecting => ~q.timer /\ q.supervisor \in {"connecting", "stopped"}
      /\ q.supervisor = "stopped" => q.stopped
      /\ q.timer => ~q.stopped
      /\ page.timer => q.timer
      /\ q.supervisor = "idle" => page.supervisor = "idle" /\ ~q.timer
      /\ q.intentional => q.stopped
      /\ q.stopped \/ q.timer \/ page.supervisor # "connected" \/ page.intentional
      /\ page.supervisor # "connected" => q.supervisor = page.supervisor
  BY <1>1, <1>3 DEF PageInv, AttemptOK
<1>5. QED BY <1>4 DEF q, e
LEMMA ClosesStep ==
  ASSUME PageInv, NEW s \in Sockets, SocketCloses(s)
  PROVE  PageInv'
<1> USE DEF PageInv, SocketCloses
<1>1. page \in Page /\ wire \in Wire /\ s # 0 BY DEF PageTypeOK, Wire, Sockets
<1>2. /\ wire' \in Wire
      /\ \A t \in Sockets : /\ Live(t)' <=> Live(t) /\ t # s
                            /\ wire'[t].gen = wire[t].gen
                            /\ t # s => wire'[t] = wire[t]
  BY <1>1, ClosingResult
<1>3. forcing' = forcing \ {s} /\ leaving' = leaving \ {s} OBVIOUS
<1>4. /\ clicks' \in [forced : Nat, gaveUp : Nat, missed : Nat]
      /\ clicks'.missed \in {clicks.missed, clicks.missed + 1}
      /\ (s \in forcing /\ ~IsCurrent(s) => clicks'.missed > 0)
      /\ clicks.missed > 0 => clicks'.missed > 0
  <2>1. clicks \in [forced : Nat, gaveUp : Nat, missed : Nat] BY DEF PageTypeOK
  <2>2. clicks' = IF s \in forcing /\ ~IsCurrent(s) THEN [clicks EXCEPT !.missed = @ + 1] ELSE clicks
    OBVIOUS
  <2> HIDE DEF SocketCloses
  <2>3. QED BY <2>1, <2>2
<1> DEFINE lost == IF IsCurrent(s) THEN HandlesClose(Emptied(page)) ELSE page
           ended == IF IsCurrent(s) /\ page.attempt.socket = s THEN AttemptFails(lost) ELSE lost
<1>5. page' = IF s \in forcing THEN RunsAttempt(ended) ELSE ended OBVIOUS
\* The current socket, and not the one of an attempt.
<1>6. CASE ~IsCurrent(s)
  <2>1. ended = page BY <1>6
  <2> HIDE DEF lost, ended
  <2>2. CASE s \notin forcing
    <3>1. page' = page /\ forcing' = forcing /\ clicks' = clicks BY <1>5, <1>6, <2>1, <2>2
    <3>3. PageTypeOK' BY <1>1, <1>2, <1>3, <3>1 DEF PageTypeOK, Wire
    <3>4. AttemptOK' BY <3>1 DEF AttemptOK
    <3>5. LiveOK' BY <1>2, <3>1 DEF LiveOK, AwaitsUrl
    <3>6. ForceOK' BY <3>1 DEF ForceOK
    <3>7. page.socket # 0 => (IsCurrent(page.socket)' <=> IsCurrent(page.socket))
      BY <1>1, <1>2, <3>1 DEF IsCurrent, Page
    <3>8. StrandedByForce' BY <3>1, <3>7 DEF StrandedByForce, Tended
    <3>9. QED BY <3>3, <3>4, <3>5, <3>6, <3>8
  <2>3. CASE s \in forcing
    <3>1. page' = RunsAttempt(page) BY <1>5, <2>1, <2>3
    <3>2. /\ page.socket = s /\ forcing = {s} /\ ~page.connecting /\ ~page.timer
          /\ page.state = "closing"
      BY <2>3 DEF ForceOK
    <3>3. ~Connected(page) BY <3>2 DEF Connected
    <3>4. \A t \in Sockets : ~Live(t)' BY <1>2, <3>2 DEF LiveOK
    <3>5. page.supervisor # "idle" BY <2>3 DEF AttemptOK
    <3>6. /\ page' \in Page
          /\ page.stopped => page' = page
          /\ ~page.stopped =>
               /\ ~page'.timer /\ page'.connecting /\ ~page'.stopped
               /\ page'.supervisor = "connecting"
               /\ page'.attempt.open /\ page'.attempt.socket = 0
      BY <1>1, <3>1, <3>2, <3>3, RunsResult
    <3>7. PageTypeOK' BY <1>2, <1>3, <1>4, <3>6 DEF PageTypeOK, Wire
    <3>8. AttemptOK' BY <3>2, <3>5, <3>6 DEF AttemptOK
    <3>9. LiveOK' BY <3>4 DEF LiveOK
    <3> HIDE DEF SocketCloses
    <3>10. clicks'.missed > 0 /\ forcing' = {}
      <4>1. clicks'.missed > 0 BY <1>4, <1>6, <2>3
      <4>2. forcing' = {} BY <1>3, <3>2
      <4>3. QED BY <4>1, <4>2
    <3>11. ForceOK' BY <3>10 DEF ForceOK
    <3>12. StrandedByForce' BY <3>10 DEF StrandedByForce
    <3>13. QED BY <3>7, <3>8, <3>9, <3>11, <3>12
  <2>4. QED BY <2>2, <2>3
<1>7. CASE IsCurrent(s)
  <2>1. page.socket = s BY <1>7 DEF IsCurrent
  <2>2. \A t \in Sockets : ~Live(t)' BY <1>2, <2>1 DEF LiveOK
  <2>3. page.supervisor # "idle" BY <1>1, <2>1 DEF AttemptOK
  <2>4. forcing' = {} BY <1>3, <2>1 DEF ForceOK
  <2>5. lost = HandlesClose(Emptied(page)) BY <1>7
  <2>6. /\ lost \in Page /\ lost.socket = 0 /\ lost.stopped = page.stopped
        /\ lost.connecting = page.connecting /\ lost.attempt = page.attempt
        /\ lost.connecting => ~lost.timer /\ lost.supervisor \in {"connecting", "stopped"}
        /\ lost.supervisor = "stopped" => lost.stopped
        /\ lost.timer => ~lost.stopped
        /\ page.timer => lost.timer
        /\ lost.supervisor = "idle" => page.supervisor = "idle" /\ ~lost.timer
        /\ lost.intentional => lost.stopped
        /\ lost.stopped \/ lost.timer \/ page.supervisor # "connected" \/ page.intentional
        /\ page.supervisor # "connected" => lost.supervisor = page.supervisor
    BY <1>1, <2>5, ToldResult
  <2> HIDE DEF lost
  <2>7. /\ ended \in Page /\ ended.socket = 0 /\ ended.stopped = page.stopped
        /\ ended.attempt.open <=> ended.connecting
        /\ ~ended.connecting => ended.attempt.socket = 0
        /\ ended.connecting => ~ended.timer /\ ended.supervisor \in {"connecting", "stopped"}
        /\ ended.supervisor = "stopped" => ended.stopped
        /\ ended.timer => ~ended.stopped
        /\ ended.supervisor # "idle"
        /\ ended.intentional => ended.stopped
        /\ \/ ended.stopped \/ ended.timer \/ ended.connecting
           \/ page.intentional \/ page.supervisor # "connected"
        /\ \/ ended.stopped \/ ended.timer \/ ended.connecting
           \/ page.supervisor = "connected"
           \/ (~page.connecting /\ ~page.timer)
    <3>1. CASE page.attempt.socket = s
      <4>1. ended = AttemptFails(lost) BY <1>7, <3>1
      <4>2. page.connecting BY <1>1, <3>1 DEF AttemptOK
      <4>3. /\ ended \in Page
            /\ ~ended.connecting /\ ~ended.attempt.open /\ ended.attempt.socket = 0
            /\ (ended.timer <=> ~lost.stopped) /\ ended.stopped = lost.stopped
            /\ ended.socket = lost.socket /\ ended.intentional = lost.intentional
            /\ ended.supervisor = IF lost.stopped \/ lost.timer THEN lost.supervisor
                                  ELSE "reconnecting"
        BY <2>6, <4>1, FailsResult
      <4> HIDE DEF ended
      <4>4. QED BY <2>3, <2>6, <4>2, <4>3
    <3>2. CASE page.attempt.socket # s
      <4>1. ended = lost BY <3>2
      <4> HIDE DEF ended
      <4>2. QED BY <2>3, <2>6, <4>1 DEF AttemptOK
    <3>3. QED BY <3>1, <3>2
  <2> HIDE DEF ended
  <2>8. CASE s \notin forcing
    <3>1. page' = ended /\ forcing = {} BY <1>5, <2>1, <2>8 DEF ForceOK
    <3>2. PageTypeOK' BY <1>2, <1>3, <1>4, <2>7, <3>1 DEF PageTypeOK, Wire
    <3>3. AttemptOK' BY <2>3, <2>7, <3>1 DEF AttemptOK
    <3>4. LiveOK' BY <2>2 DEF LiveOK
    <3>5. ForceOK' BY <2>4, <2>7, <3>1 DEF ForceOK
    <3>6. clicks' = clicks BY <2>8
    <3>7. StrandedByForce'
      <4>1. ASSUME ~page'.stopped, ~Tended', clicks.missed = 0 PROVE FALSE
        <5>1. ~page.stopped /\ ~ended.timer /\ ~ended.connecting
          BY <2>7, <3>1, <4>1 DEF Tended
        <5>2. ~page.intentional BY <3>1, <4>1, <5>1 DEF ForceOK
        <5>3. page.supervisor # "connected" BY <2>7, <3>1, <4>1, <5>1, <5>2
        <5>4. ~page.connecting /\ ~page.timer BY <2>7, <3>1, <4>1, <5>1, <5>3
        <5>5. ~Tended BY <3>1, <5>3, <5>4 DEF Tended
        <5>6. QED BY <2>3, <4>1, <5>1, <5>5 DEF StrandedByForce
      <4>2. clicks.missed \in Nat BY DEF PageTypeOK
      <4>3. QED BY <3>6, <4>1, <4>2 DEF StrandedByForce
    <3>8. QED BY <3>2, <3>3, <3>4, <3>5, <3>7
  <2>9. CASE s \in forcing
    <3>1. page' = RunsAttempt(ended) BY <1>5, <2>9
    <3>3. ~Connected(ended) BY <2>7 DEF Connected
    <3>4. /\ page' \in Page
          /\ ended.stopped \/ ended.connecting => page' = ended
          /\ ~ended.stopped /\ ~ended.connecting =>
               /\ ~page'.timer /\ page'.connecting /\ ~page'.stopped
               /\ page'.supervisor = "connecting" /\ page'.socket = 0
               /\ page'.attempt.open /\ page'.attempt.socket = 0
               /\ page'.intentional = ended.intentional
      BY <2>7, <3>1, <3>3, RunsResult
    <3>5. PageTypeOK' BY <1>2, <1>3, <1>4, <3>4 DEF PageTypeOK, Wire
    <3>6. AttemptOK' BY <2>7, <3>4 DEF AttemptOK
    <3>7. LiveOK' BY <2>2 DEF LiveOK
    <3>8. ForceOK' BY <2>4, <2>7, <3>4 DEF ForceOK
    <3>9. StrandedByForce' BY <2>7, <3>4 DEF StrandedByForce, Tended
    <3>10. QED BY <3>5, <3>6, <3>7, <3>8, <3>9
  <2>10. QED BY <2>8, <2>9
<1>8. QED BY <1>6, <1>7
LEMMA ForcesStep ==
  ASSUME PageInv, ForcesReconnect
  PROVE  PageInv'
<1> USE DEF PageInv, ForcesReconnect
<1> DEFINE p == [page EXCEPT !.timer = FALSE]
<1>1. page \in Page /\ wire \in Wire BY DEF PageTypeOK, Wire
<1>2. /\ p \in Page /\ ~p.timer /\ p.state = page.state /\ p.socket = page.socket
      /\ p.gen = page.gen /\ p.attempt = page.attempt /\ p.supervisor = page.supervisor
      /\ p.connecting = page.connecting /\ p.stopped = page.stopped
      /\ p.intentional = page.intentional
  BY <1>1 DEF Page
<1>3. clicks' \in [forced : Nat, gaveUp : Nat, missed : Nat] /\ clicks'.missed = clicks.missed
  BY DEF PageTypeOK
<1>4. ~page.stopped OBVIOUS
<1>5. CASE page.connecting
  <2>1. page' = p /\ UNCHANGED <<wire, forcing, leaving>> BY <1>5
  <2> HIDE DEF p
  <2>2. page = p BY <1>1, <1>2, <1>5 DEF AttemptOK, Page, p
  <2>3. page' = page BY <2>1, <2>2
  <2>4. PageTypeOK' BY <1>3, <2>1, <2>3 DEF PageTypeOK
  <2>5. AttemptOK' BY <2>1, <2>3 DEF AttemptOK
  <2>6. LiveOK' BY <2>1, <2>3 DEF LiveOK, Live, AwaitsUrl
  <2>7. ForceOK' BY <1>3, <2>1, <2>3 DEF ForceOK
  <2>8. StrandedByForce' BY <1>5, <2>3 DEF StrandedByForce, Tended
  <2>9. QED BY <2>4, <2>5, <2>6, <2>7, <2>8
<1>6. CASE ~page.connecting /\ page.socket = 0
  <2>1. page' = RunsAttempt(p) /\ UNCHANGED <<wire, forcing, leaving>> BY <1>6
  <2> HIDE DEF p
  <2>2. \A t \in Sockets : ~Live(t) BY <1>6 DEF LiveOK, Sockets
  <2>3. forcing = {} BY <1>6 DEF ForceOK, PageTypeOK, Sockets
  <2>4. ~Connected(p) BY <1>2, <1>6 DEF Connected
  <2>5. /\ page' \in Page
        /\ ~page'.timer /\ page'.connecting /\ ~page'.stopped
        /\ page'.supervisor = "connecting" /\ page'.socket = page.socket
        /\ page'.attempt.open /\ page'.attempt.socket = 0
        /\ page'.intentional = page.intentional
    BY <1>2, <1>4, <1>6, <2>1, <2>4, RunsResult
  <2>6. PageTypeOK' BY <1>3, <2>1, <2>5 DEF PageTypeOK
  <2>7. AttemptOK' BY <2>5 DEF AttemptOK
  <2>8. LiveOK' BY <2>1, <2>2 DEF LiveOK, Live
  <2>9. ForceOK' BY <1>3, <1>4, <2>1, <2>3, <2>5 DEF ForceOK
  <2>10. StrandedByForce' BY <2>5 DEF StrandedByForce, Tended
  <2>11. QED BY <2>6, <2>7, <2>8, <2>9, <2>10
<1>7. CASE ~page.connecting /\ page.socket # 0
  <2>1. /\ page' = [p EXCEPT !.intentional = TRUE, !.state = "closing"]
        /\ wire' = IF wire[page.socket].state = "open" THEN wire ELSE Closing(page.socket)
        /\ forcing' = forcing \cup {page.socket} /\ leaving' = leaving \cup {page.socket}
    BY <1>7
  <2> HIDE DEF p, ForcesReconnect
  <2>2. page.socket \in Sockets BY <1>1, <1>7 DEF Page
  <2>3. /\ page' \in Page /\ page'.state = "closing" /\ page'.socket = page.socket
        /\ ~page'.timer /\ ~page'.connecting /\ page'.attempt = page.attempt
        /\ page'.supervisor = page.supervisor /\ page'.stopped = page.stopped
    BY <1>2, <1>7, <2>1 DEF Page
  <2>4. wire' \in Wire /\ \A t \in Sockets : Live(t)' => Live(t) /\ wire'[t].state = "open"
    <3>1. CASE wire[page.socket].state = "open"
      BY <1>1, <1>7, <2>1, <2>2, <3>1 DEF LiveOK, Live
    <3>2. CASE wire[page.socket].state # "open"
      <4>1. wire' = Closing(page.socket) BY <2>1, <3>2
      <4>2. wire' \in Wire /\ \A t \in Sockets : ~Live(t)'
        BY <1>1, <2>2, <4>1, ClosingResult DEF LiveOK
      <4>3. QED BY <4>2
    <3>3. QED BY <3>1, <3>2
  <2>5. PageTypeOK' BY <1>3, <2>1, <2>2, <2>3, <2>4 DEF PageTypeOK, Wire
  <2>6. AttemptOK' BY <1>7, <2>3 DEF AttemptOK
  <2>7. page.socket \in forcing' BY <2>1
  <2>8. LiveOK' BY <2>3, <2>4, <2>7 DEF LiveOK, AwaitsUrl, AttemptOK
  <2>9. forcing' \subseteq {page'.socket} BY <2>1, <2>3 DEF ForceOK
  <2>10. ForceOK' BY <2>3, <2>7, <2>9 DEF ForceOK
  <2>11. StrandedByForce' BY <2>7 DEF StrandedByForce, Tended
  <2>12. QED BY <2>5, <2>6, <2>8, <2>10, <2>11
<1>8. QED BY <1>5, <1>6, <1>7

LEMMA StopsWaitingStep ==
  ASSUME PageInv, NEW s \in Sockets, StopsWaiting(s)
  PROVE  PageInv'
<1> USE DEF PageInv, StopsWaiting
<1>1. page \in Page /\ wire \in Wire BY DEF PageTypeOK, Wire
<1>2. /\ page.socket = s /\ s # 0 /\ forcing = {s} /\ ~page.connecting /\ ~page.timer
      /\ page.state = "closing" /\ page.supervisor # "idle"
  BY DEF ForceOK, AttemptOK, Sockets
<1>3. wire' = Closing(s) BY <1>2
<1>4. wire' \in Wire /\ \A t \in Sockets : ~Live(t)'
  BY <1>1, <1>2, <1>3, ClosingResult DEF LiveOK
<1>5. /\ page' \in Page
      /\ page.stopped => page' = page
      /\ ~page.stopped =>
           /\ ~page'.timer /\ page'.connecting /\ ~page'.stopped
           /\ page'.supervisor = "connecting"
           /\ page'.attempt.open /\ page'.attempt.socket = 0
  BY <1>1, <1>2, RunsResult DEF Connected
<1>6. clicks' \in [forced : Nat, gaveUp : Nat, missed : Nat] /\ clicks'.missed > 0
  <2>1. clicks \in [forced : Nat, gaveUp : Nat, missed : Nat] BY DEF PageTypeOK
  <2>2. clicks' = [clicks EXCEPT !.gaveUp = @ + 1, !.missed = @ + 1] OBVIOUS
  <2> HIDE DEF StopsWaiting
  <2>3. clicks.gaveUp + 1 \in Nat /\ clicks.missed + 1 \in Nat /\ clicks.missed + 1 > 0 BY <2>1
  <2>4. clicks'.missed = clicks.missed + 1 BY <2>1, <2>2
  <2>5. clicks' \in [forced : Nat, gaveUp : Nat, missed : Nat] BY <2>1, <2>2, <2>3
  <2>6. QED BY <2>3, <2>4, <2>5
<1>7. forcing' = {} BY <1>2
<1>8. PageTypeOK' BY <1>4, <1>5, <1>6, <1>7 DEF PageTypeOK, Wire
<1>9. AttemptOK' BY <1>2, <1>5, <1>7 DEF AttemptOK
<1>10. LiveOK' BY <1>4 DEF LiveOK
<1>11. ForceOK' BY <1>6, <1>7 DEF ForceOK
<1>12. StrandedByForce' BY <1>6 DEF StrandedByForce
<1>13. QED BY <1>8, <1>9, <1>10, <1>11, <1>12

LEMMA LeavesStep ==
  ASSUME PageInv, NEW s \in Sockets, DisconnectTimesOut(s)
  PROVE  PageInv'
<1> USE DEF PageInv, DisconnectTimesOut
<1>1. page \in Page /\ wire \in Wire /\ s # 0 BY DEF PageTypeOK, Wire, Sockets
<1>2. /\ wire' \in Wire
      /\ \A t \in Sockets : /\ Live(t)' <=> Live(t) /\ t # s
                            /\ wire'[t].gen = wire[t].gen
                            /\ t # s => wire'[t] = wire[t]
  BY <1>1, ClosingResult
<1>3. CASE page.socket # s
  <2>1. page' = page BY <1>3
  <2>2. PageTypeOK' BY <1>2, <2>1 DEF PageTypeOK, Wire
  <2>3. AttemptOK' BY <2>1 DEF AttemptOK
  <2>4. LiveOK' BY <1>2, <2>1 DEF LiveOK, AwaitsUrl
  <2>5. ForceOK' BY <2>1 DEF ForceOK
  <2>6. page.socket # 0 => (IsCurrent(page.socket)' <=> IsCurrent(page.socket))
    BY <1>1, <1>2, <2>1 DEF IsCurrent, Page
  <2>7. StrandedByForce' BY <2>1, <2>6 DEF StrandedByForce, Tended
  <2>8. QED BY <2>2, <2>3, <2>4, <2>5, <2>7
<1>4. CASE page.socket = s
  <2> DEFINE p == [page EXCEPT !.gen = @ + 1]
             q == HandlesClose(Emptied(p))
  <2>1. page' = q BY <1>4
  <2>2. /\ p \in Page /\ p.timer = page.timer /\ p.stopped = page.stopped
        /\ p.connecting = page.connecting /\ p.attempt = page.attempt
        /\ p.supervisor = page.supervisor /\ p.intentional = page.intentional
    BY <1>1 DEF Page
  <2> HIDE DEF p
  <2>3. /\ q \in Page /\ q.socket = 0 /\ q.stopped = page.stopped
        /\ q.connecting = page.connecting /\ q.attempt = page.attempt
        /\ q.connecting => ~q.timer /\ q.supervisor \in {"connecting", "stopped"}
        /\ q.supervisor = "stopped" => q.stopped
        /\ q.timer => ~q.stopped
        /\ page.timer => q.timer
        /\ q.supervisor = "idle" => page.supervisor = "idle" /\ ~q.timer
        /\ q.intentional => q.stopped
        /\ q.stopped \/ q.timer \/ page.supervisor # "connected" \/ page.intentional
        /\ page.supervisor # "connected" => q.supervisor = page.supervisor
    BY <2>2, ToldResult
  <2> HIDE DEF q
  <2>4. forcing = {} /\ forcing' = {} BY <1>4 DEF ForceOK
  <2>5. \A t \in Sockets : ~Live(t)' BY <1>2, <1>4 DEF LiveOK
  <2>6. page.supervisor # "idle" BY <1>1, <1>4 DEF AttemptOK
  <2>7. PageTypeOK' BY <1>2, <2>1, <2>3 DEF PageTypeOK, Wire
  <2>8. AttemptOK' BY <2>1, <2>3, <2>6 DEF AttemptOK
  <2>9. LiveOK' BY <2>5 DEF LiveOK
  <2>10. ForceOK' BY <2>1, <2>3, <2>4 DEF ForceOK
  <2>11. StrandedByForce'
    <3>1. ASSUME ~page'.stopped, ~Tended', clicks.missed = 0 PROVE FALSE
      <4>1. ~page.stopped /\ ~q.timer /\ ~q.connecting /\ ~page.timer /\ ~page.connecting
        BY <2>1, <2>3, <3>1 DEF Tended
      <4>2. ~page.intentional BY <2>4, <3>1, <4>1 DEF ForceOK
      <4>3. page.supervisor # "connected" BY <2>1, <2>3, <3>1, <4>1, <4>2
      <4>4. ~Tended BY <2>4, <4>1, <4>3 DEF Tended
      <4>5. QED BY <2>6, <3>1, <4>1, <4>4 DEF StrandedByForce
    <3>2. clicks.missed \in Nat BY DEF PageTypeOK
    <3>3. QED BY <3>1, <3>2 DEF StrandedByForce
  <2>12. QED BY <2>7, <2>8, <2>9, <2>10, <2>11
<1>5. QED BY <1>3, <1>4

LEMMA StopStep ==
  ASSUME PageInv, StopsForGood
  PROVE  PageInv'
<1> USE DEF PageInv, StopsForGood
<1>1. page \in Page BY DEF PageTypeOK
<1>2. /\ page' \in Page /\ page'.state = page.state /\ page'.socket = page.socket
      /\ page'.stopped /\ ~page'.timer /\ page'.supervisor = "stopped"
      /\ page'.attempt = page.attempt /\ page'.connecting = page.connecting
  BY <1>1 DEF Page
<1>3. PageTypeOK' BY <1>2 DEF PageTypeOK
<1>4. AttemptOK' BY <1>2 DEF AttemptOK
<1>5. LiveOK' BY <1>2 DEF LiveOK, Live, AwaitsUrl
<1>6. ForceOK' BY <1>2 DEF ForceOK
<1>7. StrandedByForce' BY <1>2 DEF StrandedByForce
<1>8. QED BY <1>3, <1>4, <1>5, <1>6, <1>7

LEMMA PageStutters ==
  ASSUME PageInv, UNCHANGED pageVars
  PROVE  PageInv'
<1>1. UNCHANGED <<page, wire, forcing, leaving, clicks>> BY DEF pageVars
<1>2. PageTypeOK' /\ AttemptOK' BY <1>1 DEF PageInv, PageTypeOK, AttemptOK
<1>3. LiveOK' BY <1>1 DEF PageInv, LiveOK, Live, AwaitsUrl
<1>4. ForceOK' /\ StrandedByForce'
  BY <1>1 DEF PageInv, ForceOK, StrandedByForce, Tended, IsCurrent
<1>5. QED BY <1>2, <1>3, <1>4 DEF PageInv

LEMMA PageInvKept == PageInv => ReconnectKept
BY OneIsLive DEF PageInv, ReconnectKept

LEMMA PageInvNext ==
  ASSUME PageInv, [PageNext]_pageVars
  PROVE  PageInv'
<1>1. CASE UNCHANGED pageVars BY <1>1, PageStutters
<1>2. CASE Starts \/ TimerFires BY <1>2, StartsStep
<1>3. CASE UrlResolves \/ UrlFails BY <1>3, UrlStep
<1>4. CASE ConnectTimesOut BY <1>4, TimesOutStep
<1>5. CASE ForcesReconnect BY <1>5, ForcesStep
<1>6. CASE StopsForGood BY <1>6, StopStep
<1>7. ASSUME NEW s \in Sockets,
             \/ SocketOpens(s) \/ SessionReady(s) \/ StartupRejected(s)
             \/ SocketCloses(s) \/ StopsWaiting(s) \/ DisconnectTimesOut(s)
      PROVE  PageInv'
  BY <1>7, OpensStep, ReadyStep, RejectedStep, ClosesStep, StopsWaitingStep, LeavesStep
<1>8. QED BY <1>1, <1>2, <1>3, <1>4, <1>5, <1>6, <1>7 DEF PageNext

\* Whatever order losses, timeouts, clicks and stops come in, the page has at
\* most one socket in use, and a page that is not connected is on its way to
\* be, unless a forced reconnect missed the end of the socket it waited for
\* (connection-supervisor.js, runAttempt and handleClose).
THEOREM ReconnectAlwaysKept == PageSpec => []ReconnectKept
<1>1. PageInv /\ [PageNext]_pageVars => PageInv' BY PageInvNext
<1>2. QED BY <1>1, PageInitial, PageInvKept, PTL DEF PageSpec

-----------------------------------------------------------------------------
(* Playback *)

PlayedFrame == [response : Nat, generation : Nat]
PlayedNotice == [id : Nat, complete : BOOLEAN, frames : Nat]
Playback ==
  [disposed : BOOLEAN, context : {"suspended", "running", "closed"}, suppressed : BOOLEAN,
   overflowed : BOOLEAN, generation : Nat, chain : Seq(PlayedFrame), opening : BOOLEAN,
   sources : Seq(PlayedFrame), notice : PlayedNotice, confirm : BOOLEAN, confirmed : BOOLEAN]

\* What may have been told of a notice.
EndReports == {<<f>> : f \in FinalReports} \cup {<<"playing", f>> : f \in FinalReports}
ToldReports == {<< >>, <<"playing">>} \cup EndReports

\* What is told, t, fits the playback p while response n is the newest one: of
\* the notice that is being played only that it is heard, of those to come
\* nothing; what plays belongs to this generation.
SoundOK(p, t, n) ==
  /\ p \in Playback /\ t \in [Responses -> ToldReports] /\ n \in 0..MaxResponses
  /\ p.notice.id \in 0..n
  /\ p.notice.id # 0 => t[p.notice.id] = IF p.notice.frames = 0 THEN << >> ELSE <<"playing">>
  /\ \A r \in Responses : r > n => t[r] = << >>
  /\ p.opening => p.chain # << >>
  /\ \A i \in DOMAIN p.sources : p.sources[i].generation = p.generation

After(tl, t) == IF tl.id = 0 THEN t ELSE [t EXCEPT ![tl.id] = Append(@, tl.what)]

\* The same notice, sources and generation: nothing to tell.
LEMMA SoundSame ==
  ASSUME NEW p, NEW t, NEW n, SoundOK(p, t, n), NEW q \in Playback,
         q.generation = p.generation, q.sources = p.sources,
         q.notice.id = p.notice.id, q.notice.frames = p.notice.frames,
         q.opening => q.chain # << >>
  PROVE  SoundOK(q, t, n)
BY DEF SoundOK

LEMMA ReportsAppend ==
  ASSUME NEW f \in FinalReports
  PROVE  Append(<< >>, f) \in ToldReports /\ Append(<<"playing">>, f) \in ToldReports
<1>1. Append(<< >>, f) = <<f>> OBVIOUS
<1>2. Append(<<"playing">>, f) = <<"playing", f>>
  <2> DEFINE a == Append(<<"playing">>, f)
             Words == {"playing"} \cup FinalReports
             b == <<"playing", f>>
  <2>1. f \in Words /\ "playing" \in Words OBVIOUS
  <2> HIDE DEF Words
  <2>2. <<"playing">> \in Seq(Words) BY <2>1
  <2>3. a \in Seq(Words) /\ Len(a) = 2 /\ a[1] = "playing" /\ a[2] = f BY <2>1, <2>2
  <2>4. b \in Seq(Words) /\ Len(b) = 2 /\ b[1] = "playing" /\ b[2] = f BY <2>1
  <2> HIDE DEF a, b
  <2>5. \A i \in 1 .. Len(a) : a[i] = b[i]
    <3>1. \A i \in 1 .. Len(a) : i = 1 \/ i = 2 BY <2>3
    <3>2. QED BY <2>3, <2>4, <3>1
  <2>6. a = b BY <2>3, <2>4, <2>5, SeqEqual
  <2>7. QED BY <2>6 DEF a, b
<1>3. <<f>> \in ToldReports /\ <<"playing", f>> \in ToldReports BY DEF ToldReports, EndReports
<1>4. QED BY <1>1, <1>2, <1>3

LEMMA ToldAtMostOnce ==
  ASSUME told \in [Responses -> ToldReports]
  PROVE  ToldOnce
<1> SUFFICES ASSUME NEW r \in Responses, NEW i \in DOMAIN told[r], NEW j \in DOMAIN told[r], i < j
             PROVE  told[r][i] = "playing" /\ told[r][j] \in FinalReports
  BY DEF ToldOnce
<1>1. told[r] \in ToldReports OBVIOUS
<1>2. CASE told[r] = << >> BY <1>2
<1>3. CASE told[r] = <<"playing">> BY <1>3
<1>4. ASSUME NEW f \in FinalReports, told[r] = <<f>> PROVE FALSE BY <1>4
<1>5. ASSUME NEW f \in FinalReports, told[r] = <<"playing", f>>
      PROVE  told[r][i] = "playing" /\ told[r][j] \in FinalReports
  <2>1. i = 1 /\ j = 2 BY <1>5
  <2>2. QED BY <1>5, <2>1
<1>6. QED BY <1>1, <1>2, <1>3, <1>4, <1>5 DEF ToldReports, EndReports

\* A notice that ends is told of once more, and is no longer the current one.
LEMMA EndsOK ==
  ASSUME NEW p, NEW t, NEW n, SoundOK(p, t, n), NEW status \in FinalReports
  PROVE  SoundOK(NoticeEnds(p, status).p, After(NoticeEnds(p, status), t), n)
<1> DEFINE q == [p EXCEPT !.notice = NoPlayback]
           u == After(NoticeEnds(p, status), t)
<1>1. /\ NoticeEnds(p, status).p = q /\ NoticeEnds(p, status).id = p.notice.id
      /\ NoticeEnds(p, status).what = status
  BY DEF NoticeEnds, Telling
<1>2. p \in Playback BY DEF SoundOK
<1>3. NoPlayback \in PlayedNotice BY DEF NoPlayback, PlayedNotice
<1>4. /\ q \in Playback /\ q.notice = NoPlayback /\ q.opening = p.opening /\ q.chain = p.chain
      /\ q.sources = p.sources /\ q.generation = p.generation
  BY <1>2, <1>3 DEF Playback
<1>5. CASE p.notice.id = 0
  <2>1. u = t BY <1>1, <1>5 DEF After
  <2>2. QED BY <1>1, <1>4, <2>1 DEF SoundOK, NoPlayback
<1>6. CASE p.notice.id # 0
  <2> DEFINE k == p.notice.id
  <2>1. k \in Responses /\ k <= n BY <1>6, AudioAssumption DEF SoundOK, Responses
  <2>2. u = [t EXCEPT ![k] = Append(t[k], status)] BY <1>1, <1>6 DEF After
  <2>3. Append(t[k], status) \in ToldReports BY <1>6, ReportsAppend DEF SoundOK
  <2>4. u \in [Responses -> ToldReports] /\ \A r \in Responses : r # k => u[r] = t[r]
    BY <2>1, <2>2, <2>3 DEF SoundOK
  <2>5. \A r \in Responses : r > n => u[r] = << >>
    BY <2>1, <2>4 DEF SoundOK, Responses
  <2> HIDE DEF u, q
  <2>6. QED BY <1>1, <1>4, <2>4, <2>5 DEF SoundOK, NoPlayback, u
<1>7. QED BY <1>5, <1>6

LEMMA SilentOK ==
  ASSUME NEW p, NEW t
  PROVE  Silently(p).p = p /\ After(Silently(p), t) = t
BY DEF Silently, Telling, After

LEMMA ConfirmsOK ==
  ASSUME NEW p, NEW t, NEW n, SoundOK(p, t, n)
  PROVE  SoundOK(Confirms(p).p, After(Confirms(p), t), n)
<1>1. CASE Confirms(p) = Silently(p) BY <1>1, SilentOK
<1>2. ASSUME NEW f \in FinalReports, Confirms(p) = NoticeEnds(p, f)
      PROVE  SoundOK(Confirms(p).p, After(Confirms(p), t), n)
  BY <1>2, EndsOK
<1>3. QED BY <1>1, <1>2 DEF Confirms, FinalReports

LEMMA CutShortOK ==
  ASSUME NEW p, NEW t, NEW n, SoundOK(p, t, n)
  PROVE  SoundOK(CutShort(p).p, After(CutShort(p), t), n)
<1> DEFINE q == [p EXCEPT !.generation = @ + 1, !.sources = << >>]
<1>1. p \in Playback /\ p.generation + 1 \in Nat BY DEF SoundOK, Playback
<1>2. << >> \in Seq(PlayedFrame) OBVIOUS
<1>3. /\ q \in Playback /\ q.sources = << >> /\ q.notice = p.notice
      /\ q.opening = p.opening /\ q.chain = p.chain
  BY <1>1, <1>2 DEF Playback
<1>4. CutShort(p) = NoticeEnds(q, "interrupted") BY DEF CutShort
<1> HIDE DEF q
<1>5. SoundOK(q, t, n) BY <1>3 DEF SoundOK
<1>6. QED BY <1>4, <1>5, EndsOK DEF FinalReports

LEMMA InterruptedOK ==
  ASSUME NEW p, NEW t, NEW n, SoundOK(p, t, n)
  PROVE  SoundOK(Interrupted(p).p, After(Interrupted(p), t), n)
<1> DEFINE q == [p EXCEPT !.suppressed = TRUE]
<1>1. p \in Playback BY DEF SoundOK
<1>2. /\ q \in Playback /\ q.generation = p.generation /\ q.sources = p.sources
      /\ q.notice = p.notice /\ q.opening = p.opening /\ q.chain = p.chain
  BY <1>1 DEF Playback
<1>3. Interrupted(p) = CutShort(q) BY DEF Interrupted
<1> HIDE DEF q
<1>4. p.opening => p.chain # << >> BY DEF SoundOK
<1>5. SoundOK(q, t, n) BY <1>2, <1>4, SoundSame
<1>6. QED BY <1>3, <1>5, CutShortOK

\* The head of the chain is a frame, and so is what follows it.
LEMMA HeadTail ==
  ASSUME NEW p \in Playback, p.chain # << >>
  PROVE  Head(p.chain) \in PlayedFrame /\ Tail(p.chain) \in Seq(PlayedFrame)
BY DEF Playback

LEMMA DroppedOK ==
  ASSUME NEW p, NEW t, NEW n, SoundOK(p, t, n), p.chain # << >>
  PROVE  SoundOK(Dropped(p).p, After(Dropped(p), t), n)
<1> DEFINE q == [p EXCEPT !.chain = Tail(@), !.opening = FALSE]
<1>1. p \in Playback BY DEF SoundOK
<1>2. Tail(p.chain) \in Seq(PlayedFrame) BY <1>1, HeadTail
<1>3. /\ q \in Playback /\ q.generation = p.generation /\ q.sources = p.sources
      /\ q.notice = p.notice /\ ~q.opening
  BY <1>1, <1>2 DEF Playback
<1>4. Dropped(p) = Confirms(q) BY DEF Dropped
<1> HIDE DEF q
<1>5. SoundOK(q, t, n) BY <1>3, SoundSame
<1>6. QED BY <1>4, <1>5, ConfirmsOK

\* The first frame of a notice that is played is told of; it is of this
\* generation.
LEMMA ScheduledOK ==
  ASSUME NEW p, NEW t, NEW n, SoundOK(p, t, n), p.chain # << >>, Valid(p, Head(p.chain))
  PROVE  SoundOK(Scheduled(p).p, After(Scheduled(p), t), n)
<1> DEFINE k == p.notice.id
           c == IF k # 0 THEN p.notice.frames + 1 ELSE p.notice.frames
           q == [p EXCEPT !.chain = Tail(@), !.opening = FALSE, !.sources = Append(@, Head(p.chain)),
                          !.notice.frames = IF p.notice.id # 0 THEN @ + 1 ELSE @]
<1>1. p \in Playback /\ p.notice \in PlayedNotice /\ p.sources \in Seq(PlayedFrame)
  BY DEF SoundOK, Playback
<1>2. Head(p.chain) \in PlayedFrame /\ Tail(p.chain) \in Seq(PlayedFrame) BY <1>1, HeadTail
<1>3. Append(p.sources, Head(p.chain)) \in Seq(PlayedFrame) BY <1>1, <1>2
<1>4. c \in Nat /\ k \in Nat /\ (k # 0 => (c = 1 <=> p.notice.frames = 0) /\ c # 0)
  BY <1>1 DEF PlayedNotice
<1>5. [p.notice EXCEPT !.frames = c] \in PlayedNotice BY <1>1, <1>4 DEF PlayedNotice
<1>6. /\ q \in Playback /\ q.generation = p.generation /\ ~q.opening
      /\ q.sources = Append(p.sources, Head(p.chain)) /\ q.notice.id = k /\ q.notice.frames = c
  BY <1>1, <1>2, <1>3, <1>5 DEF Playback, PlayedNotice
<1>7. \A i \in DOMAIN q.sources : q.sources[i].generation = q.generation
  <2>1. Head(p.chain).generation = p.generation BY DEF Valid
  <2> HIDE DEF q
  <2>2. QED BY <1>1, <1>2, <1>6, <2>1 DEF SoundOK
<1>8. Scheduled(p) = IF q.notice.id # 0 /\ q.notice.frames = 1
                     THEN Telling(q, q.notice.id, "playing") ELSE Silently(q)
  BY DEF Scheduled
<1> HIDE DEF q, c
<1>9. CASE k # 0 /\ c = 1
  <2>1. Scheduled(p) = Telling(q, k, "playing") BY <1>6, <1>8, <1>9
  <2>2. t[k] = << >> /\ k \in Responses /\ k <= n
    BY <1>4, <1>9, AudioAssumption DEF SoundOK, Responses
  <2>3. After(Scheduled(p), t) = [t EXCEPT ![k] = <<"playing">>] /\ Scheduled(p).p = q
    <3>1. Append(<< >>, "playing") = <<"playing">> OBVIOUS
    <3>2. Scheduled(p).id = k /\ Scheduled(p).what = "playing" /\ Scheduled(p).p = q
      BY <2>1 DEF Telling
    <3>3. QED BY <1>9, <2>2, <3>1, <3>2 DEF After
  <2> DEFINE u == [t EXCEPT ![k] = <<"playing">>]
  <2>4. /\ u \in [Responses -> ToldReports] /\ u[k] = <<"playing">>
        /\ \A r \in Responses : r # k => u[r] = t[r]
    BY <2>2 DEF SoundOK, ToldReports
  <2>5. \A r \in Responses : r > n => u[r] = << >>
    BY <2>2, <2>4 DEF SoundOK, Responses
  <2> HIDE DEF u
  <2>6. SoundOK(q, u, n) BY <1>4, <1>6, <1>7, <1>9, <2>4, <2>5 DEF SoundOK
  <2>7. QED BY <2>3, <2>6 DEF u
<1>10. CASE ~(k # 0 /\ c = 1)
  <2>1. Scheduled(p) = Silently(q) BY <1>6, <1>8, <1>10
  <2>2. k # 0 => p.notice.frames # 0 /\ c # 0 BY <1>4, <1>10
  <2>3. SoundOK(q, t, n) BY <1>6, <1>7, <2>2 DEF SoundOK
  <2>4. QED BY <2>1, <2>3, SilentOK
<1>11. QED BY <1>9, <1>10
Speaking ==
  [number : Nat, open : BOOLEAN, notice : BOOLEAN, frames : Nat, lost : SUBSET Nat]

SoundInv == SoundOK(playback, told, speaking.number) /\ speaking \in Speaking

LEMMA SoundInitial ==
  ASSUME AudioInit
  PROVE  SoundInv
<1> USE DEF AudioInit
<1>1. NoPlayback \in PlayedNotice BY DEF NoPlayback, PlayedNotice
<1>2. << >> \in Seq(PlayedFrame) OBVIOUS
<1>3. playback \in Playback BY <1>1, <1>2 DEF Playback
<1>4. told \in [Responses -> ToldReports] BY DEF ToldReports
<1>5. SoundOK(playback, told, 0) BY <1>3, <1>4, AudioAssumption DEF SoundOK, NoPlayback
<1>6. QED BY <1>5 DEF SoundInv, Speaking

LEMMA PlaysAfter ==
  ASSUME NEW x, Plays(x)
  PROVE  playback' = x.p /\ told' = After(x, told)
BY DEF Plays, After

\* A step of the playback that leaves the responses alone.
LEMMA PlaysOn ==
  ASSUME SoundInv, NEW x, Plays(x), SoundOK(x.p, After(x, told), speaking.number),
         speaking' \in Speaking, speaking'.number = speaking.number
  PROVE  SoundInv'
BY PlaysAfter DEF SoundInv

LEMMA LosingResult ==
  ASSUME NEW s \in Speaking, NEW r \in Nat
  PROVE  Losing(s, r) \in Speaking /\ Losing(s, r).number = s.number
BY DEF Losing, Speaking

LEMMA FrameStep ==
  ASSUME SoundInv, FrameArrives
  PROVE  SoundInv'
<1> DEFINE p == playback
           full == Len(p.chain) + Len(p.sources) >= MaxQueuedFrames
           refused == p.disposed \/ p.suppressed \/ p.overflowed
           sent == [speaking EXCEPT !.frames = @ + 1]
           f == [response |-> speaking.number, generation |-> p.generation]
           over == [p EXCEPT !.overflowed = TRUE]
           longer == [p EXCEPT !.chain = Append(@, f)]
<1>1. playback \in Playback /\ speaking \in Speaking /\ speaking.number \in Nat
  BY DEF SoundInv, SoundOK, Speaking
<1>2. speaking.frames + 1 \in Nat BY <1>1 DEF Speaking
<1>3. sent \in Speaking /\ sent.number = speaking.number BY <1>1, <1>2 DEF Speaking
<1>4. speaking' \in Speaking /\ speaking'.number = speaking.number
  <2> HIDE DEF sent
  <2>1. speaking' = IF refused \/ full THEN Losing(sent, speaking.number) ELSE sent
    BY DEF FrameArrives, sent
  <2>2. QED BY <1>1, <1>3, <2>1, LosingResult
<1>5. playback' \in {p, over, longer} /\ told' = told BY DEF FrameArrives
<1>6. /\ over \in Playback /\ over.generation = p.generation /\ over.sources = p.sources
      /\ over.notice = p.notice /\ over.opening = p.opening /\ over.chain = p.chain
  BY <1>1 DEF Playback
<1>7. f \in PlayedFrame BY <1>1 DEF PlayedFrame, Playback
<1>8. p.chain \in Seq(PlayedFrame) BY <1>1 DEF Playback
<1>9. Append(p.chain, f) \in Seq(PlayedFrame) /\ Append(p.chain, f) # << >>
  <2> HIDE DEF f
  <2>1. Len(Append(p.chain, f)) = Len(p.chain) + 1 /\ Len(p.chain) \in Nat BY <1>7, <1>8
  <2>2. QED BY <1>7, <1>8, <2>1
<1>10. /\ longer \in Playback /\ longer.generation = p.generation /\ longer.sources = p.sources
       /\ longer.notice = p.notice /\ longer.chain # << >>
  BY <1>1, <1>9 DEF Playback
<1> HIDE DEF over, longer, sent, f
<1>11. SoundOK(p, told, speaking.number) /\ (p.opening => p.chain # << >>)
  BY DEF SoundInv, SoundOK
<1>12. SoundOK(playback', told', speaking.number)
  BY <1>5, <1>6, <1>10, <1>11, SoundSame
<1>13. QED BY <1>4, <1>12 DEF SoundInv

\* The head of the chain is done with, or waits for the context.
LEMMA TakesOn ==
  ASSUME SoundInv, NEW x, NEW whole \in BOOLEAN, Takes(x, whole), playback.chain # << >>,
         SoundOK(x.p, After(x, told), speaking.number)
  PROVE  SoundInv'
<1>1. Head(playback.chain).response \in Nat
  BY HeadTail DEF SoundInv, SoundOK, PlayedFrame
<1>2. speaking' \in Speaking /\ speaking'.number = speaking.number
  BY <1>1, LosingResult DEF Takes, SoundInv
<1>3. QED BY <1>2, PlaysOn DEF Takes

LEMMA ScheduleStep ==
  ASSUME SoundInv, SchedulesFrame \/ ContextOpens \/ WaitEnds
  PROVE  SoundInv'
<1>1. /\ SoundOK(playback, told, speaking.number) /\ playback \in Playback
      /\ playback.opening => playback.chain # << >>
  BY DEF SoundInv, SoundOK
<1>2. CASE SchedulesFrame
  <2>1. playback.chain # << >> BY <1>2 DEF SchedulesFrame
  <2>2. CASE Takes(Dropped(playback), FALSE) BY <1>1, <2>1, <2>2, DroppedOK, TakesOn
  <2>3. CASE Takes(Scheduled(playback), TRUE) /\ Valid(playback, Head(playback.chain))
    BY <1>1, <2>1, <2>3, ScheduledOK, TakesOn
  <2>4. CASE Takes(Silently([playback EXCEPT !.opening = TRUE]), TRUE)
    <3> DEFINE q == [playback EXCEPT !.opening = TRUE]
    <3>1. /\ q \in Playback /\ q.generation = playback.generation /\ q.notice = playback.notice
          /\ q.sources = playback.sources /\ q.chain = playback.chain
      BY <1>1 DEF Playback
    <3>2. Takes(Silently(q), TRUE) BY <2>4
    <3> HIDE DEF q
    <3>3. SoundOK(q, told, speaking.number) BY <1>1, <2>1, <3>1, SoundSame
    <3>4. QED BY <2>1, <3>2, <3>3, SilentOK, TakesOn
  <2>5. QED BY <1>2, <2>2, <2>3, <2>4 DEF SchedulesFrame
<1>3. CASE ContextOpens
  <2> DEFINE q == [playback EXCEPT !.context = "running"]
  <2>1. playback.chain # << >> BY <1>1, <1>3 DEF ContextOpens
  <2>2. /\ q \in Playback /\ q.generation = playback.generation /\ q.notice = playback.notice
        /\ q.sources = playback.sources /\ q.chain = playback.chain
        /\ q.opening = playback.opening
    BY <1>1 DEF Playback
  <2>3. Takes(IF Valid(q, Head(q.chain)) THEN Scheduled(q) ELSE Dropped(q), Valid(q, Head(q.chain)))
    BY <1>3 DEF ContextOpens
  <2> HIDE DEF q
  <2>4. SoundOK(q, told, speaking.number) BY <1>1, <2>1, <2>2, SoundSame
  <2>5. CASE Valid(q, Head(q.chain))
    <3>1. Takes(Scheduled(q), TRUE) BY <2>3, <2>5 DEF Takes
    <3>2. QED BY <2>1, <2>2, <2>4, <2>5, <3>1, ScheduledOK, TakesOn
  <2>6. CASE ~Valid(q, Head(q.chain))
    <3>1. Takes(Dropped(q), FALSE) BY <2>3, <2>6 DEF Takes
    <3>2. QED BY <2>1, <2>2, <2>4, <3>1, DroppedOK, TakesOn
  <2>7. QED BY <2>5, <2>6
<1>4. CASE WaitEnds
  BY <1>1, <1>4, DroppedOK, TakesOn DEF WaitEnds
<1>5. QED BY <1>2, <1>3, <1>4
LEMMA SourceStep ==
  ASSUME SoundInv, SourceEnds \/ ConfirmsAfterChain
  PROVE  SoundInv'
<1>1. SoundOK(playback, told, speaking.number) /\ playback \in Playback /\ speaking \in Speaking
  BY DEF SoundInv, SoundOK
<1>2. CASE SourceEnds
  <2> DEFINE q == [playback EXCEPT !.sources = Tail(@)]
  <2>1. playback.sources \in Seq(PlayedFrame) /\ playback.sources # << >>
    BY <1>1, <1>2 DEF SourceEnds, Playback
  <2>2. /\ Tail(playback.sources) \in Seq(PlayedFrame)
        /\ \A i \in DOMAIN Tail(playback.sources) :
             i + 1 \in DOMAIN playback.sources
             /\ Tail(playback.sources)[i] = playback.sources[i + 1]
    BY <2>1
  <2>3. /\ q \in Playback /\ q.generation = playback.generation /\ q.notice = playback.notice
        /\ q.sources = Tail(playback.sources) /\ q.chain = playback.chain
        /\ q.opening = playback.opening
    BY <1>1, <2>2 DEF Playback
  <2>4. Plays(Confirms(q)) /\ UNCHANGED speaking BY <1>2 DEF SourceEnds
  <2> HIDE DEF q
  <2>5. SoundOK(q, told, speaking.number) BY <1>1, <2>2, <2>3 DEF SoundOK
  <2>6. QED BY <1>1, <2>4, <2>5, ConfirmsOK, PlaysOn
<1>3. CASE ConfirmsAfterChain
  <2> DEFINE q == [playback EXCEPT !.confirm = FALSE]
  <2>1. /\ q \in Playback /\ q.generation = playback.generation /\ q.notice = playback.notice
        /\ q.sources = playback.sources /\ q.chain = playback.chain
        /\ q.opening = playback.opening
    BY <1>1 DEF Playback
  <2>2. Plays(Confirms(q)) /\ UNCHANGED speaking BY <1>3 DEF ConfirmsAfterChain
  <2> HIDE DEF q
  <2>3. SoundOK(q, told, speaking.number) BY <1>1, <2>1, SoundSame DEF SoundOK
  <2>4. QED BY <1>1, <2>2, <2>3, ConfirmsOK, PlaysOn
<1>4. QED BY <1>2, <1>3

\* Fields of the playback that nothing told depends on.
LEMMA FieldStep ==
  ASSUME SoundInv, ContextSuspends \/ ResponseCompletes \/ SpeechOver
  PROVE  SoundInv'
<1>1. SoundOK(playback, told, speaking.number) /\ playback \in Playback /\ speaking \in Speaking
  BY DEF SoundInv, SoundOK
<1>2. playback.notice \in PlayedNotice /\ [playback.notice EXCEPT !.complete = TRUE] \in PlayedNotice
  BY <1>1 DEF Playback, PlayedNotice
<1>3. /\ playback' \in Playback /\ playback'.generation = playback.generation
      /\ playback'.sources = playback.sources /\ playback'.chain = playback.chain
      /\ playback'.opening = playback.opening
      /\ playback'.notice \in {playback.notice, [playback.notice EXCEPT !.complete = TRUE]}
  <2>1. CASE ContextSuspends BY <1>1, <2>1 DEF ContextSuspends, Playback
  <2>2. CASE SpeechOver BY <1>1, <2>2 DEF SpeechOver, Playback
  <2>3. CASE ResponseCompletes
    <3> DEFINE q == [playback EXCEPT !.notice.complete = TRUE, !.confirm = TRUE]
    <3>1. playback' \in {playback, q} BY <2>3 DEF ResponseCompletes
    <3>2. /\ q \in Playback /\ q.generation = playback.generation
          /\ q.sources = playback.sources /\ q.chain = playback.chain
          /\ q.opening = playback.opening
          /\ q.notice = [playback.notice EXCEPT !.complete = TRUE]
      BY <1>1, <1>2 DEF Playback
    <3> HIDE DEF q
    <3>3. QED BY <1>1, <3>1, <3>2
  <2>4. QED BY <2>1, <2>2, <2>3
<1>4. playback'.notice.id = playback.notice.id /\ playback'.notice.frames = playback.notice.frames
  BY <1>2, <1>3 DEF PlayedNotice
<1>5. told' = told /\ speaking' \in Speaking /\ speaking'.number = speaking.number
  BY <1>1 DEF ContextSuspends, ResponseCompletes, SpeechOver, Speaking
<1>6. playback'.opening => playback'.chain # << >> BY <1>1, <1>3 DEF SoundOK
<1>7. SoundOK(playback', told', speaking.number) BY <1>1, <1>3, <1>4, <1>5, <1>6, SoundSame
<1>8. QED BY <1>5, <1>7 DEF SoundInv

LEMMA CutStep ==
  ASSUME SoundInv, ResponseBreaksOff \/ UserInterrupts \/ SpeechConfirmed \/ ClosesPlayback
  PROVE  SoundInv'
<1>1. SoundOK(playback, told, speaking.number) /\ playback \in Playback /\ speaking \in Speaking
  BY DEF SoundInv, SoundOK
<1>2. speaking' \in Speaking /\ speaking'.number = speaking.number
  BY <1>1 DEF ResponseBreaksOff, UserInterrupts, SpeechConfirmed, ClosesPlayback, Speaking
<1>3. CASE ResponseBreaksOff
  BY <1>1, <1>2, <1>3, CutShortOK, PlaysOn DEF ResponseBreaksOff
<1>4. CASE UserInterrupts
  BY <1>1, <1>2, <1>4, InterruptedOK, PlaysOn DEF UserInterrupts
<1>5. CASE SpeechConfirmed
  <2> DEFINE q == [playback EXCEPT !.confirmed = TRUE]
  <2>1. CASE Plays(Silently(playback)) BY <1>1, <1>2, <2>1, SilentOK, PlaysOn
  <2>2. CASE Plays(Interrupted(q))
    <3>1. /\ q \in Playback /\ q.generation = playback.generation /\ q.notice = playback.notice
          /\ q.sources = playback.sources /\ q.chain = playback.chain
          /\ q.opening = playback.opening
      BY <1>1 DEF Playback
    <3> HIDE DEF q
    <3>2. SoundOK(q, told, speaking.number) BY <1>1, <3>1, SoundSame DEF SoundOK
    <3>3. QED BY <1>1, <1>2, <2>2, <3>2, InterruptedOK, PlaysOn
  <2>3. QED BY <1>5, <2>1, <2>2 DEF SpeechConfirmed
<1>6. CASE ClosesPlayback
  <2> DEFINE q == [playback EXCEPT !.context = "closed"]
  <2>1. /\ q \in Playback /\ q.generation = playback.generation /\ q.notice = playback.notice
        /\ q.sources = playback.sources /\ q.chain = playback.chain
        /\ q.opening = playback.opening
    BY <1>1 DEF Playback
  <2>2. Plays(CutShort(q)) BY <1>6 DEF ClosesPlayback
  <2> HIDE DEF q
  <2>3. SoundOK(q, told, speaking.number) BY <1>1, <2>1, SoundSame DEF SoundOK
  <2>4. QED BY <1>1, <1>2, <2>2, <2>3, CutShortOK, PlaysOn
<1>7. QED BY <1>3, <1>4, <1>5, <1>6

\* A response begins; a notice among them is the next of which anything is
\* told.
LEMMA BeginsStep ==
  ASSUME SoundInv, ResponseStartsHere
  PROVE  SoundInv'
<1>1. SoundOK(playback, told, speaking.number) /\ playback \in Playback /\ speaking \in Speaking
      /\ speaking.number \in Nat
  BY DEF SoundInv, SoundOK, Speaking
<1> DEFINE n == speaking.number + 1
<1>2. PICK notice \in BOOLEAN :
        /\ speaking' = [speaking EXCEPT !.number = @ + 1, !.open = TRUE, !.notice = notice, !.frames = 0]
        /\ LET fresh(p) == [p EXCEPT !.suppressed = FALSE, !.overflowed = FALSE, !.confirmed = FALSE]
               ended == NoticeEnds(playback, "interrupted")
           IN  IF ~notice THEN Plays(Silently(fresh(playback)))
               ELSE Plays([ended EXCEPT !.p = fresh([@ EXCEPT !.notice =
                             [id |-> speaking.number + 1, complete |-> FALSE, frames |-> 0]])])
  BY DEF ResponseStartsHere
<1>3. n \in 0..MaxResponses /\ n \in Nat /\ n # 0 /\ n > speaking.number
  BY <1>1, AudioAssumption DEF ResponseStartsHere
<1>4. speaking' \in Speaking /\ speaking'.number = n BY <1>1, <1>2, <1>3 DEF Speaking
<1>5. CASE ~notice
  <2> DEFINE q == [playback EXCEPT !.suppressed = FALSE, !.overflowed = FALSE, !.confirmed = FALSE]
  <2>1. Plays(Silently(q)) BY <1>2, <1>5
  <2>2. /\ q \in Playback /\ q.generation = playback.generation /\ q.notice = playback.notice
        /\ q.sources = playback.sources /\ q.chain = playback.chain
        /\ q.opening = playback.opening
    BY <1>1 DEF Playback
  <2> HIDE DEF q
  <2>3. playback' = q /\ told' = told BY <2>1, PlaysAfter, SilentOK
  <2>4. SoundOK(q, told, speaking.number) BY <1>1, <2>2, SoundSame DEF SoundOK
  <2>5. SoundOK(q, told, n)
    <3>1. q.notice.id \in 0..n BY <1>1, <1>3, <2>4 DEF SoundOK
    <3>2. \A r \in Responses : r > n => told[r] = << >>
      BY <1>1, <1>3, <2>4 DEF SoundOK, Responses
    <3> HIDE DEF n
    <3>3. QED BY <1>3, <2>4, <3>1, <3>2 DEF SoundOK
  <2>6. QED BY <1>4, <2>3, <2>5 DEF SoundInv
<1>6. CASE notice
  <2> DEFINE ended == NoticeEnds(playback, "interrupted")
             c == [id |-> n, complete |-> FALSE, frames |-> 0]
             q == [[ended.p EXCEPT !.notice = c]
                     EXCEPT !.suppressed = FALSE, !.overflowed = FALSE, !.confirmed = FALSE]
             u == After(ended, told)
  <2>1. Plays([ended EXCEPT !.p = q]) BY <1>2, <1>6
  <2>2. SoundOK(ended.p, u, speaking.number) BY <1>1, EndsOK DEF FinalReports
  <2>3. ended = [p |-> ended.p, id |-> ended.id, what |-> ended.what]
    BY DEF NoticeEnds, Telling
  <2>4. c \in PlayedNotice BY <1>3 DEF PlayedNotice
  <2> HIDE DEF ended, c
  <2>5. ended.p \in Playback BY <2>2 DEF SoundOK
  <2>6. /\ q \in Playback /\ q.generation = ended.p.generation /\ q.notice = c
        /\ q.sources = ended.p.sources /\ q.chain = ended.p.chain
        /\ q.opening = ended.p.opening
    BY <2>4, <2>5 DEF Playback
  <2> HIDE DEF q
  <2>7. /\ [ended EXCEPT !.p = q].p = q
        /\ [ended EXCEPT !.p = q].id = ended.id
        /\ [ended EXCEPT !.p = q].what = ended.what
    BY <2>3
  <2>8. playback' = q /\ told' = u BY <2>1, <2>7, PlaysAfter DEF After
  <2> HIDE DEF u
  <2>9. n \in Responses BY <1>3 DEF Responses
  <2>10. u[n] = << >> BY <1>3, <2>2, <2>9 DEF SoundOK
  <2>11. \A r \in Responses : r > n => u[r] = << >>
    BY <1>1, <1>3, <2>2 DEF SoundOK, Responses
  <2>12. q.notice.id = n /\ q.notice.frames = 0 BY <2>6 DEF c
  <2> HIDE DEF n
  <2>13. n \in 0..n BY <1>3
  <2>14. SoundOK(q, u, n) BY <1>3, <2>2, <2>6, <2>10, <2>11, <2>12, <2>13 DEF SoundOK
  <2>15. QED BY <1>4, <2>8, <2>14 DEF SoundInv
<1>7. QED BY <1>5, <1>6

-----------------------------------------------------------------------------
(* The microphone *)

MicStart == [generation : Nat, step : {"asking", "opening"}, cancelled : BOOLEAN]
Mic ==
  [state : {"idle", "starting", "active", "stopping", "disposed"}, generation : Nat,
   start : Nat, cancellation : Nat, waiting : Nat, stop : {"none", "waiting", "flushing"},
   active : BOOLEAN, awaits : Nat, stream : Nat, starts : SUBSET MicStart]

OpenStarts(m) == {s.generation : s \in {x \in m.starts : x.step = "opening"}}

\* Every start has a generation of its own, a stream in use is of none that
\* could still be taken, and what is held is that stream or of a start.
MicOK(m, l) ==
  /\ m \in Mic
  /\ \A s, x \in m.starts : s.generation = x.generation => s = x
  /\ \A s \in m.starts : s.generation \in 1..m.generation
  /\ 0 \notin l
  /\ m.stream # 0 =>
       /\ m.stop = "none" => m.state = "active"
       /\ \A s \in m.starts : s.generation # m.generation
  /\ l \subseteq {m.stream} \cup OpenStarts(m)

\* Starts begin only when no stream is in use.
LEMMA BeginsCaptureOK ==
  ASSUME NEW m, NEW l, NEW n \in Nat, MicOK(m, l), n # 0 => m.stream = 0
  PROVE  MicOK(BeginsCapture(m, n), l)
<1>1. CASE n = 0 BY <1>1 DEF BeginsCapture
<1>2. CASE n # 0
  <2> DEFINE g == m.generation + n
             new == {Start(i, "asking") : i \in (m.generation + 1)..g}
             q == [m EXCEPT !.generation = g, !.state = "starting", !.start = g, !.cancellation = g,
                            !.starts = @ \cup new]
  <2>1. m \in Mic /\ m.generation \in Nat /\ m.starts \subseteq MicStart
    BY DEF MicOK, Mic
  <2>2. g \in Nat /\ g > m.generation /\ (m.generation + 1)..g \subseteq Nat BY <1>2, <2>1
  <2>3. \A s \in new : /\ s \in MicStart /\ s.step = "asking"
                       /\ s.generation \in (m.generation + 1)..g
                       /\ s = Start(s.generation, "asking")
    <3> SUFFICES ASSUME NEW s \in new
                 PROVE  /\ s \in MicStart /\ s.step = "asking"
                        /\ s.generation \in (m.generation + 1)..g
                        /\ s = Start(s.generation, "asking")
      OBVIOUS
    <3>1. PICK i \in (m.generation + 1)..g : s = Start(i, "asking") OBVIOUS
    <3>2. s.generation = i /\ s.step = "asking" BY <3>1 DEF Start
    <3>3. i \in Nat BY <2>2
    <3>4. s \in MicStart BY <3>1, <3>3 DEF Start, MicStart
    <3>5. QED BY <3>1, <3>2, <3>4
  <2>4. BeginsCapture(m, n) = q BY <1>2 DEF BeginsCapture
  <2> HIDE DEF new, g
  <2>5. m.starts \cup new \subseteq MicStart BY <2>1, <2>3
  <2>6. /\ q \in Mic /\ q.starts = m.starts \cup new /\ q.generation = g
        /\ q.stream = m.stream /\ q.stop = m.stop
    BY <2>1, <2>2, <2>5 DEF Mic
  <2> HIDE DEF q
  <2>7. \A s \in m.starts : s.generation \in 1..m.generation BY DEF MicOK
  <2>8. \A s, x \in q.starts : s.generation = x.generation => s = x
    <3> SUFFICES ASSUME NEW s \in q.starts, NEW x \in q.starts, s.generation = x.generation
                 PROVE  s = x OBVIOUS
    <3>1. CASE s \in m.starts /\ x \in m.starts BY <3>1 DEF MicOK
    <3>2. CASE s \in new /\ x \in new BY <2>3, <3>2
    <3>3. CASE s \in m.starts /\ x \in new BY <2>1, <2>3, <2>7, <3>3
    <3>4. CASE s \in new /\ x \in m.starts BY <2>1, <2>3, <2>7, <3>4
    <3>5. QED BY <2>6, <3>1, <3>2, <3>3, <3>4
  <2>9. \A s \in q.starts : s.generation \in 1..q.generation
    <3>1. \A s \in m.starts : s.generation \in 1..g BY <2>1, <2>2, <2>7
    <3>2. \A s \in new : s.generation \in 1..g BY <2>1, <2>2, <2>3
    <3>3. QED BY <2>6, <3>1, <3>2
  <2>10. q.stream = 0 BY <1>2, <2>6
  <2>11. OpenStarts(m) \subseteq OpenStarts(q) BY <2>6 DEF OpenStarts
  <2>12. l \subseteq {q.stream} \cup OpenStarts(q) BY <2>6, <2>11 DEF MicOK
  <2>13. 0 \notin l BY DEF MicOK
  <2>14. MicOK(q, l) BY <2>6, <2>8, <2>9, <2>10, <2>12, <2>13 DEF MicOK
  <2>15. QED BY <2>4, <2>14
<1>3. QED BY <1>1, <1>2
\* A start that is over leaves the others as they were.
LEMMA WithoutStartOK ==
  ASSUME NEW m \in Mic, NEW s
  PROVE  LET q == WithoutStart(m, s)
         IN  /\ q \in Mic /\ q.starts = m.starts \ {s} /\ q.generation = m.generation
             /\ q.stream = m.stream /\ q.stop = m.stop /\ q.state = m.state
BY DEF WithoutStart, Mic

LEMMA AbandonsStep ==
  ASSUME MicOK(mic, live), NEW s \in mic.starts, Abandons(s)
  PROVE  MicOK(mic', live')
<1> DEFINE q == WithoutStart(mic, s)
<1>1. /\ q \in Mic /\ q.starts = mic.starts \ {s} /\ q.generation = mic.generation
      /\ q.stream = mic.stream /\ q.stop = mic.stop /\ q.state = mic.state
  BY WithoutStartOK DEF MicOK
<1>2. /\ mic' = [q EXCEPT !.state = IF s.generation = mic.generation /\ ~playback.disposed
                                    THEN "idle" ELSE @]
      /\ live' = live \ {s.generation}
  BY DEF Abandons
<1> HIDE DEF q
<1>3. /\ mic' \in Mic /\ mic'.starts = mic.starts \ {s} /\ mic'.generation = mic.generation
      /\ mic'.stream = mic.stream /\ mic'.stop = mic.stop
      /\ s.generation # mic.generation => mic'.state = mic.state
  BY <1>1, <1>2 DEF Mic
<1>5. live' \subseteq {mic'.stream} \cup OpenStarts(mic')
  <2> SUFFICES ASSUME NEW g \in live, g # s.generation, g # mic.stream PROVE g \in OpenStarts(mic')
    BY <1>2, <1>3
  <2>1. g \in OpenStarts(mic) BY DEF MicOK
  <2>2. PICK x \in mic.starts : x.step = "opening" /\ x.generation = g BY <2>1 DEF OpenStarts
  <2>3. x # s BY <2>2
  <2>4. QED BY <1>3, <2>2, <2>3 DEF OpenStarts
<1>6. QED BY <1>2, <1>3, <1>5 DEF MicOK

LEMMA GrantedStep ==
  ASSUME MicOK(mic, live), NEW s \in mic.starts, MediaGranted(s)
  PROVE  MicOK(mic', live')
<1>1. mic \in Mic /\ s \in MicStart /\ s.step = "asking" /\ s.generation \in 1..mic.generation
      /\ mic.generation \in Nat
  BY DEF MicOK, Mic, MediaGranted
<1>2. CASE Overtaken(s)
  <2>1. mic' = WithoutStart(mic, s) /\ live' = live
    BY <1>2 DEF MediaGranted, Granted
  <2>2. /\ mic' \in Mic /\ mic'.starts = mic.starts \ {s} /\ mic'.generation = mic.generation
        /\ mic'.stream = mic.stream /\ mic'.stop = mic.stop /\ mic'.state = mic.state
    BY <1>1, <2>1, WithoutStartOK
  <2>3. OpenStarts(mic') = OpenStarts(mic) BY <1>1, <2>2 DEF OpenStarts
  <2>4. QED BY <2>1, <2>2, <2>3 DEF MicOK
<1>3. CASE ~Overtaken(s)
  <2> DEFINE o == [s EXCEPT !.step = "opening"]
  <2>1. /\ mic' = [mic EXCEPT !.starts = (@ \ {s}) \cup {o}]
        /\ live' = live \cup {s.generation}
    BY <1>3 DEF MediaGranted, Granted
  <2>2. o \in MicStart /\ o.generation = s.generation /\ o.step = "opening"
    BY <1>1 DEF MicStart
  <2> HIDE DEF o
  <2>3. mic.starts \subseteq MicStart BY <1>1 DEF Mic
  <2>4. /\ mic' \in Mic /\ mic'.starts = (mic.starts \ {s}) \cup {o}
        /\ mic'.generation = mic.generation
        /\ mic'.stream = mic.stream /\ mic'.stop = mic.stop /\ mic'.state = mic.state
    BY <1>1, <2>1, <2>2, <2>3 DEF Mic
  <2>5. \A x \in mic.starts \ {s} : x.generation # s.generation BY DEF MicOK
  <2>6. \A x, y \in mic'.starts : x.generation = y.generation => x = y
    BY <2>2, <2>4, <2>5 DEF MicOK
  <2>7. \A x \in mic'.starts : x.generation \in 1..mic'.generation
    BY <1>1, <2>2, <2>4 DEF MicOK
  <2>8. OpenStarts(mic') = OpenStarts(mic) \cup {s.generation} BY <1>1, <2>2, <2>4 DEF OpenStarts
  <2>9. mic.stream # 0 => \A x \in mic'.starts : x.generation # mic.generation
    BY <2>2, <2>4 DEF MicOK
  <2>10. 0 \notin live' BY <1>1, <2>1 DEF MicOK
  <2>11. QED BY <2>1, <2>4, <2>6, <2>7, <2>8, <2>9, <2>10 DEF MicOK
<1>4. QED BY <1>2, <1>3

LEMMA OpensCaptureStep ==
  ASSUME MicOK(mic, live), NEW s \in mic.starts, CaptureOpens(s)
  PROVE  MicOK(mic', live')
<1> DEFINE q == WithoutStart(mic, s)
<1>1. mic \in Mic /\ s \in MicStart /\ s.generation \in 1..mic.generation
      /\ mic.generation \in Nat /\ s.generation \in Nat
  BY DEF MicOK, Mic, MicStart
<1>2. s.generation = mic.generation BY DEF CaptureOpens, Overtaken
<1>3. mic.stream = 0 BY <1>2 DEF MicOK
<1>4. /\ q \in Mic /\ q.starts = mic.starts \ {s} /\ q.generation = mic.generation
      /\ q.stream = mic.stream /\ q.stop = mic.stop /\ q.state = mic.state
  BY <1>1, WithoutStartOK
<1>5. mic' = [q EXCEPT !.stream = s.generation, !.state = "active"] /\ live' = live
  BY DEF CaptureOpens
<1> HIDE DEF q
<1>6. /\ mic' \in Mic /\ mic'.starts = mic.starts \ {s} /\ mic'.generation = mic.generation
      /\ mic'.stream = s.generation /\ mic'.state = "active"
  BY <1>1, <1>4, <1>5 DEF Mic
<1>7. \A x \in mic.starts \ {s} : x.generation # s.generation BY DEF MicOK
<1>8. live \subseteq OpenStarts(mic) BY <1>3 DEF MicOK
<1>9. OpenStarts(mic) \subseteq {s.generation} \cup OpenStarts(mic') BY <1>6 DEF OpenStarts
<1>10. QED BY <1>2, <1>5, <1>6, <1>7, <1>8, <1>9 DEF MicOK

\* A stop takes a new generation, and cancels a start without forgetting it.
LEMMA BeginsStopOK ==
  ASSUME NEW m, NEW l, MicOK(m, l)
  PROVE  MicOK(BeginsStop(m), l)
<1> DEFINE c(s) == [s EXCEPT !.cancelled = @ \/ s.generation = m.cancellation]
           new == {c(s) : s \in m.starts}
           q == BeginsStop(m)
<1>1. m \in Mic /\ m.generation \in Nat /\ m.starts \subseteq MicStart /\ m.start \in Nat
  BY DEF MicOK, Mic
<1>2. \A s \in m.starts : c(s) \in MicStart /\ c(s).generation = s.generation /\ c(s).step = s.step
  BY <1>1 DEF MicStart
<1>3. q = [m EXCEPT !.active = (m.state = "active"), !.generation = @ + 1,
                    !.state = IF @ = "disposed" THEN @ ELSE "stopping",
                    !.starts = new, !.awaits = m.start, !.stop = "waiting"]
  BY DEF BeginsStop
<1>4. new \subseteq MicStart BY <1>2
<1>5. \A x \in new : \E s \in m.starts : x = c(s) /\ x.generation = s.generation /\ x.step = s.step
  BY <1>2
<1>6. OpenStarts(m) \subseteq {x.generation : x \in {y \in new : y.step = "opening"}}
  <2> SUFFICES ASSUME NEW s \in m.starts, s.step = "opening"
               PROVE  \E x \in new : x.step = "opening" /\ x.generation = s.generation
    BY DEF OpenStarts
  <2>1. c(s) \in new OBVIOUS
  <2>2. QED BY <1>2, <2>1
<1>7. \A x, y \in new : x.generation = y.generation => x = y
  BY <1>5 DEF MicOK
<1> HIDE DEF new, q
<1>8. /\ q \in Mic /\ q.starts = new /\ q.generation = m.generation + 1
      /\ q.stream = m.stream /\ q.stop = "waiting"
  <2> DEFINE a == (m.state = "active")
             g == m.generation + 1
             z == IF m.state = "disposed" THEN m.state ELSE "stopping"
  <2>1. a \in BOOLEAN /\ g \in Nat
        /\ z \in {"idle", "starting", "active", "stopping", "disposed"}
    BY <1>1
  <2>2. q = [m EXCEPT !.active = a, !.generation = g, !.state = z,
                      !.starts = new, !.awaits = m.start, !.stop = "waiting"]
    BY <1>3
  <2> HIDE DEF a, g, z
  <2>3. q \in Mic /\ q.starts = new /\ q.generation = g /\ q.stream = m.stream
        /\ q.stop = "waiting"
    BY <1>1, <1>4, <2>1, <2>2 DEF Mic
  <2>4. QED BY <2>3 DEF g
<1>9. \A x \in q.starts : x.generation \in 1..q.generation /\ x.generation # q.generation
  BY <1>1, <1>5, <1>8 DEF MicOK
<1>10. l \subseteq {q.stream} \cup OpenStarts(q) BY <1>6, <1>8 DEF MicOK, OpenStarts
<1>11. MicOK(q, l) BY <1>7, <1>8, <1>9, <1>10 DEF MicOK
<1>12. QED BY <1>11 DEF q

LEMMA StoppingOK ==
  ASSUME NEW m, NEW l, MicOK(m, l)
  PROVE  MicOK(Stopping(m), l)
BY BeginsStopOK DEF Stopping

LEMMA FlushStep ==
  ASSUME MicOK(mic, live), FlushesCapture
  PROVE  MicOK(mic', live')
<1>1. mic \in Mic /\ live' = live /\ mic' = [mic EXCEPT !.stop = "flushing"]
  BY DEF MicOK, FlushesCapture
<1>2. /\ mic' \in Mic /\ mic'.starts = mic.starts /\ mic'.generation = mic.generation
      /\ mic'.stream = mic.stream /\ mic'.stop = "flushing"
  BY <1>1 DEF Mic
<1>3. QED BY <1>1, <1>2 DEF MicOK, OpenStarts

LEMMA StopEndsStep ==
  ASSUME MicOK(mic, live), StopEnds
  PROVE  MicOK(mic', live')
<1> DEFINE q == [mic EXCEPT !.stop = "none", !.stream = 0, !.awaits = 0, !.waiting = 0,
                            !.state = IF playback.disposed THEN "disposed" ELSE "idle"]
<1>1. mic \in Mic /\ mic.waiting \in Nat BY DEF MicOK, Mic
<1>2. /\ q \in Mic /\ q.starts = mic.starts /\ q.generation = mic.generation /\ q.stream = 0
  BY <1>1 DEF Mic
<1>3. PICK going \in {0, mic.waiting} : mic' = BeginsCapture(q, going)
  BY DEF StopEnds
<1>4. live' = live \ {mic.stream} BY DEF StopEnds
<1> HIDE DEF q
<1>5. OpenStarts(q) = OpenStarts(mic) BY <1>2 DEF OpenStarts
<1>6. MicOK(q, live') BY <1>2, <1>4, <1>5 DEF MicOK
<1>7. QED BY <1>1, <1>2, <1>3, <1>6, BeginsCaptureOK

AudioInv == SoundInv /\ MicOK(mic, live)

LEMMA StartsMicStep ==
  ASSUME AudioInv, StartsMicrophone
  PROVE  AudioInv'
<1> USE DEF AudioInv
<1>1. mic \in Mic /\ mic.waiting \in Nat BY DEF MicOK, Mic
<1>2. UNCHANGED <<speaking, live>> BY DEF StartsMicrophone
<1>3. CASE mic.stop # "none"
  <2>1. mic' = [mic EXCEPT !.waiting = @ + 1] /\ UNCHANGED <<playback, told>>
    BY <1>3 DEF StartsMicrophone
  <2>2. /\ mic' \in Mic /\ mic'.starts = mic.starts /\ mic'.generation = mic.generation
        /\ mic'.stream = mic.stream /\ mic'.stop = mic.stop
    BY <1>1, <2>1 DEF Mic
  <2>3. MicOK(mic', live') BY <1>2, <1>3, <2>2 DEF MicOK, OpenStarts
  <2>4. QED BY <1>2, <2>1, <2>3 DEF SoundInv
<1>4. CASE mic.stop = "none"
  <2>1. mic' = BeginsCapture(mic, 1) /\ Plays(Interrupted(playback))
    BY <1>4 DEF StartsMicrophone
  <2>2. mic.stream = 0 BY <1>4 DEF MicOK, StartsMicrophone
  <2>3. MicOK(mic', live') BY <1>2, <2>1, <2>2, BeginsCaptureOK
  <2>4. SoundInv' BY <1>2, <2>1, InterruptedOK, PlaysOn DEF SoundInv
  <2>5. QED BY <2>3, <2>4
<1>5. QED BY <1>3, <1>4

LEMMA DisposesStep ==
  ASSUME AudioInv, Disposes
  PROVE  AudioInv'
<1> USE DEF AudioInv
<1>1. SoundOK(playback, told, speaking.number) /\ playback \in Playback
  BY DEF SoundInv, SoundOK
<1>2. /\ playback' = [playback EXCEPT !.disposed = TRUE] /\ mic' = Stopping(mic)
      /\ UNCHANGED <<speaking, told, live>>
  BY DEF Disposes
<1>3. /\ playback' \in Playback /\ playback'.generation = playback.generation
      /\ playback'.sources = playback.sources /\ playback'.notice = playback.notice
      /\ playback'.chain = playback.chain /\ playback'.opening = playback.opening
  BY <1>1, <1>2 DEF Playback
<1>4. SoundOK(playback', told, speaking.number) BY <1>1, <1>3, SoundSame DEF SoundOK
<1>5. SoundInv' BY <1>2, <1>4 DEF SoundInv
<1>6. QED BY <1>2, <1>5, StoppingOK

LEMMA StopEndsAudio ==
  ASSUME AudioInv, StopEnds
  PROVE  AudioInv'
<1>1. MicOK(mic', live') BY StopEndsStep DEF AudioInv
<1>2. /\ Plays(Silently(playback)) \/ Plays(Interrupted(playback))
      /\ UNCHANGED speaking
  BY DEF StopEnds
<1>3. SoundOK(playback, told, speaking.number) /\ speaking \in Speaking
  BY DEF AudioInv, SoundInv
<1>4. SoundInv' BY <1>2, <1>3, SilentOK, InterruptedOK, PlaysOn DEF AudioInv
<1>5. QED BY <1>1, <1>4 DEF AudioInv

LEMMA AudioInitial ==
  ASSUME AudioInit
  PROVE  AudioInv
<1>1. mic \in Mic /\ mic.starts = {} /\ mic.stream = 0 /\ live = {} BY DEF AudioInit, Mic
<1>2. QED BY <1>1, SoundInitial DEF AudioInv, MicOK

LEMMA AudioInvNext ==
  ASSUME AudioInv, [AudioNext]_audioVars
  PROVE  AudioInv'
<1> USE DEF AudioInv
<1>1. CASE UNCHANGED audioVars
  BY <1>1 DEF audioVars, SoundInv
<1>2. CASE UNCHANGED <<mic, live>> /\
           \/ FrameArrives \/ SchedulesFrame \/ ContextOpens \/ WaitEnds \/ SourceEnds
           \/ ContextSuspends \/ ResponseStartsHere \/ ResponseCompletes
           \/ ConfirmsAfterChain \/ ResponseBreaksOff \/ UserInterrupts \/ SpeechConfirmed
           \/ SpeechOver \/ ClosesPlayback
  BY <1>2, FrameStep, ScheduleStep, SourceStep, FieldStep, CutStep, BeginsStep
<1>3. CASE /\ UNCHANGED <<playback, speaking, told>>
           /\ \/ StopsMicrophone \/ FlushesCapture
              \/ \E s \in mic.starts : \/ StartCancelled(s) \/ MediaGranted(s) \/ MediaDenied(s)
                                       \/ CaptureOpens(s) \/ CaptureFails(s)
  <2>1. SoundInv' BY <1>3 DEF SoundInv
  <2>2. CASE StopsMicrophone BY <2>1, <2>2, StoppingOK DEF StopsMicrophone
  <2>3. CASE FlushesCapture BY <2>1, <2>3, FlushStep
  <2>4. ASSUME NEW s \in mic.starts,
               \/ StartCancelled(s) \/ MediaGranted(s) \/ MediaDenied(s)
               \/ CaptureOpens(s) \/ CaptureFails(s)
        PROVE  AudioInv'
    BY <2>1, <2>4, AbandonsStep, GrantedStep, OpensCaptureStep
    DEF StartCancelled, MediaDenied, CaptureFails
  <2>5. QED BY <1>3, <2>2, <2>3, <2>4
<1>4. CASE StartsMicrophone BY <1>4, StartsMicStep
<1>5. CASE StopEnds BY <1>5, StopEndsAudio
<1>6. CASE Disposes BY <1>6, DisposesStep
<1>7. ASSUME AudioNext
      PROVE  \/ UNCHANGED <<mic, live>> /\
                \/ FrameArrives \/ SchedulesFrame \/ ContextOpens \/ WaitEnds \/ SourceEnds
                \/ ContextSuspends \/ ResponseStartsHere \/ ResponseCompletes
                \/ ConfirmsAfterChain \/ ResponseBreaksOff \/ UserInterrupts \/ SpeechConfirmed
                \/ SpeechOver \/ ClosesPlayback
             \/ /\ UNCHANGED <<playback, speaking, told>>
                /\ \/ StopsMicrophone \/ FlushesCapture
                   \/ \E s \in mic.starts : \/ StartCancelled(s) \/ MediaGranted(s)
                                            \/ MediaDenied(s) \/ CaptureOpens(s)
                                            \/ CaptureFails(s)
             \/ StartsMicrophone \/ StopEnds \/ Disposes
  <2>1. CASE FrameArrives BY <2>1 DEF FrameArrives
  <2>2. CASE SchedulesFrame BY <2>2 DEF SchedulesFrame, Takes
  <2>3. CASE ContextOpens BY <2>3 DEF ContextOpens, Takes
  <2>4. CASE WaitEnds BY <2>4 DEF WaitEnds, Takes
  <2>5. CASE SourceEnds BY <2>5 DEF SourceEnds
  <2>6. CASE ContextSuspends BY <2>6 DEF ContextSuspends
  <2>7. CASE ResponseStartsHere BY <2>7 DEF ResponseStartsHere
  <2>8. CASE ResponseCompletes BY <2>8 DEF ResponseCompletes
  <2>9. CASE ConfirmsAfterChain BY <2>9 DEF ConfirmsAfterChain
  <2>10. CASE ResponseBreaksOff BY <2>10 DEF ResponseBreaksOff
  <2>11. CASE UserInterrupts BY <2>11 DEF UserInterrupts
  <2>12. CASE SpeechConfirmed BY <2>12 DEF SpeechConfirmed
  <2>13. CASE SpeechOver BY <2>13 DEF SpeechOver
  <2>14. CASE ClosesPlayback BY <2>14 DEF ClosesPlayback
  <2>15. CASE StopsMicrophone BY <2>15 DEF StopsMicrophone
  <2>16. CASE FlushesCapture BY <2>16 DEF FlushesCapture
  <2>17. ASSUME NEW s \in mic.starts,
                \/ StartCancelled(s) \/ MediaGranted(s) \/ MediaDenied(s)
                \/ CaptureOpens(s) \/ CaptureFails(s)
         PROVE  UNCHANGED <<playback, speaking, told>>
    BY <2>17 DEF StartCancelled, MediaGranted, MediaDenied, CaptureOpens, CaptureFails, Abandons
  <2>18. QED
    BY <1>7, <2>1, <2>2, <2>3, <2>4, <2>5, <2>6, <2>7, <2>8, <2>9, <2>10, <2>11, <2>12,
       <2>13, <2>14, <2>15, <2>16, <2>17
    DEF AudioNext
<1>8. QED BY <1>1, <1>2, <1>3, <1>4, <1>5, <1>6, <1>7

LEMMA AudioInvKept == AudioInv => AudioKept
<1> SUFFICES ASSUME AudioInv PROVE AudioKept OBVIOUS
<1>1. CutIsFinal BY DEF AudioInv, SoundInv, SoundOK, CutIsFinal
<1>2. ToldOnce BY ToldAtMostOnce DEF AudioInv, SoundInv, SoundOK
<1>3. MicReleased BY DEF AudioInv, MicOK, OpenStarts, MicReleased
<1>4. QED BY <1>1, <1>2, <1>3 DEF AudioKept

\* What was on its way when the user spoke is never played after it; a notice
\* is reported as heard at most once, and last as what became of it; and no
\* microphone is kept open that no start and no running capture holds
\* (hermes-live-client.js, interrupt, finishNotificationPlayback and
\* stopMicrophonePipeline).
THEOREM AudioAlwaysKept == AudioSpec => []AudioKept
<1>1. AudioInv /\ [AudioNext]_audioVars => AudioInv' BY AudioInvNext
<1>2. QED BY <1>1, AudioInitial, AudioInvKept, PTL DEF AudioSpec

-----------------------------------------------------------------------------
(* The page's view of a task *)

LEMMA Largest ==
  ASSUME NEW n \in Nat, NEW S, S \subseteq 1..n, S # {}
  PROVE  Max(S) \in S /\ \A i \in S : i <= Max(S)
<1> DEFINE T == {n - i : i \in S}
<1>0. \A i \in S : i \in Nat /\ i <= n /\ n - i \in Nat OBVIOUS
<1>1. T \subseteq Nat /\ T # {} BY <1>0
<1>2. PICK k \in T : \A j \in T : k <= j
  <2> HIDE DEF T
  <2> QED BY <1>1, Smallest
<1>3. PICK m \in S : k = n - m BY <1>2
<1>4. ASSUME NEW i \in S PROVE i <= m
  <2>1. n - i \in T OBVIOUS
  <2> HIDE DEF T
  <2>2. k <= n - i BY <1>2, <2>1
  <2>3. QED BY <1>0, <1>3, <2>2
<1>5. \E x \in S : \A y \in S : x >= y BY <1>0, <1>4
<1>6. Max(S) \in S /\ \A y \in S : Max(S) >= y BY <1>5 DEF Max
<1>7. QED BY <1>0, <1>6

LEMMA FirstInSet ==
  ASSUME NEW n \in Nat, NEW S, S \subseteq 1..n, S # {}
  PROVE  Min(S) \in S
<1>1. S \subseteq Nat OBVIOUS
<1>2. \E x \in S : \A y \in S : x <= y BY <1>1, Smallest
<1>3. QED BY <1>2 DEF Min

Entries == RecordTypes \cup {"stop_requested"}

\* The record: it begins when it is queued, and no status follows its end.
LogOK ==
  /\ taskLog \in Seq(Entries)
  /\ Now > 0 => taskLog[1] = "queued"
  /\ \A i, j \in 1..Now : i < j /\ taskLog[i] \in Final => taskLog[j] \notin Statuses

View ==
  [seq : Nat, state : Statuses \cup {"accepted", "none"}, updated : Nat, started : Nat,
   finished : Nat, progress : Nat, created : Nat]
Fields == {"up", "clash", "view", "life", "rev", "note", "inbox", "hydrate", "pending"}

\* The page keeps what it read of the record, and an end it shows is the end.
ViewTrue(c) ==
  /\ DOMAIN c = Fields /\ c.view \in View
  /\ Known(c) => c.life \in 1..c.view.seq /\ c.view.seq <= Now
  /\ c.inbox # {} => Now > 0
  /\ Known(c) /\ c.view.state \in Final => StatusAt(c.life) = c.view.state

\* A message tells of a copy that was read of the record.
SentOfTask ==
  {m \in [kind : {"ready", "hydration", "snapshot", "event", "notice", "error"}, n : Nat,
          answers : BOOLEAN] :
     m.n <= Now /\ (m.kind \in {"event", "notice", "snapshot"} => m.n > 0)}

FeedOK ==
  /\ feed \in [phase : {"recent", "unread", "read", "ready"}, read : Nat, unread : Nat, pushed : Nat]
  /\ feed.read <= Now /\ feed.unread <= Now /\ feed.pushed <= Now

RequestOK ==
  /\ request.op # "none" => Now > 0
  /\ request.record \in 0..Now
  /\ request.step = "read" => request.record > 0

ViewInv == LogOK /\ ViewTrue(client) /\ FeedOK /\ RequestOK /\ inflight \in Seq(SentOfTask)

-----------------------------------------------------------------------------
(* The record *)

LEMMA StatusKinds ==
  /\ Final \subseteq Statuses /\ Notified \subseteq Statuses
  /\ "queued" \in Statuses \ Final /\ "unknown" \notin Final
  /\ Statuses \subseteq Entries
BY DEF Final, Notified, Statuses, Entries, RecordTypes

\* The status of a copy is the last one in its log, and the end of a log stays.
LEMMA StatusRead ==
  ASSUME LogOK, NEW n \in 1..Now
  PROVE  /\ StatusAt(n) \in Statuses
         /\ \A i \in 1..n : taskLog[i] \in Final => StatusAt(n) = taskLog[i]
         /\ \A k \in n..Now : StatusAt(n) \in Final => StatusAt(k) = StatusAt(n)
<1> USE DEF LogOK, Now
<1>1. ASSUME NEW k \in 1..Now
      PROVE  /\ Positions(k, Statuses) \subseteq 1..k /\ Positions(k, Statuses) # {}
             /\ Max(Positions(k, Statuses)) \in Positions(k, Statuses)
             /\ \A i \in Positions(k, Statuses) : i <= Max(Positions(k, Statuses))
  <2>1. Positions(k, Statuses) \subseteq 1..k BY DEF Positions
  <2>2. 1 \in Positions(k, Statuses) BY StatusKinds DEF Positions
  <2>3. QED BY <2>1, <2>2, Largest
<1>2. ASSUME NEW k \in 1..Now PROVE StatusAt(k) \in Statuses
  BY <1>1 DEF StatusAt, Positions
<1>3. ASSUME NEW k \in 1..Now, NEW i \in 1..k, taskLog[i] \in Final
      PROVE  StatusAt(k) = taskLog[i]
  <2> DEFINE m == Max(Positions(k, Statuses))
  <2>1. i \in Positions(k, Statuses) BY <1>3, StatusKinds DEF Positions
  <2>2. m \in 1..k /\ taskLog[m] \in Statuses /\ i <= m
    BY <1>1, <2>1 DEF Positions
  <2>3. m = i BY <1>3, <2>2
  <2>4. QED BY <2>3 DEF StatusAt
<1>4. ASSUME NEW k \in n..Now, StatusAt(n) \in Final
      PROVE  StatusAt(k) = StatusAt(n)
  <2>1. PICK i \in 1..n : StatusAt(n) = taskLog[i]
    BY <1>1 DEF StatusAt, Positions
  <2>2. QED BY <1>3, <1>4, <2>1
<1>5. QED BY <1>2, <1>3, <1>4

\* What was read of the record before it moved is what would be read now.
LEMMA CopiesStay ==
  ASSUME LogOK, NEW n \in 1..Now, Now \in Nat,
         Len(taskLog) <= Len(taskLog'), \A i \in 1..Now : taskLog'[i] = taskLog[i]
  PROVE  StatusAt(n)' = StatusAt(n)
<1>1. Positions(n, Statuses)' = Positions(n, Statuses) BY DEF Positions, Now
<1>2. Max(Positions(n, Statuses)) \in 1..Now
  <2>1. Positions(n, Statuses) \subseteq 1..n BY DEF Positions
  <2>2. 1 \in Positions(n, Statuses) BY StatusKinds DEF Positions, LogOK
  <2>3. QED BY <2>1, <2>2, Largest
<1>3. QED BY <1>1, <1>2 DEF StatusAt

\* An event that the record may take.
LEMMA LogGrows ==
  ASSUME LogOK, NEW type \in Entries, taskLog' = Append(taskLog, type),
         Now = 0 => type = "queued",
         Now > 0 /\ type \in Statuses => StatusAt(Now) \notin Final
  PROVE  LogOK' /\ Now' = Now + 1 /\ \A i \in 1..Now : taskLog'[i] = taskLog[i]
<1> USE DEF LogOK, Now
<1>1. /\ taskLog' \in Seq(Entries) /\ Len(taskLog') = Len(taskLog) + 1
      /\ taskLog'[Len(taskLog) + 1] = type
      /\ \A i \in 1..Len(taskLog) : taskLog'[i] = taskLog[i]
      /\ Len(taskLog) \in Nat
  OBVIOUS
<1>2. taskLog'[1] = "queued" BY <1>1
<1>3. ASSUME NEW i \in 1..Len(taskLog'), NEW j \in 1..Len(taskLog'),
             i < j, taskLog'[i] \in Final
      PROVE  taskLog'[j] \notin Statuses
  <2>1. CASE j <= Len(taskLog) BY <1>1, <1>3, <2>1
  <2>2. CASE j = Len(taskLog) + 1
    <3>1. i \in 1..Now /\ taskLog[i] \in Final /\ Now \in 1..Now BY <1>1, <1>3, <2>2
    <3>2. StatusAt(Now) = taskLog[i] BY <3>1, StatusRead
    <3>3. QED BY <1>1, <2>2, <3>1, <3>2
  <2>3. QED BY <1>1, <2>1, <2>2
<1>4. QED BY <1>1, <1>2, <1>3

-----------------------------------------------------------------------------
(* The projections of a copy *)

LEMMA ProjectedState ==
  ASSUME LogOK, NEW n \in 1..Now
  PROVE  /\ PublicState(n) \in Statuses \cup {"accepted"}
         /\ PublicState(n) \in Final => StatusAt(n) = PublicState(n)
         /\ StatusAt(n) \in Final => PublicState(n) = StatusAt(n)
BY StatusRead DEF PublicState, Statuses, Final, Notified

LEMMA SnapshotType ==
  ASSUME LogOK, NEW n \in 1..Now
  PROVE  TaskSnapshot(n) \in View /\ TaskSnapshot(n).seq = n
         /\ TaskSnapshot(n).state = PublicState(n)
<1>1. \A types : FirstOf(n, types) \in Nat
  <2> TAKE types
  <2>1. Positions(n, types) \subseteq 1..n BY DEF Positions
  <2>2. CASE Positions(n, types) = {} BY <2>2 DEF FirstOf
  <2>3. CASE Positions(n, types) # {}
    BY <2>1, <2>3, FirstInSet DEF FirstOf
  <2>4. QED BY <2>2, <2>3
<1>2. n \in Nat BY DEF LogOK, Now
<1> DEFINE p == IF PublicState(n) \in {"running", "stopping", "delegated"} THEN n ELSE 0
           s == FirstOf(n, {"dispatching", "running"})
           f == FirstOf(n, Final)
           st == PublicState(n)
<1>3. p \in Nat /\ s \in Nat /\ f \in Nat /\ st \in Statuses \cup {"accepted"}
  BY <1>1, <1>2, ProjectedState
<1>4. TaskSnapshot(n) = [seq |-> n, state |-> st, created |-> 1, updated |-> n,
                         started |-> s, finished |-> f, progress |-> p]
  BY DEF TaskSnapshot
<1> HIDE DEF p, s, f
<1>5. QED BY <1>2, <1>3, <1>4 DEF View

\* A lifecycle event shows an end only where the record has come to it, and
\* of a record that ended it shows the end.
LEMMA LifecycleType ==
  ASSUME LogOK, NEW n \in 1..Now, NEW v \in View
  PROVE  /\ FromLifecycle(v, n) \in View
         /\ FromLifecycle(v, n).seq = Larger(v.seq, n)
         /\ FromLifecycle(v, n).state \in Final =>
              StatusAt(n) = FromLifecycle(v, n).state
         /\ StatusAt(n) \in Final => FromLifecycle(v, n).state = StatusAt(n)
<1> DEFINE moved == [v EXCEPT !.seq = Larger(v.seq, n), !.updated = Larger(v.updated, n)]
<1>0. n \in Nat BY DEF LogOK, Now
<1>1. Larger(v.seq, n) \in Nat /\ Larger(v.updated, n) \in Nat
  BY <1>0 DEF Larger, View
<1>2. /\ moved \in View /\ moved.seq = Larger(v.seq, n)
      /\ moved.state = v.state
  BY <1>1 DEF View
<1>3. \A x : Filled(x, n) \in {x, n} BY DEF Filled
<1>4. PublicState(n) \in Statuses \cup {"accepted"} /\ StatusAt(n) \in Statuses
  BY ProjectedState, StatusRead
<1>5. StatusAt(n) \in Final =>
        Lifecycle(n) \in {"task.completed", "task.cancelled"}
  BY ProjectedState DEF Lifecycle, EventOf, Final
<1>7. Lifecycle(n) = "task.accepted" => PublicState(n) \notin Final
  BY <1>4, ProjectedState DEF Lifecycle, EventOf, Final, Statuses
<1> HIDE DEF moved
<1>8. FromLifecycle(v, n) =
        CASE Lifecycle(n) = "task.accepted" ->
               [moved EXCEPT !.state = PublicState(n), !.created = Filled(moved.created, n)]
          [] Lifecycle(n) = "task.started" ->
               [moved EXCEPT !.state = "running", !.started = Filled(moved.started, n)]
          [] Lifecycle(n) = "task.progress" ->
               [moved EXCEPT !.state = IF moved.state \in {"stopping", "delegated"}
                                       THEN moved.state ELSE "running",
                             !.progress = n]
          [] Lifecycle(n) = "task.stopping" -> [moved EXCEPT !.state = "stopping"]
          [] Lifecycle(n) = "task.unknown" -> [moved EXCEPT !.state = "unknown"]
          [] OTHER -> [moved EXCEPT !.state = StatusAt(n), !.finished = n]
  BY DEF FromLifecycle, moved
<1> DEFINE r == FromLifecycle(v, n)
<1>s. {"running", "stopping", "unknown", "delegated"} \subseteq Statuses \ Final
  BY DEF Statuses, Final
<1>a. CASE Lifecycle(n) = "task.accepted"
  <2>1. Filled(moved.created, n) \in Nat BY <1>0, <1>2, <1>3 DEF View
  <2>2. r = [moved EXCEPT !.state = PublicState(n), !.created = Filled(moved.created, n)]
    BY <1>8, <1>a
  <2>3. r \in View /\ r.seq = moved.seq /\ r.state = PublicState(n)
    BY <1>2, <1>4, <2>1, <2>2 DEF View
  <2>4. QED BY <1>2, <1>5, <1>7, <1>a, <2>3
<1>b. CASE Lifecycle(n) = "task.started"
  <2>1. Filled(moved.started, n) \in Nat BY <1>0, <1>2, <1>3 DEF View
  <2>2. r = [moved EXCEPT !.state = "running", !.started = Filled(moved.started, n)]
    BY <1>8, <1>b
  <2>3. r \in View /\ r.seq = moved.seq /\ r.state = "running"
    BY <1>2, <1>s, <2>1, <2>2 DEF View
  <2>4. QED BY <1>2, <1>5, <1>b, <1>s, <2>3
<1>c. CASE Lifecycle(n) = "task.progress"
  <2> DEFINE x == IF moved.state \in {"stopping", "delegated"} THEN moved.state ELSE "running"
  <2>1. x \in Statuses \ Final BY <1>s
  <2>2. r = [moved EXCEPT !.state = x, !.progress = n] BY <1>8, <1>c
  <2> HIDE DEF x
  <2>3. r \in View /\ r.seq = moved.seq /\ r.state = x
    BY <1>0, <1>2, <2>1, <2>2 DEF View
  <2>4. QED BY <1>2, <1>5, <1>c, <2>1, <2>3
<1>d. CASE Lifecycle(n) = "task.stopping"
  <2>1. r = [moved EXCEPT !.state = "stopping"] BY <1>8, <1>d
  <2>2. r \in View /\ r.seq = moved.seq /\ r.state = "stopping"
    BY <1>2, <1>s, <2>1 DEF View
  <2>3. QED BY <1>2, <1>5, <1>d, <1>s, <2>2
<1>e. CASE Lifecycle(n) = "task.unknown"
  <2>1. r = [moved EXCEPT !.state = "unknown"] BY <1>8, <1>e
  <2>2. r \in View /\ r.seq = moved.seq /\ r.state = "unknown"
    BY <1>2, <1>s, <2>1 DEF View
  <2>3. QED BY <1>2, <1>5, <1>e, <1>s, <2>2
<1>f. CASE Lifecycle(n) \notin {"task.accepted", "task.started", "task.progress",
                                "task.stopping", "task.unknown"}
  <2>1. r = [moved EXCEPT !.state = StatusAt(n), !.finished = n] BY <1>8, <1>f
  <2>2. r \in View /\ r.seq = moved.seq /\ r.state = StatusAt(n)
    BY <1>0, <1>2, <1>4, <2>1 DEF View
  <2>3. QED BY <1>2, <2>2
<1>g. QED BY <1>a, <1>b, <1>c, <1>d, <1>e, <1>f

-----------------------------------------------------------------------------
(* What the page makes of a message *)

Onward(c, d) ==
  Known(c) => /\ d.view.seq >= c.view.seq
              /\ c.view.state \in Final => d.view.state = c.view.state

LEMMA SameShown ==
  ASSUME NEW c, ViewTrue(c), NEW d, DOMAIN d = Fields,
         d.view = c.view, d.life = c.life, d.inbox = c.inbox
  PROVE  ViewTrue(d) /\ Onward(c, d)
<1>1. c.view.seq \in Nat BY DEF ViewTrue, View
<1>2. QED BY <1>1 DEF ViewTrue, Onward, Known

LEMMA NewShown ==
  ASSUME LogOK, NEW c, ViewTrue(c), NEW d, NEW n \in 1..Now,
         DOMAIN d = Fields, d.view \in View, d.life = n, d.inbox = c.inbox,
         d.view.seq >= n, d.view.seq <= Now,
         d.view.state \in Final => StatusAt(n) = d.view.state,
         StatusAt(n) \in Final => d.view.state = StatusAt(n),
         Known(c) => n >= c.life /\ d.view.seq >= c.view.seq
  PROVE  ViewTrue(d) /\ Onward(c, d)
<1>0. Now \in Nat /\ n \in Nat BY DEF LogOK, Now
<1>1. d.view.seq \in Nat /\ c.view.seq \in Nat BY DEF View, ViewTrue
<1>2. ViewTrue(d)
  <2>1. d.life \in 1..d.view.seq BY <1>0, <1>1
  <2>2. QED BY <1>0, <2>1 DEF ViewTrue
<1>3. ASSUME Known(c), c.view.state \in Final PROVE d.view.state = c.view.state
  <2>1. c.life \in 1..c.view.seq /\ c.view.seq <= Now /\ StatusAt(c.life) = c.view.state
    BY <1>3 DEF ViewTrue
  <2>2. c.life \in 1..Now /\ n \in c.life..Now BY <1>0, <1>1, <1>3, <2>1
  <2>3. StatusAt(n) = c.view.state BY <1>3, <2>1, <2>2, StatusRead
  <2>4. QED BY <1>3, <2>3
<1>4. QED BY <1>2, <1>3 DEF Onward

\* A page that takes what it read for a lie keeps its view.
LEMMA ThrowsKeeps ==
  ASSUME NEW c, DOMAIN c = Fields, NEW why
  PROVE  /\ DOMAIN Throws(c, why) = Fields /\ Throws(c, why).view = c.view
         /\ Throws(c, why).life = c.life /\ Throws(c, why).inbox = c.inbox
         /\ Throws(c, why).hydrate = c.hydrate
BY DEF Throws, Fields

LEMMA CorrelatesKeeps ==
  ASSUME NEW c, DOMAIN c = Fields, NEW expected, NEW stale
  PROVE  LET d == Correlates(c, expected, stale)
         IN /\ DOMAIN d = Fields /\ d.view = c.view
            /\ d.life = c.life /\ d.inbox = c.inbox
<1>1. CASE c.pending = expected BY <1>1 DEF Correlates, Fields
<1>2. CASE c.pending # expected /\ c.pending = NoRequest /\ stale
  BY <1>2 DEF Correlates
<1>3. CASE c.pending # expected /\ ~(c.pending = NoRequest /\ stale)
  BY <1>3, ThrowsKeeps DEF Correlates
<1>4. QED BY <1>1, <1>2, <1>3

LEMMA SnapshotRead ==
  ASSUME LogOK, NEW c, ViewTrue(c), NEW n \in 1..Now
  PROVE  ViewTrue(AcceptsSnapshot(c, n)) /\ Onward(c, AcceptsSnapshot(c, n))
<1> DEFINE task == TaskSnapshot(n)
           d == AcceptsSnapshot(c, n)
<1>0. /\ n \in Nat /\ Now \in Nat /\ n >= 1 /\ n <= Now /\ c.view \in View /\ DOMAIN c = Fields
      /\ c.view.seq \in Nat /\ c.view.updated \in Nat
  BY DEF LogOK, Now, View, ViewTrue
<1>1. /\ task \in View /\ task.seq = n /\ task.state = PublicState(n)
      /\ task.updated \in Nat
  BY SnapshotType DEF View
<1>2. /\ PublicState(n) \in Final => StatusAt(n) = PublicState(n)
      /\ StatusAt(n) \in Final => PublicState(n) = StatusAt(n)
  BY ProjectedState
<1>3. Known(c) => c.life \in Nat /\ c.life >= 1 /\ c.life <= c.view.seq /\ c.view.seq <= Now
  BY DEF ViewTrue
<1> HIDE DEF task
<1>4. CASE Known(c) /\ n < c.view.seq /\ n <= c.life
  <2>1. d = c BY <1>4 DEF AcceptsSnapshot
  <2>2. QED BY <1>0, <2>1, SameShown
<1>5. CASE Known(c) /\ ~(n < c.view.seq /\ n <= c.life) /\ n = c.life
  <2>1. CASE Compatible(c.view, task)
    <3> DEFINE v == MergesEqual(c.view, task)
    <3>1. /\ Larger(c.view.seq, task.seq) = c.view.seq /\ Larger(c.view.updated, task.updated) \in Nat
          /\ Filled(c.view.started, task.started) \in Nat
          /\ Filled(c.view.finished, task.finished) \in Nat
          /\ Filled(c.view.progress, task.progress) \in Nat
      BY <1>0, <1>1, <1>3, <1>5 DEF Larger, Filled, View
    <3>2. v \in View /\ v.seq = c.view.seq /\ v.state = c.view.state
      BY <1>0, <3>1 DEF MergesEqual, View
    <3>3. d = [c EXCEPT !.view = v]
      BY <1>5, <2>1 DEF AcceptsSnapshot, task
    <3> HIDE DEF v, d
    <3>4. DOMAIN d = Fields /\ d.view = v /\ d.life = c.life /\ d.inbox = c.inbox
      BY <1>0, <3>3 DEF Fields
    <3>5. ViewTrue(d)
      <4>1. Known(d) => Known(c) /\ d.view.seq = c.view.seq BY <1>5, <3>2, <3>4
      <4>2. QED BY <3>2, <3>4, <4>1 DEF ViewTrue
    <3>6. Onward(c, d) BY <1>0, <3>2, <3>4 DEF Onward
    <3>7. QED BY <3>5, <3>6 DEF d
  <2>2. CASE ~Compatible(c.view, task)
    <3>1. d = Throws(c, "answer") BY <1>5, <2>2 DEF AcceptsSnapshot, task
    <3>2. QED BY <1>0, <3>1, ThrowsKeeps, SameShown
  <2>3. QED BY <2>1, <2>2
<1>6. CASE ~(Known(c) /\ n < c.view.seq /\ n <= c.life) /\ ~(Known(c) /\ n = c.life)
  <2> DEFINE v == IF Known(c) THEN [task EXCEPT !.seq = Larger(task.seq, c.view.seq),
                                                !.updated = Larger(task.updated, c.view.updated)]
                  ELSE task
  <2>1. d = [c EXCEPT !.view = v, !.life = n, !.rev = [seq |-> n, printed |-> FALSE]]
    BY <1>6 DEF AcceptsSnapshot, task
  <2>2. /\ v \in View /\ v.state = PublicState(n) /\ v.seq >= n /\ v.seq <= Now
        /\ Known(c) => v.seq >= c.view.seq
    <3>1. Larger(n, c.view.seq) \in Nat /\ Larger(task.updated, c.view.updated) \in Nat
      BY <1>0, <1>1 DEF Larger
    <3>2. Known(c) => /\ Larger(n, c.view.seq) >= n /\ Larger(n, c.view.seq) <= Now
                      /\ Larger(n, c.view.seq) >= c.view.seq
      BY <1>0, <1>3 DEF Larger
    <3>3. CASE Known(c) BY <1>1, <3>1, <3>2, <3>3 DEF View
    <3>4. CASE ~Known(c) BY <1>0, <1>1, <3>4
    <3>5. QED BY <3>3, <3>4
  <2> HIDE DEF v, d
  <2>3. DOMAIN d = Fields /\ d.view = v /\ d.life = n /\ d.inbox = c.inbox
    BY <1>0, <2>1 DEF Fields
  <2>4. Known(c) => n >= c.life BY <1>0, <1>3, <1>6
  <2>5. ViewTrue(d) /\ Onward(c, d) BY <1>2, <2>2, <2>3, <2>4, NewShown
  <2>6. QED BY <2>5 DEF d
<1>7. QED BY <1>4, <1>5, <1>6

\* The first snapshot of a connection starts the view again.
LEMMA HydrationRead ==
  ASSUME LogOK, NEW c, ViewTrue(c), NEW n \in 0..Now
  PROVE  ViewTrue(Hydrates(c, n)) /\ (~c.hydrate => Onward(c, Hydrates(c, n)))
<1> DEFINE e == [c EXCEPT !.hydrate = FALSE, !.inbox = {}, !.note = NoNotice, !.view = NoView,
                          !.life = 0, !.rev = NoRevision]
           clean == IF c.hydrate THEN e ELSE c
<1>1. ViewTrue(e)
  <2>1. NoView \in View BY DEF NoView, View
  <2>2. DOMAIN e = Fields /\ e.view = NoView /\ e.inbox = {}
    BY DEF ViewTrue, Fields
  <2>3. ~Known(e) BY <2>2 DEF Known
  <2> HIDE DEF e
  <2>4. QED BY <2>1, <2>2, <2>3 DEF ViewTrue
<1>2. ViewTrue(clean) /\ (~c.hydrate => clean = c) BY <1>1
<1>3. Hydrates(c, n) = IF n = 0 THEN clean ELSE AcceptsSnapshot(clean, n) BY DEF Hydrates
<1> HIDE DEF clean, e
<1>4. CASE n = 0
  <2>1. Hydrates(c, n) = clean BY <1>3, <1>4
  <2>2. Onward(c, c) BY SameShown DEF ViewTrue
  <2>3. QED BY <1>2, <2>1, <2>2
<1>5. CASE n # 0
  <2>1. n \in 1..Now BY <1>5 DEF LogOK, Now
  <2>2. Hydrates(c, n) = AcceptsSnapshot(clean, n) BY <1>3, <1>5
  <2>3. ViewTrue(AcceptsSnapshot(clean, n)) /\ Onward(clean, AcceptsSnapshot(clean, n))
    BY <1>2, <2>1, SnapshotRead
  <2>4. QED BY <1>2, <2>2, <2>3
<1>6. QED BY <1>4, <1>5

LEMMA EventRead ==
  ASSUME LogOK, NEW c, ViewTrue(c), NEW m, m.n \in 1..Now
  PROVE  ViewTrue(AcceptsEvent(c, m)) /\ Onward(c, AcceptsEvent(c, m))
<1> DEFINE unprinted == m.n = c.life /\ ~c.rev.printed
           stale == Known(c) /\ m.n <= c.life
           printed == IF unprinted THEN [c EXCEPT !.rev.printed = TRUE] ELSE c
           answered == IF m.answers /\ Lifecycle(m.n) \notin {"task.started", "task.progress"}
                       THEN Correlates(printed, Pending("stop", 0), stale) ELSE printed
           v == FromLifecycle(answered.view, m.n)
           d == AcceptsEvent(c, m)
<1>0. /\ m.n \in Nat /\ Now \in Nat /\ m.n >= 1 /\ m.n <= Now /\ c.view \in View
      /\ DOMAIN c = Fields /\ c.view.seq \in Nat
  BY DEF LogOK, Now, View, ViewTrue
<1>1. Known(c) => c.life \in Nat /\ c.life >= 1 /\ c.life <= c.view.seq /\ c.view.seq <= Now
  BY DEF ViewTrue
<1>2. d = IF unprinted /\ Known(c) /\ ~Compatible(c.view, FromLifecycle(c.view, m.n))
          THEN Throws(c, IF m.answers THEN "answer" ELSE "push")
          ELSE IF stale \/ ~answered.up THEN answered
          ELSE IF ~Known(c) /\ Lifecycle(m.n) # "task.accepted"
               THEN Throws(answered, "unknown task")
          ELSE [answered EXCEPT !.view = v, !.life = m.n,
                                !.rev = [seq |-> m.n, printed |-> TRUE]]
  BY DEF AcceptsEvent
<1>3. /\ DOMAIN printed = Fields /\ printed.view = c.view
      /\ printed.life = c.life /\ printed.inbox = c.inbox
  <2>1. DOMAIN [c EXCEPT !.rev.printed = TRUE] = Fields
        /\ [c EXCEPT !.rev.printed = TRUE].view = c.view
        /\ [c EXCEPT !.rev.printed = TRUE].life = c.life
        /\ [c EXCEPT !.rev.printed = TRUE].inbox = c.inbox
    BY <1>0 DEF Fields
  <2>2. QED BY <1>0, <2>1
<1> HIDE DEF printed, unprinted, d
<1>4. /\ DOMAIN answered = Fields /\ answered.view = c.view
      /\ answered.life = c.life /\ answered.inbox = c.inbox
  BY <1>3, CorrelatesKeeps
<1> HIDE DEF answered
<1>5. CASE unprinted /\ Known(c) /\ ~Compatible(c.view, FromLifecycle(c.view, m.n))
  BY <1>0, <1>2, <1>5, ThrowsKeeps, SameShown DEF d
<1>6. CASE /\ ~(unprinted /\ Known(c) /\ ~Compatible(c.view, FromLifecycle(c.view, m.n)))
           /\ stale \/ ~answered.up
  <2>1. d = answered BY <1>2, <1>6
  <2>2. QED BY <1>4, <2>1, SameShown DEF d
<1>7. CASE /\ ~(unprinted /\ Known(c) /\ ~Compatible(c.view, FromLifecycle(c.view, m.n)))
           /\ ~(stale \/ ~answered.up) /\ ~Known(c) /\ Lifecycle(m.n) # "task.accepted"
  <2>1. d = Throws(answered, "unknown task") BY <1>2, <1>7
  <2>2. QED BY <1>4, <2>1, ThrowsKeeps, SameShown DEF d
<1>8. CASE /\ ~(unprinted /\ Known(c) /\ ~Compatible(c.view, FromLifecycle(c.view, m.n)))
           /\ ~(stale \/ ~answered.up) /\ ~(~Known(c) /\ Lifecycle(m.n) # "task.accepted")
  <2>1. d = [answered EXCEPT !.view = v, !.life = m.n, !.rev = [seq |-> m.n, printed |-> TRUE]]
    BY <1>2, <1>8
  <2>2. /\ v \in View /\ v.seq = Larger(c.view.seq, m.n)
        /\ v.state \in Final => StatusAt(m.n) = v.state
        /\ StatusAt(m.n) \in Final => v.state = StatusAt(m.n)
    BY <1>0, <1>4, LifecycleType
  <2> HIDE DEF v
  <2>3. DOMAIN d = Fields /\ d.view = v /\ d.life = m.n /\ d.inbox = c.inbox
    BY <1>4, <2>1 DEF Fields
  <2>4. ~Known(c) => c.view.seq = 0 BY DEF Known, NoView
  <2>5. v.seq >= m.n /\ v.seq <= Now /\ v.seq >= c.view.seq
    BY <1>0, <1>1, <2>2, <2>4 DEF Larger
  <2>6. Known(c) => m.n >= c.life BY <1>0, <1>1, <1>8
  <2>7. QED BY <2>2, <2>3, <2>5, <2>6, NewShown DEF d
<1>9. QED BY <1>5, <1>6, <1>7, <1>8

LEMMA NoticeRead ==
  ASSUME LogOK, NEW c, ViewTrue(c), NEW m, m.n \in 1..Now
  PROVE  ViewTrue(AcceptsNotice(c, m)) /\ Onward(c, AcceptsNotice(c, m))
<1> DEFINE notice == Notice(m.n)
           stale == (c.note # NoNotice /\ m.n <= c.note.seq) \/ (Known(c) /\ m.n < c.view.seq)
           answered == IF ~m.answers THEN c
                       ELSE IF ~notice.acked THEN Throws(c, "correlation")
                       ELSE Correlates(c, Pending("ack", notice.id), stale)
           box == InboxWith(c, notice)
           latest == [seq |-> m.n, id |-> notice.id, acked |-> notice.acked]
           d == AcceptsNotice(c, m)
<1>0. /\ m.n \in Nat /\ Now \in Nat /\ m.n >= 1 /\ m.n <= Now /\ c.view \in View
      /\ DOMAIN c = Fields /\ c.view.seq \in Nat /\ c.view.updated \in Nat
  BY DEF LogOK, Now, View, ViewTrue
<1>1. Known(c) => c.life \in Nat /\ c.life >= 1 /\ c.life <= c.view.seq /\ c.view.seq <= Now
  BY DEF ViewTrue
<1>2. d = IF stale \/ ~answered.up THEN answered
          ELSE IF ~Known(c) THEN Throws(answered, "unknown task")
          ELSE [answered EXCEPT !.note = latest, !.inbox = box,
                                !.view.seq = Larger(@, m.n), !.view.updated = Larger(@, m.n)]
  BY DEF AcceptsNotice
<1> HIDE DEF d, stale
<1>3. /\ DOMAIN answered = Fields /\ answered.view = c.view
      /\ answered.life = c.life /\ answered.inbox = c.inbox
  <2>1. CASE ~m.answers BY <1>0, <2>1
  <2>2. CASE m.answers /\ ~notice.acked BY <1>0, <2>2, ThrowsKeeps
  <2>3. CASE m.answers /\ notice.acked BY <1>0, <2>3, CorrelatesKeeps
  <2>4. QED BY <2>1, <2>2, <2>3
<1> HIDE DEF answered, notice, box, latest
<1>4. CASE stale \/ ~answered.up
  <2>1. d = answered BY <1>2, <1>4
  <2>2. QED BY <1>3, <2>1, SameShown DEF d
<1>5. CASE ~(stale \/ ~answered.up) /\ ~Known(c)
  <2>1. d = Throws(answered, "unknown task") BY <1>2, <1>5
  <2>2. QED BY <1>3, <2>1, ThrowsKeeps, SameShown DEF d
<1>6. CASE ~(stale \/ ~answered.up) /\ Known(c)
  <2> DEFINE v == [c.view EXCEPT !.seq = Larger(c.view.seq, m.n),
                                 !.updated = Larger(c.view.updated, m.n)]
  <2>1. d = [answered EXCEPT !.note = latest, !.inbox = box, !.view = v]
    <3>1. d = [answered EXCEPT !.note = latest, !.inbox = box,
                               !.view.seq = Larger(@, m.n), !.view.updated = Larger(@, m.n)]
      BY <1>2, <1>6
    <3>2. QED BY <1>3, <3>1 DEF Fields
  <2>2. Larger(c.view.seq, m.n) \in Nat /\ Larger(c.view.updated, m.n) \in Nat
        /\ Larger(c.view.seq, m.n) >= c.view.seq /\ Larger(c.view.seq, m.n) <= Now
    BY <1>0, <1>1, <1>6 DEF Larger
  <2>3. v \in View /\ v.seq >= c.view.seq /\ v.seq <= Now /\ v.state = c.view.state
    BY <1>0, <2>2 DEF View
  <2> HIDE DEF v
  <2>4. DOMAIN d = Fields /\ d.view = v /\ d.life = c.life BY <1>3, <2>1 DEF Fields
  <2>5. d.life \in 1..d.view.seq /\ d.view.seq <= Now /\ Now > 0
    <3>1. v.seq \in Nat BY <2>3 DEF View
    <3>2. QED BY <1>0, <1>1, <1>6, <2>3, <2>4, <3>1
  <2>6. ViewTrue(d) BY <1>6, <2>3, <2>4, <2>5 DEF ViewTrue
  <2>7. Onward(c, d) BY <2>3, <2>4 DEF Onward
  <2>8. QED BY <2>6, <2>7 DEF d
<1>7. QED BY <1>4, <1>5, <1>6

LEMMA MessageRead ==
  ASSUME LogOK, NEW c, ViewTrue(c), NEW m \in SentOfTask
  PROVE  ViewTrue(AcceptsMessage(c, m)) /\ (~c.hydrate => Onward(c, AcceptsMessage(c, m)))
<1> DEFINE d == AcceptsMessage(c, m)
<1>0. DOMAIN c = Fields BY DEF ViewTrue
<1>1. /\ m.n \in 0..Now
      /\ m.kind \in {"event", "notice", "snapshot"} => m.n \in 1..Now
      /\ m.kind \in {"ready", "hydration", "snapshot", "event", "notice", "error"}
  BY DEF SentOfTask, LogOK, Now
<1>2. CASE m.kind = "ready"
  <2>1. d = [c EXCEPT !.hydrate = TRUE] BY <1>2 DEF AcceptsMessage
  <2> HIDE DEF d
  <2>2. DOMAIN d = Fields /\ d.view = c.view /\ d.life = c.life /\ d.inbox = c.inbox
    BY <1>0, <2>1 DEF Fields
  <2>3. QED BY <2>2, SameShown DEF d
<1>3. CASE m.kind = "hydration"
  <2>1. d = Hydrates(c, m.n) BY <1>3 DEF AcceptsMessage
  <2>2. QED BY <1>1, <2>1, HydrationRead
<1> DEFINE e == [c EXCEPT !.pending = NoRequest]
<1>4. DOMAIN e = Fields /\ e.view = c.view /\ e.life = c.life /\ e.inbox = c.inbox
  BY <1>0 DEF Fields
<1> HIDE DEF e
<1>5. ViewTrue(e) /\ Onward(c, e) BY <1>4, SameShown
<1>6. CASE m.kind = "snapshot"
  <2>1. d = IF c.pending.op # "get" THEN Throws(c, "correlation") ELSE AcceptsSnapshot(e, m.n)
    BY <1>6 DEF AcceptsMessage, e
  <2>2. CASE c.pending.op # "get"
    <3>1. d = Throws(c, "correlation") BY <2>1, <2>2
    <3>2. QED BY <1>0, <3>1, ThrowsKeeps, SameShown
  <2>3. CASE c.pending.op = "get"
    <3>1. d = AcceptsSnapshot(e, m.n) BY <2>1, <2>3
    <3>2. ViewTrue(AcceptsSnapshot(e, m.n)) /\ Onward(e, AcceptsSnapshot(e, m.n))
      BY <1>1, <1>5, <1>6, SnapshotRead
    <3>3. QED BY <1>4, <3>1, <3>2 DEF Onward, Known
  <2>4. QED BY <2>2, <2>3
<1>7. CASE m.kind = "event"
  <2>1. d = AcceptsEvent(c, m) BY <1>7 DEF AcceptsMessage
  <2>2. QED BY <1>1, <1>7, <2>1, EventRead
<1>8. CASE m.kind = "notice"
  <2>1. d = AcceptsNotice(c, m) BY <1>8 DEF AcceptsMessage
  <2>2. QED BY <1>1, <1>8, <2>1, NoticeRead
<1>9. CASE m.kind = "error"
  <2>1. d = e BY <1>9 DEF AcceptsMessage, e
  <2>2. QED BY <1>5, <2>1
<1>10. QED BY <1>1, <1>2, <1>3, <1>6, <1>7, <1>8, <1>9

-----------------------------------------------------------------------------
(* The steps *)

LEMMA WiderSeq ==
  ASSUME NEW S, NEW T, S \subseteq T, NEW q \in Seq(S)
  PROVE  q \in Seq(T)
<1>1. q \in [1..Len(q) -> S] /\ Len(q) \in Nat OBVIOUS
<1>2. q \in [1..Len(q) -> T] BY <1>1
<1>3. QED BY <1>1, <1>2

LEMMA DispatchedSent ==
  ASSUME Now \in Nat, NEW n \in 1..Now
  PROVE  Dispatched(n) \in Seq(SentOfTask)
<1>1. Message("event", n, FALSE) \in SentOfTask /\ Message("notice", n, FALSE) \in SentOfTask
  BY DEF Message, SentOfTask
<1> DEFINE a == IF taskLog[n] \in {"announced", "acknowledged"} THEN << >>
                ELSE <<Message("event", n, FALSE)>>
           b == IF HasNotice(n) /\ taskLog[n] # "announced" THEN <<Message("notice", n, FALSE)>>
                ELSE << >>
<1>2. a \in Seq(SentOfTask) /\ b \in Seq(SentOfTask)
  <2> DEFINE e == Message("event", n, FALSE)
             m == Message("notice", n, FALSE)
  <2>1. e \in SentOfTask /\ m \in SentOfTask BY <1>1
  <2> HIDE DEF e, m
  <2>2. <<e>> \in Seq(SentOfTask) /\ <<m>> \in Seq(SentOfTask) /\ << >> \in Seq(SentOfTask) BY <2>1
  <2>3. a \in {<<e>>, << >>} /\ b \in {<<m>>, << >>} BY DEF e, m
  <2>4. QED BY <2>2, <2>3
<1>3. Dispatched(n) = a \o b BY DEF Dispatched
<1> HIDE DEF a, b
<1>4. QED BY <1>2, <1>3

\* The record as it moves: the page's view stays true of it, and what is on
\* its way as well.
LEMMA RecordGrows ==
  ASSUME ViewInv, NEW type \in Entries, Published(Append(taskLog, type)),
         Now = 0 => type = "queued",
         Now > 0 /\ type \in Statuses => StatusAt(Now) \notin Final
  PROVE  /\ LogOK' /\ FeedOK' /\ inflight' \in Seq(SentOfTask') /\ Now \in Nat /\ Now' = Now + 1
         /\ client' = client => ViewTrue(client)'
<1>0. LogOK /\ ViewTrue(client) /\ FeedOK /\ inflight \in Seq(SentOfTask) /\ Now \in Nat
  BY DEF ViewInv, LogOK, Now
<1>1. taskLog' = Append(taskLog, type) BY DEF Published
<1>2. LogOK' /\ Now' = Now + 1 /\ \A i \in 1..Now : taskLog'[i] = taskLog[i]
  BY <1>0, <1>1, LogGrows
<1>3. FeedOK'
  <2>1. Len(Append(taskLog, type)) = Now' BY <1>1 DEF Now
  <2>2. feed' \in {feed, [feed EXCEPT !.pushed = Now']} BY <2>1 DEF Published
  <2>3. QED BY <1>0, <1>2, <2>2 DEF FeedOK
<1>4. SentOfTask \subseteq SentOfTask' BY <1>0, <1>2 DEF SentOfTask
<1>5. inflight \in Seq(SentOfTask') BY <1>0, <1>4, WiderSeq
<1>6. inflight' \in Seq(SentOfTask')
  <2>1. inflight' \in {inflight, inflight \o Dispatched(Now)'} BY DEF Published
  <2>2. Now' \in Nat /\ Now' > 0 BY <1>0, <1>2
  <2>3. Dispatched(Now)' \in Seq(SentOfTask')
    <3> DEFINE n == Now'
               S == SentOfTask'
               a == IF taskLog'[n] \in {"announced", "acknowledged"} THEN << >>
                    ELSE <<Message("event", n, FALSE)>>
               b == IF HasNotice(Now)' /\ taskLog'[n] # "announced"
                    THEN <<Message("notice", n, FALSE)>> ELSE << >>
    <3>1. Message("event", n, FALSE) \in S /\ Message("notice", n, FALSE) \in S
      BY <2>2 DEF Message, SentOfTask
    <3>2. Dispatched(Now)' = a \o b BY DEF Dispatched, Message
    <3> HIDE DEF S, n
    <3>3. a \in Seq(S) /\ b \in Seq(S)
      <4> DEFINE e == Message("event", n, FALSE)
                 m == Message("notice", n, FALSE)
      <4>1. e \in S /\ m \in S BY <3>1
      <4> HIDE DEF e, m
      <4>2. <<e>> \in Seq(S) /\ <<m>> \in Seq(S) /\ << >> \in Seq(S) BY <4>1
      <4>3. a \in {<<e>>, << >>} /\ b \in {<<m>>, << >>} BY DEF e, m
      <4>4. QED BY <4>2, <4>3
    <3> HIDE DEF a, b
    <3>4. a \o b \in Seq(S) BY <3>3
    <3>5. QED BY <3>2, <3>4 DEF S
  <2> DEFINE S == SentOfTask'
             x == Dispatched(Now)'
  <2>4. inflight \in Seq(S) /\ x \in Seq(S) /\ inflight' \in {inflight, inflight \o x}
    BY <1>5, <2>1, <2>3
  <2> HIDE DEF S, x
  <2>5. inflight \o x \in Seq(S) BY <2>4
  <2>6. inflight' \in Seq(S) BY <2>4, <2>5
  <2>7. QED BY <2>6 DEF S
<1>7. ASSUME client' = client PROVE ViewTrue(client)'
  <2>1. Known(client) => client.life \in 1..Now /\ client.view.seq \in Nat
    BY <1>0 DEF ViewTrue, View
  <2>2. Known(client) => StatusAt(client.life)' = StatusAt(client.life)
    <3>1. Len(taskLog) <= Len(taskLog') BY <1>0, <1>2 DEF Now
    <3>2. ASSUME NEW n \in 1..Now PROVE StatusAt(n)' = StatusAt(n)
      BY <1>0, <1>2, <3>1, CopiesStay
    <3>4. QED BY <1>7, <2>1, <3>2 DEF StatusAt, Positions
  <2>3. QED BY <1>0, <1>2, <1>7, <2>1, <2>2 DEF ViewTrue, Known
<1>8. QED BY <1>0, <1>2, <1>3, <1>6, <1>7

LEMMA StillTrue ==
  ASSUME taskLog' = taskLog, ViewTrue(client')
  PROVE  ViewTrue(client)'
BY DEF ViewTrue, Known, Now, StatusAt, Positions

LEMMA ViewInvInit == TaskViewInit => ViewInv
<1> SUFFICES ASSUME TaskViewInit PROVE ViewInv OBVIOUS
<1> USE DEF TaskViewInit
<1>1. LogOK /\ Now = 0 BY DEF LogOK, Now
<1>2. ViewTrue(client)
  <2>1. NoView \in View BY DEF NoView, View
  <2>2. client.view = NoView /\ client.inbox = {} /\ DOMAIN client = Fields BY DEF Fields
  <2>3. QED BY <2>1, <2>2 DEF ViewTrue, Known
<1>3. FeedOK BY <1>1 DEF FeedOK
<1>4. RequestOK BY <1>1 DEF RequestOK, NoRequest
<1>5. inflight \in Seq(SentOfTask) OBVIOUS
<1>6. QED BY <1>1, <1>2, <1>3, <1>4, <1>5 DEF ViewInv

\* A step in which the record does not move keeps what was true of it.
LEMMA Quiet ==
  ASSUME ViewInv, UNCHANGED taskLog
  PROVE  /\ LogOK' /\ Now' = Now /\ SentOfTask' = SentOfTask /\ Now \in Nat
         /\ feed' = feed => FeedOK'
         /\ request' = request => RequestOK'
         /\ inflight' \in Seq(SentOfTask) => inflight' \in Seq(SentOfTask)'
         /\ ViewTrue(client') => ViewTrue(client)'
<1>1. Now' = Now /\ Now \in Nat BY DEF ViewInv, LogOK, Now
<1>2. LogOK' BY <1>1 DEF ViewInv, LogOK
<1>3. SentOfTask' = SentOfTask BY <1>1 DEF SentOfTask
<1>4. feed' = feed => FeedOK' BY <1>1 DEF ViewInv, FeedOK
<1>5. request' = request => RequestOK' BY <1>1 DEF ViewInv, RequestOK
<1>6. ViewTrue(client') => ViewTrue(client)' BY StillTrue
<1>7. QED BY <1>1, <1>2, <1>3, <1>4, <1>5, <1>6

LEMMA PageReadsKeeps ==
  ASSUME ViewInv, PageReads
  PROVE  ViewInv' /\ (~client.hydrate => Onward(client, client'))
<1>1. LogOK /\ ViewTrue(client) /\ inflight \in Seq(SentOfTask) /\ inflight # << >> BY DEF ViewInv, PageReads
<1>2. Head(inflight) \in SentOfTask /\ Tail(inflight) \in Seq(SentOfTask)
  <2> DEFINE S == SentOfTask
  <2>1. inflight \in Seq(S) BY <1>1
  <2> HIDE DEF S
  <2>2. Head(inflight) \in S /\ Tail(inflight) \in Seq(S) BY <1>1, <2>1
  <2>3. QED BY <2>2 DEF S
<1>3. /\ ViewTrue(AcceptsMessage(client, Head(inflight)))
      /\ ~client.hydrate => Onward(client, AcceptsMessage(client, Head(inflight)))
  BY <1>1, <1>2, MessageRead
<1>4. ViewTrue(client') /\ (~client.hydrate => Onward(client, client'))
  BY <1>3 DEF PageReads
<1>5. inflight' \in Seq(SentOfTask) BY <1>2 DEF PageReads
<1>6. UNCHANGED <<taskLog, feed, request>> BY DEF PageReads
<1>7. ViewInv' BY <1>4, <1>5, <1>6, Quiet DEF ViewInv
<1>8. QED BY <1>4, <1>7

\* The client of a step that is not the page reading a message.
LEMMA ClientKept ==
  ASSUME ViewInv, NEW pending,
         \/ client' = client
         \/ client' = [client EXCEPT !.pending = pending]
         \/ client' = [client EXCEPT !.up = TRUE, !.clash = "none", !.hydrate = FALSE,
                                     !.pending = pending]
  PROVE  ViewTrue(client') /\ Onward(client, client')
<1>1. DOMAIN client = Fields /\ ViewTrue(client) BY DEF ViewInv, ViewTrue
<1>2. /\ DOMAIN client' = Fields /\ client'.view = client.view
      /\ client'.life = client.life /\ client'.inbox = client.inbox
  BY <1>1 DEF Fields
<1>3. QED BY <1>1, <1>2, SameShown

LEMMA RecordMovesKeeps ==
  ASSUME ViewInv, RecordMoves
  PROVE  ViewInv' /\ Onward(client, client')
<1>1. PICK type \in RecordTypes : /\ IF Now = 0 THEN type = "queued" ELSE MayAppend(type)
                                  /\ Published(Append(taskLog, type))
  BY DEF RecordMoves
<1>2. Now \in Nat /\ LogOK BY DEF ViewInv, LogOK, Now
<1>3. ASSUME Now > 0, type \in Statuses PROVE StatusAt(Now) \notin Final
  <2>1. MayAppend(type) BY <1>1, <1>2, <1>3
  <2>2. type \in NextStatuses[StatusAt(Now)] BY <1>3, <2>1 DEF MayAppend, Statuses
  <2>3. NextStatuses["completed"] = {} /\ NextStatuses["cancelled"] = {} BY DEF NextStatuses
  <2>4. QED BY <2>2, <2>3 DEF Final
<1>4. /\ LogOK' /\ FeedOK' /\ inflight' \in Seq(SentOfTask') /\ Now' = Now + 1
      /\ client' = client => ViewTrue(client)'
  BY <1>1, <1>3, RecordGrows DEF Entries
<1>5. client' = client /\ request' = request BY DEF RecordMoves
<1>6. RequestOK' BY <1>2, <1>4, <1>5 DEF ViewInv, RequestOK
<1>7. Onward(client, client') BY <1>5, ClientKept
<1>8. QED BY <1>4, <1>5, <1>6, <1>7 DEF ViewInv

LEMMA HydrationKeeps ==
  ASSUME ViewInv, ReadsRecent \/ ReadsUnread \/ SendsHydration \/ Reconnects
  PROVE  ViewInv' /\ Onward(client, client')
<1>1. UNCHANGED taskLog BY DEF ReadsRecent, ReadsUnread, SendsHydration, Reconnects
<1>2. ViewTrue(client') /\ Onward(client, client')
  BY ClientKept DEF ReadsRecent, ReadsUnread, SendsHydration, Reconnects
<1>3. LogOK' /\ Now' = Now /\ Now \in Nat BY <1>1, Quiet
<1>4. CASE ReadsRecent \/ ReadsUnread
  <2>1. inflight' = inflight /\ request' = request BY <1>4 DEF ReadsRecent, ReadsUnread
  <2>2. FeedOK'
    <3>1. FeedOK BY DEF ViewInv
    <3>2. feed' \in {[feed EXCEPT !.phase = "unread", !.read = Now],
                     [feed EXCEPT !.phase = "read", !.read = Now, !.unread = Now],
                     [feed EXCEPT !.phase = "read", !.read = feed.read, !.unread = 0]}
      BY <1>4 DEF ReadsRecent, ReadsUnread
    <3> DEFINE F == [phase : {"recent", "unread", "read", "ready"}, read : Nat, unread : Nat,
                     pushed : Nat]
    <3>3. ASSUME NEW phase \in {"recent", "unread", "read", "ready"},
                 NEW i \in 0..Now, NEW j \in 0..Now,
                 feed' = [feed EXCEPT !.phase = phase, !.read = i, !.unread = j]
          PROVE  FeedOK'
      <4>1. /\ feed \in F /\ feed.pushed <= Now BY <3>1 DEF FeedOK
      <4>2. i \in Nat /\ j \in Nat /\ i <= Now /\ j <= Now BY <1>3
      <4>3. feed' \in F /\ feed'.read = i /\ feed'.unread = j /\ feed'.pushed = feed.pushed
        BY <3>3, <4>1, <4>2
      <4>4. QED BY <1>3, <4>1, <4>2, <4>3 DEF FeedOK
    <3>4. feed.read \in 0..Now /\ feed.unread \in 0..Now /\ Now \in 0..Now /\ 0 \in 0..Now
      BY <1>3, <3>1 DEF FeedOK
    <3>5. [feed EXCEPT !.phase = "unread", !.read = Now]
            = [feed EXCEPT !.phase = "unread", !.read = Now, !.unread = feed.unread]
      BY <3>1 DEF FeedOK
    <3>6. QED BY <3>2, <3>3, <3>4, <3>5
  <2>3. QED BY <1>1, <1>2, <2>1, <2>2, Quiet DEF ViewInv
<1>5. CASE SendsHydration
  <2>1. /\ feed' = [feed EXCEPT !.phase = "ready"] /\ request' = request
        /\ feed.read \in 0..Now /\ feed.unread \in 0..Now /\ feed.pushed \in 0..Now
        /\ feed.read \in Nat
    BY <1>3, <1>5 DEF SendsHydration, ViewInv, FeedOK
  <2>2. FeedOK' BY <1>3, <2>1 DEF ViewInv, FeedOK
  <2> DEFINE S == SentOfTask
             r == Message("ready", 0, FALSE)
             h == Message("hydration", feed.read, FALSE)
             u == Message("notice", feed.unread, FALSE)
             un == IF feed.unread > 0 THEN <<u>> ELSE << >>
             push == PushedMeanwhile(feed)
  <2>3. r \in S /\ h \in S /\ (feed.unread > 0 => u \in S)
    BY <1>3, <2>1 DEF Message, SentOfTask
  <2>4. push \in Seq(S)
    <3>1. CASE feed.pushed > feed.read
      <4>1. feed.pushed \in 1..Now BY <1>3, <2>1, <3>1
      <4>2. Dispatched(feed.pushed) \in Seq(S) BY <1>3, <4>1, DispatchedSent
      <4>3. push = Dispatched(feed.pushed) BY <3>1 DEF PushedMeanwhile
      <4> HIDE DEF push, S
      <4>4. QED BY <4>2, <4>3
    <3>2. CASE ~(feed.pushed > feed.read)
      <4>1. push = << >> BY <3>2 DEF PushedMeanwhile
      <4> HIDE DEF push, S
      <4>2. QED BY <4>1
    <3>3. QED BY <3>1, <3>2
  <2>5. inflight' = <<r, h>> \o un \o push BY <1>5 DEF SendsHydration
  <2> HIDE DEF S, r, h, u, push
  <2>6. <<r, h>> \in Seq(S) /\ un \in Seq(S)
    <3>1. feed.unread > 0 => <<u>> \in Seq(S) BY <2>3
    <3>2. QED BY <2>3, <3>1
  <2> HIDE DEF un
  <2>7. <<r, h>> \o un \in Seq(S) BY <2>6
  <2>8. (<<r, h>> \o un) \o push \in Seq(S) BY <2>4, <2>7
  <2>9. inflight' \in Seq(SentOfTask) BY <2>5, <2>8 DEF S
  <2>10. QED BY <1>1, <1>2, <2>1, <2>2, <2>9, Quiet DEF ViewInv
<1>6. CASE Reconnects
  <2>1. /\ feed' = [phase |-> "recent", read |-> 0, unread |-> 0, pushed |-> 0]
        /\ inflight' = << >> /\ request' = NoRequest
    BY <1>6 DEF Reconnects
  <2>2. FeedOK' /\ RequestOK' BY <1>3, <2>1 DEF FeedOK, RequestOK, NoRequest
  <2>3. inflight' \in Seq(SentOfTask) BY <2>1
  <2>4. QED BY <1>1, <1>2, <2>2, <2>3, Quiet DEF ViewInv
<1>7. QED BY <1>4, <1>5, <1>6

LEMMA AsksKeeps ==
  ASSUME ViewInv, GetsTask \/ StopsTask \/ AcknowledgesNotice
  PROVE  ViewInv' /\ Onward(client, client')
<1>0. PICK op \in {"get", "stop", "ack"} : \E id : PageAsks(op, id)
  BY DEF GetsTask, StopsTask, AcknowledgesNotice
<1>1. PICK id : PageAsks(op, id) BY <1>0
<1>2. Now > 0
  <2>1. Known(client) \/ client.inbox # {} BY DEF GetsTask, StopsTask, AcknowledgesNotice
  <2>2. Known(client) => client.life \in 1..client.view.seq /\ client.view.seq <= Now
        /\ client.view.seq \in Nat
    BY DEF ViewInv, ViewTrue, View
  <2>3. Now \in Nat BY DEF ViewInv, LogOK, Now
  <2>4. QED BY <2>1, <2>2, <2>3 DEF ViewInv, ViewTrue
<1>3. UNCHANGED <<taskLog, feed, inflight>> BY <1>1 DEF PageAsks
<1>4. Now' = Now /\ Now \in Nat BY <1>3, Quiet
<1>5. RequestOK'
  <2>1. request' = [op |-> op, step |-> "asked", record |-> 0, id |-> id] BY <1>1 DEF PageAsks
  <2>2. QED BY <1>2, <1>4, <2>1 DEF RequestOK
<1>6. ViewTrue(client') /\ Onward(client, client') BY <1>1, ClientKept DEF PageAsks
<1>7. inflight' \in Seq(SentOfTask) BY <1>3 DEF ViewInv
<1>8. QED BY <1>3, <1>5, <1>6, <1>7, Quiet DEF ViewInv

\* What the session has read for a request is in the record.
LEMMA ReadsKeep ==
  ASSUME ViewInv, GetReads \/ StopTakes \/ AckWrites
  PROVE  ViewInv' /\ Onward(client, client')
<1>1. request.op # "none" /\ client' = client
      /\ request' = [request EXCEPT !.step = "read", !.record = Len(taskLog')]
  BY DEF GetReads, StopTakes, AckWrites, Handles, Now
<1>2. LogOK /\ Now > 0 /\ Now \in Nat /\ RequestOK /\ ViewTrue(client)
  BY <1>1 DEF ViewInv, RequestOK, LogOK, Now
<1>4. ViewTrue(client') /\ Onward(client, client') BY <1>1, ClientKept
<1>5. ASSUME UNCHANGED <<taskLog, feed, inflight>> PROVE ViewInv'
  <2>1. Len(taskLog') = Now BY <1>5 DEF Now
  <2>2. RequestOK' BY <1>1, <1>2, <1>5, <2>1, Quiet DEF RequestOK
  <2>3. inflight' \in Seq(SentOfTask) BY <1>5 DEF ViewInv
  <2>4. QED BY <1>4, <1>5, <2>2, <2>3, Quiet DEF ViewInv
<1>6. ASSUME NEW type \in Entries, Published(Append(taskLog, type)),
             type \in Statuses => StatusAt(Now) \notin Final
      PROVE  ViewInv'
  <2>1. /\ LogOK' /\ FeedOK' /\ inflight' \in Seq(SentOfTask') /\ Now' = Now + 1 /\ ViewTrue(client)'
    BY <1>1, <1>2, <1>6, RecordGrows
  <2>2. Len(taskLog') = Now + 1 BY <2>1 DEF Now
  <2>3. RequestOK' BY <1>1, <1>2, <2>1, <2>2 DEF RequestOK
  <2>4. QED BY <2>1, <2>3 DEF ViewInv
<1>7. CASE GetReads
  <2>1. UNCHANGED <<taskLog, feed, inflight>> BY <1>7 DEF GetReads
  <2>2. QED BY <1>4, <1>5, <2>1
<1>8. CASE StopTakes
  <2>1. CASE StopEvent = << >>
    <3>1. UNCHANGED <<taskLog, feed, inflight>> BY <1>8, <2>1 DEF StopTakes
    <3>2. QED BY <1>4, <1>5, <3>1
  <2>2. ASSUME NEW type, StopEvent = <<type>> PROVE Published(Append(taskLog, type))
    <3>1. StopEvent # << >> BY <2>2
    <3>2. Published(taskLog \o <<type>>) BY <1>8, <2>2, <3>1 DEF StopTakes
    <3>3. taskLog \o <<type>> = Append(taskLog, type) BY <1>2 DEF LogOK
    <3>4. QED BY <3>2, <3>3
  <2>3. CASE StopEvent = <<"cancelled">> /\ StatusAt(Now) \in {"queued", "delegated"}
    <3>1. "cancelled" \in Entries /\ StatusAt(Now) \notin Final
      BY <2>3 DEF Entries, RecordTypes, Statuses, Final
    <3>2. QED BY <1>4, <1>6, <2>2, <2>3, <3>1
  <2>4. CASE StopEvent = <<"stop_requested">>
    <3>1. "stop_requested" \in Entries /\ "stop_requested" \notin Statuses BY DEF Entries, Statuses
    <3>2. QED BY <1>4, <1>6, <2>2, <2>4, <3>1
  <2>5. QED BY <2>1, <2>3, <2>4 DEF StopEvent, Final
<1>9. CASE AckWrites
  <2>1. CASE UnreadAt(Now)
    <3>1. "acknowledged" \in Entries /\ "acknowledged" \notin Statuses BY DEF Entries, RecordTypes, Statuses
    <3>2. Published(Append(taskLog, "acknowledged")) BY <1>9, <2>1 DEF AckWrites
    <3>3. QED BY <1>4, <1>6, <3>1, <3>2
  <2>2. CASE ~UnreadAt(Now)
    <3>1. UNCHANGED <<taskLog, feed, inflight>> BY <1>9, <2>2 DEF AckWrites
    <3>2. QED BY <1>4, <1>5, <3>1
  <2>3. QED BY <2>1, <2>2
<1>10. QED BY <1>4, <1>7, <1>8, <1>9

LEMMA AnswersKeep ==
  ASSUME ViewInv, NEW messages \in Seq(SentOfTask), Answers(messages)
  PROVE  ViewInv' /\ Onward(client, client')
<1>1. /\ UNCHANGED <<taskLog, feed, client>> /\ request' = NoRequest
      /\ inflight' = inflight \o messages
  BY DEF Answers
<1>2. inflight' \in Seq(SentOfTask)
  <2> DEFINE S == SentOfTask
  <2>1. inflight \in Seq(S) /\ messages \in Seq(S) BY DEF ViewInv
  <2> HIDE DEF S
  <2>2. inflight' \in Seq(S) BY <1>1, <2>1
  <2>3. QED BY <2>2 DEF S
<1>3. RequestOK' BY <1>1, Quiet DEF RequestOK, NoRequest
<1>4. ViewTrue(client') /\ Onward(client, client') BY <1>1, ClientKept
<1>5. QED BY <1>1, <1>2, <1>3, <1>4, Quiet DEF ViewInv

LEMMA RequestKeeps ==
  ASSUME ViewInv, GetAnswers \/ StopAnswers \/ AckChecks \/ AckAnswers
  PROVE  ViewInv' /\ Onward(client, client')
<1>1. RequestOK /\ Now \in Nat BY DEF ViewInv, LogOK, Now
<1>2. ASSUME NEW m \in SentOfTask, Answers(<<m>>) PROVE ViewInv' /\ Onward(client, client')
  <2>1. <<m>> \in Seq(SentOfTask)
    <3> DEFINE S == SentOfTask
    <3> HIDE DEF S
    <3>1. m \in S => <<m>> \in Seq(S) OBVIOUS
    <3>2. QED BY <3>1 DEF S
  <2>2. QED BY <1>2, <2>1, AnswersKeep
<1>3. ASSUME Answers(<< >>) PROVE ViewInv' /\ Onward(client, client')
  <2>1. << >> \in Seq(SentOfTask) OBVIOUS
  <2>2. QED BY <1>3, <2>1, AnswersKeep
<1>4. ASSUME request.step = "read", NEW kind \in {"snapshot", "event", "notice"},
             Answers(<<Message(kind, request.record, TRUE)>>)
      PROVE  ViewInv' /\ Onward(client, client')
  <2>1. request.record \in Nat /\ request.record > 0 /\ request.record <= Now
    BY <1>1, <1>4 DEF RequestOK
  <2>2. Message(kind, request.record, TRUE) \in SentOfTask BY <1>1, <2>1 DEF Message, SentOfTask
  <2>3. QED BY <1>2, <1>4, <2>2
<1>5. CASE GetAnswers BY <1>4, <1>5 DEF GetAnswers, Handles
<1>6. CASE StopAnswers BY <1>4, <1>6 DEF StopAnswers, Handles
<1>7. CASE AckAnswers
  <2>1. request.step = "read" BY <1>7 DEF AckAnswers, Handles
  <2>2. \/ Answers(<<Message("notice", request.record, TRUE)>>) \/ Answers(<< >>)
    <3>1. Answers(IF StatusAt(request.record) \in Notified
                  THEN <<Message("notice", request.record, TRUE)>> ELSE << >>)
      BY <1>7 DEF AckAnswers
    <3>2. CASE StatusAt(request.record) \in Notified BY <3>1, <3>2
    <3>3. CASE StatusAt(request.record) \notin Notified BY <3>1, <3>3
    <3>4. QED BY <3>2, <3>3
  <2>3. QED BY <1>3, <1>4, <2>1, <2>2
<1>8. CASE AckChecks
  <2>1. CASE UnreadAt(Now) /\ Notice(Now).id = request.id
    <3>1. request' = [request EXCEPT !.step = "checked"]
          /\ UNCHANGED <<taskLog, feed, inflight, client>>
          /\ request.op = "ack" /\ request.step = "asked"
      BY <1>8, <2>1 DEF AckChecks, Handles
    <3>2. RequestOK'
      <4>1. Now' = Now BY <3>1, Quiet
      <4>2. request'.step # "read" /\ request'.op = request.op
            /\ request'.record = request.record
        BY <3>1
      <4>3. QED BY <1>1, <4>1, <4>2, <3>1 DEF RequestOK
    <3>3. ViewTrue(client') /\ Onward(client, client') BY <3>1, ClientKept
    <3>4. inflight' \in Seq(SentOfTask) BY <3>1 DEF ViewInv
    <3>5. QED BY <3>1, <3>2, <3>3, <3>4, Quiet DEF ViewInv
  <2>2. CASE ~(UnreadAt(Now) /\ Notice(Now).id = request.id)
    <3>1. Answers(<<Message("error", 0, TRUE)>>) BY <1>8, <2>2 DEF AckChecks
    <3>2. Message("error", 0, TRUE) \in SentOfTask BY <1>1 DEF Message, SentOfTask
    <3>3. QED BY <1>2, <3>1, <3>2
  <2>3. QED BY <2>1, <2>2
<1>9. QED BY <1>5, <1>6, <1>7, <1>8

LEMMA ViewInvNext ==
  ASSUME ViewInv, [TaskViewNext]_taskViewVars
  PROVE  ViewInv' /\ (~client.hydrate => Onward(client, client'))
<1>1. CASE PageReads BY <1>1, PageReadsKeeps
<1>2. CASE RecordMoves BY <1>2, RecordMovesKeeps
<1>3. CASE ReadsRecent \/ ReadsUnread \/ SendsHydration \/ Reconnects BY <1>3, HydrationKeeps
<1>4. CASE GetsTask \/ StopsTask \/ AcknowledgesNotice BY <1>4, AsksKeeps
<1>5. CASE GetReads \/ StopTakes \/ AckWrites BY <1>5, ReadsKeep
<1>6. CASE GetAnswers \/ StopAnswers \/ AckChecks \/ AckAnswers BY <1>6, RequestKeeps
<1>7. CASE UNCHANGED taskViewVars
  <2>1. UNCHANGED <<taskLog, feed, inflight, request, client>> BY <1>7 DEF taskViewVars
  <2>2. ViewTrue(client') /\ Onward(client, client') BY <2>1, ClientKept
  <2>3. inflight' \in Seq(SentOfTask) BY <2>1 DEF ViewInv
  <2>4. QED BY <2>1, <2>2, <2>3, Quiet DEF ViewInv
<1>8. QED BY <1>1, <1>2, <1>3, <1>4, <1>5, <1>6, <1>7 DEF TaskViewNext

\* What the page shows of the task is true of a copy of the record that the
\* session has read, and what is on its way to the page as well.
THEOREM ViewAlwaysTrue == TaskViewSpec => []ViewInv
<1>1. ViewInv /\ [TaskViewNext]_taskViewVars => ViewInv' BY ViewInvNext
<1>2. QED BY <1>1, ViewInvInit, PTL DEF TaskViewSpec

\* Within a connection the page never goes back to an earlier copy of the
\* record, whatever answers, events and notices cross on the way, and a task it
\* shows as ended is not shown as running again.
THEOREM ViewNeverGoesBack == TaskViewSpec => NeverBack
<1> DEFINE Step == client.up /\ client'.up /\ Known(client) /\ Known(client') /\ ~client.hydrate
                   => /\ client'.view.seq >= client.view.seq
                      /\ client.view.state \in Final => client'.view.state = client.view.state
<1>1. ViewInv /\ [TaskViewNext]_taskViewVars => [Step]_taskViewVars
  BY ViewInvNext DEF Onward
<1>2. TaskViewSpec => [][Step]_taskViewVars
  BY <1>1, ViewAlwaysTrue, PTL DEF TaskViewSpec
<1>3. QED BY <1>2 DEF NeverBack

-----------------------------------------------------------------------------
(* The face of the page *)

FaceFields == {"link", "sup", "ever", "gateway", "probes", "speaking", "listening", "thinking",
               "waiting", "paused", "error", "work", "deferred", "mic", "resume", "requested",
               "arming", "button", "clicking", "headline", "shown"}

\* An error in the headline is one, or was one at the last frame; while the page
\* is not connected, it is one.
HeadlineOK(v) ==
  /\ v.link = "ready" => v.sup = "connected"
  /\ v.sup # "connected" /\ v.headline = "error" => v.error
  /\ v.link = "ready" => /\ v.headline \notin Outage
                         /\ v.headline = "error" => v.error \/ v.shown[1] = "error"

FaceOK(v) ==
  /\ DOMAIN v = FaceFields /\ v.deferred \in Nat
  /\ HeadlineOK(v)
  /\ v.paused => ~v.listening

\* What steps of the microphone and of the link leave alone.
SameWork(v, w) == w.waiting = v.waiting /\ w.work = v.work /\ w.deferred = v.deferred

RowOK ==
  /\ line.length \in 0..MaxText /\ line.revealed \in Nat
  /\ line.speaker # "assistant" => line.revealed = 0
  /\ ~line.final => line.revealed <= line.length

PresenceInv ==
  /\ FaceOK(face)
  /\ DOMAIN world = {"pending", "active", "playing"} /\ world.pending \in Nat /\ world.active \in Nat
  /\ DOMAIN line = {"speaker", "final", "length", "revealed"}
  /\ PreparationShown /\ WorkShownIsReal /\ RowOK

LEMMA PresenceInvInit == PresenceInit => PresenceInv
<1> SUFFICES ASSUME PresenceInit PROVE PresenceInv OBVIOUS
<1>1. /\ DOMAIN face = FaceFields /\ face.deferred = 0 /\ face.link = "connecting"
      /\ face.headline = "connecting" /\ ~face.paused /\ face.waiting = FALSE /\ ~face.work
  BY DEF PresenceInit, FaceFields
<1>2. FaceOK(face) BY <1>1 DEF FaceOK, HeadlineOK
<1>3. RowOK BY PresenceAssumption DEF PresenceInit, NoRow, RowOK
<1>4. DOMAIN line = {"speaker", "final", "length", "revealed"} BY DEF PresenceInit, NoRow
<1>5. DOMAIN world = {"pending", "active", "playing"} /\ world.pending = 0 /\ world.active = 0
  BY DEF PresenceInit
<1>6. PreparationShown BY <1>1, <1>5 DEF PreparationShown
<1>7. ~(world.active > 0)
  <2>1. ~(0 > 0) OBVIOUS
  <2>2. world.active = 0 BY <1>5
  <2>3. QED BY ONLY <2>1, <2>2
<1>8. WorkShownIsReal
  <2>1. (world.active > 0) = FALSE BY <1>7
  <2>2. face.waiting = (world.active > 0) BY <1>1, <2>1
  <2>3. QED BY <1>1, <2>2 DEF WorkShownIsReal
<1>9. world.pending \in Nat /\ world.active \in Nat BY <1>5
<1>10. QED BY <1>2, <1>3, <1>4, <1>5, <1>6, <1>8, <1>9 DEF PresenceInv

LEMMA PresenceInvKept == PresenceInv => PresenceKept
<1> SUFFICES ASSUME PresenceInv PROVE PresenceKept OBVIOUS
<1>1. HeadlineRecovers BY DEF PresenceInv, FaceOK, HeadlineOK, HeadlineRecovers, Ready
<1>2. PauseIsQuiet BY DEF PresenceInv, FaceOK, PauseIsQuiet
<1>3. LineFollowsRow BY DEF PresenceInv, RowOK, LineFollowsRow
<1>4. QED BY <1>1, <1>2, <1>3 DEF PresenceInv, PresenceKept

LEMMA ErrorIsOK ==
  ASSUME NEW v, DOMAIN v = FaceFields
  PROVE  LET w == ShowsError(v)
         IN  /\ DOMAIN w = FaceFields /\ SameWork(v, w) /\ w.link = v.link /\ w.sup = v.sup
             /\ w.headline = "error" /\ w.error /\ w.paused = v.paused /\ w.listening = v.listening
             /\ FaceOK(v) => FaceOK(w)
<1> DEFINE w == ShowsError(v)
<1>1. /\ DOMAIN w = FaceFields /\ SameWork(v, w) /\ w.link = v.link /\ w.sup = v.sup
      /\ w.headline = "error" /\ w.error /\ w.paused = v.paused /\ w.listening = v.listening
  BY DEF ShowsError, FaceFields, SameWork
<1> HIDE DEF w
<1>2. FaceOK(v) => FaceOK(w) BY <1>1 DEF FaceOK, HeadlineOK, SameWork, Outage
<1>3. QED BY <1>1, <1>2 DEF w

LEMMA StartFailsOK ==
  ASSUME NEW v, FaceOK(v)
  PROVE  FaceOK(StartFails(v)) /\ SameWork(v, StartFails(v))
<1> DEFINE w == [v EXCEPT !.requested = @ /\ ~v.arming, !.arming = FALSE, !.clicking = FALSE]
<1>1. /\ DOMAIN w = FaceFields /\ SameWork(v, w) /\ w.link = v.link /\ w.sup = v.sup
      /\ w.headline = v.headline /\ w.error = v.error /\ w.paused = v.paused
      /\ w.listening = v.listening /\ w.shown = v.shown
  BY DEF FaceOK, FaceFields, SameWork
<1>2. StartFails(v) = IF v.clicking THEN [ShowsError(w) EXCEPT !.button = Ready(v)] ELSE w
  BY DEF StartFails
<1> HIDE DEF w
<1>3. FaceOK(w) BY <1>1 DEF FaceOK, HeadlineOK, SameWork
<1>4. CASE ~v.clicking BY <1>1, <1>2, <1>3, <1>4
<1>5. CASE v.clicking
  <2> DEFINE e == ShowsError(w)
             x == [e EXCEPT !.button = Ready(v)]
  <2>1. DOMAIN e = FaceFields /\ SameWork(w, e) /\ FaceOK(e) BY <1>1, <1>3, ErrorIsOK
  <2> HIDE DEF e
  <2>2. /\ DOMAIN x = FaceFields /\ SameWork(e, x) /\ x.link = e.link /\ x.sup = e.sup
        /\ x.headline = e.headline /\ x.error = e.error /\ x.paused = e.paused
        /\ x.listening = e.listening /\ x.shown = e.shown
    BY <2>1 DEF FaceFields, SameWork
  <2>3. StartFails(v) = x BY <1>2, <1>5 DEF e
  <2> HIDE DEF x
  <2>4. FaceOK(x) BY <2>1, <2>2 DEF FaceOK, HeadlineOK, SameWork
  <2>5. QED BY <1>1, <2>1, <2>2, <2>3, <2>4 DEF SameWork
<1>6. QED BY <1>4, <1>5

\* A step that leaves what is shown alone.
LEMMA SameFaceOK ==
  ASSUME NEW v, NEW w, HeadlineOK(v), v.deferred \in Nat,
         DOMAIN w = FaceFields, SameWork(v, w), w.link = v.link, w.sup = v.sup,
         w.headline = v.headline \/ w.headline \notin Outage \cup {"error"},
         w.error = v.error, w.shown = v.shown, w.paused => ~w.listening
  PROVE  FaceOK(w)
BY DEF FaceOK, HeadlineOK, SameWork, Outage

LEMMA StartMicOK ==
  ASSUME NEW v, FaceOK(v)
  PROVE  FaceOK(StartMic(v)) /\ SameWork(v, StartMic(v))
<1>1. CASE v.mic \in {"active", "starting"} BY <1>1 DEF StartMic, SameWork
<1>2. CASE v.mic = "stopping"
  <2> DEFINE w == [v EXCEPT !.resume = TRUE]
  <2>1. /\ DOMAIN w = FaceFields /\ SameWork(v, w) /\ w.link = v.link /\ w.sup = v.sup
        /\ w.headline = v.headline /\ w.error = v.error /\ w.paused = v.paused
        /\ w.listening = v.listening /\ w.shown = v.shown
    BY DEF FaceOK, FaceFields, SameWork
  <2>2. StartMic(v) = w BY <1>2 DEF StartMic
  <2> HIDE DEF w
  <2>3. FaceOK(w) BY <2>1, SameFaceOK DEF FaceOK
  <2>4. QED BY <2>1, <2>2, <2>3
<1>3. CASE v.mic \notin {"active", "starting", "stopping"} /\ Ready(v)
  <2> DEFINE w == [v EXCEPT !.mic = "starting", !.listening = FALSE]
  <2>1. /\ DOMAIN w = FaceFields /\ SameWork(v, w) /\ w.link = v.link /\ w.sup = v.sup
        /\ w.headline = v.headline /\ w.error = v.error /\ ~w.listening /\ w.shown = v.shown
    BY DEF FaceOK, FaceFields, SameWork
  <2>2. StartMic(v) = w BY <1>3 DEF StartMic
  <2> HIDE DEF w
  <2>3. FaceOK(w) BY <2>1, SameFaceOK DEF FaceOK
  <2>4. QED BY <2>1, <2>2, <2>3
<1>4. CASE v.mic \notin {"active", "starting", "stopping"} /\ ~Ready(v)
  <2>1. StartMic(v) = StartFails(v) BY <1>4 DEF StartMic
  <2>2. QED BY <2>1, StartFailsOK
<1>5. QED BY <1>1, <1>2, <1>3, <1>4

\* Before the headline is rendered it may be any.
LEMMA RendersOK ==
  ASSUME NEW v, DOMAIN v = FaceFields, v.deferred \in Nat, v.paused => ~v.listening,
         v.link = "ready" => v.sup = "connected",
         v.link = "ready" /\ v.headline = "error" => v.error \/ v.shown[1] = "error"
  PROVE  LET w == RendersReconnectStatus(v)
         IN  FaceOK(w) /\ SameWork(v, w)
<1>1. CASE v.sup = "connected"
  <2> DEFINE h == IF v.headline \notin Outage THEN v.headline
                  ELSE IF v.mic = "active" THEN "armed" ELSE "muted"
             w == [v EXCEPT !.button = TRUE, !.arming = @ \/ ~v.requested, !.requested = TRUE,
                            !.headline = h]
  <2>1. /\ DOMAIN w = FaceFields /\ SameWork(v, w) /\ w.link = v.link /\ w.sup = v.sup
        /\ w.headline = h /\ w.error = v.error /\ w.paused = v.paused
        /\ w.listening = v.listening /\ w.shown = v.shown
    BY DEF FaceFields, SameWork
  <2>2. h \notin Outage /\ (h = "error" => v.headline = "error") BY DEF Outage
  <2>3. RendersReconnectStatus(v) = StartMic(w) BY <1>1 DEF RendersReconnectStatus
  <2> HIDE DEF w, h
  <2>4. FaceOK(w) BY <1>1, <2>1, <2>2 DEF FaceOK, HeadlineOK, SameWork
  <2>5. QED BY <2>1, <2>3, <2>4, StartMicOK DEF SameWork
<1>2. CASE v.sup # "connected"
  <2> DEFINE w == [v EXCEPT !.headline = ReconnectCopy(v)]
  <2>1. ReconnectCopy(v) \in {"gateway-down", "reconnecting", "connecting"}
    BY DEF ReconnectCopy
  <2>2. /\ DOMAIN w = FaceFields /\ SameWork(v, w) /\ w.link = v.link /\ w.sup = v.sup
        /\ w.headline # "error" /\ w.paused = v.paused /\ w.listening = v.listening
    BY <2>1 DEF FaceFields, SameWork
  <2>3. RendersReconnectStatus(v) = w BY <1>2 DEF RendersReconnectStatus
  <2> HIDE DEF w
  <2>4. FaceOK(w) BY <1>2, <2>2 DEF FaceOK, HeadlineOK, SameWork
  <2>5. QED BY <2>2, <2>3, <2>4
<1>3. QED BY <1>1, <1>2

LEMMA StopMicOK ==
  ASSUME NEW v, DOMAIN v = FaceFields, HeadlineOK(v), v.deferred \in Nat
  PROVE  FaceOK(StopMic(v)) /\ SameWork(v, StopMic(v))
<1> DEFINE w == StopMic(v)
<1>1. /\ DOMAIN w = FaceFields /\ SameWork(v, w) /\ w.link = v.link /\ w.sup = v.sup
      /\ w.headline = v.headline /\ w.error = v.error /\ ~w.listening /\ w.shown = v.shown
  BY DEF StopMic, FaceFields, SameWork
<1> HIDE DEF w
<1>2. FaceOK(w) BY <1>1, SameFaceOK
<1>3. QED BY <1>1, <1>2 DEF w

LEMMA LinkDownOK ==
  ASSUME NEW v, FaceOK(v)
  PROVE  LET w == LinkDown(v)
         IN  /\ DOMAIN w = FaceFields /\ SameWork(v, w) /\ w.link = "down" /\ w.sup = v.sup
             /\ w.headline = v.headline /\ w.error = v.error /\ ~w.listening
             /\ w.shown = v.shown /\ w.deferred \in Nat
BY DEF LinkDown, FaceOK, FaceFields, SameWork

\* While the link is down, whatever the headline was it is rendered anew.
LEMMA SchedulesOK ==
  ASSUME NEW v, DOMAIN v = FaceFields, v.deferred \in Nat, v.paused => ~v.listening,
         v.link # "ready"
  PROVE  FaceOK(SchedulesReconnect(v)) /\ SameWork(v, SchedulesReconnect(v))
<1> DEFINE w == [v EXCEPT !.sup = "reconnecting", !.probes = @ + 1]
<1>1. /\ DOMAIN w = FaceFields /\ SameWork(v, w) /\ w.link = v.link /\ w.sup = "reconnecting"
      /\ w.paused = v.paused /\ w.listening = v.listening /\ w.deferred = v.deferred
  BY DEF FaceFields, SameWork
<1>2. SchedulesReconnect(v) = RendersReconnectStatus(w) BY DEF SchedulesReconnect
<1> HIDE DEF w
<1>3. FaceOK(RendersReconnectStatus(w)) /\ SameWork(w, RendersReconnectStatus(w))
  BY <1>1, RendersOK
<1>4. QED BY <1>1, <1>2, <1>3 DEF SameWork

LEMMA BeginsOK ==
  ASSUME NEW v, FaceOK(v), v.link # "ready"
  PROVE  FaceOK(BeginsAttempt(v)) /\ SameWork(v, BeginsAttempt(v))
<1> DEFINE w == [v EXCEPT !.sup = "connecting"]
           h == ReconnectCopy(w)
           x == [w EXCEPT !.headline = h]
           y == [x EXCEPT !.link = "connecting"]
<1>1. /\ DOMAIN w = FaceFields /\ SameWork(v, w) /\ w.sup = "connecting"
      /\ w.paused = v.paused /\ w.listening = v.listening /\ w.deferred = v.deferred
  BY DEF FaceOK, FaceFields, SameWork
<1>2. BeginsAttempt(v) = y BY <1>1 DEF BeginsAttempt, RendersReconnectStatus
<1>3. h # "error" BY DEF ReconnectCopy
<1> HIDE DEF w, h
<1>4. /\ DOMAIN y = FaceFields /\ SameWork(v, y) /\ y.sup = "connecting"
      /\ y.link = "connecting" /\ y.headline # "error" /\ y.deferred = v.deferred
      /\ y.paused = v.paused /\ y.listening = v.listening
  BY <1>1, <1>3 DEF FaceFields, SameWork
<1> HIDE DEF y
<1>5. FaceOK(y) BY <1>4 DEF FaceOK, HeadlineOK
<1>6. QED BY <1>2, <1>4, <1>5

(* Its steps *)

\* A step of the face, which finds the work as it was.
LEMMA FaceStepOK ==
  ASSUME PresenceInv, FaceOK(face'), SameWork(face, face'), world' = world, line' = line
  PROVE  PresenceInv'
<1>1. PreparationShown' /\ WorkShownIsReal'
  BY DEF PresenceInv, SameWork, PreparationShown, WorkShownIsReal
<1>2. RowOK' BY DEF PresenceInv, RowOK
<1>3. QED BY <1>1, <1>2 DEF PresenceInv

LEMMA ShowsOK ==
  ASSUME PresenceInv, NEW v, FaceOK(v), SameWork(face, v), Shows(v)
  PROVE  PresenceInv'
BY FaceStepOK DEF Shows

\* The link: each step renders the headline anew.
LEMMA LinkReadyOK == PresenceInv /\ LinkReady => PresenceInv'
<1> SUFFICES ASSUME PresenceInv, LinkReady PROVE PresenceInv' OBVIOUS
<1>1. PICK over \in BOOLEAN, tasks \in {0, world.active} :
        /\ over => face.headline # "error"
        /\ face' = RendersReconnectStatus(
             [face EXCEPT !.link = "ready", !.sup = "connected", !.ever = TRUE,
                          !.gateway = "unknown", !.error = @ /\ ~over,
                          !.waiting = tasks > 0, !.work = tasks > 0])
        /\ world' = [world EXCEPT !.active = tasks]
  BY DEF LinkReady
<1>2. line' = line /\ face.sup = "connecting" BY DEF LinkReady
<1> DEFINE w == [face EXCEPT !.link = "ready", !.sup = "connected", !.ever = TRUE,
                             !.gateway = "unknown", !.error = @ /\ ~over,
                             !.waiting = tasks > 0, !.work = tasks > 0]
<1>3. face' = RendersReconnectStatus(w) BY <1>1
<1>4. /\ DOMAIN w = FaceFields /\ w.link = "ready" /\ w.sup = "connected"
      /\ w.headline = face.headline /\ w.deferred = face.deferred /\ w.shown = face.shown
      /\ w.paused = face.paused /\ w.listening = face.listening
      /\ w.error = (face.error /\ ~over) /\ w.waiting = (tasks > 0) /\ w.work = (tasks > 0)
  BY DEF PresenceInv, FaceOK, FaceFields
<1> HIDE DEF w
<1>5. face.headline = "error" => w.error BY <1>1, <1>2, <1>4 DEF PresenceInv, FaceOK, HeadlineOK
<1>6. w.deferred \in Nat /\ (w.paused => ~w.listening) BY <1>4 DEF PresenceInv, FaceOK
<1>7. FaceOK(RendersReconnectStatus(w)) /\ SameWork(w, RendersReconnectStatus(w))
  BY <1>4, <1>5, <1>6, RendersOK
<1>8. FaceOK(face') BY <1>3, <1>7
<1>9. /\ face'.waiting = (tasks > 0) /\ face'.work = (tasks > 0)
      /\ face'.deferred = face.deferred
  BY <1>3, <1>4, <1>7 DEF SameWork
<1>10. /\ DOMAIN world' = DOMAIN world /\ world'.active = tasks /\ world'.pending = world.pending
  BY <1>1 DEF PresenceInv
<1>11. tasks \in Nat BY <1>1 DEF PresenceInv
<1>12. PreparationShown' BY <1>9, <1>10 DEF PresenceInv, PreparationShown
<1>13. WorkShownIsReal'
  <2>1. (tasks > 0) = (world'.active > 0) BY <1>10
  <2>2. QED BY <1>9, <2>1 DEF WorkShownIsReal
<1>14. RowOK' BY <1>2 DEF PresenceInv, RowOK
<1>15. line' = line BY <1>2
<1>16. QED BY <1>8, <1>10, <1>11, <1>12, <1>13, <1>14, <1>15 DEF PresenceInv

\* The link lost with what the session still had to say: nothing is pending.
LEMMA LosesOK ==
  ASSUME PresenceInv, FaceOK(face'), SameWork(face, face'), LosesSession
  PROVE  PresenceInv'
<1>1. /\ DOMAIN world' = DOMAIN world /\ world'.active = world.active /\ world'.pending = 0
      /\ line' = line
  BY DEF PresenceInv, LosesSession
<1>2. PreparationShown' BY <1>1 DEF PreparationShown, FaceOK
<1>3. WorkShownIsReal' BY <1>1 DEF PresenceInv, SameWork, WorkShownIsReal
<1>4. RowOK' BY <1>1 DEF PresenceInv, RowOK
<1>5. QED BY <1>1, <1>2, <1>3, <1>4 DEF PresenceInv

LEMMA LinkLostOK ==
  PresenceInv /\ (RetryFails \/ RetryDue \/ ConnectionLost \/ ReconnectClicked
                  \/ OldSocketClosed \/ ProbeAnswers) => PresenceInv'
<1> SUFFICES ASSUME PresenceInv,
                    RetryFails \/ RetryDue \/ ConnectionLost \/ ReconnectClicked
                      \/ OldSocketClosed \/ ProbeAnswers
             PROVE  PresenceInv'
  OBVIOUS
<1> DEFINE d == LinkDown(face)
           b == [d EXCEPT !.button = FALSE]
<1>1. FaceOK(face) BY DEF PresenceInv
<1>2. /\ DOMAIN d = FaceFields /\ SameWork(face, d) /\ d.link = "down" /\ d.sup = face.sup
      /\ d.headline = face.headline /\ d.error = face.error /\ ~d.listening
      /\ d.deferred \in Nat /\ d.shown = face.shown
  BY <1>1, LinkDownOK
<1>3. CASE RetryFails
  <2>1. FaceOK(SchedulesReconnect(d)) /\ SameWork(d, SchedulesReconnect(d))
    BY <1>2, SchedulesOK
  <2>2. Shows(SchedulesReconnect(d)) BY <1>3 DEF RetryFails
  <2>3. SameWork(face, SchedulesReconnect(d)) BY <1>2, <2>1 DEF SameWork
  <2>4. QED BY <2>1, <2>2, <2>3, ShowsOK
<1>4. CASE RetryDue
  <2>1. face.link # "ready" BY <1>1, <1>4 DEF RetryDue, FaceOK, HeadlineOK
  <2>2. FaceOK(BeginsAttempt(face)) /\ SameWork(face, BeginsAttempt(face))
    BY <1>1, <2>1, BeginsOK
  <2>3. QED BY <1>4, <2>2, ShowsOK DEF RetryDue
<1>5. CASE OldSocketClosed
  <2>1. face.link # "ready" BY <1>5 DEF OldSocketClosed, Ready
  <2>2. FaceOK(BeginsAttempt(face)) /\ SameWork(face, BeginsAttempt(face))
    BY <1>1, <2>1, BeginsOK
  <2>3. QED BY <1>5, <2>2, ShowsOK DEF OldSocketClosed
<1>6. /\ DOMAIN b = FaceFields /\ SameWork(d, b) /\ b.link = "down" /\ b.sup = d.sup
      /\ b.headline = d.headline /\ b.error = d.error /\ ~b.listening
      /\ b.deferred \in Nat /\ b.shown = d.shown
  BY <1>2 DEF FaceFields, SameWork
<1>7. CASE ConnectionLost
  <2>1. face' = SchedulesReconnect(b) BY <1>7 DEF ConnectionLost
  <2> HIDE DEF b
  <2>2. FaceOK(SchedulesReconnect(b)) /\ SameWork(b, SchedulesReconnect(b))
    BY <1>6, SchedulesOK
  <2>3. SameWork(face, face') BY <1>2, <1>6, <2>1, <2>2 DEF SameWork
  <2>4. QED BY <1>7, <2>1, <2>2, <2>3, LosesOK DEF ConnectionLost
<1>8. CASE ReconnectClicked
  <2>1. face' = b /\ face.sup = "connected" BY <1>8 DEF ReconnectClicked
  <2> HIDE DEF b
  <2>2. FaceOK(b) /\ SameWork(face, b) BY <1>2, <1>6, <2>1 DEF FaceOK, HeadlineOK, SameWork
  <2>3. QED BY <1>8, <2>1, <2>2, LosesOK DEF ReconnectClicked
<1>9. CASE ProbeAnswers
  <2>1. PICK answer \in {"unknown", "up", "provider_down"} :
          Shows(RendersReconnectStatus([face EXCEPT !.probes = @ - 1, !.gateway = answer]))
    BY <1>9 DEF ProbeAnswers
  <2> DEFINE p == [face EXCEPT !.probes = @ - 1, !.gateway = answer]
  <2>2. /\ DOMAIN p = FaceFields /\ SameWork(face, p) /\ p.link = face.link /\ p.sup = face.sup
        /\ p.headline = face.headline /\ p.error = face.error /\ p.paused = face.paused
        /\ p.listening = face.listening /\ p.deferred = face.deferred /\ p.shown = face.shown
    BY <1>1 DEF FaceOK, FaceFields, SameWork
  <2>3. Shows(RendersReconnectStatus(p)) BY <2>1
  <2> HIDE DEF p
  <2>4. /\ p.deferred \in Nat /\ (p.paused => ~p.listening)
        /\ p.link = "ready" => p.sup = "connected"
        /\ p.link = "ready" /\ p.headline = "error" => p.error \/ p.shown[1] = "error"
    BY <1>1, <2>2 DEF FaceOK, HeadlineOK
  <2>5. FaceOK(RendersReconnectStatus(p)) /\ SameWork(p, RendersReconnectStatus(p))
    BY <2>2, <2>4, RendersOK
  <2>6. SameWork(face, RendersReconnectStatus(p)) BY <2>2, <2>5 DEF SameWork
  <2>7. QED BY <2>3, <2>5, <2>6, ShowsOK
<1>10. QED BY <1>3, <1>4, <1>5, <1>7, <1>8, <1>9

LEMMA MicIsIdleOK ==
  ASSUME NEW v, FaceOK(v)
  PROVE  LET w == MicIsIdle(v)
         IN  /\ FaceOK(w) /\ SameWork(v, w) /\ w.link = v.link /\ w.sup = v.sup
             /\ w.paused = v.paused /\ w.listening = v.listening /\ w.deferred = v.deferred
<1> DEFINE h == IF v.paused THEN "paused" ELSE "muted"
           w == [v EXCEPT !.mic = "idle", !.headline = h]
<1>1. /\ DOMAIN w = FaceFields /\ SameWork(v, w) /\ w.link = v.link /\ w.sup = v.sup
      /\ w.headline = h /\ w.error = v.error /\ w.shown = v.shown /\ w.deferred = v.deferred
      /\ w.paused = v.paused /\ w.listening = v.listening
  BY DEF FaceOK, FaceFields, SameWork
<1>2. h \notin Outage \cup {"error"} BY DEF Outage
<1>3. MicIsIdle(v) = w BY DEF MicIsIdle
<1> HIDE DEF w, h
<1>4. FaceOK(w) BY <1>1, <1>2, SameFaceOK DEF FaceOK
<1>5. QED BY <1>1, <1>3, <1>4

LEMMA MicOKs ==
  PresenceInv /\ (MicStarts \/ MicFails \/ MicStopped \/ MuteClicked \/ PauseRequested
                  \/ Demoted \/ VoiceUnmutes) => PresenceInv'
<1> SUFFICES ASSUME PresenceInv,
                    MicStarts \/ MicFails \/ MicStopped \/ MuteClicked \/ PauseRequested
                      \/ Demoted \/ VoiceUnmutes
             PROVE  PresenceInv'
  OBVIOUS
<1>1. FaceOK(face) BY DEF PresenceInv
<1>2. CASE MicStarts
  <2> DEFINE w == [face EXCEPT !.mic = "active", !.paused = FALSE, !.headline = "armed",
                               !.arming = FALSE, !.clicking = FALSE,
                               !.button = IF face.clicking THEN Ready(face) ELSE @]
  <2>1. /\ DOMAIN w = FaceFields /\ SameWork(face, w) /\ w.link = face.link
        /\ w.sup = face.sup /\ w.headline = "armed" /\ w.error = face.error
        /\ w.shown = face.shown /\ ~w.paused
    BY <1>1 DEF FaceOK, FaceFields, SameWork
  <2>2. Shows(w) BY <1>2 DEF MicStarts
  <2> HIDE DEF w
  <2>3. FaceOK(w) BY <1>1, <2>1, SameFaceOK DEF FaceOK, Outage
  <2>4. QED BY <2>1, <2>2, <2>3, ShowsOK
<1>3. CASE MicFails
  <2> DEFINE w == MicIsIdle(face)
  <2>1. FaceOK(w) /\ SameWork(face, w) BY <1>1, MicIsIdleOK
  <2>2. Shows(StartFails(w)) BY <1>3 DEF MicFails
  <2> HIDE DEF w
  <2>3. FaceOK(StartFails(w)) /\ SameWork(face, StartFails(w))
    BY <2>1, StartFailsOK DEF SameWork
  <2>4. QED BY <2>2, <2>3, ShowsOK
<1>4. CASE MicStopped
  <2> DEFINE i == MicIsIdle(face)
             v == [i EXCEPT !.resume = FALSE]
             x == [v EXCEPT !.arming = FALSE, !.clicking = FALSE,
                            !.button = IF face.clicking THEN Ready(face) ELSE @]
  <2>1. /\ FaceOK(i) /\ SameWork(face, i) /\ i.paused = face.paused
        /\ i.listening = face.listening
    BY <1>1, MicIsIdleOK
  <2>2. Shows(IF face.resume THEN StartMic(v) ELSE x) BY <1>4 DEF MicStopped
  <2> HIDE DEF i
  <2>3. /\ DOMAIN v = FaceFields /\ SameWork(i, v) /\ v.link = i.link /\ v.sup = i.sup
        /\ v.headline = i.headline /\ v.error = i.error /\ v.shown = i.shown
        /\ v.paused = i.paused /\ v.listening = i.listening
    BY <2>1 DEF FaceOK, FaceFields, SameWork
  <2>4. FaceOK(v) BY <2>1, <2>3, SameFaceOK DEF FaceOK
  <2> HIDE DEF v
  <2>5. CASE face.resume
    <3>1. Shows(StartMic(v)) BY <2>2, <2>5
    <3>2. FaceOK(StartMic(v)) /\ SameWork(v, StartMic(v)) BY <2>4, StartMicOK
    <3>3. SameWork(face, StartMic(v)) BY <2>1, <2>3, <3>2 DEF SameWork
    <3>4. QED BY <3>1, <3>2, <3>3, ShowsOK
  <2>6. CASE ~face.resume
    <3>1. Shows(x) BY <2>2, <2>6
    <3>2. /\ DOMAIN x = FaceFields /\ SameWork(v, x) /\ x.link = v.link /\ x.sup = v.sup
          /\ x.headline = v.headline /\ x.error = v.error /\ x.shown = v.shown
          /\ x.paused = v.paused /\ x.listening = v.listening
      BY <2>4 DEF FaceOK, FaceFields, SameWork
    <3> HIDE DEF x
    <3>3. FaceOK(x) BY <2>4, <3>2, SameFaceOK DEF FaceOK
    <3>4. SameWork(face, x) BY <2>1, <2>3, <3>2 DEF SameWork
    <3>5. QED BY <3>1, <3>3, <3>4, ShowsOK
  <2>7. QED BY <2>5, <2>6
<1>5. CASE MuteClicked
  <2> DEFINE v == [face EXCEPT !.button = FALSE]
             s == [v EXCEPT !.requested = FALSE, !.clicking = TRUE]
             w == [v EXCEPT !.requested = TRUE, !.clicking = TRUE]
             e == ShowsError(v)
             x == [e EXCEPT !.button = Ready(face)]
  <2>1. \/ Shows(StopMic(s)) \/ Shows(StartMic(w)) \/ Shows(x)
    BY <1>5 DEF MuteClicked
  <2>2. /\ DOMAIN v = FaceFields /\ SameWork(face, v) /\ v.link = face.link
        /\ v.sup = face.sup /\ v.headline = face.headline /\ v.error = face.error
        /\ v.shown = face.shown /\ v.paused = face.paused /\ v.listening = face.listening
    BY <1>1 DEF FaceOK, FaceFields, SameWork
  <2>3. FaceOK(v) BY <1>1, <2>2, SameFaceOK DEF FaceOK
  <2> HIDE DEF v
  <2>4. CASE Shows(StopMic(s))
    <3>1. /\ DOMAIN s = FaceFields /\ SameWork(v, s) /\ s.link = v.link /\ s.sup = v.sup
          /\ s.headline = v.headline /\ s.error = v.error /\ s.shown = v.shown
          /\ s.paused = v.paused /\ s.listening = v.listening
      BY <2>3 DEF FaceOK, FaceFields, SameWork
    <3> HIDE DEF s
    <3>2. FaceOK(s) BY <2>3, <3>1, SameFaceOK DEF FaceOK
    <3>3. FaceOK(StopMic(s)) /\ SameWork(s, StopMic(s)) BY <3>2, StopMicOK DEF FaceOK
    <3>4. SameWork(face, StopMic(s)) BY <2>2, <3>1, <3>3 DEF SameWork
    <3>5. QED BY <2>4, <3>3, <3>4, ShowsOK
  <2>5. CASE Shows(StartMic(w))
    <3>1. /\ DOMAIN w = FaceFields /\ SameWork(v, w) /\ w.link = v.link /\ w.sup = v.sup
          /\ w.headline = v.headline /\ w.error = v.error /\ w.shown = v.shown
          /\ w.paused = v.paused /\ w.listening = v.listening
      BY <2>3 DEF FaceOK, FaceFields, SameWork
    <3> HIDE DEF w
    <3>2. FaceOK(w) BY <2>3, <3>1, SameFaceOK DEF FaceOK
    <3>3. FaceOK(StartMic(w)) /\ SameWork(w, StartMic(w)) BY <3>2, StartMicOK
    <3>4. SameWork(face, StartMic(w)) BY <2>2, <3>1, <3>3 DEF SameWork
    <3>5. QED BY <2>5, <3>3, <3>4, ShowsOK
  <2>6. CASE Shows(x)
    <3>1. FaceOK(e) /\ SameWork(v, e) BY <2>3, ErrorIsOK DEF FaceOK
    <3> HIDE DEF e
    <3>2. /\ DOMAIN x = FaceFields /\ SameWork(e, x) /\ x.link = e.link /\ x.sup = e.sup
          /\ x.headline = e.headline /\ x.error = e.error /\ x.shown = e.shown
          /\ x.paused = e.paused /\ x.listening = e.listening
      BY <3>1 DEF FaceOK, FaceFields, SameWork
    <3> HIDE DEF x
    <3>3. FaceOK(x) BY <3>1, <3>2, SameFaceOK DEF FaceOK
    <3>4. SameWork(face, x) BY <2>2, <3>1, <3>2 DEF SameWork
    <3>5. QED BY <2>6, <3>3, <3>4, ShowsOK
  <2>7. QED BY <2>1, <2>4, <2>5, <2>6
<1>6. CASE PauseRequested
  <2> DEFINE w == [face EXCEPT !.paused = TRUE]
  <2>1. /\ DOMAIN w = FaceFields /\ SameWork(face, w) /\ w.link = face.link
        /\ w.sup = face.sup /\ w.headline = face.headline /\ w.error = face.error
        /\ w.shown = face.shown /\ w.deferred = face.deferred
    BY <1>1 DEF FaceOK, FaceFields, SameWork
  <2>2. Shows(StopMic(w)) BY <1>6 DEF PauseRequested
  <2> HIDE DEF w
  <2>3. HeadlineOK(w) /\ w.deferred \in Nat BY <1>1, <2>1 DEF FaceOK, HeadlineOK
  <2>4. FaceOK(StopMic(w)) /\ SameWork(w, StopMic(w)) BY <2>1, <2>3, StopMicOK
  <2>5. SameWork(face, StopMic(w)) BY <2>1, <2>4 DEF SameWork
  <2>6. QED BY <2>2, <2>4, <2>5, ShowsOK
<1>7. CASE Demoted
  <2> DEFINE w == [face EXCEPT !.headline = "muted"]
  <2>1. /\ DOMAIN w = FaceFields /\ SameWork(face, w) /\ w.link = face.link
        /\ w.sup = face.sup /\ w.headline = "muted" /\ w.error = face.error
        /\ w.shown = face.shown /\ w.deferred = face.deferred
    BY <1>1 DEF FaceOK, FaceFields, SameWork
  <2>2. Shows(StopMic(w)) BY <1>7 DEF Demoted
  <2> HIDE DEF w
  <2>3. HeadlineOK(w) /\ w.deferred \in Nat BY <1>1, <2>1 DEF FaceOK, HeadlineOK, Outage
  <2>4. FaceOK(StopMic(w)) /\ SameWork(w, StopMic(w)) BY <2>1, <2>3, StopMicOK
  <2>5. SameWork(face, StopMic(w)) BY <2>1, <2>4 DEF SameWork
  <2>6. QED BY <2>2, <2>4, <2>5, ShowsOK
<1>8. CASE VoiceUnmutes
  <2>1. FaceOK(StartMic(face)) /\ SameWork(face, StartMic(face)) BY <1>1, StartMicOK
  <2>2. QED BY <1>8, <2>1, ShowsOK DEF VoiceUnmutes
<1>9. QED BY <1>2, <1>3, <1>4, <1>5, <1>6, <1>7, <1>8

\* Steps that leave the headline and the error alone.
LEMMA QuietOK ==
  ASSUME NEW v, NEW w, FaceOK(v), DOMAIN w = FaceFields, SameWork(v, w), w.link = v.link,
         w.sup = v.sup, w.headline = v.headline, w.error = v.error, w.shown = v.shown,
         w.paused => ~w.listening
  PROVE  FaceOK(w)
BY SameFaceOK DEF FaceOK

LEMMA SpeechOKs ==
  PresenceInv /\ (UserSpeechStarted \/ UserSpeechEnded \/ ResponseStarted \/ ResponseEnded
                  \/ ErrorReported \/ SilenceSettles \/ ThinkingGivenUp \/ ErrorFades)
    => PresenceInv'
<1> SUFFICES ASSUME PresenceInv,
                    UserSpeechStarted \/ UserSpeechEnded \/ ResponseStarted \/ ResponseEnded
                      \/ ErrorReported \/ SilenceSettles \/ ThinkingGivenUp \/ ErrorFades
             PROVE  PresenceInv'
  OBVIOUS
<1>1. FaceOK(face) BY DEF PresenceInv
<1>2. CASE ErrorReported
  <2>1. Shows(ShowsError(face)) BY <1>2 DEF ErrorReported
  <2>2. FaceOK(ShowsError(face)) /\ SameWork(face, ShowsError(face))
    BY <1>1, ErrorIsOK DEF FaceOK
  <2>3. QED BY <2>1, <2>2, ShowsOK
<1>3. CASE ErrorFades
  <2> DEFINE w == [face EXCEPT !.error = FALSE]
  <2>1. Shows(w) BY <1>3 DEF ErrorFades
  <2>2. IF face.link = "ready" THEN face.shown[1] = "error"
        ELSE face.sup = "connected" \/ face.headline # "error"
    BY <1>3 DEF ErrorFades, Ready
  <2>3. /\ DOMAIN w = FaceFields /\ SameWork(face, w) /\ w.link = face.link
        /\ w.sup = face.sup /\ w.headline = face.headline /\ w.shown = face.shown
        /\ w.paused = face.paused /\ w.listening = face.listening
    BY <1>1 DEF FaceOK, FaceFields, SameWork
  <2> HIDE DEF w
  <2>4. FaceOK(w) BY <1>1, <2>2, <2>3 DEF FaceOK, HeadlineOK, SameWork
  <2>5. QED BY <2>1, <2>3, <2>4, ShowsOK
<1>4. CASE UserSpeechStarted \/ UserSpeechEnded
  <2> DEFINE a == [face EXCEPT !.listening = TRUE, !.thinking = FALSE, !.paused = FALSE]
             b == [face EXCEPT !.listening = FALSE, !.thinking = @ \/ ~face.speaking]
  <2>1. Shows(a) \/ Shows(b) BY <1>4 DEF UserSpeechStarted, UserSpeechEnded
  <2>2. /\ DOMAIN a = FaceFields /\ SameWork(face, a) /\ a.link = face.link
        /\ a.sup = face.sup /\ a.headline = face.headline /\ a.error = face.error
        /\ a.shown = face.shown /\ ~a.paused
    BY <1>1 DEF FaceOK, FaceFields, SameWork
  <2>3. /\ DOMAIN b = FaceFields /\ SameWork(face, b) /\ b.link = face.link
        /\ b.sup = face.sup /\ b.headline = face.headline /\ b.error = face.error
        /\ b.shown = face.shown /\ ~b.listening
    BY <1>1 DEF FaceOK, FaceFields, SameWork
  <2> HIDE DEF a, b
  <2>4. FaceOK(a) /\ FaceOK(b) BY <1>1, <2>2, <2>3, QuietOK
  <2>5. QED BY <2>1, <2>2, <2>3, <2>4, ShowsOK
<1>5. CASE ResponseStarted \/ ResponseEnded \/ SilenceSettles \/ ThinkingGivenUp
  <2>1. PICK w : Shows(w) /\ (\/ w = [face EXCEPT !.thinking = TRUE]
                              \/ w = [face EXCEPT !.thinking = FALSE]
                              \/ w = [face EXCEPT !.speaking = FALSE])
    BY <1>5 DEF ResponseStarted, ResponseEnded, SilenceSettles, ThinkingGivenUp
  <2>2. /\ DOMAIN w = FaceFields /\ SameWork(face, w) /\ w.link = face.link
        /\ w.sup = face.sup /\ w.headline = face.headline /\ w.error = face.error
        /\ w.shown = face.shown /\ w.paused = face.paused /\ w.listening = face.listening
    BY <1>1, <2>1 DEF FaceOK, FaceFields, SameWork
  <2>3. FaceOK(w) BY <1>1, <2>2, QuietOK DEF FaceOK
  <2>4. QED BY <2>1, <2>2, <2>3, ShowsOK
<1>6. QED BY <1>2, <1>3, <1>4, <1>5

LEMMA AnswersOK ==
  PresenceInv /\ (AudioArrives \/ PlaybackEnds \/ DeferredPending \/ DeferredDelivered)
    => PresenceInv'
<1> SUFFICES ASSUME PresenceInv,
                    AudioArrives \/ PlaybackEnds \/ DeferredPending \/ DeferredDelivered
             PROVE  PresenceInv'
  OBVIOUS
<1>1. FaceOK(face) /\ DOMAIN face = FaceFields BY DEF PresenceInv, FaceOK
<1>2. line' = line BY DEF AudioArrives, PlaybackEnds, DeferredPending, DeferredDelivered
<1>3. RowOK' /\ DOMAIN line' = DOMAIN line BY <1>2 DEF PresenceInv, RowOK
<1>4. /\ DOMAIN face' = FaceFields /\ face'.link = face.link /\ face'.sup = face.sup
      /\ face'.headline = face.headline /\ face'.error = face.error
      /\ face'.shown = face.shown /\ face'.paused = face.paused
      /\ face'.listening = face.listening /\ face'.waiting = face.waiting
      /\ face'.work = face.work
  <2>1. CASE AudioArrives BY <1>1, <2>1 DEF AudioArrives, FaceFields
  <2>2. CASE PlaybackEnds BY <1>1, <2>2 DEF PlaybackEnds
  <2>3. CASE DeferredPending BY <1>1, <2>3 DEF DeferredPending, FaceFields
  <2>4. CASE DeferredDelivered BY <1>1, <2>4 DEF DeferredDelivered, FaceFields
  <2>5. QED BY <2>1, <2>2, <2>3, <2>4
<1>5. DOMAIN world' = DOMAIN world /\ world'.active = world.active
  <2>1. CASE AudioArrives BY <2>1 DEF AudioArrives, PresenceInv
  <2>2. CASE PlaybackEnds BY <2>2 DEF PlaybackEnds, PresenceInv
  <2>3. CASE DeferredPending BY <2>3 DEF DeferredPending, PresenceInv
  <2>4. CASE DeferredDelivered BY <2>4 DEF DeferredDelivered, PresenceInv
  <2>5. QED BY <2>1, <2>2, <2>3, <2>4
<1>6. /\ face'.deferred \in Nat /\ world'.pending \in Nat
      /\ world'.pending <= face'.deferred
  <2>1. CASE AudioArrives
    <3>1. face'.deferred = face.deferred BY <1>1, <2>1 DEF AudioArrives, FaceFields
    <3>2. world'.pending = world.pending BY <2>1 DEF AudioArrives, PresenceInv
    <3>3. QED BY <3>1, <3>2 DEF PresenceInv, FaceOK, PreparationShown
  <2>2. CASE PlaybackEnds
    <3>1. face'.deferred = face.deferred BY <2>2 DEF PlaybackEnds
    <3>2. world'.pending = world.pending BY <2>2 DEF PlaybackEnds, PresenceInv
    <3>3. QED BY <3>1, <3>2 DEF PresenceInv, FaceOK, PreparationShown
  <2>3. CASE DeferredPending
    <3>1. face'.deferred = face.deferred + 1 BY <1>1, <2>3 DEF DeferredPending, FaceFields
    <3>2. world'.pending = world.pending + 1 BY <2>3 DEF DeferredPending, PresenceInv
    <3>3. QED BY <3>1, <3>2 DEF PresenceInv, FaceOK, PreparationShown
  <2>4. CASE DeferredDelivered
    <3>1. face'.deferred = IF face.deferred = 0 THEN 0 ELSE face.deferred - 1
      BY <1>1, <2>4 DEF DeferredDelivered, FaceFields
    <3>2. world'.pending = world.pending - 1 /\ world.pending > 0
      BY <2>4 DEF DeferredDelivered, PresenceInv
    <3>3. QED BY <3>1, <3>2 DEF PresenceInv, FaceOK, PreparationShown
  <2>5. QED BY <2>1, <2>2, <2>3, <2>4
<1>7. FaceOK(face') BY <1>1, <1>4, <1>6 DEF FaceOK, HeadlineOK
<1>8. WorkShownIsReal' BY <1>4, <1>5 DEF PresenceInv, WorkShownIsReal
<1>9. PreparationShown' BY <1>6 DEF PreparationShown
<1>10. world'.active \in Nat /\ DOMAIN world' = {"pending", "active", "playing"}
       /\ DOMAIN line' = {"speaker", "final", "length", "revealed"}
  BY <1>3, <1>5 DEF PresenceInv
<1>11. QED BY <1>3, <1>6, <1>7, <1>8, <1>9, <1>10 DEF PresenceInv

\* A list of tasks with that many active ones is shown.
LEMMA TasksOK ==
  PresenceInv /\ (TaskStarts \/ TaskProgresses \/ TaskEnds) => PresenceInv'
<1> SUFFICES ASSUME PresenceInv, TaskStarts \/ TaskProgresses \/ TaskEnds PROVE PresenceInv'
  OBVIOUS
<1>1. FaceOK(face) /\ DOMAIN face = FaceFields BY DEF PresenceInv, FaceOK
<1>2. PICK active \in Nat :
        /\ world'.active = active /\ face'.waiting = (active > 0)
        /\ face'.work => active > 0
        /\ DOMAIN world' = DOMAIN world /\ world'.pending = world.pending /\ line' = line
        /\ DOMAIN face' = FaceFields /\ face'.link = face.link /\ face'.sup = face.sup
        /\ face'.headline = face.headline /\ face'.error = face.error
        /\ face'.shown = face.shown /\ face'.paused = face.paused
        /\ face'.listening = face.listening /\ face'.deferred = face.deferred
  <2>1. CASE TaskStarts
    <3>1. PICK n \in {world.active, world.active + 1} \ {0} :
            /\ face' = [TasksChanged(face, n) EXCEPT !.work = TRUE, !.thinking = FALSE]
            /\ world' = [world EXCEPT !.active = n]
      BY <2>1 DEF TaskStarts
    <3> n \in Nat BY DEF PresenceInv
    <3>2. n > 0 OBVIOUS
    <3>3. WITNESS n \in Nat
    <3>4. world'.active = n /\ DOMAIN world' = DOMAIN world /\ world'.pending = world.pending
      BY <3>1 DEF PresenceInv
    <3>5. /\ face'.waiting = (n > 0)
          /\ DOMAIN face' = FaceFields /\ face'.link = face.link /\ face'.sup = face.sup
          /\ face'.headline = face.headline /\ face'.error = face.error
          /\ face'.shown = face.shown /\ face'.paused = face.paused
          /\ face'.listening = face.listening /\ face'.deferred = face.deferred
      BY <1>1, <3>1 DEF TasksChanged, FaceFields
    <3>6. line' = line BY <2>1 DEF TaskStarts
    <3>7. QED BY <3>2, <3>4, <3>5, <3>6
  <2>2. CASE TaskProgresses
    <3>1. /\ face' = [TasksChanged(face, world.active) EXCEPT !.thinking = TRUE]
          /\ world' = world /\ line' = line
      BY <2>2 DEF TaskProgresses, Shows
    <3>2. world.active \in Nat BY DEF PresenceInv
    <3>3. WITNESS world.active \in Nat
    <3>4. /\ face'.waiting = (world.active > 0) /\ face'.work = (world.active > 0)
          /\ DOMAIN face' = FaceFields /\ face'.link = face.link /\ face'.sup = face.sup
          /\ face'.headline = face.headline /\ face'.error = face.error
          /\ face'.shown = face.shown /\ face'.paused = face.paused
          /\ face'.listening = face.listening /\ face'.deferred = face.deferred
      BY <1>1, <3>1 DEF TasksChanged, FaceFields
    <3>5. QED BY <3>1, <3>4
  <2>3. CASE TaskEnds
    <3> DEFINE active == world.active - 1
    <3>1. /\ face' = TasksChanged(face, active) /\ world' = [world EXCEPT !.active = active]
          /\ line' = line /\ world.active > 0
      BY <2>3 DEF TaskEnds
    <3>2. active \in Nat BY <3>1 DEF PresenceInv
    <3> HIDE DEF active
    <3>3. WITNESS active \in Nat
    <3>4. world'.active = active /\ DOMAIN world' = DOMAIN world /\ world'.pending = world.pending
      BY <3>1 DEF PresenceInv
    <3>5. /\ face'.waiting = (active > 0) /\ face'.work = (active > 0)
          /\ DOMAIN face' = FaceFields /\ face'.link = face.link /\ face'.sup = face.sup
          /\ face'.headline = face.headline /\ face'.error = face.error
          /\ face'.shown = face.shown /\ face'.paused = face.paused
          /\ face'.listening = face.listening /\ face'.deferred = face.deferred
      BY <1>1, <3>1 DEF TasksChanged, FaceFields
    <3>6. QED BY <3>1, <3>4, <3>5
  <2>4. QED BY <2>1, <2>2, <2>3
<1>3. FaceOK(face') BY <1>1, <1>2 DEF FaceOK, HeadlineOK
<1>4. WorkShownIsReal'
  <2>1. (active > 0) = (world'.active > 0) BY <1>2
  <2>2. QED BY <1>2, <2>1 DEF WorkShownIsReal
<1>5. PreparationShown' BY <1>2 DEF PresenceInv, PreparationShown
<1>6. RowOK' BY <1>2 DEF PresenceInv, RowOK
<1>7. world'.active \in Nat /\ world'.pending \in Nat
      /\ DOMAIN world' = {"pending", "active", "playing"}
      /\ DOMAIN line' = {"speaker", "final", "length", "revealed"}
  BY <1>2 DEF PresenceInv
<1>8. QED BY <1>3, <1>4, <1>5, <1>6, <1>7 DEF PresenceInv

LEMMA TranscriptOK == PresenceInv /\ (TranscriptArrives \/ Reveals) => PresenceInv'
<1> SUFFICES ASSUME PresenceInv, TranscriptArrives \/ Reveals PROVE PresenceInv' OBVIOUS
<1>1. FaceOK(face) /\ DOMAIN face = FaceFields BY DEF PresenceInv, FaceOK
<1>2. world' = world BY DEF TranscriptArrives, Reveals
<1>3. FaceOK(face') /\ SameWork(face, face')
  <2>1. face' = face \/ face' = [face EXCEPT !.thinking = @ /\ face.speaking]
    BY DEF TranscriptArrives, Reveals
  <2>2. /\ DOMAIN face' = FaceFields /\ SameWork(face, face') /\ face'.link = face.link
        /\ face'.sup = face.sup /\ face'.headline = face.headline /\ face'.error = face.error
        /\ face'.shown = face.shown /\ face'.paused = face.paused
        /\ face'.listening = face.listening
    BY <1>1, <2>1 DEF FaceFields, SameWork
  <2>3. QED BY <1>1, <2>2, QuietOK DEF FaceOK
<1>4. /\ RowOK' /\ DOMAIN line' = {"speaker", "final", "length", "revealed"}
  <2>1. CASE TranscriptArrives
    <3>1. PICK speaker \in {"user", "assistant"}, final \in BOOLEAN, length \in 1..MaxText :
            /\ final \/ length = 1
            /\ line' = [speaker |-> speaker, final |-> final,
                        length |-> IF final \/ ~Continues(speaker) THEN length
                                   ELSE IF line.length < MaxText THEN line.length + 1
                                        ELSE MaxText,
                        revealed |-> IF Continues(speaker) THEN line.revealed ELSE 0]
      BY <2>1 DEF TranscriptArrives
    <3>2. /\ line'.speaker = speaker /\ line'.final = final
          /\ line'.length = IF final \/ ~Continues(speaker) THEN length
                            ELSE IF line.length < MaxText THEN line.length + 1 ELSE MaxText
          /\ line'.revealed = IF Continues(speaker) THEN line.revealed ELSE 0
          /\ DOMAIN line' = {"speaker", "final", "length", "revealed"}
      BY <3>1
    <3>3. line.length \in 0..MaxText /\ line.revealed \in Nat BY DEF PresenceInv, RowOK
    <3>4. CASE ~Continues(speaker)
      BY <3>2, <3>4, PresenceAssumption DEF RowOK
    <3>5. CASE Continues(speaker)
      <4>1. /\ speaker # "assistant" => line.revealed = 0
            /\ line.revealed <= line.length
        BY <3>5 DEF Continues, PresenceInv, RowOK
      <4>2. QED BY <3>2, <3>3, <3>5, <4>1, PresenceAssumption DEF RowOK
    <3>6. QED BY <3>4, <3>5
  <2>2. CASE Reveals
    <3>1. PICK shown \in (line.revealed + 1)..line.length :
            line' = [line EXCEPT !.revealed = shown]
      BY <2>2 DEF Reveals
    <3>2. line.speaker = "assistant" BY <2>2 DEF Reveals
    <3>3. /\ line'.speaker = line.speaker /\ line'.final = line.final
          /\ line'.length = line.length /\ line'.revealed = shown
          /\ DOMAIN line' = {"speaker", "final", "length", "revealed"}
      BY <3>1 DEF PresenceInv
    <3>4. shown \in Nat /\ shown <= line.length BY PresenceAssumption DEF PresenceInv, RowOK
    <3>5. QED BY <3>2, <3>3, <3>4 DEF PresenceInv, RowOK
  <2>3. QED BY <2>1, <2>2
<1>5. PreparationShown' /\ WorkShownIsReal'
  BY <1>2, <1>3 DEF PresenceInv, SameWork, PreparationShown, WorkShownIsReal
<1>6. QED BY <1>2, <1>3, <1>4, <1>5 DEF PresenceInv

\* An error stays in the headline only while the frame still shows one.
LEMMA FrameOK == PresenceInv /\ Frame => PresenceInv'
<1> SUFFICES ASSUME PresenceInv, Frame PROVE PresenceInv' OBVIOUS
<1>1. FaceOK(face) /\ DOMAIN face = FaceFields BY DEF PresenceInv, FaceOK
<1> DEFINE v == [face EXCEPT !.shown = Presence(face)]
           c == [v EXCEPT !.headline = ReconnectCopy(v)]
           h == IF v.mic = "active" THEN "armed" ELSE "muted"
           m == [v EXCEPT !.headline = h]
<1>2. /\ DOMAIN v = FaceFields /\ SameWork(face, v) /\ v.link = face.link /\ v.sup = face.sup
      /\ v.headline = face.headline /\ v.error = face.error
      /\ v.paused = face.paused /\ v.listening = face.listening
  BY <1>1 DEF FaceFields, SameWork
<1>3. face' = IF ~Ready(face) /\ face.sup # "connected" THEN c
              ELSE IF Ready(face) /\ v.shown # face.shown /\ v.shown[1] # "error"
                      /\ v.headline = "error"
              THEN m ELSE v
  BY DEF Frame
<1>4. world' = world /\ line' = line BY DEF Frame
<1>5. ReconnectCopy(v) # "error" BY DEF ReconnectCopy
<1>6. h \notin Outage \cup {"error"} BY DEF Outage
<1> HIDE DEF v, h
<1>7. /\ DOMAIN c = FaceFields /\ SameWork(face, c) /\ c.link = v.link /\ c.sup = v.sup
      /\ c.headline # "error" /\ c.paused = v.paused /\ c.listening = v.listening
  BY <1>2, <1>5 DEF FaceFields, SameWork
<1>8. /\ DOMAIN m = FaceFields /\ SameWork(face, m) /\ m.link = v.link /\ m.sup = v.sup
      /\ m.headline = h /\ m.paused = v.paused /\ m.listening = v.listening
      /\ m.error = v.error
  BY <1>2 DEF FaceFields, SameWork
<1> HIDE DEF c, m
<1>9. FaceOK(face') /\ SameWork(face, face')
  <2>1. CASE ~Ready(face) /\ face.sup # "connected"
    <3>1. face' = c BY <1>3, <2>1
    <3>2. FaceOK(c) BY <1>1, <1>2, <1>7, <2>1 DEF FaceOK, HeadlineOK, SameWork, Ready
    <3>3. QED BY <1>7, <3>1, <3>2
  <2>2. CASE /\ ~(~Ready(face) /\ face.sup # "connected")
             /\ Ready(face) /\ v.shown # face.shown /\ v.shown[1] # "error"
             /\ v.headline = "error"
    <3>1. face' = m BY <1>3, <2>2
    <3>2. FaceOK(m) BY <1>1, <1>2, <1>6, <1>8 DEF FaceOK, HeadlineOK, SameWork
    <3>3. QED BY <1>8, <3>1, <3>2
  <2>3. CASE /\ ~(~Ready(face) /\ face.sup # "connected")
             /\ ~(Ready(face) /\ v.shown # face.shown /\ v.shown[1] # "error"
                  /\ v.headline = "error")
    <3>1. face' = v BY <1>3, <2>3
    <3>2. HeadlineOK(v) BY <1>1, <1>2, <2>3 DEF FaceOK, HeadlineOK, Ready
    <3>3. FaceOK(v) BY <1>1, <1>2, <3>2 DEF FaceOK, SameWork
    <3>4. QED BY <1>2, <3>1, <3>3
  <2>4. QED BY <2>1, <2>2, <2>3
<1>10. QED BY <1>4, <1>9, FaceStepOK

LEMMA PresenceInvNext == PresenceInv /\ [PresenceNext]_presenceVars => PresenceInv'
<1> SUFFICES ASSUME PresenceInv, [PresenceNext]_presenceVars PROVE PresenceInv' OBVIOUS
<1>1. CASE PresenceNext
  BY <1>1, LinkReadyOK, LinkLostOK, MicOKs, SpeechOKs, AnswersOK, TasksOK, TranscriptOK, FrameOK
     DEF PresenceNext
<1>2. CASE UNCHANGED presenceVars
  <2>1. face' = face /\ world' = world /\ line' = line BY <1>2 DEF presenceVars
  <2>2. QED BY <2>1 DEF PresenceInv, PreparationShown, WorkShownIsReal, RowOK
<1>3. QED BY <1>1, <1>2

\* What the page shows is what it was told: a headline of an outage ends with it,
\* an answer under preparation is announced, work is shown while tasks of the list
\* are active, a pause ends with speech, and the agent line shows no more than the
\* row has (voice.js, whatever comes in between).
THEOREM PresenceAlwaysKept == PresenceSpec => []PresenceKept
BY PresenceInvInit, PresenceInvNext, PresenceInvKept, PTL DEF PresenceSpec

-----------------------------------------------------------------------------
(* The narrations of the task log *)

NarrationTypes ==
  /\ drawer \in [open : BOOLEAN, revision : Revisions, disabled : BOOLEAN]
  /\ note \in [Revisions -> [cached : {"nothing", "text", "failed"}, inflight : BOOLEAN]]
  /\ repaints \in [Revisions -> Nat]
  /\ DOMAIN ghost = {"requests", "expiries", "paints"}
  /\ ghost.requests \in [Revisions -> Nat] /\ ghost.expiries \in [Revisions -> Nat]
  /\ ghost.paints \in Nat

\* What is neither cached nor under way was asked for no more often than it was
\* forgotten.
ForgottenFirst ==
  \A r \in Revisions :
    note[r].cached = "nothing" /\ ~note[r].inflight => ghost.requests[r] <= ghost.expiries[r]

NarrationInv == NarrationTypes /\ ForgottenFirst /\ AskedOnce /\ PendingIsPending

LEMMA NarrationInvInit == NarrationInit => NarrationInv
<1> SUFFICES ASSUME NarrationInit PROVE NarrationInv OBVIOUS
<1>1. 1 \in Revisions BY NarrationAssumption DEF Revisions
<1>2. \A r \in Revisions : /\ ghost.requests[r] = 0 /\ ghost.expiries[r] = 0
                           /\ note[r].inflight = FALSE
  BY DEF NarrationInit
<1>3. NarrationTypes BY <1>1 DEF NarrationInit, NarrationTypes
<1>4. QED BY <1>2, <1>3 DEF NarrationInv, ForgottenFirst, AskedOnce, PendingIsPending

\* What painting the log does to one revision.
Painted(r) ==
  \/ note'[r] = note[r] /\ ghost'.requests[r] = ghost.requests[r]
  \/ /\ note[r].cached = "nothing" /\ note[r].inflight
     /\ note'[r] = note[r] /\ ghost'.requests[r] = ghost.requests[r]
  \/ /\ note[r].cached = "nothing" /\ ~note[r].inflight
     /\ note'[r].cached = "nothing" /\ note'[r].inflight
     /\ ghost'.requests[r] = ghost.requests[r] + 1

LEMMA PaintsKeep ==
  ASSUME NarrationInv, NarrationTypes', ghost'.expiries = ghost.expiries,
         \A r \in Revisions :
           /\ Painted(r)
           /\ note'[r].inflight => repaints'[r] > 0
  PROVE  NarrationInv'
<1>1. ASSUME NEW r \in Revisions
      PROVE  /\ note'[r].cached = "nothing" /\ ~note'[r].inflight =>
                  ghost'.requests[r] <= ghost'.expiries[r]
             /\ ghost'.requests[r] <= 1 + ghost'.expiries[r]
             /\ note'[r].inflight => repaints'[r] > 0 /\ note'[r].cached = "nothing"
  <2>1. ghost.requests[r] \in Nat /\ ghost.expiries[r] \in Nat
    BY DEF NarrationInv, NarrationTypes
  <2>2. /\ note[r].cached = "nothing" /\ ~note[r].inflight =>
             ghost.requests[r] <= ghost.expiries[r]
        /\ ghost.requests[r] <= 1 + ghost.expiries[r]
        /\ note[r].inflight => note[r].cached = "nothing"
    BY DEF NarrationInv, ForgottenFirst, AskedOnce, PendingIsPending
  <2>3. QED BY <2>1, <2>2 DEF Painted
<1>2. QED BY <1>1 DEF NarrationInv, ForgottenFirst, AskedOnce, PendingIsPending

LEMMA LogPaintsKeep ==
  ASSUME NarrationInv, NEW open \in BOOLEAN, Paints(open),
         drawer' \in [open : BOOLEAN, revision : Revisions, disabled : BOOLEAN]
  PROVE  NarrationInv'
<1> DEFINE q == drawer.revision
           asks == open /\ ~drawer.disabled /\ note[q].cached = "nothing"
<1>1. NarrationTypes BY DEF NarrationInv
<1>2. q \in Revisions /\ note[q].inflight \in BOOLEAN BY <1>1 DEF NarrationTypes
<1>3. CASE asks
  <2>1. /\ note' = [note EXCEPT ![q].inflight = TRUE]
        /\ repaints' = [repaints EXCEPT ![q] = @ + 1]
        /\ ghost' = [ghost EXCEPT !.requests[q] = IF ~note[q].inflight THEN @ + 1 ELSE @,
                                  !.paints = @ + 1]
    BY <1>3 DEF Paints
  <2>2. NarrationTypes'
    <3>1. /\ ghost'.requests = [ghost.requests EXCEPT ![q] = IF ~note[q].inflight THEN @ + 1 ELSE @]
          /\ ghost'.expiries = ghost.expiries /\ ghost'.paints = ghost.paints + 1
          /\ DOMAIN ghost' = {"requests", "expiries", "paints"}
      BY <1>1, <2>1 DEF NarrationTypes
    <3>2. ghost'.requests \in [Revisions -> Nat] BY <1>1, <1>2, <3>1 DEF NarrationTypes
    <3>3. note' \in [Revisions -> [cached : {"nothing", "text", "failed"}, inflight : BOOLEAN]]
      BY <1>1, <1>2, <2>1 DEF NarrationTypes
    <3>6. repaints' \in [Revisions -> Nat]
      <4>1. repaints \in [Revisions -> Nat] /\ repaints' = [repaints EXCEPT ![q] = @ + 1]
        BY <1>1, <2>1 DEF NarrationTypes
      <4> HIDE DEF q
      <4>2. QED BY <1>2, <4>1
    <3>4. /\ DOMAIN ghost' = {"requests", "expiries", "paints"}
          /\ ghost'.expiries \in [Revisions -> Nat] /\ ghost'.paints \in Nat
      BY <1>1, <3>1 DEF NarrationTypes
    <3>5. QED BY <3>1, <3>2, <3>3, <3>4, <3>6 DEF NarrationTypes
  <2>3. ghost'.expiries = ghost.expiries BY <1>1, <2>1 DEF NarrationTypes
  <2>4. ASSUME NEW r \in Revisions PROVE Painted(r) /\ (note'[r].inflight => repaints'[r] > 0)
    <3>1. repaints[r] \in Nat /\ ghost.requests[r] \in Nat /\ note[r].inflight \in BOOLEAN
      BY <1>1 DEF NarrationTypes
    <3>2. note[r].inflight => repaints[r] > 0 BY DEF NarrationInv, PendingIsPending
    <3>3. CASE r # q
      <4>1. note'[r] = note[r] /\ repaints'[r] = repaints[r] /\ ghost'.requests[r] = ghost.requests[r]
        BY <1>1, <1>2, <2>1, <3>3 DEF NarrationTypes
      <4>2. QED BY <3>2, <4>1 DEF Painted
    <3>4. CASE r = q
      <4>1. /\ note'[r] = [note[r] EXCEPT !.inflight = TRUE] /\ repaints'[r] = repaints[r] + 1
            /\ ghost'.requests[r] = IF ~note[r].inflight THEN ghost.requests[r] + 1 ELSE ghost.requests[r]
        BY <1>1, <1>2, <2>1, <3>4 DEF NarrationTypes
      <4>2. note'[r].cached = "nothing" /\ note'[r].inflight = TRUE
        BY <1>1, <1>3, <3>4, <4>1 DEF NarrationTypes
      <4>3. note[r].inflight => note'[r] = note[r] BY <1>1, <4>1 DEF NarrationTypes
      <4>4. QED BY <1>3, <3>1, <3>4, <4>1, <4>2, <4>3 DEF Painted
    <3>5. QED BY <3>3, <3>4
  <2>5. QED BY <2>2, <2>3, <2>4, PaintsKeep
<1>4. CASE ~asks
  <2>1. /\ note' = note /\ repaints' = repaints
        /\ ghost' = [ghost EXCEPT !.requests[q] = @, !.paints = @ + 1]
    BY <1>4 DEF Paints
  <2>2. /\ ghost'.requests = [ghost.requests EXCEPT ![q] = @]
        /\ ghost'.expiries = ghost.expiries /\ ghost'.paints = ghost.paints + 1
        /\ DOMAIN ghost' = {"requests", "expiries", "paints"}
    BY <1>1, <2>1 DEF NarrationTypes
  <2>3. ghost'.expiries = ghost.expiries /\ ghost'.requests = ghost.requests
    BY <1>1, <1>2, <2>2 DEF NarrationTypes
  <2>4. \A r \in Revisions : Painted(r) BY <2>1, <2>3 DEF Painted
  <2>5. \A r \in Revisions : note'[r].inflight => repaints'[r] > 0
    BY <2>1 DEF NarrationInv, PendingIsPending
  <2>6. NarrationTypes' BY <1>1, <2>1, <2>2, <2>3 DEF NarrationTypes
  <2>7. QED BY <2>3, <2>4, <2>5, <2>6, PaintsKeep
<1>5. QED BY <1>3, <1>4

LEMMA NarrationInvNext ==
  ASSUME NarrationInv, [NarrationNext]_narrationVars
  PROVE  NarrationInv'
<1>1. NarrationTypes BY DEF NarrationInv
<1>2. CASE DrawerToggled
  <2>1. drawer' \in [open : BOOLEAN, revision : Revisions, disabled : BOOLEAN]
    BY <1>1, <1>2 DEF DrawerToggled, NarrationTypes
  <2>2. (~drawer.open) \in BOOLEAN /\ Paints(~drawer.open) BY <1>1, <1>2 DEF DrawerToggled, NarrationTypes
  <2>3. QED BY <2>1, <2>2, LogPaintsKeep
<1>3. CASE TasksChange
  <2>1. drawer' \in [open : BOOLEAN, revision : Revisions, disabled : BOOLEAN] /\ Paints(TRUE)
    BY <1>1, <1>3 DEF TasksChange, NarrationTypes
  <2>2. QED BY <2>1, LogPaintsKeep
<1>4. CASE Revised
  <2>1. drawer' \in [open : BOOLEAN, revision : Revisions, disabled : BOOLEAN]
    <3>1. /\ drawer.revision \in 1..MaxRevisions /\ drawer.revision < MaxRevisions
          /\ drawer' = [drawer EXCEPT !.revision = @ + 1]
      BY <1>1, <1>4 DEF Revised, NarrationTypes, Revisions
    <3>2. drawer.revision + 1 \in Revisions BY <3>1, NarrationAssumption DEF Revisions
    <3>3. QED BY <1>1, <3>1, <3>2 DEF NarrationTypes
  <2>2. UNCHANGED <<note, repaints, ghost>> BY <1>4 DEF Revised
  <2>3. QED BY <2>1, <2>2 DEF NarrationInv, NarrationTypes, ForgottenFirst, AskedOnce, PendingIsPending
<1>5. ASSUME NEW r \in Revisions, NarrationSettles(r) PROVE NarrationInv'
  <2>1. PICK came \in {"text", "failed", "unavailable"} :
          /\ note' = [note EXCEPT ![r] = [cached |-> IF came = "text" THEN "text" ELSE "failed",
                                          inflight |-> FALSE]]
          /\ drawer' = [drawer EXCEPT !.disabled = @ \/ came = "unavailable"]
    BY <1>5 DEF NarrationSettles
  <2>2. repaints' = repaints /\ ghost' = ghost BY <1>5 DEF NarrationSettles
  <2>3. drawer' \in [open : BOOLEAN, revision : Revisions, disabled : BOOLEAN]
    BY <1>1, <2>1 DEF NarrationTypes
  <2>4. NarrationTypes' BY <1>1, <2>1, <2>2, <2>3 DEF NarrationTypes
  <2>5. \A s \in Revisions : s # r => note'[s] = note[s] BY <1>1, <2>1 DEF NarrationTypes
  <2>6. note'[r].cached # "nothing" /\ ~note'[r].inflight BY <1>1, <2>1 DEF NarrationTypes
  <2>7. QED BY <2>2, <2>4, <2>5, <2>6 DEF NarrationInv, ForgottenFirst, AskedOnce, PendingIsPending
<1>6. ASSUME NEW r \in Revisions, Repainted(r) PROVE NarrationInv'
  <2> DEFINE q == drawer.revision
             asks == drawer.open /\ ~drawer.disabled /\ note[q].cached = "nothing"
  <2>1. /\ repaints[r] > 0 /\ ~note[r].inflight /\ drawer' = drawer
        /\ note' = IF asks THEN [note EXCEPT ![q].inflight = TRUE] ELSE note
        /\ repaints' = [s \in Revisions |->
             repaints[s] + (IF asks /\ s = q THEN 1 ELSE 0) - (IF s = r THEN 1 ELSE 0)]
        /\ ghost' = [ghost EXCEPT !.requests[q] = IF asks /\ ~note[q].inflight THEN @ + 1 ELSE @]
    BY <1>6 DEF Repainted
  <2>2. q \in Revisions /\ asks \in BOOLEAN BY <1>1 DEF NarrationTypes
  <2>3. \A s \in Revisions : repaints[s] \in Nat /\ ghost.requests[s] \in Nat
                             /\ note[s].inflight \in BOOLEAN
    BY <1>1 DEF NarrationTypes
  <2>4. \A s \in Revisions : repaints'[s] \in Nat BY <2>1, <2>3
  <2>5. note' \in [Revisions -> [cached : {"nothing", "text", "failed"}, inflight : BOOLEAN]]
    BY <1>1, <2>1, <2>2 DEF NarrationTypes
  <2>6. /\ ghost'.requests = [ghost.requests EXCEPT ![q] = IF asks /\ ~note[q].inflight THEN @ + 1 ELSE @]
        /\ ghost'.expiries = ghost.expiries /\ ghost'.paints = ghost.paints
        /\ DOMAIN ghost' = {"requests", "expiries", "paints"}
    BY <1>1, <2>1 DEF NarrationTypes
  <2>7. ghost'.requests \in [Revisions -> Nat]
    BY <1>1, <2>2, <2>3, <2>6 DEF NarrationTypes
  <2>8. NarrationTypes'
    <3>1. repaints' \in [Revisions -> Nat] BY <2>1, <2>4
    <3>2. QED BY <1>1, <2>1, <2>5, <2>6, <2>7, <3>1 DEF NarrationTypes
  <2>9. ASSUME NEW s \in Revisions PROVE Painted(s) /\ (note'[s].inflight => repaints'[s] > 0)
    <3>1. note[s].inflight => repaints[s] > 0 BY DEF NarrationInv, PendingIsPending
    <3>2. CASE asks /\ s = q
      <4>1. /\ note'[s] = [note[s] EXCEPT !.inflight = TRUE]
            /\ ghost'.requests[s] = IF ~note[s].inflight THEN ghost.requests[s] + 1 ELSE ghost.requests[s]
        BY <1>1, <2>1, <2>2, <2>6, <3>2 DEF NarrationTypes
      <4>2. note'[s].cached = "nothing" /\ note'[s].inflight = TRUE
        BY <1>1, <3>2, <4>1 DEF NarrationTypes
      <4>3. note[s].inflight => note'[s] = note[s] BY <1>1, <4>1 DEF NarrationTypes
      <4>4. repaints'[s] > 0 BY <2>1, <2>3, <3>2
      <4>5. QED BY <2>3, <3>2, <4>1, <4>2, <4>3, <4>4 DEF Painted
    <3>3. CASE ~(asks /\ s = q)
      <4>1. note'[s] = note[s] /\ ghost'.requests[s] = ghost.requests[s]
        BY <1>1, <2>1, <2>2, <2>6, <3>3 DEF NarrationTypes
      <4>2. note[s].inflight => repaints'[s] > 0 BY <2>1, <2>3, <3>1, <3>3
      <4>3. QED BY <4>1, <4>2 DEF Painted
    <3>4. QED BY <3>2, <3>3
  <2>10. QED BY <2>6, <2>8, <2>9, PaintsKeep
<1>7. ASSUME NEW r \in Revisions, FailureForgotten(r) PROVE NarrationInv'
  <2>1. /\ note[r].cached = "failed" /\ drawer' = drawer /\ repaints' = repaints
        /\ note' = [note EXCEPT ![r].cached = "nothing"]
        /\ ghost' = [ghost EXCEPT !.expiries[r] = @ + 1]
    BY <1>7 DEF FailureForgotten
  <2>2. NarrationTypes'
    <3>1. /\ ghost'.requests = ghost.requests /\ ghost'.paints = ghost.paints
          /\ ghost'.expiries = [ghost.expiries EXCEPT ![r] = @ + 1]
          /\ DOMAIN ghost' = {"requests", "expiries", "paints"}
      BY <1>1, <2>1 DEF NarrationTypes
    <3>2. ghost'.expiries \in [Revisions -> Nat] BY <1>1, <3>1 DEF NarrationTypes
    <3>3. note' \in [Revisions -> [cached : {"nothing", "text", "failed"}, inflight : BOOLEAN]]
      BY <1>1, <2>1 DEF NarrationTypes
    <3>4. QED BY <1>1, <2>1, <3>1, <3>2, <3>3 DEF NarrationTypes
  <2>3. ~note[r].inflight BY <2>1 DEF NarrationInv, PendingIsPending
  <2>4. ASSUME NEW s \in Revisions
        PROVE  /\ note'[s].inflight = note[s].inflight
               /\ s # r => note'[s].cached = note[s].cached /\ ghost'.expiries[s] = ghost.expiries[s]
               /\ ghost'.requests[s] = ghost.requests[s]
               /\ ghost.requests[s] \in Nat /\ ghost.expiries[s] \in Nat
               /\ s = r => ghost'.expiries[s] = ghost.expiries[s] + 1
    BY <1>1, <2>1 DEF NarrationTypes
  <2>5. ForgottenFirst' /\ AskedOnce'
    BY <2>4 DEF NarrationInv, ForgottenFirst, AskedOnce
  <2>6. PendingIsPending' BY <2>1, <2>3, <2>4 DEF NarrationInv, PendingIsPending
  <2>7. QED BY <2>2, <2>5, <2>6 DEF NarrationInv
<1>8. CASE UNCHANGED narrationVars
  BY <1>8 DEF narrationVars, NarrationInv, NarrationTypes, ForgottenFirst, AskedOnce, PendingIsPending
<1>9. QED BY <1>2, <1>3, <1>4, <1>5, <1>6, <1>7, <1>8 DEF NarrationNext

LEMMA NarrationInvKept == NarrationInv => NarrationKept
BY DEF NarrationInv, NarrationKept

\* However often the log is painted, a revision is asked for once, and again only
\* after its failure was forgotten; while it says that an answer is on its way,
\* one is, or the log is painted again (the narrations of the page's task log).
THEOREM NarrationAlwaysKept == NarrationSpec => []NarrationKept
BY NarrationInvInit, NarrationInvNext, NarrationInvKept, PTL DEF NarrationSpec

-----------------------------------------------------------------------------
(* The dashboard's bridge *)

PeerFields == {"link", "sent", "taken", "got"}
RelayTypes ==
  /\ DOMAIN relay = {"at", "code", "error", "had"}
  /\ DOMAIN relays = Sides /\ DOMAIN peer = Sides
  /\ \A s \in Sides :
       /\ DOMAIN relays[s] = {"state", "cause"}
       /\ relays[s].cause \in {"none", "left", "failed", "protocol"}
       /\ DOMAIN peer[s] = PeerFields
       /\ peer[s].sent \in Seq(Nat) /\ peer[s].got \in Seq(Nat)
       /\ peer[s].taken \in 0..Len(peer[s].sent)

\* What the other side got of what p sent, and where its relay task is.
Passed(p, got, r) ==
  /\ Len(got) <= p.taken
  /\ \A i \in 1..Len(got) : got[i] = p.sent[i] /\ got[i] # 0
  /\ r.state = "none" => p.taken = 0
  /\ r.state = "reading" => Len(got) = p.taken
  /\ r.state = "holding" => p.taken = Len(got) + 1 /\ p.sent[p.taken] # 0
  /\ r.cause = "protocol" => p.taken > 0 /\ p.sent[p.taken] = 0

BridgeOK ==
  /\ \A s \in Sides : Passed(peer[s], peer[Other(s)].got, relays[s])
  /\ relay.at \in {"arrived", "connecting"} =>
       \A s \in Sides : relays[s].state = "none" /\ relays[s].cause = "none"
  /\ relay.at # "closed" => relay.code = 0
  /\ relay.at = "closed" =>
       /\ Len(peer["browser"].got) = relay.had
       /\ relay.code = 1008 => relays["browser"].cause = "protocol"
       /\ relay.code = 1011 => relays["gateway"].cause = "protocol"
       /\ relay.code = 1000 => relay.error = "none"

NamedError(h) ==
  CASE h = "down" -> "gateway_unreachable"
    [] h = "foreign" -> "wrong_gateway_service"
    [] h = "locked" -> "gateway_auth_failed"
    [] h = "starting" -> "gateway_not_ready"
    [] OTHER -> "no_error"

ProbeOK ==
  /\ DOMAIN host = {"is", "changes"} /\ host.changes \in Nat
  /\ host.is \in {"down", "foreign", "locked", "starting", "ready"}
  /\ DOMAIN probe = {"at", "answers", "error", "since"} /\ probe.since \in Nat
  /\ DOMAIN probe.answers = Paths
  /\ probe.at \in {"idle", "asking", "reported"}
  /\ probe.at = "idle" => \A p \in Paths : probe.answers[p] = "none"
  /\ probe.at # "idle" => probe.since <= host.changes
  /\ probe.at # "idle" /\ host.changes = probe.since =>
       \A p \in Paths : probe.answers[p] \in {"none", ProbeAnswer(p, host.is)}
  /\ probe.at = "reported" /\ host.changes = probe.since => probe.error = NamedError(host.is)

RelayInv == RelayTypes /\ BridgeOK /\ ProbeOK

LEMMA RelayInvInit == RelayInit => RelayInv
<1> SUFFICES ASSUME RelayInit PROVE RelayInv OBVIOUS
<1>1. /\ DOMAIN relays = Sides /\ \A s \in Sides : relays[s] = [state |-> "none", cause |-> "none"]
  BY DEF RelayInit
<1>2. /\ DOMAIN peer = Sides
      /\ \A s \in Sides :
           /\ peer[s].sent = <<>> /\ peer[s].taken = 0 /\ peer[s].got = <<>>
           /\ DOMAIN peer[s] = PeerFields
  BY DEF RelayInit, PeerFields
<1>3. \A s \in Sides : Other(s) \in Sides BY DEF Sides, Other
<1>4. RelayTypes
  <2>1. DOMAIN relay = {"at", "code", "error", "had"} BY DEF RelayInit
  <2>2. <<>> \in Seq(Nat) /\ Len(<<>>) = 0 BY EmptySeq
  <2>3. ASSUME NEW s \in Sides
        PROVE  /\ DOMAIN relays[s] = {"state", "cause"} /\ relays[s].cause = "none"
               /\ DOMAIN peer[s] = PeerFields
               /\ peer[s].sent \in Seq(Nat) /\ peer[s].got \in Seq(Nat)
               /\ peer[s].taken \in 0..Len(peer[s].sent)
    <3> DEFINE empty == <<>>
    <3>1. /\ peer[s].sent = empty /\ peer[s].taken = 0 /\ peer[s].got = empty
          /\ DOMAIN peer[s] = PeerFields
      BY <1>2
    <3>2. empty \in Seq(Nat) /\ Len(empty) = 0 BY <2>2
    <3> HIDE DEF empty
    <3>3. QED BY <1>1, <3>1, <3>2
  <2>4. QED BY <1>1, <1>2, <2>1, <2>3 DEF RelayTypes
<1>5. BridgeOK
  <2>1. \A s \in Sides : Passed(peer[s], peer[Other(s)].got, relays[s])
    BY <1>1, <1>2, <1>3 DEF Passed
  <2>2. QED BY <1>1, <2>1 DEF BridgeOK, RelayInit
<1>6. ProbeOK BY DEF ProbeOK, RelayInit
<1>7. QED BY <1>4, <1>5, <1>6 DEF RelayInv

LEMMA RelayInvKept == RelayInv => RelayKept
<1> SUFFICES ASSUME RelayInv PROVE RelayKept OBVIOUS
<1>1. RelayedInOrder
  <2> SUFFICES ASSUME NEW s \in Sides
               PROVE  LET got == peer[Other(s)].got
                      IN  got = SubSeq(peer[s].sent, 1, Len(got)) /\ \A i \in 1..Len(got) : got[i] # 0
    BY DEF RelayedInOrder
  <2> DEFINE got == peer[Other(s)].got
             sent == peer[s].sent
  <2>1. /\ sent \in Seq(Nat) /\ got \in Seq(Nat) /\ peer[s].taken \in 0..Len(sent)
    BY DEF RelayInv, RelayTypes, Sides, Other
  <2>2. Len(got) <= peer[s].taken /\ \A i \in 1..Len(got) : got[i] = sent[i] /\ got[i] # 0
    BY DEF RelayInv, BridgeOK, Passed
  <2> HIDE DEF got, sent
  <2>3. Len(got) \in Nat /\ Len(sent) \in Nat /\ Len(got) <= Len(sent) BY <2>1, <2>2
  <2>4. /\ SubSeq(sent, 1, Len(got)) \in Seq(Nat) /\ Len(SubSeq(sent, 1, Len(got))) = Len(got)
        /\ \A i \in 1..Len(got) : SubSeq(sent, 1, Len(got))[i] = sent[i]
    BY <2>1, <2>3, SubSeqProperties
  <2>5. got = SubSeq(sent, 1, Len(got)) BY <2>1, <2>2, <2>4, SeqEqual
  <2>6. QED BY <2>2, <2>5 DEF got, sent
<1>2. EndIsTold
  <2>1. ASSUME NEW s \in Sides, relays[s].cause = "protocol"
        PROVE  0 \in {peer[s].sent[i] : i \in 1..peer[s].taken}
    <3>1. peer[s].taken > 0 /\ peer[s].sent[peer[s].taken] = 0
      BY <2>1 DEF RelayInv, BridgeOK, Passed
    <3>2. peer[s].taken \in Nat BY <2>1 DEF RelayInv, RelayTypes
    <3>3. peer[s].taken \in 1..peer[s].taken BY <3>1, <3>2
    <3>4. QED BY <3>1, <3>3
  <2>2. "browser" \in Sides /\ "gateway" \in Sides BY DEF Sides
  <2>3. QED BY <2>1, <2>2 DEF RelayInv, BridgeOK, EndIsTold
<1>3. StatusNamesHost BY DEF RelayInv, ProbeOK, StatusNamesHost, NamedError
<1>4. QED BY <1>1, <1>2, <1>3 DEF RelayKept

\* A step of the status request.
LEMMA ProbeNext ==
  ASSUME RelayInv, UNCHANGED <<relay, relays, peer>>,
         \/ HostChanges \/ StatusAsked \/ StatusReported \/ \E p \in Paths : ProbeAnswered(p)
  PROVE  RelayInv'
<1>1. RelayTypes' /\ BridgeOK' BY DEF RelayInv, RelayTypes, BridgeOK
<1>2. /\ DOMAIN host = {"is", "changes"} /\ host.changes \in Nat
      /\ DOMAIN probe = {"at", "answers", "error", "since"} /\ probe.since \in Nat
      /\ DOMAIN probe.answers = Paths
  BY DEF RelayInv, ProbeOK
<1>3. ProbeOK BY DEF RelayInv
<1>4. CASE HostChanges
  <2>1. PICK h \in {"down", "foreign", "locked", "starting", "ready"} :
          host' = [is |-> h, changes |-> host.changes + 1]
    BY <1>4 DEF HostChanges
  <2>2. probe' = probe /\ probe.at = "asking" /\ probe.since <= host.changes
    BY <1>3, <1>4 DEF HostChanges, ProbeOK
  <2>3. host'.changes # probe.since /\ probe.since <= host'.changes /\ host'.changes \in Nat
    BY <1>2, <2>1, <2>2
  <2>4. ProbeOK' BY <1>3, <2>1, <2>2, <2>3 DEF ProbeOK
  <2>5. QED BY <1>1, <2>4 DEF RelayInv
<1>5. CASE StatusAsked
  <2>1. PICK h \in {"down", "foreign", "locked", "starting", "ready"} : host' = [host EXCEPT !.is = h]
    BY <1>5 DEF StatusAsked
  <2>2. probe' = [probe EXCEPT !.at = "asking", !.since = host.changes] /\ probe.at = "idle"
    BY <1>5 DEF StatusAsked
  <2>3. /\ DOMAIN host' = DOMAIN host /\ host'.is = h /\ host'.changes = host.changes
        /\ DOMAIN probe' = DOMAIN probe /\ probe'.at = "asking" /\ probe'.since = host.changes
        /\ probe'.answers = probe.answers
    BY <1>2, <2>1, <2>2
  <2>4. ProbeOK' BY <1>2, <1>3, <2>1, <2>2, <2>3 DEF ProbeOK
  <2>5. QED BY <1>1, <2>4 DEF RelayInv
<1>6. CASE StatusReported
  <2>1. /\ probe' = [probe EXCEPT !.at = "reported", !.error = StatusError(probe.answers)]
        /\ host' = host /\ probe.at = "asking" /\ \A p \in Paths : probe.answers[p] # "none"
    BY <1>6 DEF StatusReported
  <2>2. /\ DOMAIN probe' = DOMAIN probe /\ probe'.at = "reported" /\ probe'.since = probe.since
        /\ probe'.answers = probe.answers /\ probe'.error = StatusError(probe.answers)
    BY <1>2, <2>1
  <2>3. host.changes = probe.since => StatusError(probe.answers) = NamedError(host.is)
    <3> SUFFICES ASSUME host.changes = probe.since
                 PROVE  StatusError(probe.answers) = NamedError(host.is)
      OBVIOUS
    <3>1. \A p \in Paths : probe.answers[p] = ProbeAnswer(p, host.is)
      BY <1>3, <2>1 DEF ProbeOK
    <3>2. /\ probe.answers["health"] = ProbeAnswer("health", host.is)
          /\ probe.answers["capabilities"] = ProbeAnswer("capabilities", host.is)
          /\ probe.answers["ready"] = ProbeAnswer("ready", host.is)
      BY <3>1 DEF Paths
    <3>3. host.is \in {"down", "foreign", "locked", "starting", "ready"} BY <1>3 DEF ProbeOK
    <3>4. CASE host.is = "down" BY <3>1, <3>4 DEF StatusError, NamedError, ProbeAnswer
    <3>5. CASE host.is # "down"
      <4>1. probe.answers["health"] # "down" /\ "health" \in Paths
        BY <3>2, <3>3, <3>5 DEF ProbeAnswer, Paths
      <4>2. ~\A p \in Paths : probe.answers[p] = "down" BY <4>1
      <4>3. StatusError(probe.answers) =
              IF probe.answers["health"] = "foreign" THEN "wrong_gateway_service"
              ELSE IF "denied" \in {probe.answers["capabilities"], probe.answers["ready"]}
                   THEN "gateway_auth_failed"
              ELSE IF probe.answers["capabilities"] # "own" THEN "capabilities_unavailable"
              ELSE IF probe.answers["ready"] # "own" THEN "gateway_not_ready"
              ELSE "no_error"
        BY <4>2 DEF StatusError
      <4>4. QED BY <3>2, <3>3, <3>5, <4>3 DEF NamedError, ProbeAnswer
    <3>6. QED BY <3>4, <3>5
  <2>4. ProbeOK' BY <1>3, <2>1, <2>2, <2>3 DEF ProbeOK
  <2>5. QED BY <1>1, <2>4 DEF RelayInv
<1>7. ASSUME NEW p \in Paths, ProbeAnswered(p) PROVE RelayInv'
  <2> DEFINE a == [probe.answers EXCEPT ![p] = ProbeAnswer(p, host.is)]
  <2>1. /\ probe' = [probe EXCEPT !.answers = a] /\ host' = host /\ probe.at = "asking"
    BY <1>2, <1>7 DEF ProbeAnswered
  <2>2. DOMAIN a = Paths /\ \A q \in Paths : a[q] \in {probe.answers[q], ProbeAnswer(q, host.is)}
    BY <1>2
  <2> HIDE DEF a
  <2>3. /\ DOMAIN probe' = DOMAIN probe /\ probe'.at = "asking" /\ probe'.since = probe.since
        /\ probe'.answers = a
    BY <1>2, <2>1
  <2>4. ProbeOK' BY <1>3, <2>1, <2>2, <2>3 DEF ProbeOK
  <2>5. QED BY <1>1, <2>4 DEF RelayInv
<1>8. QED BY <1>4, <1>5, <1>6, <1>7

\* What a side has sent, and what it got, when a message is added.
LEMMA PassedAppends ==
  ASSUME NEW p, NEW q, NEW got, NEW r, NEW m, Passed(p, got, r), p.sent \in Seq(Nat),
         p.taken \in 0..Len(p.sent), q.sent = Append(p.sent, m), q.taken = p.taken,
         got \in Seq(Nat), m \in Nat
  PROVE  Passed(q, got, r) /\ q.sent \in Seq(Nat) /\ q.taken \in 0..Len(q.sent)
<1>1. /\ Len(q.sent) = Len(p.sent) + 1 /\ q.sent \in Seq(Nat)
      /\ \A i \in 1..Len(p.sent) : q.sent[i] = p.sent[i]
  BY AppendProperties
<1>2. Len(p.sent) \in Nat /\ p.taken \in Nat /\ Len(got) \in Nat /\ Len(got) <= p.taken BY DEF Passed
<1>3. \A i \in 1..Len(got) : i \in 1..Len(p.sent) BY <1>2
<1>4. p.taken > 0 => p.taken \in 1..Len(p.sent) BY <1>2
<1>5. r.state = "holding" => p.taken > 0 BY <1>2 DEF Passed
<1>6. QED BY <1>1, <1>2, <1>3, <1>4, <1>5 DEF Passed

LEMMA BridgeNext ==
  ASSUME RelayInv, UNCHANGED relayOnly, NEW s \in Sides,
         \/ PeerSends(s) \/ PeerLeaves(s) \/ TakesMessage(s) \/ PassesMessage(s) \/ SeesEnd(s)
  PROVE  RelayInv'
<1> DEFINE o == Other(s)
<1>1. /\ o \in Sides /\ o # s /\ Other(o) = s /\ Sides = {s, o} BY DEF Sides, Other
<1>2. /\ RelayTypes /\ BridgeOK /\ ProbeOK BY DEF RelayInv
<1>3. ProbeOK' BY <1>2 DEF relayOnly, ProbeOK
<1>4. /\ DOMAIN relays = Sides /\ DOMAIN peer = Sides
      /\ \A x \in Sides :
           /\ DOMAIN relays[x] = {"state", "cause"} /\ DOMAIN peer[x] = PeerFields
           /\ relays[x].cause \in {"none", "left", "failed", "protocol"}
           /\ peer[x].sent \in Seq(Nat) /\ peer[x].got \in Seq(Nat)
           /\ peer[x].taken \in 0..Len(peer[x].sent)
  BY <1>2 DEF RelayTypes
<1>5. /\ Passed(peer[s], peer[o].got, relays[s]) /\ Passed(peer[o], peer[s].got, relays[o])
  BY <1>1, <1>2 DEF BridgeOK
<1>6. relay' = relay /\ relay.at # "closed" /\ relay.code = 0
  BY <1>2 DEF BridgeOK, PeerSends, PeerLeaves, TakesMessage, PassesMessage, SeesEnd, Reading
<1> HIDE DEF o
\* It is enough to look at both sides.
<1>7. ASSUME DOMAIN relays' = Sides, DOMAIN peer' = Sides,
             \A x \in Sides :
               /\ DOMAIN relays'[x] = {"state", "cause"} /\ DOMAIN peer'[x] = PeerFields
               /\ relays'[x].cause \in {"none", "left", "failed", "protocol"}
               /\ peer'[x].sent \in Seq(Nat) /\ peer'[x].got \in Seq(Nat)
               /\ peer'[x].taken \in 0..Len(peer'[x].sent),
             Passed(peer'[s], peer'[o].got, relays'[s]),
             Passed(peer'[o], peer'[s].got, relays'[o]),
             relay.at \in {"arrived", "connecting"} => relays' = relays
      PROVE  RelayInv'
  <2>1. RelayTypes' BY <1>2, <1>6, <1>7 DEF RelayTypes
  <2>2. \A x \in Sides : Passed(peer'[x], peer'[Other(x)].got, relays'[x])
    BY <1>1, <1>7 DEF o
  <2>3. BridgeOK' BY <1>2, <1>6, <1>7, <2>2 DEF BridgeOK
  <2>4. QED BY <1>3, <2>1, <2>3 DEF RelayInv
<1>8. CASE PeerSends(s)
  <2>1. PICK m \in {0, Len(peer[s].sent) + 1} : peer' = [peer EXCEPT ![s].sent = Append(@, m)]
    BY <1>8 DEF PeerSends
  <2>2. relays' = relays BY <1>8 DEF PeerSends
  <2>3. /\ DOMAIN peer' = Sides /\ peer'[o] = peer[o] /\ DOMAIN peer'[s] = PeerFields
        /\ peer'[s].sent = Append(peer[s].sent, m) /\ peer'[s].taken = peer[s].taken
        /\ peer'[s].got = peer[s].got
    BY <1>1, <1>4, <2>1 DEF PeerFields
  <2>4. m \in Nat
    <3>1. Len(peer[s].sent) \in Nat BY <1>4
    <3>2. QED BY <3>1
  <2>5. /\ Passed(peer'[s], peer[o].got, relays[s]) /\ peer'[s].sent \in Seq(Nat)
        /\ peer'[s].taken \in 0..Len(peer'[s].sent)
    BY <1>1, <1>4, <1>5, <2>3, <2>4, PassedAppends
  <2>6. Passed(peer'[o], peer'[s].got, relays'[o]) BY <1>5, <2>2, <2>3
  <2>7. QED BY <1>1, <1>4, <1>7, <2>2, <2>3, <2>5, <2>6
<1>9. CASE PeerLeaves(s)
  <2>1. PICK how \in {"clean", "broken"} : peer' = [peer EXCEPT ![s].link = how]
    BY <1>9 DEF PeerLeaves
  <2>2. relays' = relays BY <1>9 DEF PeerLeaves
  <2>3. /\ DOMAIN peer' = Sides /\ peer'[o] = peer[o] /\ DOMAIN peer'[s] = PeerFields
        /\ peer'[s].sent = peer[s].sent /\ peer'[s].taken = peer[s].taken
        /\ peer'[s].got = peer[s].got
    BY <1>1, <1>4, <2>1 DEF PeerFields
  <2>4. Passed(peer'[s], peer[o].got, relays[s]) BY <1>5, <2>3 DEF Passed
  <2>5. QED BY <1>1, <1>4, <1>5, <1>7, <2>2, <2>3, <2>4
<1>10. CASE TakesMessage(s)
  <2> DEFINE k == peer[s].taken + 1
  <2>1. /\ relay.at = "relaying" /\ relays[s].state = "reading" /\ peer[s].taken < Len(peer[s].sent)
        /\ peer' = [peer EXCEPT ![s].taken = k]
        /\ IF peer[s].sent[k] = 0 THEN RelayOver(s, "protocol")
           ELSE relays' = [relays EXCEPT ![s].state = "holding"]
    BY <1>10 DEF TakesMessage, Reading
  <2>2. /\ DOMAIN peer' = Sides /\ peer'[o] = peer[o] /\ DOMAIN peer'[s] = PeerFields
        /\ peer'[s].sent = peer[s].sent /\ peer'[s].taken = k /\ peer'[s].got = peer[s].got
    BY <1>1, <1>4, <2>1 DEF PeerFields
  <2>3. k \in 0..Len(peer[s].sent) /\ Len(peer[o].got) = peer[s].taken /\ peer[s].taken \in Nat
    <3>1. peer[s].taken \in 0..Len(peer[s].sent) /\ Len(peer[s].sent) \in Nat BY <1>4
    <3>2. QED BY <1>5, <2>1, <3>1 DEF Passed
  <2>4. k = Len(peer[o].got) + 1 /\ k > 0 /\ Len(peer[o].got) <= k BY <2>3
  <2> HIDE DEF k
  <2>5. /\ DOMAIN relays' = Sides /\ relays'[o] = relays[o]
        /\ DOMAIN relays'[s] = {"state", "cause"}
        /\ relays'[s].state \in {"over", "holding"}
        /\ relays'[s].cause \in {relays[s].cause, "protocol"}
        /\ relays'[s].state = "holding" => peer[s].sent[k] # 0 /\ relays'[s].cause = relays[s].cause
        /\ relays'[s].state = "over" => peer[s].sent[k] = 0
    BY <1>1, <1>4, <2>1 DEF RelayOver
  <2>6. relays[s].cause # "protocol"
    <3>1. relays[s].cause = "protocol" => peer[s].taken > 0 /\ peer[s].sent[peer[s].taken] = 0
      BY <1>5 DEF Passed
    <3>2. ASSUME peer[s].taken > 0 PROVE peer[s].sent[peer[s].taken] # 0
      <4>1. peer[s].taken \in 1..Len(peer[o].got) BY <2>3, <3>2
      <4>2. QED BY <1>5, <4>1 DEF Passed
    <3>3. QED BY <3>1, <3>2
  <2>7. Passed(peer'[s], peer'[o].got, relays'[s])
    BY <1>5, <2>2, <2>4, <2>5, <2>6 DEF Passed
  <2>8. Passed(peer'[o], peer'[s].got, relays'[o]) BY <1>5, <2>2, <2>5
  <2>9. QED BY <1>1, <1>4, <1>7, <2>1, <2>2, <2>3, <2>5, <2>7, <2>8
<1>11. CASE PassesMessage(s)
  <2>1. relay.at = "relaying" /\ relays[s].state = "holding" BY <1>11 DEF PassesMessage
  <2>2. CASE peer[o].link = "open"
    <3> DEFINE m == peer[s].sent[peer[s].taken]
    <3>1. /\ relays' = [relays EXCEPT ![s].state = "reading"]
          /\ peer' = [peer EXCEPT ![o].got = Append(@, m)]
      BY <1>11, <2>2 DEF PassesMessage, o
    <3>2. /\ DOMAIN peer' = Sides /\ peer'[s] = peer[s] /\ DOMAIN peer'[o] = PeerFields
          /\ peer'[o].sent = peer[o].sent /\ peer'[o].taken = peer[o].taken
          /\ peer'[o].got = Append(peer[o].got, m)
      BY <1>1, <1>4, <3>1 DEF PeerFields
    <3>3. /\ DOMAIN relays' = Sides /\ relays'[o] = relays[o]
          /\ DOMAIN relays'[s] = {"state", "cause"} /\ relays'[s].state = "reading"
          /\ relays'[s].cause = relays[s].cause
      BY <1>1, <1>4, <3>1
    <3>4. /\ peer[s].taken = Len(peer[o].got) + 1 /\ m # 0 BY <1>5, <2>1 DEF Passed
    <3>5. m \in Nat /\ Len(peer[o].got) \in Nat
      <4>1. peer[s].taken \in 1..Len(peer[s].sent) /\ Len(peer[o].got) \in Nat BY <1>1, <1>4, <3>4
      <4>2. QED BY <1>4, <4>1, ElementOfSeq
    <3> HIDE DEF m
    <3>6. /\ peer'[o].got \in Seq(Nat) /\ Len(peer'[o].got) = peer[s].taken
          /\ \A i \in 1..Len(peer[o].got) : peer'[o].got[i] = peer[o].got[i]
          /\ peer'[o].got[peer[s].taken] = m
      BY <1>1, <1>4, <3>2, <3>4, <3>5, AppendProperties
    <3>7. ASSUME NEW i \in 1..Len(peer'[o].got)
          PROVE  peer'[o].got[i] = peer[s].sent[i] /\ peer'[o].got[i] # 0
      <4>1. i \in 1..Len(peer[o].got) \/ i = peer[s].taken BY <3>4, <3>5, <3>6
      <4>2. QED BY <1>5, <3>4, <3>6, <4>1 DEF Passed, m
    <3>8. Passed(peer'[s], peer'[o].got, relays'[s])
      BY <1>5, <3>2, <3>3, <3>4, <3>5, <3>6, <3>7 DEF Passed
    <3>9. Passed(peer'[o], peer'[s].got, relays'[o])
      BY <1>5, <3>2, <3>3 DEF Passed
    <3>10. \A x \in Sides :
             /\ DOMAIN relays'[x] = {"state", "cause"} /\ DOMAIN peer'[x] = PeerFields
             /\ relays'[x].cause \in {"none", "left", "failed", "protocol"}
             /\ peer'[x].sent \in Seq(Nat) /\ peer'[x].got \in Seq(Nat)
             /\ peer'[x].taken \in 0..Len(peer'[x].sent)
      <4> SUFFICES ASSUME NEW x \in Sides
                   PROVE  /\ DOMAIN relays'[x] = {"state", "cause"} /\ DOMAIN peer'[x] = PeerFields
                          /\ relays'[x].cause \in {"none", "left", "failed", "protocol"}
                          /\ peer'[x].sent \in Seq(Nat) /\ peer'[x].got \in Seq(Nat)
                          /\ peer'[x].taken \in 0..Len(peer'[x].sent)
        OBVIOUS
      <4>1. CASE x = s BY <1>4, <3>2, <3>3, <4>1
      <4>2. CASE x = o BY <1>4, <3>2, <3>3, <3>6, <4>2
      <4>3. QED BY <1>1, <4>1, <4>2
    <3>11. relay.at \notin {"arrived", "connecting"} BY <2>1
    <3>12. QED BY <1>7, <3>2, <3>3, <3>8, <3>9, <3>10, <3>11
  <2>3. CASE peer[o].link # "open"
    <3>1. PICK cause \in {"left", "failed"} : RelayOver(s, cause)
      BY <1>11, <2>3 DEF PassesMessage, o
    <3>2. peer' = peer BY <1>11, <2>3 DEF PassesMessage, o
    <3>3. /\ DOMAIN relays' = Sides /\ relays'[o] = relays[o]
          /\ DOMAIN relays'[s] = {"state", "cause"} /\ relays'[s].state = "over"
          /\ relays'[s].cause = cause
      BY <1>1, <1>4, <3>1 DEF RelayOver
    <3>4. Passed(peer'[s], peer'[o].got, relays'[s]) BY <1>5, <3>2, <3>3 DEF Passed
    <3>5. QED BY <1>1, <1>4, <1>5, <1>7, <2>1, <3>2, <3>3, <3>4
  <2>4. QED BY <2>2, <2>3
<1>12. CASE SeesEnd(s)
  <2>1. PICK cause \in {"none", "failed"} : RelayOver(s, cause)
    BY <1>12 DEF SeesEnd
  <2>2. peer' = peer /\ relay.at = "relaying" BY <1>12 DEF SeesEnd, Reading
  <2>3. /\ DOMAIN relays' = Sides /\ relays'[o] = relays[o]
        /\ DOMAIN relays'[s] = {"state", "cause"} /\ relays'[s].state = "over"
        /\ relays'[s].cause = cause
    BY <1>1, <1>4, <2>1 DEF RelayOver
  <2>4. Passed(peer'[s], peer'[o].got, relays'[s]) BY <1>5, <2>2, <2>3 DEF Passed
  <2>5. QED BY <1>1, <1>4, <1>5, <1>7, <2>2, <2>3, <2>4
<1>13. QED BY <1>8, <1>9, <1>10, <1>11, <1>12

LEMMA RelayInvNext ==
  ASSUME RelayInv, [RelayNext]_relayVars
  PROVE  RelayInv'
<1>1. RelayTypes /\ BridgeOK /\ ProbeOK BY DEF RelayInv
<1>2. DOMAIN relay = {"at", "code", "error", "had"} BY <1>1 DEF RelayTypes
<1>3. \A s \in Sides : Other(s) \in Sides BY DEF Sides, Other
<1>4. CASE Rejected \/ NoGateway
  <2>1. /\ UNCHANGED <<relays, peer, host, probe>>
        /\ relay' = [at |-> "closed", code |-> relay'.code, error |-> relay'.error,
                     had |-> Len(peer["browser"].got)]
        /\ relay'.code \in {4401, 4403, 1013}
    BY <1>4 DEF Rejected, NoGateway, Ended, relayOnly
  <2>2. RelayTypes' /\ ProbeOK' BY <1>1, <2>1 DEF RelayTypes, ProbeOK
  <2>3. relay'.at = "closed" /\ relay'.had = Len(peer["browser"].got) BY <2>1
  <2>4. BridgeOK' BY <1>1, <2>1, <2>3 DEF BridgeOK
  <2>5. QED BY <2>2, <2>4 DEF RelayInv
<1>5. CASE Accepted
  <2>1. /\ UNCHANGED <<relays, peer, host, probe>> /\ relay.at = "arrived"
        /\ relay' = [relay EXCEPT !.at = "connecting"]
    BY <1>5 DEF Accepted, relayOnly
  <2>2. relay'.at = "connecting" /\ relay'.code = relay.code /\ DOMAIN relay' = DOMAIN relay
    BY <1>2, <2>1
  <2>3. RelayTypes' /\ ProbeOK' BY <1>1, <2>1, <2>2 DEF RelayTypes, ProbeOK
  <2>4. BridgeOK' BY <1>1, <2>1, <2>2 DEF BridgeOK
  <2>5. QED BY <2>3, <2>4 DEF RelayInv
<1>6. CASE GatewayAnswers
  <2>1. /\ UNCHANGED <<host, probe>> /\ relay.at = "connecting"
        /\ relay' = [relay EXCEPT !.at = "relaying"]
        /\ relays' = [s \in Sides |-> [state |-> "reading", cause |-> "none"]]
        /\ peer' = [peer EXCEPT !["gateway"].link = "open"]
    BY <1>6 DEF GatewayAnswers, relayOnly
  <2>2. relay'.at = "relaying" /\ relay'.code = relay.code /\ DOMAIN relay' = DOMAIN relay
    BY <1>2, <2>1
  <2>3. /\ DOMAIN peer = Sides
        /\ \A s \in Sides : DOMAIN peer[s] = PeerFields
    BY <1>1 DEF RelayTypes
  <2>4. /\ DOMAIN peer' = Sides
        /\ \A s \in Sides : /\ DOMAIN peer'[s] = PeerFields /\ peer'[s].sent = peer[s].sent
                            /\ peer'[s].taken = peer[s].taken /\ peer'[s].got = peer[s].got
    BY <2>1, <2>3 DEF PeerFields
  <2>5. \A s \in Sides : relays'[s].state = "reading" /\ relays'[s].cause = "none"
                         /\ DOMAIN relays'[s] = {"state", "cause"}
    BY <2>1
  <2>6. RelayTypes' BY <1>1, <2>1, <2>2, <2>4, <2>5 DEF RelayTypes
  <2>7. ProbeOK' BY <1>1, <2>1 DEF ProbeOK
  <2>8. ASSUME NEW s \in Sides PROVE Passed(peer'[s], peer'[Other(s)].got, relays'[s])
    <3>1. /\ Passed(peer[s], peer[Other(s)].got, relays[s]) /\ relays[s].state = "none"
      BY <1>1, <2>1 DEF BridgeOK
    <3>2. peer[Other(s)].got \in Seq(Nat) BY <1>1, <1>3 DEF RelayTypes
    <3>3. peer[s].taken = 0 /\ Len(peer[Other(s)].got) = 0 BY <3>1, <3>2 DEF Passed
    <3>4. peer'[Other(s)].got = peer[Other(s)].got BY <1>3, <2>4
    <3>5. QED BY <2>4, <2>5, <3>3, <3>4 DEF Passed
  <2>9. BridgeOK' BY <1>1, <2>1, <2>2, <2>8 DEF BridgeOK
  <2>10. QED BY <2>6, <2>7, <2>9 DEF RelayInv
<1>7. CASE BridgeEnds
  <2>1. PICK s \in Sides :
          /\ Ended(CloseCode(s, relays[s].cause)[1], CloseCode(s, relays[s].cause)[2])
          /\ relays' = [r \in Sides |-> [relays[r] EXCEPT !.state = "over"]]
    BY <1>7 DEF BridgeEnds
  <2>2. /\ UNCHANGED <<host, probe>>
        /\ peer' = [r \in Sides |-> [peer[r] EXCEPT !.link = IF @ = "open" THEN "clean" ELSE @]]
    BY <1>7 DEF BridgeEnds, relayOnly
  <2>3. /\ relay'.at = "closed" /\ relay'.had = Len(peer["browser"].got)
        /\ relay'.code = CloseCode(s, relays[s].cause)[1]
        /\ relay'.error = CloseCode(s, relays[s].cause)[2]
        /\ DOMAIN relay' = {"at", "code", "error", "had"}
    BY <2>1 DEF Ended
  <2>4. /\ \A r \in Sides : DOMAIN relays[r] = {"state", "cause"} /\ DOMAIN peer[r] = PeerFields
        /\ relays[s].cause \in {"none", "left", "failed", "protocol"}
    BY <1>1 DEF RelayTypes
  <2>5. /\ DOMAIN peer' = Sides
        /\ \A r \in Sides : /\ DOMAIN peer'[r] = PeerFields /\ peer'[r].sent = peer[r].sent
                            /\ peer'[r].taken = peer[r].taken /\ peer'[r].got = peer[r].got
    BY <2>2, <2>4 DEF PeerFields
  <2>6. /\ DOMAIN relays' = Sides
        /\ \A r \in Sides : /\ relays'[r].state = "over" /\ relays'[r].cause = relays[r].cause
                            /\ DOMAIN relays'[r] = {"state", "cause"}
    BY <2>1, <2>4
  <2>7. /\ relay'.code = 1008 => s = "browser" /\ relays[s].cause = "protocol"
        /\ relay'.code = 1011 => s = "gateway" /\ relays[s].cause = "protocol"
        /\ relay'.code = 1000 => relay'.error = "none"
    BY <2>3, <2>4 DEF CloseCode, Sides
  <2>8. RelayTypes' BY <1>1, <2>3, <2>5, <2>6 DEF RelayTypes
  <2>9. ProbeOK' BY <1>1, <2>2 DEF ProbeOK
  <2>10. ASSUME NEW r \in Sides PROVE Passed(peer'[r], peer'[Other(r)].got, relays'[r])
    <3>1. Passed(peer[r], peer[Other(r)].got, relays[r]) BY <1>1 DEF BridgeOK
    <3>2. peer'[Other(r)].got = peer[Other(r)].got BY <1>3, <2>5
    <3>3. QED BY <2>5, <2>6, <3>1, <3>2 DEF Passed
  <2>11. BridgeOK'
    <3>1. "browser" \in Sides BY DEF Sides
    <3>2. QED BY <2>3, <2>5, <2>6, <2>7, <2>10, <3>1 DEF BridgeOK
  <2>12. QED BY <2>8, <2>9, <2>11 DEF RelayInv
<1>8. ASSUME NEW s \in Sides,
             \/ PeerSends(s) \/ PeerLeaves(s) \/ TakesMessage(s) \/ PassesMessage(s) \/ SeesEnd(s)
      PROVE  RelayInv'
  <2>1. UNCHANGED relayOnly
    BY <1>8 DEF PeerSends, PeerLeaves, TakesMessage, PassesMessage, SeesEnd
  <2>2. QED BY <1>8, <2>1, BridgeNext
<1>9. CASE StatusAsked \/ HostChanges \/ StatusReported \/ \E p \in Paths : ProbeAnswered(p)
  <2>1. UNCHANGED <<relay, relays, peer>>
    BY <1>9 DEF StatusAsked, HostChanges, StatusReported, ProbeAnswered
  <2>2. QED BY <1>9, <2>1, ProbeNext
<1>10. CASE UNCHANGED relayVars
  BY <1>1, <1>10 DEF relayVars, RelayInv, RelayTypes, BridgeOK, ProbeOK
<1>11. QED BY <1>4, <1>5, <1>6, <1>7, <1>8, <1>9, <1>10 DEF RelayNext

\* Each side receives a beginning of what the other sent, in order; the close code
\* names the side that is to blame; and while one thing answers all requests of
\* a probe, the status names it (the relay and the status of the dashboard).
THEOREM RelayAlwaysKept == RelaySpec => []RelayKept
BY RelayInvInit, RelayInvNext, RelayInvKept, PTL DEF RelaySpec

-----------------------------------------------------------------------------
(* The installed service *)

Actions == {"install", "uninstall", "start", "stop", "restart", "status"}
Base(platform, action) ==
  IF platform = "launchd" THEN LaunchdSteps(action) ELSE SystemdSteps(action)
Plan(platform, action) == Base(platform, action) \o <<"status">>

StepNames ==
  {"write", "unload", "logs", "bootstrap", "bootstrap_or_kick", "remove", "installed", "reload",
   "try_reload", "enable", "disable", "start", "stop", "restart", "status"}

ServiceOK(s) ==
  /\ DOMAIN s = {"platform", "file", "loaded", "running", "enabled", "overlooked"}
  /\ s.platform \in {"launchd", "systemd"} /\ {s.file, s.loaded, s.running} \subseteq Nat

\* The steps to come are the last ones of the plan.
OnPlan(s, c) ==
  /\ c.action \in Actions /\ DOMAIN c = {"action", "steps"}
  /\ c.steps \in Seq(StepNames) /\ Len(c.steps) \in 1..Len(Plan(s.platform, c.action))
  /\ \A i \in 1..Len(c.steps) :
       c.steps[i] = Plan(s.platform, c.action)[Len(Plan(s.platform, c.action)) - Len(c.steps) + i]

\* What a command has done when n of its steps are left.
Delivered(s, action, n) ==
  /\ action = "install" /\ s.platform = "launchd" =>
       /\ n \in {1, 2, 3, 4} => s.file # 0
       /\ n = 1 => s.loaded = s.file
  /\ action = "install" /\ s.platform # "launchd" =>
       /\ n \in {1, 2, 3} => s.file # 0
       /\ n \in {1, 2} => s.loaded = s.file
  /\ action = "uninstall" /\ s.platform = "launchd" =>
       /\ n \in {1, 2} => s.loaded = 0 \/ s.overlooked
       /\ n = 1 => s.file = 0
  /\ action = "uninstall" /\ s.platform # "launchd" =>
       (n \in {1, 2} => s.file = 0)
  /\ action = "restart" /\ s.platform = "launchd" => (n = 1 => s.loaded = s.file)
  /\ action = "stop" => (n = 1 => s.running = 0 \/ (s.platform = "launchd" /\ s.overlooked))

Tame(s) ==
  s.platform = "launchd" => (s.loaded # 0 /\ s.file = 0 => s.overlooked) /\ s.running \in {0, s.loaded}

ServiceInv ==
  /\ ServiceOK(service) /\ Tame(service) /\ uses.definitions \in Nat
  /\ DOMAIN uses = {"commands", "definitions", "refusals", "exits"}
  /\ \/ command = Resting /\ CommandsDeliver
     \/ command # Resting /\ OnPlan(service, command) /\ Delivered(service, command.action, Len(command.steps))

\* The step a command is at tells what is left of it.
AtPoint(p, a, step, n) ==
  \/ /\ p = "launchd" /\ a = "install"
     /\ \/ step = "write" /\ n = 5
        \/ step = "unload" /\ n = 4
        \/ step = "logs" /\ n = 3
        \/ step = "bootstrap" /\ n = 2
  \/ p = "launchd" /\ a = "uninstall" /\ ((step = "unload" /\ n = 3) \/ (step = "remove" /\ n = 2))
  \/ p = "launchd" /\ a = "start" /\ ((step = "installed" /\ n = 3) \/ (step = "bootstrap_or_kick" /\ n = 2))
  \/ p = "launchd" /\ a = "stop" /\ ((step = "installed" /\ n = 3) \/ (step = "unload" /\ n = 2))
  \/ /\ p = "launchd" /\ a = "restart"
     /\ \/ step = "installed" /\ n = 4
        \/ step = "unload" /\ n = 3
        \/ step = "bootstrap" /\ n = 2
  \/ /\ p = "systemd" /\ a = "install"
     /\ \/ step = "write" /\ n = 4
        \/ step = "reload" /\ n = 3
        \/ step = "enable" /\ n = 2
  \/ /\ p = "systemd" /\ a = "uninstall"
     /\ \/ step = "disable" /\ n = 4
        \/ step = "remove" /\ n = 3
        \/ step = "try_reload" /\ n = 2
  \/ /\ p = "systemd" /\ a \in {"start", "stop", "restart"}
     /\ \/ step = "installed" /\ n = 3
        \/ step = a /\ n = 2

Long(p, a, n) ==
  /\ a = "install" => n = IF p = "launchd" THEN 4 ELSE 3
  /\ a = "uninstall" => n = IF p = "launchd" THEN 2 ELSE 3
  /\ a = "restart" /\ p = "launchd" => n = 3
  /\ a = "stop" => n = 2

LEMMA Bases ==
  ASSUME NEW p \in {"launchd", "systemd"}, NEW a \in Actions
  PROVE  /\ Base(p, a) \in Seq(StepNames) /\ Len(Base(p, a)) \in 0..4
         /\ Long(p, a, Len(Base(p, a)))
         /\ \A n \in 2..(Len(Base(p, a)) + 1) :
              AtPoint(p, a, Base(p, a)[Len(Base(p, a)) - n + 2], n)
<1> DEFINE base == Base(p, a)
<1>1. CASE p = "launchd" /\ a = "install"
  <2>1. base = <<"write", "unload", "logs", "bootstrap">> BY <1>1 DEF Base, LaunchdSteps
  <2>2. /\ Len(base) = 4 /\ base \in Seq(StepNames)
        /\ base[1] = "write" /\ base[2] = "unload" /\ base[3] = "logs" /\ base[4] = "bootstrap"
    BY <2>1 DEF StepNames
  <2> HIDE DEF base
  <2>3. ASSUME NEW n \in 2..(Len(base) + 1) PROVE AtPoint(p, a, base[Len(base) - n + 2], n)
    <3>1. n \in {2, 3, 4, 5} /\ Len(base) - n + 2 = 6 - n BY <2>2
    <3>2. QED BY <1>1, <2>2, <3>1 DEF AtPoint
  <2>4. QED BY <1>1, <2>2, <2>3 DEF base, Long
<1>2. CASE p = "launchd" /\ a = "uninstall"
  <2>1. base = <<"unload", "remove">> BY <1>2 DEF Base, LaunchdSteps
  <2>2. /\ Len(base) = 2 /\ base \in Seq(StepNames)
        /\ base[1] = "unload" /\ base[2] = "remove"
    BY <2>1 DEF StepNames
  <2> HIDE DEF base
  <2>3. ASSUME NEW n \in 2..(Len(base) + 1) PROVE AtPoint(p, a, base[Len(base) - n + 2], n)
    <3>1. n \in {2, 3} /\ Len(base) - n + 2 = 4 - n BY <2>2
    <3>2. QED BY <1>2, <2>2, <3>1 DEF AtPoint
  <2>4. QED BY <1>2, <2>2, <2>3 DEF base, Long
<1>3. CASE p = "launchd" /\ a = "start"
  <2>1. base = <<"installed", "bootstrap_or_kick">> BY <1>3 DEF Base, LaunchdSteps
  <2>2. /\ Len(base) = 2 /\ base \in Seq(StepNames)
        /\ base[1] = "installed" /\ base[2] = "bootstrap_or_kick"
    BY <2>1 DEF StepNames
  <2> HIDE DEF base
  <2>3. ASSUME NEW n \in 2..(Len(base) + 1) PROVE AtPoint(p, a, base[Len(base) - n + 2], n)
    <3>1. n \in {2, 3} /\ Len(base) - n + 2 = 4 - n BY <2>2
    <3>2. QED BY <1>3, <2>2, <3>1 DEF AtPoint
  <2>4. QED BY <1>3, <2>2, <2>3 DEF base, Long
<1>4. CASE p = "launchd" /\ a = "stop"
  <2>1. base = <<"installed", "unload">> BY <1>4 DEF Base, LaunchdSteps
  <2>2. /\ Len(base) = 2 /\ base \in Seq(StepNames)
        /\ base[1] = "installed" /\ base[2] = "unload"
    BY <2>1 DEF StepNames
  <2> HIDE DEF base
  <2>3. ASSUME NEW n \in 2..(Len(base) + 1) PROVE AtPoint(p, a, base[Len(base) - n + 2], n)
    <3>1. n \in {2, 3} /\ Len(base) - n + 2 = 4 - n BY <2>2
    <3>2. QED BY <1>4, <2>2, <3>1 DEF AtPoint
  <2>4. QED BY <1>4, <2>2, <2>3 DEF base, Long
<1>5. CASE p = "launchd" /\ a = "restart"
  <2>1. base = <<"installed", "unload", "bootstrap">> BY <1>5 DEF Base, LaunchdSteps
  <2>2. /\ Len(base) = 3 /\ base \in Seq(StepNames)
        /\ base[1] = "installed" /\ base[2] = "unload" /\ base[3] = "bootstrap"
    BY <2>1 DEF StepNames
  <2> HIDE DEF base
  <2>3. ASSUME NEW n \in 2..(Len(base) + 1) PROVE AtPoint(p, a, base[Len(base) - n + 2], n)
    <3>1. n \in {2, 3, 4} /\ Len(base) - n + 2 = 5 - n BY <2>2
    <3>2. QED BY <1>5, <2>2, <3>1 DEF AtPoint
  <2>4. QED BY <1>5, <2>2, <2>3 DEF base, Long
<1>6. CASE p = "launchd" /\ a = "status"
  <2>1. base = <<>> BY <1>6 DEF Base, LaunchdSteps
  <2>2. Len(base) = 0 /\ base \in Seq(StepNames) BY <2>1
  <2>3. QED BY <1>6, <2>2 DEF Long
<1>7. CASE p = "systemd" /\ a = "install"
  <2>1. base = <<"write", "reload", "enable">> BY <1>7 DEF Base, SystemdSteps
  <2>2. /\ Len(base) = 3 /\ base \in Seq(StepNames)
        /\ base[1] = "write" /\ base[2] = "reload" /\ base[3] = "enable"
    BY <2>1 DEF StepNames
  <2> HIDE DEF base
  <2>3. ASSUME NEW n \in 2..(Len(base) + 1) PROVE AtPoint(p, a, base[Len(base) - n + 2], n)
    <3>1. n \in {2, 3, 4} /\ Len(base) - n + 2 = 5 - n BY <2>2
    <3>2. QED BY <1>7, <2>2, <3>1 DEF AtPoint
  <2>4. QED BY <1>7, <2>2, <2>3 DEF base, Long
<1>8. CASE p = "systemd" /\ a = "uninstall"
  <2>1. base = <<"disable", "remove", "try_reload">> BY <1>8 DEF Base, SystemdSteps
  <2>2. /\ Len(base) = 3 /\ base \in Seq(StepNames)
        /\ base[1] = "disable" /\ base[2] = "remove" /\ base[3] = "try_reload"
    BY <2>1 DEF StepNames
  <2> HIDE DEF base
  <2>3. ASSUME NEW n \in 2..(Len(base) + 1) PROVE AtPoint(p, a, base[Len(base) - n + 2], n)
    <3>1. n \in {2, 3, 4} /\ Len(base) - n + 2 = 5 - n BY <2>2
    <3>2. QED BY <1>8, <2>2, <3>1 DEF AtPoint
  <2>4. QED BY <1>8, <2>2, <2>3 DEF base, Long
<1>9. CASE p = "systemd" /\ a = "start"
  <2>1. base = <<"installed", "start">> BY <1>9 DEF Base, SystemdSteps
  <2>2. /\ Len(base) = 2 /\ base \in Seq(StepNames)
        /\ base[1] = "installed" /\ base[2] = "start"
    BY <2>1 DEF StepNames
  <2> HIDE DEF base
  <2>3. ASSUME NEW n \in 2..(Len(base) + 1) PROVE AtPoint(p, a, base[Len(base) - n + 2], n)
    <3>1. n \in {2, 3} /\ Len(base) - n + 2 = 4 - n BY <2>2
    <3>2. QED BY <1>9, <2>2, <3>1 DEF AtPoint
  <2>4. QED BY <1>9, <2>2, <2>3 DEF base, Long
<1>10. CASE p = "systemd" /\ a = "stop"
  <2>1. base = <<"installed", "stop">> BY <1>10 DEF Base, SystemdSteps
  <2>2. /\ Len(base) = 2 /\ base \in Seq(StepNames)
        /\ base[1] = "installed" /\ base[2] = "stop"
    BY <2>1 DEF StepNames
  <2> HIDE DEF base
  <2>3. ASSUME NEW n \in 2..(Len(base) + 1) PROVE AtPoint(p, a, base[Len(base) - n + 2], n)
    <3>1. n \in {2, 3} /\ Len(base) - n + 2 = 4 - n BY <2>2
    <3>2. QED BY <1>10, <2>2, <3>1 DEF AtPoint
  <2>4. QED BY <1>10, <2>2, <2>3 DEF base, Long
<1>11. CASE p = "systemd" /\ a = "restart"
  <2>1. base = <<"installed", "restart">> BY <1>11 DEF Base, SystemdSteps
  <2>2. /\ Len(base) = 2 /\ base \in Seq(StepNames)
        /\ base[1] = "installed" /\ base[2] = "restart"
    BY <2>1 DEF StepNames
  <2> HIDE DEF base
  <2>3. ASSUME NEW n \in 2..(Len(base) + 1) PROVE AtPoint(p, a, base[Len(base) - n + 2], n)
    <3>1. n \in {2, 3} /\ Len(base) - n + 2 = 4 - n BY <2>2
    <3>2. QED BY <1>11, <2>2, <3>1 DEF AtPoint
  <2>4. QED BY <1>11, <2>2, <2>3 DEF base, Long
<1>12. CASE p = "systemd" /\ a = "status"
  <2>1. base = <<>> BY <1>12 DEF Base, SystemdSteps
  <2>2. Len(base) = 0 /\ base \in Seq(StepNames) BY <2>1
  <2>3. QED BY <1>12, <2>2 DEF Long
<1>13. QED BY <1>1, <1>2, <1>3, <1>4, <1>5, <1>6, <1>7, <1>8, <1>9, <1>10, <1>11, <1>12 DEF Actions

LEMMA Counts ==
  ASSUME NEW k \in 0..4, NEW n \in 1..(k + 1)
  PROVE  n \in 1..5 /\ (k + 1) - n + 1 = k - n + 2
         /\ (n # 1 => k - n + 2 \in 1..k /\ n \in 2..(k + 1))
OBVIOUS

LEMMA StepTells ==
  ASSUME NEW s, ServiceOK(s), NEW c, OnPlan(s, c), NEW step, c.steps[1] = step
  PROVE  /\ c.steps # <<>> /\ Len(c.steps) \in 1..5
         /\ IF Len(c.steps) = 1 THEN step = "status"
            ELSE AtPoint(s.platform, c.action, step, Len(c.steps))
<1> DEFINE base == Base(s.platform, c.action)
           plan == Plan(s.platform, c.action)
           n == Len(c.steps)
<1>1. s.platform \in {"launchd", "systemd"} /\ c.action \in Actions BY DEF ServiceOK, OnPlan
<1>2. /\ base \in Seq(StepNames) /\ Len(base) \in 0..4
      /\ \A m \in 2..(Len(base) + 1) :
           AtPoint(s.platform, c.action, base[Len(base) - m + 2], m)
  BY <1>1, Bases
<1>3. plan = base \o <<"status">> BY DEF Plan
<1>5. c.steps \in Seq(StepNames) /\ n \in 1..Len(plan) /\ step = plan[Len(plan) - n + 1]
  BY DEF OnPlan
<1> HIDE DEF base, plan
<1>4. /\ Len(plan) = Len(base) + 1 /\ plan[Len(base) + 1] = "status"
      /\ \A i \in 1..Len(base) : plan[i] = base[i]
  <2>1. <<"status">> \in Seq(StepNames) /\ Len(<<"status">>) = 1 /\ <<"status">>[1] = "status"
    BY DEF StepNames
  <2>2. QED BY <1>2, <1>3, <2>1, ConcatProperties
<1>6. n \in 1..(Len(base) + 1) /\ n \in 1..5 /\ step = plan[Len(base) - n + 2]
  <2>1. Len(base) \in 0..4 /\ Len(plan) = Len(base) + 1 /\ n \in 1..Len(plan) BY <1>2, <1>4, <1>5
  <2>2. Len(plan) - n + 1 = Len(base) - n + 2 /\ n \in 1..(Len(base) + 1) /\ n \in 1..5
    BY <2>1, Counts
  <2>3. QED BY <1>5, <2>2
<1>7. CASE n = 1 BY <1>2, <1>4, <1>5, <1>6, <1>7
<1>8. CASE n # 1
  <2>1. Len(base) - n + 2 \in 1..Len(base) /\ n \in 2..(Len(base) + 1)
    <3>1. Len(base) \in 0..4 BY <1>2
    <3>2. QED BY <1>6, <1>8, <3>1, Counts
  <2>2. step = base[Len(base) - n + 2] BY <1>4, <1>6, <2>1
  <2>3. AtPoint(s.platform, c.action, step, n) BY <1>2, <2>1, <2>2
  <2>4. c.steps # <<>> BY <1>5, <1>6
  <2>5. QED BY <1>6, <1>8, <2>3, <2>4
<1>9. QED BY <1>7, <1>8

\* A step that is done leaves the rest of the plan.
LEMMA GoesOn ==
  ASSUME NEW s, ServiceOK(s), NEW t, t.platform = s.platform, NEW c, OnPlan(s, c), Len(c.steps) > 1,
         NEW d, d = [c EXCEPT !.steps = Tail(@)]
  PROVE  OnPlan(t, d) /\ d.action = c.action /\ Len(d.steps) = Len(c.steps) - 1
<1>1. /\ c.steps \in Seq(StepNames) /\ DOMAIN c = {"action", "steps"} /\ c.steps # <<>>
      /\ Len(c.steps) \in Nat
  BY DEF OnPlan
<1>2. /\ Tail(c.steps) \in Seq(StepNames) /\ Len(Tail(c.steps)) = Len(c.steps) - 1
      /\ \A i \in 1..Len(Tail(c.steps)) : Tail(c.steps)[i] = c.steps[i + 1]
  BY <1>1, HeadTailProperties
<1>3. d.steps = Tail(c.steps) /\ d.action = c.action /\ DOMAIN d = {"action", "steps"} BY <1>1
<1> DEFINE plan == Plan(s.platform, c.action)
<1>4. Len(plan) \in Nat
  <2>1. Base(s.platform, c.action) \in Seq(StepNames) BY Bases DEF OnPlan, ServiceOK
  <2>2. plan \in Seq(StepNames)
    <3>1. <<"status">> \in Seq(StepNames) BY DEF StepNames
    <3>2. QED BY <2>1, <3>1, ConcatProperties DEF Plan
  <2>3. QED BY <2>2
<1>5. ASSUME NEW i \in 1..Len(d.steps) PROVE d.steps[i] = plan[Len(plan) - Len(d.steps) + i]
  <2>1. i + 1 \in 1..Len(c.steps) /\ d.steps[i] = c.steps[i + 1] BY <1>1, <1>2, <1>3, <1>5
  <2>2. c.steps[i + 1] = plan[Len(plan) - Len(c.steps) + (i + 1)] BY <2>1 DEF OnPlan
  <2>3. Len(plan) - Len(c.steps) + (i + 1) = Len(plan) - Len(d.steps) + i BY <1>1, <1>2, <1>3, <1>4
  <2>4. QED BY <2>1, <2>2, <2>3
<1>6. Len(d.steps) \in 1..Len(plan) BY <1>1, <1>2, <1>3, <1>4 DEF OnPlan
<1>7. QED BY <1>1, <1>2, <1>3, <1>5, <1>6 DEF OnPlan

LEMMA MoreThanOne ==
  ASSUME NEW n \in 1..5, n # 1
  PROVE  n > 1 /\ n - 1 \in {1, 2, 3, 4}
OBVIOUS

LEMMA NotResting ==
  ASSUME NEW s, NEW c, OnPlan(s, c)
  PROVE  c # Resting
BY DEF OnPlan, Resting, Actions

\* A step that is done, and one that ends the command.
LEMMA GoesKeeps ==
  ASSUME ServiceInv, command # Resting, Len(command.steps) > 1,
         NEW s, ServiceOK(s), Tame(s), s.platform = service.platform,
         Delivered(s, command.action, Len(command.steps) - 1),
         service' = s, command' = [command EXCEPT !.steps = Tail(@)],
         uses'.definitions \in Nat, DOMAIN uses' = DOMAIN uses
  PROVE  ServiceInv'
<1>1. ServiceOK(service) /\ OnPlan(service, command) BY DEF ServiceInv
<1>2. /\ OnPlan(s, command') /\ command'.action = command.action
      /\ Len(command'.steps) = Len(command.steps) - 1
  BY <1>1, GoesOn
<1>3. command' # Resting BY <1>2, NotResting
<1>4. /\ OnPlan(service, command)' /\ (command # Resting)'
      /\ Delivered(service, command.action, Len(command.steps))'
  BY <1>2, <1>3
<1>5. ServiceOK(service)' /\ Tame(service)' OBVIOUS
<1>6. QED BY <1>4, <1>5 DEF ServiceInv

LEMMA ThrowKeeps ==
  ASSUME ServiceInv, CommandThrows, service' = service,
         uses'.definitions = uses.definitions, DOMAIN uses' = DOMAIN uses
  PROVE  ServiceInv'
<1>1. command' = Resting /\ ~outcome'.ok BY DEF CommandThrows
<1>2. CommandsDeliver' BY <1>1 DEF CommandsDeliver, Done
<1>3. QED BY <1>1, <1>2 DEF ServiceInv

\* The point a step is at.
LEMMA PointOf ==
  ASSUME ServiceInv, NEW step, At(step)
  PROVE  /\ command # Resting /\ Len(command.steps) \in 1..5
         /\ Delivered(service, command.action, Len(command.steps))
         /\ IF Len(command.steps) = 1 THEN step = "status"
            ELSE AtPoint(service.platform, command.action, step, Len(command.steps))
<1>1. /\ ServiceOK(service) /\ OnPlan(service, command) /\ command # Resting
      /\ Delivered(service, command.action, Len(command.steps))
  BY DEF ServiceInv, At
<1>2. Head(command.steps) = command.steps[1] BY DEF OnPlan
<1>3. command.steps[1] = step BY <1>2 DEF At
<1>4. QED BY <1>1, <1>3, StepTells

LEMMA ServiceInvNext ==
  ASSUME ServiceInv, [ServiceNext]_serviceVars
  PROVE  ServiceInv'
<1> DEFINE s == service
           n == Len(command.steps)
<1>1. /\ ServiceOK(s) /\ Tame(s) /\ uses.definitions \in Nat
      /\ DOMAIN uses = {"commands", "definitions", "refusals", "exits"}
  BY DEF ServiceInv
<1>2. /\ DOMAIN s = {"platform", "file", "loaded", "running", "enabled", "overlooked"}
      /\ s.platform \in {"launchd", "systemd"}
      /\ s.file \in Nat /\ s.loaded \in Nat /\ s.running \in Nat
  BY <1>1 DEF ServiceOK
<1>3. Refused => uses'.definitions = uses.definitions /\ DOMAIN uses' = DOMAIN uses
  BY <1>1 DEF Refused
<1>4. CASE ServiceCommand
  <2>1. PICK action \in Actions :
          /\ command = Resting
          /\ command' = [action |-> action, steps |-> Plan(s.platform, action)]
          /\ uses' = [uses EXCEPT !.commands = @ + 1] /\ service' = s
    BY <1>4 DEF ServiceCommand, Actions, Plan, Base
  <2> DEFINE base == Base(s.platform, action)
  <2>2. base \in Seq(StepNames) /\ Len(base) \in 0..4 /\ Long(s.platform, action, Len(base))
    BY <1>2, Bases
  <2>3. /\ Plan(s.platform, action) \in Seq(StepNames)
        /\ Len(Plan(s.platform, action)) = Len(base) + 1
    <3>1. <<"status">> \in Seq(StepNames) /\ Len(<<"status">>) = 1 BY DEF StepNames
    <3> HIDE DEF base
    <3>2. Plan(s.platform, action) = base \o <<"status">> BY DEF Plan, base
    <3>3. QED BY <2>2, <3>1, <3>2, ConcatProperties
  <2> HIDE DEF base
  <2>4. OnPlan(s, command')
    <3> DEFINE plan == Plan(s.platform, action)
    <3>1. command'.steps = plan /\ command'.action = action /\ DOMAIN command' = {"action", "steps"}
      BY <2>1
    <3> HIDE DEF plan
    <3>2. plan \in Seq(StepNames) /\ Len(plan) = Len(base) + 1 BY <2>3 DEF plan
    <3>3. Len(plan) \in 1..Len(plan) BY <2>2, <3>2
    <3>4. \A i \in 1..Len(plan) : Len(plan) - Len(plan) + i = i BY <3>3
    <3>5. QED BY <3>1, <3>2, <3>3, <3>4 DEF OnPlan, plan
  <2>5. Delivered(s, action, Len(base) + 1)
    <3>1. ASSUME NEW k \in 0..4, Long(s.platform, action, k) PROVE Delivered(s, action, k + 1)
      BY <3>1 DEF Delivered, Long
    <3>2. QED BY <2>2, <3>1
  <2>6. command'.action = action /\ Len(command'.steps) = Len(base) + 1 BY <2>1, <2>3
  <2>7. command' # Resting BY <2>4, NotResting
  <2>8. (command # Resting /\ OnPlan(service, command) /\ Delivered(service, command.action, Len(command.steps)))'
    BY <2>1, <2>4, <2>5, <2>6, <2>7
  <2>9. uses'.definitions \in Nat /\ DOMAIN uses' = DOMAIN uses BY <1>1, <2>1
  <2>10. QED BY <1>1, <2>1, <2>8, <2>9 DEF ServiceInv
<1>5. CASE CommandFails BY <1>3, <1>5, ThrowKeeps DEF CommandFails
<1>6. CASE DefinitionWritten
  <2>1. At("write") BY <1>6 DEF DefinitionWritten
  <2>2. /\ command # Resting /\ n \in 1..5 /\ n # 1
        /\ AtPoint(s.platform, command.action, "write", n)
        /\ Delivered(s, command.action, n)
    BY <2>1, PointOf
  <2> DEFINE t == [s EXCEPT !.file = uses.definitions + 1]
  <2>3. /\ service' = t /\ command' = [command EXCEPT !.steps = Tail(@)]
        /\ uses'.definitions \in Nat /\ DOMAIN uses' = DOMAIN uses
    BY <1>1, <1>6 DEF DefinitionWritten
  <2>4. /\ DOMAIN t = DOMAIN s /\ t.platform = s.platform /\ t.file = uses.definitions + 1 /\ t.overlooked = s.overlooked
        /\ t.loaded = s.loaded /\ t.running = s.running
    BY <1>2
  <2> HIDE DEF t
  <2>5. t.file \in Nat /\ t.file # 0 BY <1>1, <2>4
  <2>6. ServiceOK(t) /\ Tame(t)
    <3>1. ServiceOK(t) BY <1>2, <2>4, <2>5 DEF ServiceOK
    <3>2. Tame(t) BY <1>1, <2>4, <2>5 DEF Tame
    <3>3. QED BY <3>1, <3>2
  <2>7. Delivered(t, command.action, n - 1)
    <3>1. ASSUME NEW m, AtPoint(s.platform, command.action, "write", m)
          PROVE  Delivered(t, command.action, m - 1)
      BY <2>4, <2>5, <3>1 DEF AtPoint, Delivered
    <3>2. QED BY <2>2, <3>1
  <2>8. n > 1 BY <2>2, MoreThanOne
  <2>9. QED BY <2>2, <2>3, <2>4, <2>6, <2>7, <2>8, GoesKeeps
<1>7. ASSUME NEW step, At(step), step # "status", NEW t, Goes(t), ServiceOK(t), Tame(t),
             t.platform = s.platform,
             AtPoint(s.platform, command.action, step, n) /\ Delivered(s, command.action, n)
               => Delivered(t, command.action, n - 1)
      PROVE  ServiceInv'
  <2>1. /\ command # Resting /\ n \in 1..5 /\ n # 1
        /\ AtPoint(s.platform, command.action, step, n) /\ Delivered(s, command.action, n)
    BY <1>7, PointOf
  <2>2. n > 1 BY <2>1, MoreThanOne
  <2>3. /\ service' = t /\ command' = [command EXCEPT !.steps = Tail(@)] /\ uses' = uses
    BY <1>7 DEF Goes
  <2>4. QED BY <1>1, <1>7, <2>1, <2>2, <2>3, GoesKeeps
<1> DEFINE Fits(t) == ServiceOK(t) /\ Tame(t) /\ t.platform = s.platform
<1>8. ServiceOK(s) /\ Fits(s) BY <1>1
<1>9. CASE DefinitionLookedFor
  <2>1. CASE service.file # 0
    <3>1. At("installed") /\ Goes(s) BY <1>9, <2>1 DEF DefinitionLookedFor
    <3>2. AtPoint(s.platform, command.action, "installed", n) => Delivered(s, command.action, n - 1)
      BY DEF AtPoint, Delivered
    <3>3. QED BY <1>7, <1>8, <3>1, <3>2
  <2>2. CASE service.file = 0
    BY <1>9, <2>2, ThrowKeeps DEF DefinitionLookedFor
  <2>3. QED BY <2>1, <2>2
<1>10. CASE DefinitionRemoved
  <2> DEFINE t == [s EXCEPT !.file = 0]
  <2>1. At("remove") /\ Goes(t) BY <1>10 DEF DefinitionRemoved
  <2>2. /\ DOMAIN t = DOMAIN s /\ t.platform = s.platform /\ t.file = 0 /\ t.overlooked = s.overlooked
        /\ t.loaded = s.loaded /\ t.running = s.running
    BY <1>2
  <2> HIDE DEF t
  <2>3. /\ command # Resting /\ n \in 1..5 /\ n # 1
        /\ AtPoint(s.platform, command.action, "remove", n) /\ Delivered(s, command.action, n)
    BY <2>1, PointOf
  <2>4. ServiceOK(t) BY <1>1, <1>2, <2>2 DEF ServiceOK
  <2>5. Tame(t) BY <1>1, <1>2, <2>2, <2>3 DEF AtPoint, Delivered, Tame
  <2>6. Delivered(t, command.action, n - 1) BY <2>2, <2>3 DEF AtPoint, Delivered
  <2>7. QED BY <1>7, <2>1, <2>2, <2>4, <2>5, <2>6
<1>11. CASE LogsPrepared
  <2>1. At("logs") /\ Goes(s) BY <1>11 DEF LogsPrepared
  <2>2. AtPoint(s.platform, command.action, "logs", n) /\ Delivered(s, command.action, n)
          => Delivered(s, command.action, n - 1)
    BY DEF AtPoint, Delivered
  <2>3. QED BY <1>7, <1>8, <2>1, <2>2
<1>12. CASE Unloaded
  <2> DEFINE t == [s EXCEPT !.loaded = 0, !.running = 0, !.overlooked = FALSE]
  <2>1. /\ DOMAIN t = DOMAIN s /\ t.platform = s.platform /\ t.file = s.file
        /\ t.loaded = 0 /\ t.running = 0
    BY <1>2
  <2>2. At("unload") /\ (Goes(t) \/ (CommandThrows /\ UNCHANGED <<service, uses>>))
    BY <1>12 DEF Unloaded
  <2> HIDE DEF t
  <2>3. ServiceOK(t) /\ Tame(t) BY <1>1, <1>2, <2>1 DEF ServiceOK, Tame
  <2>4. AtPoint(s.platform, command.action, "unload", n) /\ Delivered(s, command.action, n)
          => Delivered(t, command.action, n - 1)
    BY <2>1 DEF AtPoint, Delivered
  <2>5. CASE Goes(t) BY <1>7, <2>1, <2>2, <2>3, <2>4, <2>5
  <2>6. CASE CommandThrows /\ UNCHANGED <<service, uses>> BY <2>6, ThrowKeeps
  <2>7. QED BY <2>2, <2>5, <2>6
<1>27. CASE UnloadIgnored
  <2> DEFINE t == [s EXCEPT !.overlooked = s.loaded # 0]
  <2>1. /\ At("unload") /\ Refused /\ service' = t /\ command' = [command EXCEPT !.steps = Tail(@)]
    BY <1>27 DEF UnloadIgnored
  <2>2. /\ DOMAIN t = DOMAIN s /\ t.platform = s.platform /\ t.file = s.file
        /\ t.loaded = s.loaded /\ t.running = s.running 
        /\ t.overlooked \/ t.loaded = 0
    BY <1>2
  <2> HIDE DEF t
  <2>3. ServiceOK(t) /\ Tame(t) /\ (s.platform = "launchd" => t.running = 0 \/ t.overlooked)
    BY <1>1, <1>2, <2>2 DEF ServiceOK, Tame
  <2>4. /\ command # Resting /\ n \in 1..5 /\ n # 1 /\ Delivered(s, command.action, n)
        /\ AtPoint(s.platform, command.action, "unload", n)
    BY <2>1, PointOf
  <2>5. n > 1 BY <2>4, MoreThanOne
  <2>6. Delivered(t, command.action, n - 1)
    <3>1. ASSUME NEW m, AtPoint(s.platform, command.action, "unload", m), Delivered(s, command.action, m)
          PROVE  Delivered(t, command.action, m - 1)
      BY <2>2, <2>3, <3>1 DEF AtPoint, Delivered
    <3>2. QED BY <2>4, <3>1
  <2>7. QED BY <1>1, <1>3, <2>1, <2>2, <2>3, <2>4, <2>5, <2>6, GoesKeeps
<1>13. CASE Bootstrapped
  <2>1. CASE s.loaded = 0
    <3> DEFINE t == Loaded(s)
    <3>1. At("bootstrap") /\ Goes(t) BY <1>13, <2>1 DEF Bootstrapped
    <3>2. /\ DOMAIN t = DOMAIN s /\ t.platform = s.platform /\ t.file = s.file /\ t.overlooked = s.overlooked
          /\ t.loaded = s.file /\ t.running = s.file
      BY <1>2 DEF Loaded
    <3> HIDE DEF t
    <3>3. ServiceOK(t) /\ Tame(t) BY <1>1, <1>2, <3>2 DEF ServiceOK, Tame
    <3>4. AtPoint(s.platform, command.action, "bootstrap", n) /\ Delivered(s, command.action, n)
            => Delivered(t, command.action, n - 1)
      BY <3>2 DEF AtPoint, Delivered
    <3>5. QED BY <1>7, <3>1, <3>2, <3>3, <3>4
  <2>2. CASE s.loaded # 0 BY <1>13, <2>2, ThrowKeeps DEF Bootstrapped
  <2>3. QED BY <2>1, <2>2
<1>14. CASE BootstrappedOrKicked
  <2> DEFINE t == IF s.loaded = 0 THEN Loaded(s) ELSE [s EXCEPT !.running = s.loaded]
  <2>1. At("bootstrap_or_kick") /\ Goes(t) BY <1>14 DEF BootstrappedOrKicked
  <2>2. /\ DOMAIN t = DOMAIN s /\ t.platform = s.platform /\ t.file = s.file /\ t.overlooked = s.overlooked
        /\ t.loaded \in {s.loaded, s.file} /\ t.running = t.loaded
    BY <1>2 DEF Loaded
  <2> HIDE DEF t
  <2>3. ServiceOK(t) /\ Tame(t) BY <1>1, <1>2, <2>2 DEF ServiceOK, Tame
  <2>4. AtPoint(s.platform, command.action, "bootstrap_or_kick", n)
          => Delivered(t, command.action, n - 1)
    BY <2>2 DEF AtPoint, Delivered
  <2>5. QED BY <1>7, <2>1, <2>2, <2>3, <2>4
<1>15. CASE Reloaded
  <2> DEFINE t == [s EXCEPT !.loaded = service.file]
  <2>1. PICK step \in {"reload", "try_reload"} : At(step) /\ Goes(t) BY <1>15 DEF Reloaded
  <2>2. /\ DOMAIN t = DOMAIN s /\ t.platform = s.platform /\ t.file = s.file /\ t.overlooked = s.overlooked
        /\ t.loaded = s.file /\ t.running = s.running
    BY <1>2
  <2> HIDE DEF t
  <2>3. /\ n \in 1..5 /\ n # 1 /\ Delivered(s, command.action, n)
        /\ AtPoint(s.platform, command.action, step, n)
    BY <2>1, PointOf
  <2>4. s.platform = "systemd" BY <2>1, <2>3 DEF AtPoint
  <2>5. ServiceOK(t) /\ Tame(t) BY <1>2, <2>2, <2>4 DEF ServiceOK, Tame
  <2>6. Delivered(t, command.action, n - 1) BY <2>1, <2>2, <2>3 DEF AtPoint, Delivered
  <2>7. step # "status" BY <2>1
  <2>8. QED BY <1>7, <2>1, <2>2, <2>5, <2>6, <2>7
<1>16. CASE ReloadIgnored \/ DisableIgnored
  <2>1. PICK step \in {"try_reload", "disable"} :
          /\ At(step) /\ Refused /\ service' = s /\ command' = [command EXCEPT !.steps = Tail(@)]
    BY <1>16 DEF ReloadIgnored, DisableIgnored
  <2>2. /\ command # Resting /\ n \in 1..5 /\ n # 1 /\ Delivered(s, command.action, n)
        /\ AtPoint(s.platform, command.action, step, n)
    BY <2>1, PointOf
  <2>3. n > 1 BY <2>2, MoreThanOne
  <2>4. Delivered(s, command.action, n - 1)
    <3>1. ASSUME NEW m, AtPoint(s.platform, command.action, step, m), Delivered(s, command.action, m)
          PROVE  Delivered(s, command.action, m - 1)
      BY <2>1, <3>1 DEF AtPoint, Delivered
    <3>2. QED BY <2>2, <3>1
  <2>5. QED BY <1>1, <1>3, <2>1, <2>2, <2>3, <2>4, GoesKeeps
<1>17. CASE Enabled
  <2> DEFINE t == [s EXCEPT !.enabled = TRUE]
  <2>1. At("enable") /\ Goes(t) BY <1>17 DEF Enabled
  <2>2. /\ DOMAIN t = DOMAIN s /\ t.platform = s.platform /\ t.file = s.file /\ t.overlooked = s.overlooked
        /\ t.loaded = s.loaded /\ t.running = s.running
    BY <1>2
  <2> HIDE DEF t
  <2>3. ServiceOK(t) /\ Tame(t) BY <1>1, <1>2, <2>2 DEF ServiceOK, Tame
  <2>4. AtPoint(s.platform, command.action, "enable", n) /\ Delivered(s, command.action, n)
          => Delivered(t, command.action, n - 1)
    BY <2>2 DEF AtPoint, Delivered
  <2>5. QED BY <1>7, <2>1, <2>2, <2>3, <2>4
<1>18. CASE Disabled
  <2> DEFINE t == [s EXCEPT !.enabled = FALSE, !.running = 0]
  <2>1. At("disable") /\ Goes(t) BY <1>18 DEF Disabled
  <2>2. /\ DOMAIN t = DOMAIN s /\ t.platform = s.platform /\ t.file = s.file /\ t.overlooked = s.overlooked
        /\ t.loaded = s.loaded /\ t.running = 0
    BY <1>2
  <2> HIDE DEF t
  <2>3. ServiceOK(t) /\ Tame(t) BY <1>1, <1>2, <2>2 DEF ServiceOK, Tame
  <2>4. AtPoint(s.platform, command.action, "disable", n) /\ Delivered(s, command.action, n)
          => Delivered(t, command.action, n - 1)
    BY <2>2 DEF AtPoint, Delivered
  <2>5. QED BY <1>7, <2>1, <2>2, <2>3, <2>4
\* The units of systemd.
<1>19. ASSUME NEW step \in {"start", "stop", "restart"}, At(step),
              NEW running \in Nat, step = "stop" => running = 0,
              Goes([s EXCEPT !.running = running])
       PROVE  ServiceInv'
  <2> DEFINE t == [s EXCEPT !.running = running]
  <2>1. /\ DOMAIN t = DOMAIN s /\ t.platform = s.platform /\ t.file = s.file /\ t.overlooked = s.overlooked
        /\ t.loaded = s.loaded /\ t.running = running
    BY <1>2
  <2>2. Goes(t) /\ step # "status" BY <1>19
  <2> HIDE DEF t
  <2>3. AtPoint(s.platform, command.action, step, n) BY <1>19, <2>2, PointOf
  <2>4. s.platform = "systemd" BY <1>19, <2>3 DEF AtPoint
  <2>5. ServiceOK(t) /\ Tame(t) BY <1>1, <1>2, <1>19, <2>1, <2>4 DEF ServiceOK, Tame
  <2>6. AtPoint(s.platform, command.action, step, n) /\ Delivered(s, command.action, n)
          => Delivered(t, command.action, n - 1)
    BY <1>19, <2>1 DEF AtPoint, Delivered
  <2>7. QED BY <1>7, <1>19, <2>1, <2>2, <2>5, <2>6
<1>20. CASE UnitStarted
  <2>1. CASE s.loaded = 0 BY <1>20, <2>1, ThrowKeeps DEF UnitStarted
  <2>2. CASE s.loaded # 0
    <3>1. At("start") /\ Goes([s EXCEPT !.running = IF @ = 0 THEN s.loaded ELSE @])
      BY <1>20, <2>2 DEF UnitStarted
    <3>2. PICK running \in Nat : Goes([s EXCEPT !.running = running]) BY <1>2, <3>1
    <3>3. QED BY <1>19, <3>1, <3>2
  <2>3. QED BY <2>1, <2>2
<1>21. CASE UnitStopped BY <1>19, <1>21 DEF UnitStopped
<1>22. CASE UnitRestarted
  <2>1. CASE s.loaded = 0 BY <1>22, <2>1, ThrowKeeps DEF UnitRestarted
  <2>2. CASE s.loaded # 0 BY <1>2, <1>19, <1>22, <2>2 DEF UnitRestarted
  <2>3. QED BY <2>1, <2>2
<1>23. CASE StatusTold
  <2>1. At("status") BY <1>23 DEF StatusTold
  <2>2. /\ command # Resting /\ n \in 1..5 /\ Delivered(s, command.action, n)
        /\ n # 1 => AtPoint(s.platform, command.action, "status", n)
    BY <2>1, PointOf
  <2>3. n = 1 BY <2>2 DEF AtPoint
  <2>4. /\ service' = s /\ uses' = uses /\ command' = Resting
        /\ outcome'.ok /\ outcome'.action = command.action
    BY <1>23 DEF StatusTold
  <2>5. Delivered(s, command.action, 1) BY <2>2, <2>3
  <2>6. CommandsDeliver' BY <1>1, <1>2, <2>4, <2>5 DEF CommandsDeliver, Done, Launchd, Delivered
  <2>7. QED BY <1>1, <2>4, <2>6 DEF ServiceInv
<1>24. CASE ProcessEnds
  <2>1. PICK next \in {0, s.loaded} :
          /\ service' = [s EXCEPT !.running = next] /\ s.running # 0
          /\ uses' = [uses EXCEPT !.exits = @ + 1] /\ UNCHANGED <<command, outcome>>
    BY <1>24 DEF ProcessEnds
  <2> DEFINE t == [s EXCEPT !.running = next]
  <2>2. /\ DOMAIN t = DOMAIN s /\ t.platform = s.platform /\ t.file = s.file /\ t.overlooked = s.overlooked
        /\ t.loaded = s.loaded /\ t.running = next
    BY <1>2
  <2>3. service' = t BY <2>1
  <2> HIDE DEF t
  <2>4. ServiceOK(t) /\ Tame(t) BY <1>1, <1>2, <2>1, <2>2 DEF ServiceOK, Tame
  <2>5. uses'.definitions \in Nat /\ DOMAIN uses' = DOMAIN uses BY <1>1, <2>1
  <2>6. CASE command = Resting
    <3>1. CommandsDeliver BY <2>6, NotResting DEF ServiceInv
    <3>2. CommandsDeliver'
      BY <2>1, <2>2, <2>3, <2>6, <3>1 DEF CommandsDeliver, Done, Launchd
    <3>3. QED BY <1>1, <2>1, <2>3, <2>4, <2>5, <2>6, <3>2 DEF ServiceInv
  <2>7. CASE command # Resting
    <3>1. OnPlan(s, command) /\ Delivered(s, command.action, n) BY <2>7 DEF ServiceInv
    <3>2. OnPlan(t, command) BY <2>2, <3>1 DEF OnPlan
    <3>3. Delivered(t, command.action, n) BY <2>1, <2>2, <3>1 DEF Delivered
    <3>4. QED BY <1>1, <2>1, <2>3, <2>4, <2>5, <2>7, <3>2, <3>3 DEF ServiceInv
  <2>8. QED BY <2>6, <2>7
<1>25. CASE UNCHANGED serviceVars
  BY <1>25 DEF serviceVars, ServiceInv, CommandsDeliver, Done, Launchd
<1>26. QED
  BY <1>4, <1>5, <1>6, <1>9, <1>10, <1>11, <1>12, <1>13, <1>14, <1>15, <1>16, <1>17, <1>18,
     <1>20, <1>21, <1>22, <1>23, <1>24, <1>25, <1>27 DEF ServiceNext

LEMMA ServiceInvInit == ServiceInit => ServiceInv
<1> SUFFICES ASSUME ServiceInit PROVE ServiceInv OBVIOUS
<1>1. /\ DOMAIN service = {"platform", "file", "loaded", "running", "enabled", "overlooked"}
      /\ service.platform \in {"launchd", "systemd"} /\ service.file = 0
      /\ service.loaded = 0 /\ service.running = 0
  BY DEF ServiceInit
<1>2. ServiceOK(service) /\ Tame(service) BY <1>1 DEF ServiceOK, Tame
<1>3. CommandsDeliver BY DEF ServiceInit, CommandsDeliver, Done
<1>4. QED BY <1>2, <1>3 DEF ServiceInit, ServiceInv

LEMMA ServiceInvKept == ServiceInv => ServiceKept
<1> SUFFICES ASSUME ServiceInv PROVE ServiceKept OBVIOUS
<1>1. NoOrphanService BY DEF ServiceInv, Tame, NoOrphanService, Launchd
<1>2. CommandsDeliver BY DEF ServiceInv, CommandsDeliver, Done
<1>3. QED BY <1>1, <1>2 DEF ServiceKept

\* Whatever command fails or is interrupted half-way, launchd keeps a service whose
\* definition is gone only where a failed bootout was ignored, and a command that reports
\* success left the service as it says but for that (service-manager.ts).
THEOREM ServiceAlwaysKept == ServiceSpec => []ServiceKept
BY ServiceInvInit, ServiceInvNext, ServiceInvKept, PTL DEF ServiceSpec
=============================================================================
