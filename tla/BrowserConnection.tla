-------------------------- MODULE BrowserConnection --------------------------
(***************************************************************************)
(* The browser's connection to the gateway: the client, which has one      *)
(* socket at a time, and the supervisor, which retries.  An event of the   *)
(* page runs to its end, its awaited continuations included; the sockets   *)
(* themselves and the gateway behind them are external.                    *)
(***************************************************************************)
EXTENDS Integers, FiniteSets

CONSTANTS
  MaxSockets, \* bounds: sockets of the page,
  MaxGens,    \* attempts after which the URL is always found,
  MaxForced,  \* clicks on "Reconnect now",
  MaxGaveUp   \* forced reconnects that stop waiting for the old socket

ASSUME PageAssumption == {MaxSockets, MaxGens, MaxForced, MaxGaveUp} \subseteq Nat

VARIABLES
  page,   \* the fields of the client and of the supervisor
  wire,   \* the state of every socket
  forcing, \* sockets whose end a forced reconnect waits for
  leaving, \* sockets whose end disconnect() waits for
  clicks  \* forced reconnects so far: those that gave up waiting, and those
          \* whose old socket ended without the client saying so

pageVars == <<page, wire, forcing, leaving, clicks>>

Sockets == 1..MaxSockets

\* "attempt" is the connection being opened: awaiting its URL (socket 0), or
\* the session on its socket.
NoAttempt == [open |-> FALSE, socket |-> 0, gen |-> 0]
PageInit ==
  /\ page = [state |-> "idle", socket |-> 0, gen |-> 0, session |-> FALSE, attempt |-> NoAttempt,
             supervisor |-> "idle", connecting |-> FALSE, timer |-> FALSE, stopped |-> FALSE,
             intentional |-> FALSE]
  /\ wire = [s \in Sockets |-> [state |-> "new", gen |-> 0]]
  /\ forcing = {} /\ leaving = {}
  /\ clicks = [forced |-> 0, gaveUp |-> 0, missed |-> 0]

Live(s) == wire[s].state \in {"connecting", "open"}
Connected(p) == p.state = "ready" /\ p.socket # 0 /\ wire[p.socket].state = "open"
IsCurrent(s) == page.socket = s /\ page.gen = wire[s].gen
Closing(s) == [wire EXCEPT ![s].state = IF Live(s) THEN "closing" ELSE @]

(* The supervisor *)

\* runAttempt, and the connect() it calls up to its first await.
RunsAttempt(p) ==
  IF p.stopped \/ p.connecting \/ Connected(p) THEN p
  ELSE [p EXCEPT !.timer = FALSE, !.connecting = TRUE, !.supervisor = "connecting",
                 !.state = "connecting", !.gen = @ + 1,
                 !.attempt = [open |-> TRUE, socket |-> 0, gen |-> p.gen + 1]]

Schedules(p) ==
  IF p.stopped \/ p.timer THEN p ELSE [p EXCEPT !.timer = TRUE, !.supervisor = "reconnecting"]

AttemptSucceeds(p) ==
  [p EXCEPT !.attempt = NoAttempt, !.connecting = FALSE, !.supervisor = "connected"]

AttemptFails(p) ==
  Schedules([p EXCEPT !.state = IF p.attempt.gen = p.gen /\ @ # "closed" THEN "failed" ELSE @,
                      !.attempt = NoAttempt, !.connecting = FALSE])

\* Mutant: only a session that never was is retried here.
HandlesCloseNever(p) == [p EXCEPT !.intentional = FALSE]

HandlesClose(p) ==
  IF p.stopped THEN p
  ELSE IF p.intentional THEN [p EXCEPT !.intentional = FALSE]
  ELSE IF p.supervisor # "connected" THEN p
  ELSE Schedules(p)

(* The client *)

Starts ==
  /\ page.supervisor = "idle" /\ ~page.stopped
  /\ page' = RunsAttempt(page)
  /\ UNCHANGED <<wire, forcing, leaving, clicks>>

TimerFires ==
  /\ page.timer
  /\ page' = RunsAttempt([page EXCEPT !.timer = FALSE])
  /\ UNCHANGED <<wire, forcing, leaving, clicks>>

AwaitsUrl == page.attempt.open /\ page.attempt.socket = 0
Unused == {s \in Sockets : wire[s].state = "new"}

\* An attempt that was overtaken by a disconnect opens no socket.
UrlResolves ==
  /\ AwaitsUrl /\ Unused # {}
  /\ IF page.attempt.gen # page.gen
     THEN page' = AttemptFails(page) /\ UNCHANGED wire
     ELSE LET s == CHOOSE x \in Unused : \A y \in Unused : x <= y
          IN  /\ page' = [page EXCEPT !.socket = s, !.attempt.socket = s]
              /\ wire' = [wire EXCEPT ![s] = [state |-> "connecting", gen |-> page.gen]]
  /\ UNCHANGED <<forcing, leaving, clicks>>

UrlFails ==
  /\ AwaitsUrl /\ page.gen < MaxGens
  /\ page' = AttemptFails(page)
  /\ UNCHANGED <<wire, forcing, leaving, clicks>>

SocketOpens(s) ==
  /\ wire[s].state = "connecting"
  /\ wire' = [wire EXCEPT ![s].state = "open"]
  /\ page' = IF IsCurrent(s) THEN [page EXCEPT !.state = "starting"] ELSE page
  /\ UNCHANGED <<forcing, leaving, clicks>>

\* session.ready, on a socket that has not said it yet.
SessionReady(s) ==
  /\ wire[s].state = "open" /\ IsCurrent(s) /\ page.state = "starting"
  /\ page' = LET p == [page EXCEPT !.session = TRUE, !.state = "ready"]
             IN  IF page.attempt.socket = s THEN AttemptSucceeds(p) ELSE p
  /\ UNCHANGED <<wire, forcing, leaving, clicks>>

\* session.error before the session is ready, or an invalid message.
StartupRejected(s) ==
  /\ wire[s].state = "open" /\ IsCurrent(s)
  /\ page' = IF page.attempt.socket = s THEN AttemptFails(page) ELSE page
  /\ wire' = Closing(s)
  /\ UNCHANGED <<forcing, leaving, clicks>>

ConnectTimesOut ==
  /\ page.attempt.socket # 0
  /\ page' = AttemptFails(page)
  /\ wire' = Closing(page.attempt.socket)
  /\ UNCHANGED <<forcing, leaving, clicks>>

Emptied(p) == [p EXCEPT !.socket = 0, !.session = FALSE, !.state = "closed"]

\* A socket ends: lost, refused, or closed by either side.  Only the current
\* one is told to the supervisor.  A forced reconnect goes on from here.
SocketCloses(s) ==
  /\ wire[s].state \in {"connecting", "open", "closing"}
  /\ wire' = [wire EXCEPT ![s].state = "closed"]
  /\ LET told == IF IsCurrent(s) THEN HandlesClose(Emptied(page)) ELSE page
         ended == IF IsCurrent(s) /\ page.attempt.socket = s THEN AttemptFails(told) ELSE told
     IN  page' = IF s \in forcing THEN RunsAttempt(ended) ELSE ended
  /\ forcing' = forcing \ {s} /\ leaving' = leaving \ {s}
  /\ clicks' = IF s \in forcing /\ ~IsCurrent(s) THEN [clicks EXCEPT !.missed = @ + 1] ELSE clicks

\* "Reconnect now", up to the wait for the end of the old socket.
ForcesReconnect ==
  /\ clicks.forced < MaxForced /\ ~page.stopped
  /\ clicks' = [clicks EXCEPT !.forced = @ + 1]
  /\ LET p == [page EXCEPT !.timer = FALSE]
     IN  IF page.connecting THEN page' = p /\ UNCHANGED <<wire, forcing, leaving>>
         ELSE IF page.socket = 0
         THEN page' = RunsAttempt(p) /\ UNCHANGED <<wire, forcing, leaving>>
         ELSE /\ page' = [p EXCEPT !.intentional = TRUE, !.state = "closing"]
              /\ wire' = IF wire[page.socket].state = "open" THEN wire ELSE Closing(page.socket)
              /\ forcing' = forcing \cup {page.socket} /\ leaving' = leaving \cup {page.socket}

\* Two seconds without an answer: the old socket is closed here, and the next
\* one opened at once.
StopsWaiting(s) ==
  /\ s \in forcing /\ clicks.gaveUp < MaxGaveUp
  /\ clicks' = [clicks EXCEPT !.gaveUp = @ + 1, !.missed = @ + 1]
  /\ forcing' = forcing \ {s}
  /\ wire' = IF page.socket # 0 THEN Closing(page.socket) ELSE wire
  /\ page' = RunsAttempt(page)
  /\ UNCHANGED leaving

\* Ten seconds later disconnect() gives up as well.
DisconnectTimesOut(s) ==
  /\ s \in leaving \ forcing
  /\ leaving' = leaving \ {s}
  /\ wire' = Closing(s)
  /\ page' = IF page.socket = s THEN HandlesClose(Emptied([page EXCEPT !.gen = @ + 1])) ELSE page
  /\ UNCHANGED <<forcing, clicks>>

StopsForGood ==
  /\ ~page.stopped
  /\ page' = [page EXCEPT !.stopped = TRUE, !.timer = FALSE, !.supervisor = "stopped"]
  /\ UNCHANGED <<wire, forcing, leaving, clicks>>

PageNext ==
  \/ Starts \/ TimerFires \/ UrlResolves \/ UrlFails \/ ConnectTimesOut
  \/ ForcesReconnect \/ StopsForGood
  \/ \E s \in Sockets : \/ SocketOpens(s) \/ SessionReady(s) \/ StartupRejected(s)
                        \/ SocketCloses(s) \/ StopsWaiting(s) \/ DisconnectTimesOut(s)

PageSpec == PageInit /\ [][PageNext]_pageVars

-----------------------------------------------------------------------------
\* Something will bring the connection back, or notice that it is gone.
Tended ==
  \/ page.connecting \/ page.timer \/ forcing # {}
  \/ page.supervisor = "connected" /\ page.socket # 0 /\ IsCurrent(page.socket)

\* Whatever order losses, timeouts and clicks come in, the page never opens a
\* second socket while one is in use ("Never opens a second socket").
OneSocket == Cardinality({s \in Sockets : Live(s)}) <= 1

\* A page that is not connected is always on its way to be, unless a forced
\* reconnect missed the end of the old socket (see NeverStranded).
StrandedByForce ==
  page.supervisor # "idle" /\ ~page.stopped /\ ~Tended => clicks.missed > 0

ReconnectKept == OneSocket /\ StrandedByForce

\* "a lost live session starts a fresh reconnect cycle"
\* (connection-supervisor.js:282-283).  No run checks this: it fails.  A
\* forced reconnect that stops waiting, or that waits for a socket of an older
\* attempt, leaves intentionalClose set, since the client does not report the
\* end of that socket; the next loss is then taken for intended, and the page
\* stays "connected" to nothing.
NeverStranded == page.supervisor # "idle" /\ ~page.stopped => Tended
=============================================================================
