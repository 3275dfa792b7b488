---------------------------- MODULE GatewayServer ----------------------------
(***************************************************************************)
(* The gateway's process around its sessions: what a start takes and gives *)
(* back when it fails or is interrupted, which sockets become sessions,    *)
(* how a client that vanished is noticed, and the order of a shutdown.     *)
(***************************************************************************)
EXTENDS Integers, FiniteSets

CONSTANTS
  Clients,
  MaxSessions,
  MaxReturns  \* bound: how often a client may come back

ASSUME ServerAssumption ==
  IsFiniteSet(Clients) /\ MaxSessions \in Nat \ {0} /\ MaxReturns \in Nat

VARIABLES
  server,  \* where startServer or close() is, and what either met
  holds,   \* what the process holds: task state, watches, ports
  peer,    \* the socket of every client and its keepalive
  session  \* the session behind it

serverVars == <<server, holds, peer, session>>

NoClient == [socket |-> "none", there |-> TRUE, alive |-> TRUE, missed |-> 0,
             dismissed |-> FALSE, returns |-> 0]

ServerInit ==
  /\ server = [at |-> "initializing", aborted |-> FALSE, awaited |-> {}, failed |-> FALSE]
  /\ holds = [tasks |-> "opening", monitor |-> "none", http |-> "none", upgrades |-> FALSE]
  /\ peer = [c \in Clients |-> NoClient]
  /\ session = [c \in Clients |-> "none"]

\* The sessions the server counts.
Counted == {c \in Clients : session[c] # "none"}
Attached(c) == peer[c].socket \in {"open", "closing"}

(* Starting *)

\* closeTaskStateForAbort: the first call closes, others join it.
TasksClose(h) == [h EXCEPT !.tasks = IF @ \in {"opening", "open"} THEN "closing" ELSE @]

\* A signal while the gateway starts.
Interrupted ==
  /\ server.at \in {"initializing", "monitoring", "listening"} /\ ~server.aborted
  /\ server' = [server EXCEPT !.aborted = TRUE]
  /\ holds' = TasksClose(holds)
  /\ UNCHANGED <<peer, session>>

\* initialize() of the supervisor settles; a close waits for that.
TasksInitialized ==
  /\ server.at = "initializing"
  /\ \/ /\ ~server.aborted /\ holds.tasks = "opening"
        /\ server' = [server EXCEPT !.at = "monitoring"]
        /\ holds' = [holds EXCEPT !.tasks = "open", !.monitor = "opening"]
     \/ /\ server' = [server EXCEPT !.at = "cleaning"]
        /\ holds' = TasksClose(holds)
  /\ UNCHANGED <<peer, session>>

\* The list of watches that initialize() of the monitor reads.
MonitorInitialized ==
  /\ server.at = "monitoring"
  /\ \/ /\ server' = [server EXCEPT !.at = "listening"]
        /\ holds' = [holds EXCEPT !.monitor = "polling", !.upgrades = TRUE]
     \/ /\ server' = [server EXCEPT !.at = "stranded"]
        /\ holds' = [holds EXCEPT !.monitor = "none"]
  /\ UNCHANGED <<peer, session>>

\* The port: taken, in use, or given back at once.
Listens ==
  /\ server.at = "listening"
  /\ \/ /\ ~server.aborted
        /\ server' = [server EXCEPT !.at = "up"] /\ holds' = [holds EXCEPT !.http = "open"]
     \/ /\ server' = [server EXCEPT !.at = "cleaning"]
        /\ holds' = [TasksClose(holds) EXCEPT !.upgrades = FALSE]
  /\ UNCHANGED <<peer, session>>

\* The failed start has closed what it opened.
CleansUp ==
  /\ server.at = "cleaning" /\ holds.tasks \in {"closed", "lost"}
  /\ server' = [server EXCEPT !.at = "failed"]
  /\ UNCHANGED <<holds, peer, session>>

\* close() of the supervisor settles: the lock is released, or its owner told.
TasksClosed ==
  /\ holds.tasks = "closing" /\ server.at # "initializing"
  /\ \E end \in {"closed", "lost"} : holds' = [holds EXCEPT !.tasks = end]
  /\ UNCHANGED <<server, peer, session>>

(* Sockets and sessions *)

\* A connection whose request is under way.
PeerConnects(c) ==
  /\ holds.http = "open" /\ peer[c].socket = "none" /\ session[c] = "none"
  /\ peer[c].returns < MaxReturns
  /\ peer' = [peer EXCEPT ![c] = [NoClient EXCEPT !.socket = "asking",
                                                       !.returns = peer[c].returns + 1]]
  /\ UNCHANGED <<server, holds, session>>

\* Mutant: the limit is not asked.
AdmitsAnyway == holds.upgrades
Admits == holds.upgrades /\ Cardinality(Counted) < MaxSessions

\* The upgrade handler, from its checks to bind() in one turn; 503 when the
\* gateway is full or its socket server is closed.
Upgrades(c) ==
  /\ peer[c].socket = "asking"
  /\ IF Admits
     THEN /\ peer' = [peer EXCEPT ![c].socket = "open"]
          /\ session' = [session EXCEPT ![c] = "running"]
     ELSE /\ peer' = [peer EXCEPT ![c].socket = "none"]
          /\ UNCHANGED session
  /\ UNCHANGED <<server, holds>>

\* The close event of a socket: the session's close() begins, if it has not.
Ended(s, c) == [s EXCEPT ![c] = IF @ = "running" THEN "closing" ELSE @]

\* A client leaves, its network is gone, or it does not read what is sent.
PeerLeaves(c) ==
  /\ Attached(c)
  /\ \/ /\ peer[c].there
        /\ peer' = [peer EXCEPT ![c].socket = "none"]
        /\ session' = Ended(session, c)
     \/ /\ peer[c].there
        /\ peer' = [peer EXCEPT ![c].there = FALSE]
        /\ UNCHANGED session
     \/ /\ peer' = [peer EXCEPT ![c].socket = "none"] \* sendText terminates
        /\ session' = Ended(session, c)
  /\ UNCHANGED <<server, holds>>

Pongs(c) ==
  /\ Attached(c) /\ peer[c].there /\ ~peer[c].alive
  /\ peer' = [peer EXCEPT ![c].alive = TRUE, ![c].missed = 0]
  /\ UNCHANGED <<server, holds, session>>

\* Mutant: only a first missing pong counts.
MissesOne(k) == IF k.alive THEN 0 ELSE 1
Misses(k) == IF k.alive THEN 0 ELSE k.missed + 1

\* The keepalive's interval, on an open socket.
Pings(c) ==
  /\ peer[c].socket = "open"
  /\ IF Misses(peer[c]) >= 2
     THEN /\ peer' = [peer EXCEPT ![c].socket = "none"]
          /\ session' = Ended(session, c)
     ELSE /\ peer' = [peer EXCEPT ![c].missed = Misses(peer[c]), ![c].alive = FALSE]
          /\ UNCHANGED session
  /\ UNCHANGED <<server, holds>>

\* A session ends by itself: the client is dismissed once it is cleaned up.
SessionFails(c) ==
  /\ session[c] = "running"
  /\ session' = [session EXCEPT ![c] = "closing"]
  /\ peer' = [peer EXCEPT ![c].dismissed = TRUE]
  /\ UNCHANGED <<server, holds>>

\* ws gives a close frame thirty seconds to be answered.
SocketEnds(c) ==
  /\ peer[c].socket = "closing"
  /\ peer' = [peer EXCEPT ![c].socket = "none"]
  /\ session' = Ended(session, c)
  /\ UNCHANGED <<server, holds>>

\* close() of a session settles; the handler of its socket's end, which also
\* awaits it, then takes it out of the count.
SessionCloses(c) ==
  /\ session[c] = "closing"
  /\ session' = [session EXCEPT ![c] = "over"]
  /\ peer' = [peer EXCEPT ![c].socket =
                  IF peer[c].dismissed /\ @ = "open" THEN "closing" ELSE @]
  /\ UNCHANGED <<server, holds>>
Uncounted(c) ==
  /\ session[c] = "over" /\ peer[c].socket = "none"
  /\ session' = [session EXCEPT ![c] = "none"]
  /\ UNCHANGED <<server, holds, peer>>

(* Shutting down *)

\* No new connections, the idle ones are closed, every session is told.
ShutdownBegins ==
  /\ server.at = "up"
  /\ server' = [server EXCEPT !.at = "sessions", !.awaited = Counted]
  /\ holds' = [holds EXCEPT !.http = "closing"]
  /\ session' = [c \in Clients |-> IF session[c] = "running" THEN "closing" ELSE session[c]]
  /\ UNCHANGED peer

\* All have closed, or the six seconds are over.  Then closeWebSocketServer:
\* clients are asked to close and no upgrade is taken any more.
SessionsSettled ==
  LET late == {c \in server.awaited : session[c] = "closing"}
  IN  /\ server.at = "sessions"
      /\ server' = [server EXCEPT !.at = "sockets", !.awaited = {}, !.failed = @ \/ late # {}]
      /\ holds' = [holds EXCEPT !.upgrades = FALSE]
      /\ peer' = [c \in Clients |-> IF peer[c].socket = "open"
                                      THEN [peer[c] EXCEPT !.socket = "closing"] ELSE peer[c]]
      /\ UNCHANGED session

\* The rest is cut off, the sockets first and then the requests.
SocketsSettled ==
  /\ server.at = "sockets"
  /\ server' = [server EXCEPT !.at = "http"]
  /\ peer' = [c \in Clients |-> [peer[c] EXCEPT !.socket = "none"]]
  /\ session' = [c \in Clients |-> IF Attached(c) THEN Ended(session, c)[c] ELSE session[c]]
  /\ UNCHANGED holds

\* The port's close settles or is given up; then the task state goes.
HttpSettled ==
  /\ server.at = "http"
  /\ \E ok \in BOOLEAN : server' = [server EXCEPT !.at = "tasks", !.failed = @ \/ ~ok]
  /\ holds' = [TasksClose(holds) EXCEPT !.http = "closed"]
  /\ UNCHANGED <<peer, session>>

\* Then the watches and the index, whatever failed before.
MonitorCloses ==
  /\ server.at = "tasks" /\ holds.tasks \in {"closed", "lost"}
  /\ server' = [server EXCEPT !.at = "closed", !.failed = @ \/ holds.tasks = "lost"]
  /\ holds' = [holds EXCEPT !.monitor = "closed"]
  /\ UNCHANGED <<peer, session>>

ClientNext(c) ==
  \/ PeerConnects(c) \/ Upgrades(c) \/ PeerLeaves(c) \/ Pongs(c) \/ Pings(c)
  \/ SessionFails(c) \/ SocketEnds(c) \/ SessionCloses(c) \/ Uncounted(c)

ServerNext ==
  \/ Interrupted \/ TasksInitialized \/ MonitorInitialized \/ Listens \/ CleansUp
  \/ TasksClosed \/ ShutdownBegins \/ SessionsSettled \/ SocketsSettled
  \/ HttpSettled \/ MonitorCloses
  \/ \E c \in Clients : ClientNext(c)

ServerSpec == ServerInit /\ [][ServerNext]_serverVars

\* Timers fire, promises settle, sockets that are closed end; nobody has to
\* connect, leave, fail, interrupt or shut down.
ServerFair ==
  \A c \in Clients :
    /\ WF_serverVars(Pings(c)) /\ WF_serverVars(SocketEnds(c))
    /\ WF_serverVars(SessionCloses(c)) /\ WF_serverVars(Uncounted(c))

Peers == [socket : {"none", "asking", "open", "closing"}, there : BOOLEAN, alive : BOOLEAN,
          missed : 0..1, dismissed : BOOLEAN, returns : 0..MaxReturns]
ServerTypeOK ==
  /\ server \in [at : {"initializing", "monitoring", "listening", "up", "cleaning", "failed",
                       "stranded", "sessions", "sockets", "http", "tasks", "closed"},
                 aborted : BOOLEAN, awaited : SUBSET Clients, failed : BOOLEAN]
  /\ holds \in [tasks : {"opening", "open", "closing", "closed", "lost"},
                monitor : {"none", "opening", "polling", "closed"},
                http : {"none", "open", "closing", "closed"}, upgrades : BOOLEAN]
  /\ peer \in [Clients -> Peers]
  /\ session \in [Clients -> {"none", "running", "closing", "over"}]

\* A start that failed or was interrupted, and a gateway that has shut down,
\* hold no task state: the next start finds the lock free, or this one has
\* reported that it could not release it.  Neither answers anybody
\* (server.ts:185-225, 371-387, 395-482).  A monitor that cannot read its
\* watches ("stranded") is the exception.
EndedHoldsNothing ==
  server.at \in {"failed", "closed"} =>
    /\ holds.tasks = "closed" \/ (holds.tasks = "lost" /\ (server.at = "closed" => server.failed))
    /\ holds.http \in {"none", "closed"} /\ ~holds.upgrades
    /\ server.at = "closed" => holds.monitor = "closed"
    /\ \A c \in Clients : ~Attached(c) /\ session[c] # "running"

\* The task state goes after the sessions: while any session still works for
\* a client, the supervisor it submits to is open, late upgrades during the
\* shutdown included (server.ts:335-366, 412-461).
WorkersAreServed ==
  (\E c \in Clients : session[c] = "running") => holds.tasks = "open"

\* Whoever is attached is counted, and no more than the limit allow: a client
\* that left or vanished neither keeps its place nor lets another have it too
\* early (server.ts:335-365).
PlacesAreKept ==
  /\ \A c \in Clients : Attached(c) => c \in Counted
  /\ Cardinality(Counted) <= MaxSessions

ServerKept == ServerTypeOK /\ EndedHoldsNothing /\ WorkersAreServed /\ PlacesAreKept

\* With a timer that fires, a client that vanished without a word is noticed
\* and its place is free again (server.ts:1420-1462, 357-365).
VanishedIsFreed ==
  \A c \in Clients : (session[c] # "none" /\ ~peer[c].there) ~> session[c] = "none"

\* No run checks this: it fails.  The monitor's start is outside the block that
\* releases the task state, and a start that fails later leaves the monitor
\* polling (server.ts:226-243, 371-387).
FailedLeavesNothing ==
  server.at \in {"failed", "stranded"} =>
    holds.tasks \in {"closed", "lost"} /\ holds.monitor \in {"none", "closed"}

\* No run checks this: it fails.  A request that was under way when the
\* shutdown began may still become a session, which nobody waits for
\* (server.ts:340-365, 413-417).
AllAreAwaited == server.at \in {"tasks", "closed"} => \A c \in Clients : session[c] # "closing"
=============================================================================
