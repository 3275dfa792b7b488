----------------------------- MODULE GatewayProofs -----------------------------
(***************************************************************************)
(* What the process around the sessions keeps: what a start took is given  *)
(* back, a session that works has its supervisor, whoever is attached is   *)
(* counted, and one key has one agent; and what the sessions keep together *)
(* at Hermes: their turns come in order, on a thread that exists, none of  *)
(* them a third time.  For every value of the constants of GatewayServer,  *)
(* Delegations and Conversations.                                          *)
(***************************************************************************)
EXTENDS GatewayServer, Delegations, Conversations, FiniteSetTheorems, SequenceTheorems,
        WellFoundedInduction, TLAPS

-----------------------------------------------------------------------------
(* The server *)

Starting == {"initializing", "monitoring", "listening"}
Serving == {"up", "sessions", "sockets"}

\* What the process holds at each point of its start and its shutdown.
HoldsAt ==
  /\ server.at = "initializing" =>
       holds.tasks = IF server.aborted THEN "closing" ELSE "opening"
  /\ server.at \in Starting /\ ~server.aborted => holds.tasks \in {"opening", "open"}
  /\ server.at \in {"monitoring", "listening"} =>
       (holds.tasks = "open" <=> ~server.aborted) /\ holds.tasks # "opening"
  /\ server.at \in Serving \cup {"http"} => holds.tasks = "open"
  /\ server.at \in {"cleaning", "tasks"} => holds.tasks \in {"closing", "closed", "lost"}
  /\ server.at \in {"failed", "closed"} => holds.tasks \in {"closed", "lost"}
  /\ server.at = "closed" =>
       holds.monitor = "closed" /\ (holds.tasks = "lost" => server.failed)
  /\ holds.upgrades => server.at \in {"listening", "up", "sessions"}
  /\ holds.http = "open" => server.at = "up"
  /\ server.at \in Starting \cup {"cleaning", "failed", "stranded"} => holds.http = "none"
  /\ server.at \in {"tasks", "closed"} => holds.http = "closed"

\* The socket and the session of a client.
PeerOK(c) ==
  /\ server.at \notin Serving => ~Attached(c)
  /\ server.at \in Starting \cup {"cleaning", "failed", "stranded"} =>
       peer[c].socket = "none" /\ session[c] = "none"
  /\ session[c] = "running" => Attached(c)
  /\ Attached(c) => session[c] # "none"

\* The inductive invariant.
ServerInv ==
  /\ ServerTypeOK
  /\ HoldsAt
  /\ \A c \in Clients : PeerOK(c)
  /\ Cardinality(Counted) <= MaxSessions

LEMMA ServerInitial ==
  ASSUME ServerInit
  PROVE  ServerInv
<1> USE DEF ServerInit
<1>1. ServerTypeOK BY ServerAssumption DEF ServerTypeOK, Peers, NoClient
<1>2. HoldsAt BY DEF HoldsAt, Starting, Serving
<1>3. \A c \in Clients : PeerOK(c)
  BY DEF PeerOK, Attached, NoClient, Starting, Serving
<1>4. Cardinality(Counted) <= MaxSessions
  <2>1. Counted = {} BY DEF Counted
  <2>2. QED BY <2>1, FS_EmptySet, ServerAssumption
<1>5. QED BY <1>1, <1>2, <1>3, <1>4 DEF ServerInv

\* A step that lets nobody in has as many sessions to count, or fewer.
LEMMA FewerCounted ==
  ASSUME ServerTypeOK, Cardinality(Counted) <= MaxSessions,
         \A c \in Clients : session'[c] # "none" => session[c] # "none"
  PROVE  Cardinality(Counted') <= MaxSessions
<1>1. Counted' \subseteq Counted BY DEF Counted
<1>2. IsFiniteSet(Counted) /\ Cardinality(Counted) \in Nat
  BY ServerAssumption, FS_Subset, FS_CardinalityType DEF Counted
<1>3. Cardinality(Counted') \in Nat /\ Cardinality(Counted') <= Cardinality(Counted)
  BY <1>1, <1>2, FS_Subset, FS_CardinalityType
<1>4. QED BY <1>2, <1>3, ServerAssumption

\* The process: points, holdings, and the clients left as they are.
LEMMA StartSteps ==
  ASSUME ServerInv,
         \/ Interrupted \/ TasksInitialized \/ MonitorInitialized \/ Listens \/ CleansUp
         \/ TasksClosed \/ MonitorCloses
  PROVE  ServerInv'
<1> USE DEF ServerInv, TasksClose
<1>1. UNCHANGED <<peer, session>>
  BY DEF Interrupted, TasksInitialized, MonitorInitialized, Listens, CleansUp, TasksClosed,
         MonitorCloses
<1>2. ServerTypeOK'
  BY <1>1 DEF ServerTypeOK, Interrupted, TasksInitialized, MonitorInitialized, Listens, CleansUp,
              TasksClosed, MonitorCloses
<1>3. HoldsAt'
  <2> USE DEF ServerTypeOK, HoldsAt, Starting, Serving
  <2>1. CASE Interrupted BY <2>1 DEF Interrupted
  <2>2. CASE TasksInitialized BY <2>2 DEF TasksInitialized
  <2>3. CASE MonitorInitialized BY <2>3 DEF MonitorInitialized
  <2>4. CASE Listens BY <2>4 DEF Listens
  <2>5. CASE CleansUp BY <2>5 DEF CleansUp
  <2>6. CASE TasksClosed BY <2>6 DEF TasksClosed
  <2>7. CASE MonitorCloses BY <2>7 DEF MonitorCloses
  <2>8. QED BY <2>1, <2>2, <2>3, <2>4, <2>5, <2>6, <2>7
<1>4. ASSUME NEW c \in Clients
      PROVE  PeerOK(c)'
  BY <1>1 DEF ServerTypeOK, HoldsAt, PeerOK, Attached, Starting, Serving, Interrupted,
              TasksInitialized, MonitorInitialized, Listens, CleansUp, TasksClosed, MonitorCloses
<1>5. Cardinality(Counted)' <= MaxSessions BY <1>1 DEF Counted
<1>6. QED BY <1>2, <1>3, <1>4, <1>5

\* The shutdown, which touches every client.
LEMMA ShutdownSteps ==
  ASSUME ServerInv,
         ShutdownBegins \/ SessionsSettled \/ SocketsSettled \/ HttpSettled
  PROVE  ServerInv'
<1> USE DEF ServerInv, TasksClose
<1>1. ServerTypeOK'
  <2>1. CASE ShutdownBegins BY <2>1 DEF ServerTypeOK, ShutdownBegins, Counted
  <2>2. CASE SessionsSettled BY <2>2 DEF ServerTypeOK, SessionsSettled, Peers
  <2>3. CASE SocketsSettled BY <2>3 DEF ServerTypeOK, SocketsSettled, Peers, Ended
  <2>4. CASE HttpSettled BY <2>4 DEF ServerTypeOK, HttpSettled
  <2>5. QED BY <2>1, <2>2, <2>3, <2>4
<1>2. HoldsAt'
  <2> USE DEF ServerTypeOK, HoldsAt, Starting, Serving
  <2>1. CASE ShutdownBegins BY <2>1 DEF ShutdownBegins
  <2>2. CASE SessionsSettled BY <2>2 DEF SessionsSettled
  <2>3. CASE SocketsSettled BY <2>3 DEF SocketsSettled
  <2>4. CASE HttpSettled BY <2>4 DEF HttpSettled
  <2>5. QED BY <2>1, <2>2, <2>3, <2>4
<1>3. ASSUME NEW c \in Clients
      PROVE  PeerOK(c)'
  <2> USE DEF ServerTypeOK, Peers, PeerOK, Attached, Starting, Serving
  <2>1. CASE ShutdownBegins BY <2>1 DEF ShutdownBegins
  <2>2. CASE SessionsSettled BY <2>2 DEF SessionsSettled
  <2>3. CASE SocketsSettled BY <2>3 DEF SocketsSettled, Ended
  <2>4. CASE HttpSettled BY <2>4 DEF HttpSettled
  <2>5. QED BY <2>1, <2>2, <2>3, <2>4
<1>4. Cardinality(Counted)' <= MaxSessions
  <2>1. \A c \in Clients : session'[c] # "none" => session[c] # "none"
    BY DEF ServerTypeOK, ShutdownBegins, SessionsSettled, SocketsSettled, HttpSettled, Ended
  <2>2. QED BY <2>1, FewerCounted
<1>5. QED BY <1>1, <1>2, <1>3, <1>4

\* The socket and the session of one client change.
SocketFits(p, s) ==
  /\ p \in Peers /\ s \in {"none", "running", "closing", "over"}
  /\ p.socket \in {"open", "closing"} => server.at \in Serving /\ s # "none"
  /\ server.at \in Starting \cup {"cleaning", "failed", "stranded"} =>
       p.socket = "none" /\ s = "none"
  /\ s = "running" => p.socket \in {"open", "closing"}

LEMMA OneClient ==
  ASSUME ServerInv, UNCHANGED <<server, holds>>, NEW c \in Clients, NEW p, NEW s,
         SocketFits(p, s),
         peer' = [peer EXCEPT ![c] = p], session' = [session EXCEPT ![c] = s]
  PROVE  ServerTypeOK' /\ \A d \in Clients : PeerOK(d)'
<1>1. ServerTypeOK' BY DEF ServerInv, ServerTypeOK, SocketFits
<1>2. ASSUME NEW d \in Clients PROVE PeerOK(d)'
  <2>1. CASE d = c
    <3>1. peer'[d] = p /\ session'[d] = s BY <2>1 DEF ServerInv, ServerTypeOK
    <3>2. QED BY <2>1, <3>1 DEF PeerOK, Attached, SocketFits
  <2>2. CASE d # c
    <3>1. peer'[d] = peer[d] /\ session'[d] = session[d] BY <2>2 DEF ServerInv, ServerTypeOK
    <3>2. QED BY <3>1 DEF ServerInv, PeerOK, Attached
  <2>3. QED BY <2>1, <2>2
<1>3. QED BY <1>1, <1>2

\* A client, its socket and its session.
LEMMA ClientSteps ==
  ASSUME ServerInv, NEW c \in Clients, ClientNext(c)
  PROVE  ServerInv'
<1>1. UNCHANGED <<server, holds>>
  BY DEF ClientNext, PeerConnects, Upgrades, PeerLeaves, Pongs, Pings, SessionFails, SocketEnds,
         SessionCloses, Uncounted
<1>2. HoldsAt' BY <1>1 DEF ServerInv, HoldsAt
<1>3. ServerTypeOK' /\ \A d \in Clients : PeerOK(d)'
  <2> DEFINE k == peer[c]
             s == session[c]
             Ends == IF s = "running" THEN "closing" ELSE s
             Becomes(p, t) == /\ SocketFits(p, t)
                              /\ peer' = [peer EXCEPT ![c] = p]
                              /\ session' = [session EXCEPT ![c] = t]
  <2>1. /\ peer \in [Clients -> Peers] /\ session \in [Clients -> {"none", "running", "closing", "over"}]
        /\ k \in Peers /\ s \in {"none", "running", "closing", "over"}
        /\ PeerOK(c) /\ peer = [peer EXCEPT ![c] = k] /\ session = [session EXCEPT ![c] = s]
    BY DEF ServerInv, ServerTypeOK
  <2>2. CASE PeerConnects(c)
    <3>1. server.at = "up" BY <2>2 DEF PeerConnects, ServerInv, HoldsAt
    <3> DEFINE p == [NoClient EXCEPT !.socket = "asking", !.returns = k.returns + 1]
    <3>2. peer' = [peer EXCEPT ![c] = p] /\ session' = [session EXCEPT ![c] = s]
      BY <2>1, <2>2 DEF PeerConnects
    <3>3. 0 \in 0..1 /\ k.returns + 1 \in 0..MaxReturns
      BY <2>1, <2>2, ServerAssumption DEF PeerConnects, Peers
    <3>4. NoClient \in [socket : {"none", "asking", "open", "closing"}, there : BOOLEAN,
                        alive : BOOLEAN, missed : 0..1, dismissed : BOOLEAN, returns : {0}]
      BY <3>3 DEF NoClient
    <3>5. p \in Peers /\ p.socket = "asking" /\ s = "none"
      BY <2>2, <3>3, <3>4 DEF PeerConnects, Peers
    <3>6. SocketFits(p, s)
      BY <2>1, <3>1, <3>5 DEF SocketFits, Serving, Starting
    <3>7. QED BY <1>1, <3>2, <3>6, OneClient
  <2>3. CASE Upgrades(c) /\ Admits
    <3>1. server.at \in {"listening", "up", "sessions"} BY <2>3 DEF Admits, ServerInv, HoldsAt
    <3>2. Becomes([k EXCEPT !.socket = "open"], "running")
      BY <2>1, <2>3, <3>1 DEF Upgrades, Peers, SocketFits, Serving, Starting, PeerOK
    <3>3. QED BY <1>1, <3>2, OneClient
  <2>4. CASE Upgrades(c) /\ ~Admits
    <3>1. Becomes([k EXCEPT !.socket = "none"], s)
      BY <2>1, <2>4 DEF Upgrades, Peers, SocketFits, PeerOK, Attached
    <3>2. QED BY <1>1, <3>1, OneClient
  <2>5. CASE PeerLeaves(c)
    <3>1. \/ Becomes([k EXCEPT !.socket = "none"], Ends)
          \/ Becomes([k EXCEPT !.there = FALSE], s)
      BY <2>1, <2>5 DEF PeerLeaves, Ended, Peers, SocketFits, PeerOK, Attached
    <3>2. QED BY <1>1, <3>1, OneClient
  <2>6. CASE Pongs(c)
    <3> DEFINE p == [k EXCEPT !.alive = TRUE, !.missed = 0]
    <3>1. peer' = [peer EXCEPT ![c] = p] /\ session' = [session EXCEPT ![c] = s]
      BY <2>1, <2>6 DEF Pongs
    <3>2. 0 \in 0..1 OBVIOUS
    <3>3. SocketFits(p, s)
      BY <2>1, <3>2 DEF Peers, SocketFits, PeerOK, Attached
    <3>4. QED BY <1>1, <3>1, <3>3, OneClient
  <2>7. CASE Pings(c)
    <3> DEFINE p == [k EXCEPT !.missed = Misses(k), !.alive = FALSE]
    <3>1. CASE Misses(k) >= 2
      <4>1. Becomes([k EXCEPT !.socket = "none"], Ends)
        BY <2>1, <2>7, <3>1 DEF Pings, Ended, Peers, SocketFits, PeerOK, Attached
      <4>2. QED BY <1>1, <4>1, OneClient
    <3>2. CASE ~(Misses(k) >= 2)
      <4>1. peer' = [peer EXCEPT ![c] = p] /\ session' = [session EXCEPT ![c] = s]
        BY <2>1, <2>7, <3>2 DEF Pings
      <4>2. Misses(k) \in 0..1 BY <2>1, <3>2 DEF Misses, Peers
      <4>3. SocketFits(p, s)
        BY <2>1, <4>2 DEF Peers, SocketFits, PeerOK, Attached
      <4>4. QED BY <1>1, <4>1, <4>3, OneClient
    <3>3. QED BY <3>1, <3>2
  <2>8. CASE SessionFails(c)
    <3>1. Becomes([k EXCEPT !.dismissed = TRUE], "closing")
      BY <2>1, <2>8 DEF SessionFails, Peers, SocketFits, PeerOK, Attached
    <3>2. QED BY <1>1, <3>1, OneClient
  <2>9. CASE SocketEnds(c)
    <3>1. Becomes([k EXCEPT !.socket = "none"], Ends)
      BY <2>1, <2>9 DEF SocketEnds, Ended, Peers, SocketFits, PeerOK, Attached
    <3>2. QED BY <1>1, <3>1, OneClient
  <2>10. CASE SessionCloses(c)
    <3>1. Becomes([k EXCEPT !.socket = IF k.dismissed /\ k.socket = "open" THEN "closing" ELSE k.socket],
                  "over")
      BY <2>1, <2>10 DEF SessionCloses, Peers, SocketFits, PeerOK, Attached
    <3>2. QED BY <1>1, <3>1, OneClient
  <2>11. CASE Uncounted(c)
    <3>1. Becomes(k, "none")
      BY <2>1, <2>11 DEF Uncounted, SocketFits, PeerOK, Attached
    <3>2. QED BY <1>1, <3>1, OneClient
  <2>12. QED
    BY <2>2, <2>3, <2>4, <2>5, <2>6, <2>7, <2>8, <2>9, <2>10, <2>11 DEF ClientNext
<1>4. Cardinality(Counted)' <= MaxSessions
  <2>1. CASE Upgrades(c) /\ Admits
    <3>1. Counted' = Counted \cup {c} BY <2>1 DEF Upgrades, Counted, ServerInv, ServerTypeOK
    <3>2. IsFiniteSet(Counted) /\ Cardinality(Counted) \in Nat
      BY ServerAssumption, FS_Subset, FS_CardinalityType DEF Counted
    <3>3. Cardinality(Counted \cup {c}) <= Cardinality(Counted) + 1
      BY <3>2, FS_AddElement
    <3>4. Cardinality(Counted) < MaxSessions BY <2>1 DEF Admits
    <3>5. Cardinality(Counted \cup {c}) \in Nat BY <3>2, FS_AddElement, FS_CardinalityType
    <3>6. QED BY <3>1, <3>2, <3>3, <3>4, <3>5, ServerAssumption
  <2>2. CASE ~(Upgrades(c) /\ Admits)
    <3>1. \A d \in Clients : session'[d] # "none" => session[d] # "none"
      BY <2>2 DEF ServerInv, ServerTypeOK, ClientNext, PeerConnects, Upgrades, PeerLeaves, Pongs, Pings,
                  SessionFails, SocketEnds, SessionCloses, Uncounted, Ended
    <3>2. QED BY <3>1, FewerCounted DEF ServerInv
  <2>3. QED BY <2>1, <2>2
<1>5. QED BY <1>2, <1>3, <1>4 DEF ServerInv

LEMMA ServerInductive ==
  ASSUME ServerInv, [ServerNext]_serverVars
  PROVE  ServerInv'
<1>1. CASE ServerNext BY <1>1, StartSteps, ShutdownSteps, ClientSteps DEF ServerNext
<1>2. CASE UNCHANGED serverVars
  BY <1>2 DEF serverVars, ServerInv, ServerTypeOK, HoldsAt, PeerOK, Attached, Counted
<1>3. QED BY <1>1, <1>2

\* What the server's invariant says of it.
LEMMA ServerInvKept ==
  ASSUME ServerInv
  PROVE  ServerKept
<1> USE DEF ServerInv
<1>1. EndedHoldsNothing
  BY DEF ServerTypeOK, HoldsAt, PeerOK, EndedHoldsNothing, Starting, Serving
<1>2. WorkersAreServed
  BY DEF HoldsAt, PeerOK, WorkersAreServed, Starting, Serving
<1>3. PlacesAreKept BY DEF PeerOK, PlacesAreKept, Counted
<1>4. QED BY <1>1, <1>2, <1>3 DEF ServerKept

\* A start that failed and a gateway that has shut down hold no task state and
\* answer nobody; a session that works has its supervisor; whoever is attached
\* is counted, within the limit (server.ts:185-482).
THEOREM ServerAlwaysKept == ServerSpec => []ServerKept
<1>1. ServerInit => ServerInv BY ServerInitial
<1>2. ServerInv /\ [ServerNext]_serverVars => ServerInv' BY ServerInductive
<1>3. ServerInv => ServerKept BY ServerInvKept
<1>4. QED BY <1>1, <1>2, <1>3, PTL DEF ServerSpec

-----------------------------------------------------------------------------
(* Delegations *)

\* A call that launches is listed, one that joined has a launch, one that
\* starts an agent is the only one to do so for its key, and one that was
\* answered has a watch.
AskOK(c) ==
  /\ c \in inflight <=> ask[c].at \in Launches
  /\ ask[c].at = "joined" => \E d \in inflight : ask[d].key = ask[c].key
  /\ ask[c].at = "finding" => ask[c].key \notin Linked
  /\ ask[c].at \in {"prompting", "verifying", "registering"} => ask[c].agent \in DOMAIN agents
  /\ ask[c].at \in {"marking", "done"} =>
       \E w \in DOMAIN watches : watches[w].agent = ask[c].agent
  /\ ask[c].at = "marking" => \E w \in DOMAIN watches : watches[w].linked
  /\ ask[c].at = "starting" /\ ~Lagging =>
       \A a \in DOMAIN agents : agents[a].key # ask[c].key

\* Two launches are of two keys.
LaunchesApart == \A c, d \in inflight : ask[c].key = ask[d].key => c = d

\* On a host whose list is complete, no key has two agents.
HostOK == ~Lagging => OneAgentPerKey /\ \A a \in DOMAIN agents : agents[a].listed

\* The inductive invariant.
DelegationInv ==
  /\ DelegationTypeOK
  /\ \A c \in Asks : AskOK(c)
  /\ LaunchesApart
  /\ HostOK
  /\ linkedTask = "delegated" => \E w \in DOMAIN watches : watches[w].linked
  /\ Cardinality(inflight) <= MaxInflight

LEMMA DelegationInitial ==
  ASSUME DelegationInit
  PROVE  DelegationInv
<1> USE DEF DelegationInit
<1>1. DelegationTypeOK BY DEF DelegationTypeOK, Points
<1>2. \A c \in Asks : AskOK(c) BY DEF AskOK, Launches
<1>3. LaunchesApart /\ HostOK BY DEF LaunchesApart, HostOK, OneAgentPerKey
<1>4. Cardinality(inflight) <= MaxInflight BY FS_EmptySet, DelegationAssumption
<1>5. QED BY <1>1, <1>2, <1>3, <1>4 DEF DelegationInv

-----------------------------------------------------------------------------
(* What the host and the store of watches keep. *)

Agent == [key : Keys, listed : BOOLEAN, told : BOOLEAN]
AgentsGrow ==
  /\ agents' \in Seq(Agent) /\ DOMAIN agents \subseteq DOMAIN agents'
  /\ \A a \in DOMAIN agents : agents'[a].key = agents[a].key
WatchesGrow ==
  /\ watches' \in Seq([agent : DOMAIN agents', stopped : BOOLEAN, linked : BOOLEAN])
  /\ DOMAIN watches \subseteq DOMAIN watches'
  /\ \A w \in DOMAIN watches :
       watches'[w].agent = watches[w].agent /\ watches'[w].linked = watches[w].linked

\* Nobody but c may find an agent more of its key.
NoOtherStarts(c) ==
  ~Lagging => \A d \in inflight : d # c /\ ask[d].at = "starting" =>
                \A a \in DOMAIN agents' : agents'[a].key # ask[d].key

LEMMA AgentsSame ==
  ASSUME DelegationInv, UNCHANGED agents
  PROVE  AgentsGrow /\ HostOK' /\ \A c : NoOtherStarts(c)
<1> USE DEF DelegationInv
<1>1. AgentsGrow BY DEF AgentsGrow, DelegationTypeOK, Agent
<1>2. HostOK' BY DEF HostOK, OneAgentPerKey
<1>3. \A c : NoOtherStarts(c) BY DEF NoOtherStarts, AskOK, DelegationTypeOK
<1>4. QED BY <1>1, <1>2, <1>3

LEMMA AgentsMarked ==
  ASSUME DelegationInv, NEW a \in DOMAIN agents,
         \/ agents' = [agents EXCEPT ![a].told = TRUE]
         \/ agents' = [agents EXCEPT ![a].listed = TRUE]
  PROVE  AgentsGrow /\ HostOK' /\ \A c : NoOtherStarts(c)
<1> USE DEF DelegationInv
<1>1. agents \in Seq(Agent) BY DEF DelegationTypeOK, Agent
<1> DEFINE b == IF agents' = [agents EXCEPT ![a].told = TRUE]
                THEN [agents[a] EXCEPT !.told = TRUE] ELSE [agents[a] EXCEPT !.listed = TRUE]
<1>2. agents[a] \in Agent BY <1>1
<1>3. b \in Agent /\ b.key = agents[a].key /\ (agents[a].listed => b.listed)
  BY <1>2 DEF Agent
<1>4. agents' = [agents EXCEPT ![a] = b] OBVIOUS
<1> HIDE DEF b
<1>5. DOMAIN agents' = DOMAIN agents /\ agents' \in Seq(Agent) BY <1>1, <1>3, <1>4, ExceptSeq
<1>6. \A e \in DOMAIN agents : agents'[e].key = agents[e].key /\ (agents[e].listed => agents'[e].listed)
  BY <1>1, <1>3, <1>4
<1>7. AgentsGrow BY <1>5, <1>6 DEF AgentsGrow
<1>8. HostOK' BY <1>5, <1>6 DEF HostOK, OneAgentPerKey
<1>9. \A c : NoOtherStarts(c) BY <1>5, <1>6 DEF NoOtherStarts, AskOK, DelegationTypeOK
<1>10. QED BY <1>7, <1>8, <1>9

LEMMA AgentStarted ==
  ASSUME DelegationInv, NEW c \in inflight, ask[c].at = "starting", Start(c)
  PROVE  /\ AgentsGrow /\ HostOK' /\ NoOtherStarts(c)
         /\ Len(agents') \in DOMAIN agents'
<1> USE DEF DelegationInv
<1>1. agents \in Seq(Agent) /\ c \in Asks /\ ask[c].key \in Keys
  BY DEF DelegationTypeOK, Agent
<1>2. PICK listed \in {TRUE, ~Lagging} :
        agents' = Append(agents, [key |-> ask[c].key, listed |-> listed, told |-> FALSE])
  BY DEF Start
<1>3. listed \in BOOLEAN /\ (~Lagging => listed) BY <1>2, DelegationAssumption
<1> DEFINE n == Len(agents) + 1
<1>4. /\ agents' \in Seq(Agent) /\ Len(agents') = n /\ n \in Nat
      /\ DOMAIN agents' = DOMAIN agents \cup {n} /\ n \notin DOMAIN agents
      /\ \A a \in DOMAIN agents : agents'[a] = agents[a]
      /\ agents'[n].key = ask[c].key /\ agents'[n].listed = listed
  BY <1>1, <1>2, <1>3 DEF Agent
<1>5. AgentsGrow BY <1>4 DEF AgentsGrow
<1>6. HostOK'
  <2>1. SUFFICES ASSUME ~Lagging PROVE (OneAgentPerKey /\ \A a \in DOMAIN agents : agents[a].listed)'
    BY DEF HostOK
  <2>2. \A a \in DOMAIN agents : agents[a].key # ask[c].key BY <2>1, <1>1 DEF AskOK
  <2>3. OneAgentPerKey /\ \A a \in DOMAIN agents : agents[a].listed BY <2>1 DEF HostOK
  <2>4. \A a \in DOMAIN agents' : agents'[a].listed BY <1>3, <1>4, <2>1, <2>3
  <2>5. \A a, b \in DOMAIN agents' : agents'[a].key = agents'[b].key => a = b
    BY <1>4, <2>2, <2>3 DEF OneAgentPerKey
  <2>6. QED BY <2>4, <2>5 DEF OneAgentPerKey
<1>7. NoOtherStarts(c)
  BY <1>1, <1>4 DEF NoOtherStarts, AskOK, LaunchesApart, DelegationTypeOK
<1>8. QED BY <1>4, <1>5, <1>6, <1>7

LEMMA WatchesSame ==
  ASSUME DelegationInv, AgentsGrow, UNCHANGED watches
  PROVE  WatchesGrow
<1> DEFINE Watch(S) == [agent : S, stopped : BOOLEAN, linked : BOOLEAN]
<1>1. watches \in Seq(Watch(DOMAIN agents)) BY DEF DelegationInv, DelegationTypeOK
<1>2. Watch(DOMAIN agents) \subseteq Watch(DOMAIN agents') BY DEF AgentsGrow
<1> HIDE DEF Watch
<1>3. watches \in Seq(Watch(DOMAIN agents')) BY <1>1, <1>2
<1>4. QED BY <1>3 DEF WatchesGrow, Watch

-----------------------------------------------------------------------------
(* What a step keeps of the calls it does not move. *)

LEMMA OtherAsk ==
  ASSUME DelegationInv, AgentsGrow, WatchesGrow, NEW c, NoOtherStarts(c),
         NEW d \in Asks, d # c, ask'[d] = ask[d], d \in inflight' <=> d \in inflight,
         ask[d].at = "joined" =>
           \A e \in inflight : ask[e].key = ask[d].key =>
             e \in inflight' /\ ask'[e].key = ask[e].key
  PROVE  AskOK(d)'
<1> USE DEF DelegationInv
<1>1. AskOK(d) OBVIOUS
<1>2. (d \in inflight <=> ask[d].at \in Launches)' BY <1>1 DEF AskOK
<1>3. (ask[d].at = "joined" => \E e \in inflight : ask[e].key = ask[d].key)'
  BY <1>1 DEF AskOK
<1>4. /\ (ask[d].at = "finding" => ask[d].key \notin Linked)'
      /\ (ask[d].at \in {"prompting", "verifying", "registering"} => ask[d].agent \in DOMAIN agents)'
  BY <1>1 DEF AskOK, AgentsGrow
<1>5. /\ (ask[d].at \in {"marking", "done"} =>
             \E w \in DOMAIN watches : watches[w].agent = ask[d].agent)'
      /\ (ask[d].at = "marking" => \E w \in DOMAIN watches : watches[w].linked)'
  BY <1>1 DEF AskOK, WatchesGrow
<1>6. (ask[d].at = "starting" /\ ~Lagging =>
         \A a \in DOMAIN agents : agents[a].key # ask[d].key)'
  BY <1>1 DEF AskOK, NoOtherStarts, Launches
<1>7. QED BY <1>2, <1>3, <1>4, <1>5, <1>6 DEF AskOK

LEMMA OneMore ==
  ASSUME NEW S, IsFiniteSet(S), NEW x
  PROVE  /\ Cardinality(S) \in Nat /\ Cardinality(S \cup {x}) \in Nat
         /\ Cardinality(S \cup {x}) <= Cardinality(S) + 1
<1>1. IsFiniteSet(S \cup {x}) BY FS_AddElement
<1>2. Cardinality(S) \in Nat BY FS_CardinalityType
<1>3. Cardinality(S \cup {x}) \in Nat BY <1>1, FS_CardinalityType
<1>4. Cardinality(S \cup {x}) = IF x \in S THEN Cardinality(S) ELSE Cardinality(S) + 1
  BY FS_AddElement
<1>5. QED BY <1>2, <1>3, <1>4

LEMMA OneLess ==
  ASSUME NEW S, IsFiniteSet(S), NEW x
  PROVE  /\ Cardinality(S) \in Nat /\ Cardinality(S \ {x}) \in Nat
         /\ Cardinality(S \ {x}) <= Cardinality(S)
<1>1. IsFiniteSet(S \ {x}) BY FS_RemoveElement
<1>2. Cardinality(S) \in Nat BY FS_CardinalityType
<1>3. Cardinality(S \ {x}) \in Nat BY <1>1, FS_CardinalityType
<1>4. Cardinality(S \ {x}) = IF x \in S THEN Cardinality(S) - 1 ELSE Cardinality(S)
  BY FS_RemoveElement
<1>5. QED BY <1>2, <1>3, <1>4

\* One call moves, and keeps or begins its launch.
LEMMA OneMoves ==
  ASSUME DelegationInv, AgentsGrow, HostOK', WatchesGrow, NEW c \in Asks, NoOtherStarts(c),
         NEW q, ask' = [ask EXCEPT ![c] = q], q.key = ask[c].key,
         q \in [key : Keys, at : Points, seen : SUBSET DOMAIN watches',
                agent : {NoAgent} \cup DOMAIN agents'],
         \/ UNCHANGED inflight
         \/ /\ inflight' = inflight \cup {c} /\ Cardinality(inflight) < MaxInflight
            /\ Launching(c) = {},
         AskOK(c)',
         linkedTask' \in {"active", "delegated", "closed"},
         linkedTask' = "delegated" => \E w \in DOMAIN watches' : watches'[w].linked,
         mishap' \in [faults : Nat, deaths : Nat, retries : Nat, stops : Nat]
  PROVE  DelegationInv'
<1> USE DEF DelegationInv
<1>1. /\ ask'[c] = q /\ \A d \in Asks \ {c} : ask'[d] = ask[d]
      /\ \A d \in Asks : ask'[d].key = ask[d].key
      /\ inflight \subseteq inflight' /\ inflight' \subseteq Asks
      /\ \A d \in Asks \ {c} : d \in inflight' <=> d \in inflight
  BY DEF DelegationTypeOK
<1>2. DelegationTypeOK'
  BY <1>1 DEF DelegationTypeOK, AgentsGrow, WatchesGrow, Agent
<1>3. ASSUME NEW d \in Asks PROVE AskOK(d)'
  <2>1. CASE d = c BY <2>1
  <2>2. CASE d # c BY <2>2, <1>1, OtherAsk DEF DelegationTypeOK
  <2>3. QED BY <2>1, <2>2
<1>4. LaunchesApart' BY <1>1 DEF LaunchesApart, Launching, DelegationTypeOK
<1>5. Cardinality(inflight)' <= MaxInflight
  <2>1. IsFiniteSet(inflight) BY DelegationAssumption, FS_Subset DEF DelegationTypeOK
  <2>2. CASE UNCHANGED inflight BY <2>2
  <2>3. CASE inflight' = inflight \cup {c} /\ Cardinality(inflight) < MaxInflight
    <3>1. /\ Cardinality(inflight) \in Nat /\ Cardinality(inflight \cup {c}) \in Nat
          /\ Cardinality(inflight \cup {c}) <= Cardinality(inflight) + 1
      BY <2>1, OneMore
    <3>2. MaxInflight \in Nat BY DelegationAssumption
    <3>3. Cardinality(inflight \cup {c}) <= MaxInflight BY <2>3, <3>1, <3>2
    <3>4. QED BY <2>3, <3>3
  <2>4. QED BY <2>2, <2>3
<1>6. QED BY <1>2, <1>3, <1>4, <1>5

\* A launch ends, for the call that began it and for those that joined.
LEMMA LaunchEnds ==
  ASSUME DelegationInv, AgentsGrow, HostOK', WatchesGrow, NEW c \in inflight, NoOtherStarts(c),
         NEW at, NEW a, ask' = LaunchSettled(c, at, a), inflight' = inflight \ {c},
         UNCHANGED linkedTask,
         \/ at = "failed" /\ a = NoAgent
         \/ at = AnsweredAt(c) /\ a \in DOMAIN agents' /\
              \E w \in DOMAIN watches' :
                watches'[w].agent = a /\ watches'[w].linked = (ask[c].key \in Linked),
         mishap' \in [faults : Nat, deaths : Nat, retries : Nat, stops : Nat]
  PROVE  DelegationInv'
<1> USE DEF DelegationInv
<1> DEFINE told == {d \in Asks : d = c \/ (ask[d].at = "joined" /\ ask[d].key = ask[c].key)}
<1>1. /\ c \in Asks /\ c \in told
      /\ \A d \in told : /\ ask'[d] = [ask[d] EXCEPT !.at = at, !.agent = a]
                         /\ ask[d].key = ask[c].key
                         /\ d # c => d \notin inflight
      /\ \A d \in Asks \ told : ask'[d] = ask[d]
  BY DEF LaunchSettled, DelegationTypeOK, AskOK, Launches
<1>2. at \in {"failed", "marking", "done"} BY DEF AnsweredAt
<1>3. DelegationTypeOK'
  <2>1. \A d \in Asks : ask'[d] \in [key : Keys, at : Points, seen : SUBSET DOMAIN watches',
                                    agent : {NoAgent} \cup DOMAIN agents']
    <3>1. TAKE d \in Asks
    <3>2. ask[d] \in [key : Keys, at : Points, seen : SUBSET DOMAIN watches,
                      agent : {NoAgent} \cup DOMAIN agents]
      BY DEF DelegationTypeOK
    <3>3. at \in Points /\ a \in {NoAgent} \cup DOMAIN agents' BY <1>2 DEF Points
    <3>4. ask[d] \in [key : Keys, at : Points, seen : SUBSET DOMAIN watches',
                      agent : {NoAgent} \cup DOMAIN agents']
      BY <3>2 DEF AgentsGrow, WatchesGrow
    <3>5. CASE d \in told
      <4>1. ask'[d] = [ask[d] EXCEPT !.at = at, !.agent = a] BY <1>1, <3>5
      <4>2. QED BY <3>3, <3>4, <4>1
    <3>6. CASE d \notin told BY <1>1, <3>4, <3>6
    <3>7. QED BY <3>5, <3>6
  <2>2. ask' \in [Asks -> [key : Keys, at : Points, seen : SUBSET DOMAIN watches',
                           agent : {NoAgent} \cup DOMAIN agents']]
    BY <2>1 DEF LaunchSettled
  <2>3. QED BY <2>2 DEF DelegationTypeOK, AgentsGrow, WatchesGrow, Agent
<1>4. \A d \in Asks :
        /\ ask'[d].key = ask[d].key
        /\ d \in told => ask'[d].at = at /\ ask'[d].agent = a
  <2>1. TAKE d \in Asks
  <2>2. ask[d] \in [key : Keys, at : Points, seen : SUBSET DOMAIN watches,
                    agent : {NoAgent} \cup DOMAIN agents]
    BY DEF DelegationTypeOK
  <2>3. CASE d \in told
    <3>1. ask'[d] = [ask[d] EXCEPT !.at = at, !.agent = a] /\ d \in told BY <1>1, <2>3
    <3>2. QED BY <2>2, <3>1
  <2>4. CASE d \notin told BY <1>1, <2>4
  <2>5. QED BY <2>3, <2>4
<1>5. ASSUME NEW d \in Asks PROVE AskOK(d)'
  <2>1. CASE d \in told
    <3>1. ask'[d].at = at /\ ask'[d].agent = a /\ ask'[d].key = ask[c].key
      BY <1>1, <1>4, <2>1
    <3>2. d \notin inflight' BY <1>1, <2>1
    <3>3. QED BY <1>2, <3>1, <3>2 DEF AskOK, Launches, AnsweredAt
  <2>2. CASE d \notin told
    <3>1. d # c /\ ask'[d] = ask[d] /\ (d \in inflight' <=> d \in inflight)
      BY <1>1, <2>2
    <3>2. ask[d].at = "joined" => ask[d].key # ask[c].key BY <2>2
    <3>3. QED BY <1>4, <3>1, <3>2, OtherAsk DEF DelegationTypeOK
  <2>3. QED BY <2>1, <2>2
<1>6. LaunchesApart' BY <1>4 DEF LaunchesApart, DelegationTypeOK
<1>7. linkedTask' = "delegated" => \E w \in DOMAIN watches' : watches'[w].linked
  BY DEF WatchesGrow
<1>8. Cardinality(inflight)' <= MaxInflight
  <2>1. IsFiniteSet(inflight) BY DelegationAssumption, FS_Subset DEF DelegationTypeOK
  <2>2. QED BY <2>1, OneLess, DelegationAssumption
<1>9. QED BY <1>3, <1>5, <1>6, <1>7, <1>8

-----------------------------------------------------------------------------
(* The steps. *)

Mishap == [faults : Nat, deaths : Nat, retries : Nat, stops : Nat]
AskRecord == [key : Keys, at : Points, seen : SUBSET DOMAIN watches,
              agent : {NoAgent} \cup DOMAIN agents]

LEMMA AskTyped ==
  ASSUME DelegationInv, NEW c \in Asks
  PROVE  /\ ask \in [Asks -> AskRecord] /\ ask[c] \in AskRecord /\ AskOK(c)
         /\ linkedTask \in {"active", "delegated", "closed"} /\ mishap \in Mishap
         /\ linkedTask = "delegated" => \E w \in DOMAIN watches : watches[w].linked
BY DEF DelegationInv, DelegationTypeOK, AskRecord, Mishap

LEMMA FaultTyped ==
  ASSUME DelegationInv, UNCHANGED mishap \/ HostFault
  PROVE  mishap' \in [faults : Nat, deaths : Nat, retries : Nat, stops : Nat]
BY DEF DelegationInv, DelegationTypeOK, HostFault

\* A call moves, and nothing else does but its launch and what is counted.
LEMMA CallMoves ==
  ASSUME DelegationInv, UNCHANGED <<agents, watches>>, NEW c \in Asks,
         NEW q \in AskRecord, ask' = [ask EXCEPT ![c] = q], q.key = ask[c].key,
         \/ UNCHANGED inflight
         \/ /\ inflight' = inflight \cup {c} /\ Cardinality(inflight) < MaxInflight
            /\ Launching(c) = {},
         AskOK(c)',
         linkedTask' \in {"active", "delegated", "closed"},
         linkedTask' = "delegated" => \E w \in DOMAIN watches : watches[w].linked,
         mishap' \in [faults : Nat, deaths : Nat, retries : Nat, stops : Nat]
  PROVE  DelegationInv'
<1>1. AgentsGrow /\ HostOK' /\ NoOtherStarts(c) BY AgentsSame
<1>2. WatchesGrow BY <1>1, WatchesSame
<1>3. q \in [key : Keys, at : Points, seen : SUBSET DOMAIN watches',
             agent : {NoAgent} \cup DOMAIN agents']
  BY DEF AskRecord
<1>4. QED BY <1>1, <1>2, <1>3, OneMoves

LEMMA EntersOK ==
  ASSUME DelegationInv, UNCHANGED <<agents, watches, linkedTask>>, NEW c \in Asks,
         ask[c].at \in {"listing", "finding"}, Enters(c), UNCHANGED mishap \/ HostFault
  PROVE  DelegationInv'
<1>1. /\ ask \in [Asks -> AskRecord] /\ ask[c] \in AskRecord
      /\ linkedTask \in {"active", "delegated", "closed"}
      /\ linkedTask = "delegated" => \E w \in DOMAIN watches : watches[w].linked
      /\ c \notin inflight
  BY AskTyped DEF AskOK, Launches
<1> DEFINE q(at) == [ask[c] EXCEPT !.at = at]
<1>2. \A at \in Points : q(at) \in AskRecord /\ q(at).at = at /\ q(at).key = ask[c].key
  BY <1>1 DEF AskRecord
<1>3. PICK at \in {"joined", "failed", "reconciling"} :
        /\ ask' = [ask EXCEPT ![c] = q(at)]
        /\ at = "joined" => Launching(c) # {} /\ UNCHANGED inflight
        /\ at = "failed" => UNCHANGED inflight
        /\ at = "reconciling" => /\ inflight' = inflight \cup {c} /\ Launching(c) = {}
                                 /\ Cardinality(inflight) < MaxInflight
  <2>1. Cardinality(inflight) \in Nat
    BY DelegationAssumption, FS_Subset, FS_CardinalityType DEF DelegationInv, DelegationTypeOK
  <2>2. MaxInflight \in Nat BY DelegationAssumption
  <2>3. CASE Launching(c) # {} BY <2>3 DEF Enters
  <2>4. CASE Launching(c) = {} /\ Cardinality(inflight) >= MaxInflight BY <2>4 DEF Enters
  <2>5. CASE Launching(c) = {} /\ ~(Cardinality(inflight) >= MaxInflight)
    BY <2>1, <2>2, <2>5 DEF Enters
  <2>6. QED BY <2>3, <2>4, <2>5
<1>4. at \in Points BY DEF Points, Launches
<1>5. ask'[c] = q(at) /\ \A d \in Asks \ {c} : ask'[d] = ask[d] BY <1>1, <1>3
<1>6. AskOK(c)'
  <2>1. ask'[c].at = at /\ ask'[c].key = ask[c].key BY <1>2, <1>4, <1>5
  <2>2. CASE at = "joined"
    <3>1. PICK d \in inflight : ask[d].key = ask[c].key BY <1>3, <2>2 DEF Launching
    <3>2. d \in inflight' /\ ask'[d].key = ask'[c].key
      BY <1>1, <1>3, <1>5, <2>1, <2>2, <3>1 DEF DelegationInv, DelegationTypeOK
    <3>3. QED BY <1>1, <1>3, <2>1, <2>2, <3>2 DEF AskOK, Launches
  <2>3. CASE at # "joined" BY <1>1, <1>3, <2>1, <2>3 DEF AskOK, Launches
  <2>4. QED BY <2>2, <2>3
<1>7. QED BY <1>1, <1>2, <1>3, <1>4, <1>6, CallMoves, FaultTyped

LEMMA AnswersOK ==
  ASSUME DelegationInv, UNCHANGED <<agents, watches, linkedTask, mishap>>, NEW c \in Asks,
         ask[c].at \in {"listing", "finding"}, NEW w \in DOMAIN watches,
         ask[c].key \in Linked => watches[w].linked, AnswersFrom(c, watches[w].agent)
  PROVE  DelegationInv'
<1> DEFINE a == watches[w].agent
           q == [ask[c] EXCEPT !.at = AnsweredAt(c), !.agent = a]
<1>1. /\ ask \in [Asks -> AskRecord] /\ ask[c] \in AskRecord /\ mishap \in Mishap
      /\ linkedTask \in {"active", "delegated", "closed"}
      /\ linkedTask = "delegated" => \E v \in DOMAIN watches : watches[v].linked
      /\ c \notin inflight
  BY AskTyped DEF AskOK, Launches
<1>2. a \in DOMAIN agents
  <2> DEFINE Watch == [agent : DOMAIN agents, stopped : BOOLEAN, linked : BOOLEAN]
  <2>1. watches \in Seq(Watch) BY DEF DelegationInv, DelegationTypeOK
  <2> HIDE DEF Watch
  <2>2. watches[w] \in Watch BY <2>1
  <2>3. QED BY <2>2 DEF Watch
<1>3. AnsweredAt(c) \in Points BY DEF AnsweredAt, Points
<1>4. q \in AskRecord /\ q.at = AnsweredAt(c) /\ q.key = ask[c].key /\ q.agent = a
  BY <1>1, <1>2, <1>3 DEF AskRecord
<1>5. ask' = [ask EXCEPT ![c] = q] /\ UNCHANGED inflight BY DEF AnswersFrom
<1>6. ask'[c] = q BY <1>1, <1>5
<1> HIDE DEF q, a
<1>7. AskOK(c)'
  <2>1. watches'[w].agent = a /\ w \in DOMAIN watches' BY DEF a
  <2>2. ask'[c].at = "marking" => watches'[w].linked BY <1>4, <1>6 DEF AnsweredAt
  <2>3. ask'[c].at \in {"marking", "done"} BY <1>4, <1>6 DEF AnsweredAt
  <2>4. QED BY <1>1, <1>4, <1>5, <1>6, <2>1, <2>2, <2>3 DEF AskOK, Launches
<1>8. QED BY <1>1, <1>4, <1>5, <1>7, CallMoves DEF Mishap

\* A call that waits or is over moves by itself.
LEMMA CallSteps ==
  ASSUME DelegationInv, NEW c \in Asks, Arrives(c) \/ Marks(c) \/ Retries(c)
  PROVE  DelegationInv'
<1>1. /\ ask \in [Asks -> AskRecord] /\ ask[c] \in AskRecord /\ AskOK(c) /\ mishap \in Mishap
      /\ linkedTask \in {"active", "delegated", "closed"}
      /\ linkedTask = "delegated" => \E w \in DOMAIN watches : watches[w].linked
  BY AskTyped
<1>2. \A at \in Points :
        /\ [ask[c] EXCEPT !.at = at] \in AskRecord
        /\ [ask[c] EXCEPT !.at = at].key = ask[c].key
        /\ [ask[c] EXCEPT !.at = at].at = at
        /\ [ask[c] EXCEPT !.at = at].agent = ask[c].agent
  BY <1>1 DEF AskRecord
<1>3. {"listing", "done", "idle"} \subseteq Points BY DEF Points
<1>4. CASE Arrives(c)
  <2> DEFINE q == [ask[c] EXCEPT !.at = "listing"]
  <2>1. ask' = [ask EXCEPT ![c] = q] BY <1>4 DEF Arrives
  <2>2. ask'[c] = q BY <1>1, <2>1
  <2>3. AskOK(c)' BY <1>1, <1>2, <1>3, <1>4, <2>2 DEF Arrives, AskOK, Launches
  <2> HIDE DEF q
  <2>4. q \in AskRecord /\ q.key = ask[c].key BY <1>2, <1>3 DEF q
  <2>5. QED BY <1>1, <1>4, <2>1, <2>3, <2>4, CallMoves DEF Arrives, Mishap
<1>5. CASE Marks(c)
  <2> DEFINE q == [ask[c] EXCEPT !.at = "done"]
  <2>1. ask' = [ask EXCEPT ![c] = q] BY <1>5 DEF Marks
  <2>2. ask'[c] = q BY <1>1, <2>1
  <2>3. AskOK(c)' BY <1>1, <1>2, <1>3, <1>5, <2>2 DEF Marks, AskOK, Launches
  <2> HIDE DEF q
  <2>4. q \in AskRecord /\ q.key = ask[c].key BY <1>2, <1>3 DEF q
  <2>5. /\ linkedTask' \in {"active", "delegated", "closed"}
        /\ \E w \in DOMAIN watches : watches[w].linked
    BY <1>1, <1>5 DEF Marks, AskOK
  <2>6. QED BY <1>1, <1>5, <2>1, <2>3, <2>4, <2>5, CallMoves DEF Marks, Mishap
<1>6. CASE Retries(c)
  <2> DEFINE q == [ask[c] EXCEPT !.at = "idle", !.seen = {}, !.agent = NoAgent]
  <2>1. ask' = [ask EXCEPT ![c] = q] BY <1>1, <1>6 DEF Retries, AskRecord
  <2>2. ask'[c] = q BY <1>1, <2>1
  <2>3. q \in AskRecord /\ q.key = ask[c].key /\ q.at = "idle" BY <1>1, <1>3 DEF AskRecord
  <2> HIDE DEF q
  <2>4. AskOK(c)' BY <1>1, <1>6, <2>2, <2>3 DEF Retries, AskOK, Launches
  <2>5. mishap' \in Mishap BY <1>1, <1>6 DEF Retries, Mishap
  <2>6. QED BY <1>1, <1>6, <2>1, <2>3, <2>4, <2>5, CallMoves DEF Retries, Mishap
<1>7. QED BY <1>4, <1>5, <1>6

\* A call looks for what answers it.
LEMMA LookSteps ==
  ASSUME DelegationInv, NEW c \in Asks, ListsWatches(c) \/ FindsAgents(c)
  PROVE  DelegationInv'
<1>1. /\ ask \in [Asks -> AskRecord] /\ ask[c] \in AskRecord /\ AskOK(c) /\ mishap \in Mishap
      /\ linkedTask \in {"active", "delegated", "closed"}
      /\ linkedTask = "delegated" => \E w \in DOMAIN watches : watches[w].linked
  BY AskTyped
<1>2. CASE ListsWatches(c)
  <2> DEFINE ofTask == {w \in DOMAIN watches : watches[w].linked /\ ~watches[w].stopped}
  <2>1. ask[c].at = "listing" /\ UNCHANGED <<agents, watches, linkedTask>>
    BY <1>2 DEF ListsWatches
  <2>2. \/ /\ ask[c].key \notin Linked /\ UNCHANGED <<inflight, mishap>>
           /\ ask' = [ask EXCEPT ![c].at = "finding", ![c].seen = DOMAIN watches]
        \/ Enters(c) /\ (UNCHANGED mishap \/ HostFault)
        \/ UNCHANGED mishap /\ \E w \in ofTask : AnswersFrom(c, watches[w].agent)
    BY <1>2 DEF ListsWatches
  <2>3. CASE /\ ask[c].key \notin Linked /\ UNCHANGED <<inflight, mishap>>
             /\ ask' = [ask EXCEPT ![c].at = "finding", ![c].seen = DOMAIN watches]
    <3> DEFINE q == [ask[c] EXCEPT !.at = "finding", !.seen = DOMAIN watches]
    <3>1. ask' = [ask EXCEPT ![c] = q] BY <1>1, <2>3 DEF AskRecord
    <3>2. ask'[c] = q BY <1>1, <3>1
    <3>3. q \in AskRecord /\ q.key = ask[c].key /\ q.at = "finding"
      BY <1>1 DEF AskRecord, Points
    <3> HIDE DEF q
    <3>4. AskOK(c)' BY <1>1, <2>1, <2>3, <3>2, <3>3 DEF AskOK, Launches
    <3>5. QED BY <1>1, <2>1, <2>3, <3>1, <3>3, <3>4, CallMoves DEF Mishap
  <2>4. CASE Enters(c) /\ (UNCHANGED mishap \/ HostFault) BY <2>1, <2>4, EntersOK
  <2>5. CASE UNCHANGED mishap /\ \E w \in ofTask : AnswersFrom(c, watches[w].agent)
    <3>1. PICK w \in ofTask : AnswersFrom(c, watches[w].agent) BY <2>5
    <3>2. QED BY <2>1, <2>5, <3>1, AnswersOK
  <2>6. QED BY <2>2, <2>3, <2>4, <2>5
<1>3. CASE FindsAgents(c)
  <2>1. /\ ask[c].at = "finding" /\ UNCHANGED <<agents, watches, linkedTask>>
        /\ ask[c].key \notin Linked
    BY <1>1, <1>3 DEF FindsAgents, AskOK
  <2>2. \/ Enters(c) /\ (UNCHANGED mishap \/ HostFault)
        \/ \E a : WatchesOf(ask[c].seen, a) # {} /\ AnswersFrom(c, a) /\ UNCHANGED mishap
    BY <1>3 DEF FindsAgents
  <2>3. CASE Enters(c) /\ (UNCHANGED mishap \/ HostFault) BY <2>1, <2>3, EntersOK
  <2>4. CASE \E a : WatchesOf(ask[c].seen, a) # {} /\ AnswersFrom(c, a) /\ UNCHANGED mishap
    <3>1. PICK a : WatchesOf(ask[c].seen, a) # {} /\ AnswersFrom(c, a) /\ UNCHANGED mishap
      BY <2>4
    <3>2. PICK w \in DOMAIN watches : watches[w].agent = a
      BY <1>1, <3>1 DEF WatchesOf, AskRecord
    <3>3. QED BY <2>1, <3>1, <3>2, AnswersOK
  <2>5. QED BY <2>2, <2>3, <2>4
<1>4. QED BY <1>2, <1>3

\* A launch that fails, with an agent more or without.
LEMMA FailsOK ==
  ASSUME DelegationInv, NEW c \in Asks, c \in inflight, LaunchFails(c),
         AgentsGrow, HostOK', NoOtherStarts(c), UNCHANGED <<watches, linkedTask>>,
         UNCHANGED mishap \/ HostFault
  PROVE  DelegationInv'
<1>1. WatchesGrow BY WatchesSame
<1>2. mishap' \in [faults : Nat, deaths : Nat, retries : Nat, stops : Nat] BY FaultTyped
<1>3. ask' = LaunchSettled(c, "failed", NoAgent) /\ inflight' = inflight \ {c} BY DEF LaunchFails
<1>4. QED BY <1>1, <1>2, <1>3, LaunchEnds

\* A launch goes on, with the host as it is now.
LEMMA LaunchMoves ==
  ASSUME DelegationInv, NEW c \in Asks, c \in inflight,
         AgentsGrow, HostOK', NoOtherStarts(c), UNCHANGED <<inflight, watches, linkedTask, mishap>>,
         NEW at \in Launches, NEW a \in {NoAgent} \cup DOMAIN agents',
         ask' = [ask EXCEPT ![c] = [ask[c] EXCEPT !.at = at, !.agent = a]],
         at \in {"prompting", "verifying", "registering"} => a \in DOMAIN agents',
         at = "starting" /\ ~Lagging => \A b \in DOMAIN agents' : agents'[b].key # ask[c].key
  PROVE  DelegationInv'
<1>1. /\ ask \in [Asks -> AskRecord] /\ ask[c] \in AskRecord /\ mishap \in Mishap
      /\ linkedTask \in {"active", "delegated", "closed"}
      /\ linkedTask = "delegated" => \E w \in DOMAIN watches : watches[w].linked
  BY AskTyped
<1>2. WatchesGrow BY WatchesSame
<1> DEFINE q == [ask[c] EXCEPT !.at = at, !.agent = a]
<1>3. /\ q \in [key : Keys, at : Points, seen : SUBSET DOMAIN watches',
                agent : {NoAgent} \cup DOMAIN agents']
      /\ q.key = ask[c].key /\ q.at = at /\ q.agent = a
  BY <1>1 DEF AskRecord, Points
<1>4. ask'[c] = q BY <1>1
<1> HIDE DEF q
<1>5. AskOK(c)' BY <1>3, <1>4 DEF AskOK, Launches
<1>6. ask' = [ask EXCEPT ![c] = q] BY DEF q
<1>7. QED BY <1>1, <1>2, <1>3, <1>5, <1>6, OneMoves DEF Mishap

LEMMA LaunchSteps ==
  ASSUME DelegationInv, NEW c \in Asks,
         Reconciles(c) \/ StartsAgent(c) \/ Prompts(c) \/ Verifies(c)
  PROVE  DelegationInv'
<1>1. /\ ask \in [Asks -> AskRecord] /\ ask[c] \in AskRecord /\ AskOK(c)
  BY AskTyped
<1>2. c \in inflight
  BY <1>1 DEF Reconciles, StartsAgent, Prompts, Verifies, AskOK, Launches
<1>3. UNCHANGED <<watches, linkedTask>>
  BY DEF Reconciles, StartsAgent, Prompts, Verifies
<1>4. ASSUME UNCHANGED agents, HostFault, LaunchFails(c) PROVE DelegationInv'
  BY <1>2, <1>3, <1>4, AgentsSame, FailsOK
<1>5. ask[c].agent \in {NoAgent} \cup DOMAIN agents BY <1>1 DEF AskRecord
<1>6. CASE Reconciles(c)
  <2>1. UNCHANGED agents /\ AgentsGrow /\ HostOK' /\ NoOtherStarts(c)
    BY <1>6, AgentsSame DEF Reconciles
  <2>2. CASE HostFault /\ LaunchFails(c) BY <1>4, <2>1, <2>2
  <2>3. CASE /\ UNCHANGED <<inflight, mishap>>
             /\ \E a \in Named(ask[c].key) :
                  ask' = [ask EXCEPT ![c].at = "registering", ![c].agent = a]
    <3>1. PICK a \in Named(ask[c].key) :
            ask' = [ask EXCEPT ![c].at = "registering", ![c].agent = a]
      BY <2>3
    <3>2. a \in DOMAIN agents' BY <2>1 DEF Named
    <3>3. ask' = [ask EXCEPT ![c] = [ask[c] EXCEPT !.at = "registering", !.agent = a]]
      BY <1>1, <3>1 DEF AskRecord
    <3>4. "registering" \in Launches BY DEF Launches
    <3>5. QED BY <1>2, <1>3, <2>1, <2>3, <3>2, <3>3, <3>4, LaunchMoves
  <2>4. CASE /\ UNCHANGED <<inflight, mishap>> /\ Named(ask[c].key) = {}
             /\ ask' = [ask EXCEPT ![c].at = "starting"]
    <3>1. ask' = [ask EXCEPT ![c] = [ask[c] EXCEPT !.at = "starting", !.agent = ask[c].agent]]
      BY <1>1, <2>4 DEF AskRecord
    <3>2. ~Lagging => \A b \in DOMAIN agents' : agents'[b].key # ask[c].key
      BY <2>1, <2>4 DEF Named, DelegationInv, HostOK
    <3>3. "starting" \in Launches BY DEF Launches
    <3>4. QED BY <1>2, <1>3, <1>5, <2>1, <2>4, <3>1, <3>2, <3>3, LaunchMoves
  <2>5. QED BY <1>6, <2>2, <2>3, <2>4 DEF Reconciles, Reconcilable
<1>7. CASE StartsAgent(c)
  <2>1. CASE HostFault /\ LaunchFails(c) /\ UNCHANGED agents BY <1>4, <2>1
  <2>2. CASE Start(c)
    <3>1. /\ AgentsGrow /\ HostOK' /\ NoOtherStarts(c) /\ Len(agents') \in DOMAIN agents'
      BY <1>2, <1>7, <2>2, AgentStarted DEF StartsAgent
    <3>2. CASE HostFault /\ LaunchFails(c) BY <1>2, <1>3, <3>1, <3>2, FailsOK
    <3>3. CASE /\ UNCHANGED <<inflight, mishap>>
               /\ ask' = [ask EXCEPT ![c].at = "prompting", ![c].agent = Len(agents')]
      <4>1. ask' = [ask EXCEPT ![c] = [ask[c] EXCEPT !.at = "prompting", !.agent = Len(agents')]]
        BY <1>1, <3>3 DEF AskRecord
      <4>2. "prompting" \in Launches BY DEF Launches
      <4>3. QED BY <1>2, <1>3, <3>1, <3>3, <4>1, <4>2, LaunchMoves
    <3>4. QED BY <1>7, <3>2, <3>3 DEF StartsAgent
  <2>3. QED BY <1>7, <2>1, <2>2 DEF StartsAgent
<1>8. CASE Prompts(c)
  <2>1. ask[c].agent \in DOMAIN agents BY <1>1, <1>8 DEF Prompts, AskOK
  <2>2. CASE HostFault /\ LaunchFails(c) /\ UNCHANGED agents BY <1>4, <2>2
  <2>3. CASE agents' = [agents EXCEPT ![ask[c].agent].told = TRUE]
    <3>1. AgentsGrow /\ HostOK' /\ NoOtherStarts(c) BY <2>1, <2>3, AgentsMarked
    <3>2. CASE HostFault /\ LaunchFails(c) BY <1>2, <1>3, <3>1, <3>2, FailsOK
    <3>3. CASE UNCHANGED <<inflight, mishap>> /\ ask' = [ask EXCEPT ![c].at = "verifying"]
      <4>1. ask' = [ask EXCEPT ![c] = [ask[c] EXCEPT !.at = "verifying", !.agent = ask[c].agent]]
        BY <1>1, <3>3 DEF AskRecord
      <4>2. "verifying" \in Launches BY DEF Launches
      <4>3. ask[c].agent \in DOMAIN agents' BY <2>1, <3>1 DEF AgentsGrow
      <4>4. QED BY <1>2, <1>3, <3>1, <3>3, <4>1, <4>2, <4>3, LaunchMoves
    <3>4. QED BY <1>8, <3>2, <3>3 DEF Prompts
  <2>4. QED BY <1>8, <2>2, <2>3 DEF Prompts
<1>9. CASE Verifies(c)
  <2>1. UNCHANGED agents /\ AgentsGrow /\ HostOK' /\ NoOtherStarts(c)
    BY <1>9, AgentsSame DEF Verifies
  <2>2. CASE LaunchFails(c) /\ (UNCHANGED mishap \/ HostFault)
    BY <1>2, <1>3, <2>1, <2>2, FailsOK
  <2>3. CASE /\ UNCHANGED <<inflight, mishap>>
             /\ \E a \in Named(ask[c].key) :
                  ask' = [ask EXCEPT ![c].at = "registering", ![c].agent = a]
    <3>1. PICK a \in Named(ask[c].key) :
            ask' = [ask EXCEPT ![c].at = "registering", ![c].agent = a]
      BY <2>3
    <3>2. a \in DOMAIN agents' BY <2>1 DEF Named
    <3>3. ask' = [ask EXCEPT ![c] = [ask[c] EXCEPT !.at = "registering", !.agent = a]]
      BY <1>1, <3>1 DEF AskRecord
    <3>4. "registering" \in Launches BY DEF Launches
    <3>5. QED BY <1>2, <1>3, <2>1, <2>3, <3>2, <3>3, <3>4, LaunchMoves
  <2>4. QED BY <1>9, <2>2, <2>3 DEF Verifies
<1>10. QED BY <1>6, <1>7, <1>8, <1>9

LEMMA RegistersOK ==
  ASSUME DelegationInv, NEW c \in Asks, Registers(c)
  PROVE  DelegationInv'
<1>1. /\ ask \in [Asks -> AskRecord] /\ ask[c] \in AskRecord /\ AskOK(c)
  BY AskTyped
<1>2. c \in inflight /\ ask[c].agent \in DOMAIN agents
  BY <1>1 DEF Registers, AskOK, Launches
<1>3. /\ UNCHANGED <<agents, linkedTask>> /\ AgentsGrow /\ HostOK' /\ NoOtherStarts(c)
  BY AgentsSame DEF Registers
<1>4. CASE HostFault /\ LaunchFails(c) /\ UNCHANGED watches BY <1>2, <1>3, <1>4, FailsOK
<1>5. CASE /\ watches' = Append(watches, [agent |-> ask[c].agent, stopped |-> FALSE,
                                          linked |-> ask[c].key \in Linked])
           /\ ask' = LaunchSettled(c, AnsweredAt(c), ask[c].agent)
           /\ inflight' = inflight \ {c} /\ UNCHANGED mishap
  <2> DEFINE Watch == [agent : DOMAIN agents, stopped : BOOLEAN, linked : BOOLEAN]
             v == [agent |-> ask[c].agent, stopped |-> FALSE, linked |-> ask[c].key \in Linked]
             n == Len(watches) + 1
  <2>1. watches \in Seq(Watch) /\ v \in Watch BY <1>2 DEF DelegationInv, DelegationTypeOK
  <2>2. watches' = Append(watches, v) BY <1>5
  <2> HIDE DEF v, Watch
  <2>3. /\ watches' \in Seq(Watch) /\ DOMAIN watches' = DOMAIN watches \cup {n}
        /\ watches'[n] = v /\ n \in DOMAIN watches'
        /\ \A w \in DOMAIN watches : watches'[w] = watches[w]
    BY <2>1, <2>2
  <2>4. WatchesGrow BY <1>3, <2>3 DEF WatchesGrow, Watch
  <2>5. watches'[n].agent = ask[c].agent /\ watches'[n].linked = (ask[c].key \in Linked)
    BY <2>3 DEF v
  <2>6. mishap' \in [faults : Nat, deaths : Nat, retries : Nat, stops : Nat]
    BY <1>5, FaultTyped
  <2>7. QED BY <1>2, <1>3, <1>5, <2>3, <2>4, <2>5, <2>6, LaunchEnds
<1>6. QED BY <1>4, <1>5 DEF Registers

\* What happens around the calls: they keep what they have.
LEMMA CallsSame ==
  ASSUME DelegationInv, AgentsGrow, HostOK', \A c : NoOtherStarts(c), WatchesGrow,
         UNCHANGED <<ask, inflight>>,
         linkedTask' \in {"active", "delegated", "closed"},
         linkedTask' = "delegated" => linkedTask = "delegated",
         mishap' \in [faults : Nat, deaths : Nat, retries : Nat, stops : Nat]
  PROVE  DelegationInv'
<1> USE DEF DelegationInv
<1>1. DelegationTypeOK'
  <2>1. \A c \in Asks : ask'[c] \in [key : Keys, at : Points, seen : SUBSET DOMAIN watches',
                                    agent : {NoAgent} \cup DOMAIN agents']
    BY DEF DelegationTypeOK, AgentsGrow, WatchesGrow
  <2>2. QED BY <2>1 DEF DelegationTypeOK, AgentsGrow, WatchesGrow, Agent
<1>2. ASSUME NEW d \in Asks PROVE AskOK(d)'
  <2>1. PICK c : c # d OBVIOUS
  <2>2. QED BY <2>1, OtherAsk
<1>3. LaunchesApart' BY DEF LaunchesApart
<1>4. linkedTask' = "delegated" => \E w \in DOMAIN watches' : watches'[w].linked
  BY DEF WatchesGrow
<1>5. QED BY <1>1, <1>2, <1>3, <1>4

LEMMA AroundSteps ==
  ASSUME DelegationInv,
         \/ \E a \in DOMAIN agents : Appears(a)
         \/ \E w \in DOMAIN watches : OwnerStops(w)
         \/ TaskCloses
  PROVE  DelegationInv'
<1>1. /\ linkedTask \in {"active", "delegated", "closed"} /\ mishap \in Mishap
  BY DEF DelegationInv, DelegationTypeOK, Mishap
<1>2. CASE \E a \in DOMAIN agents : Appears(a)
  <2>1. PICK a \in DOMAIN agents : agents' = [agents EXCEPT ![a].listed = TRUE]
    BY <1>2 DEF Appears
  <2>2. UNCHANGED <<ask, inflight, watches, linkedTask, mishap>> BY <1>2 DEF Appears
  <2>3. AgentsGrow /\ HostOK' /\ \A c : NoOtherStarts(c) BY <2>1, AgentsMarked
  <2>4. QED BY <1>1, <2>2, <2>3, WatchesSame, CallsSame DEF Mishap
<1>3. CASE \E w \in DOMAIN watches : OwnerStops(w)
  <2>1. PICK w \in DOMAIN watches : OwnerStops(w) BY <1>3
  <2>2. /\ UNCHANGED <<ask, inflight, agents, linkedTask>>
        /\ watches' = [watches EXCEPT ![w].stopped = TRUE]
    BY <2>1 DEF OwnerStops
  <2>3. AgentsGrow /\ HostOK' /\ \A c : NoOtherStarts(c) BY <2>2, AgentsSame
  <2> DEFINE Watch == [agent : DOMAIN agents, stopped : BOOLEAN, linked : BOOLEAN]
             v == [watches[w] EXCEPT !.stopped = TRUE]
  <2>4. watches \in Seq(Watch) BY DEF DelegationInv, DelegationTypeOK
  <2> HIDE DEF Watch
  <2>5. watches[w] \in Watch BY <2>4
  <2>6. /\ v \in Watch /\ v.agent = watches[w].agent /\ v.linked = watches[w].linked
    BY <2>5 DEF Watch
  <2>7. watches' = [watches EXCEPT ![w] = v] BY <2>2
  <2> HIDE DEF v
  <2>8. watches' \in Seq(Watch) /\ DOMAIN watches' = DOMAIN watches
    BY <2>4, <2>6, <2>7, ExceptSeq
  <2>9. \A u \in DOMAIN watches :
          watches'[u].agent = watches[u].agent /\ watches'[u].linked = watches[u].linked
    BY <2>4, <2>6, <2>7
  <2>10. WatchesGrow BY <2>2, <2>8, <2>9 DEF WatchesGrow, Watch
  <2>11. mishap' \in Mishap BY <1>1, <2>1 DEF OwnerStops, Mishap
  <2>12. QED BY <1>1, <2>2, <2>3, <2>10, <2>11, CallsSame DEF Mishap
<1>4. CASE TaskCloses
  <2>1. UNCHANGED <<ask, inflight, agents, watches, mishap>> /\ linkedTask' = "closed"
    BY <1>4 DEF TaskCloses
  <2>2. AgentsGrow /\ HostOK' /\ \A c : NoOtherStarts(c) BY <2>1, AgentsSame
  <2>3. QED BY <1>1, <2>1, <2>2, WatchesSame, CallsSame DEF Mishap
<1>5. QED BY <1>2, <1>3, <1>4

LEMMA DiesOK ==
  ASSUME DelegationInv, GatewayDies
  PROVE  DelegationInv'
<1> USE DEF DelegationInv
<1>1. AgentsGrow /\ HostOK'
  <2>1. CASE UNCHANGED agents BY <2>1, AgentsSame
  <2>2. CASE \E c \in inflight : ask[c].at = "starting" /\ Start(c) BY <2>2, AgentStarted
  <2>3. QED BY <2>1, <2>2 DEF GatewayDies
<1>2. /\ UNCHANGED <<watches, linkedTask>> /\ inflight' = {} /\ WatchesGrow
  BY <1>1, WatchesSame DEF GatewayDies
<1>3. ask \in [Asks -> AskRecord] BY DEF DelegationTypeOK, AskRecord
<1>4. ASSUME NEW c \in Asks
      PROVE  /\ ask'[c] \in [key : Keys, at : Points, seen : SUBSET DOMAIN watches',
                              agent : {NoAgent} \cup DOMAIN agents']
             /\ \/ ask'[c] = ask[c] /\ ask[c].at \in {"idle", "done"}
                \/ ask'[c].at = "failed"
  <2>1. ask[c] \in AskRecord BY <1>3
  <2>2. CASE ask[c].at \in {"idle", "done"}
    <3>1. ask'[c] = ask[c] BY <2>2 DEF GatewayDies
    <3>2. QED BY <1>1, <1>2, <2>1, <2>2, <3>1 DEF AskRecord, AgentsGrow
  <2>3. CASE ask[c].at \notin {"idle", "done"}
    <3>1. ask'[c] = [ask[c] EXCEPT !.at = "failed", !.agent = NoAgent] BY <2>3 DEF GatewayDies
    <3>2. "failed" \in Points BY DEF Points
    <3>3. QED BY <1>2, <2>1, <3>1, <3>2 DEF AskRecord
  <2>4. QED BY <2>2, <2>3
<1>5. mishap' \in Mishap
  <2>1. mishap \in Mishap BY DEF DelegationTypeOK, Mishap
  <2>2. mishap' = [mishap EXCEPT !.deaths = @ + 1] BY DEF GatewayDies
  <2>3. QED BY <2>1, <2>2 DEF Mishap
<1>6. DelegationTypeOK'
  <2>1. ask' \in [Asks -> [key : Keys, at : Points, seen : SUBSET DOMAIN watches',
                           agent : {NoAgent} \cup DOMAIN agents']]
    BY <1>4 DEF GatewayDies
  <2>2. QED BY <1>1, <1>2, <1>5, <2>1 DEF DelegationTypeOK, AgentsGrow, WatchesGrow, Agent, Mishap
<1>7. ASSUME NEW c \in Asks PROVE AskOK(c)'
  <2>1. CASE ask'[c] = ask[c] /\ ask[c].at \in {"idle", "done"}
    BY <1>2, <2>1 DEF AskOK, Launches
  <2>2. CASE ask'[c].at = "failed" BY <1>2, <2>2 DEF AskOK, Launches
  <2>3. QED BY <1>4, <2>1, <2>2
<1>8. LaunchesApart' BY <1>2 DEF LaunchesApart
<1>9. Cardinality(inflight') <= MaxInflight BY <1>2, FS_EmptySet, DelegationAssumption
<1>10. QED BY <1>1, <1>2, <1>6, <1>7, <1>8, <1>9

LEMMA DelegationInductive ==
  ASSUME DelegationInv, [DelegationNext]_delegationVars
  PROVE  DelegationInv'
<1>1. ASSUME NEW c \in Asks, Delegates(c) PROVE DelegationInv'
  BY <1>1, CallSteps, LookSteps, LaunchSteps, RegistersOK DEF Delegates
<1>2. CASE GatewayDies BY <1>2, DiesOK
<1>3. CASE \/ \E a \in DOMAIN agents : Appears(a)
           \/ \E w \in DOMAIN watches : OwnerStops(w)
           \/ TaskCloses
  BY <1>3, AroundSteps
<1>4. CASE UNCHANGED delegationVars
  <2>1. UNCHANGED <<ask, inflight, agents, watches, linkedTask, mishap>>
    BY <1>4 DEF delegationVars
  <2>2. AgentsGrow /\ HostOK' /\ \A c : NoOtherStarts(c) BY <2>1, AgentsSame
  <2>3. mishap' \in Mishap /\ linkedTask' \in {"active", "delegated", "closed"}
    BY <2>1 DEF DelegationInv, DelegationTypeOK, Mishap
  <2>4. QED BY <2>1, <2>2, <2>3, WatchesSame, CallsSame DEF Mishap
<1>5. QED BY <1>1, <1>2, <1>3, <1>4 DEF DelegationNext

LEMMA DelegationInvKept ==
  ASSUME DelegationInv
  PROVE  DelegationKept
<1> USE DEF DelegationInv
<1>1. Lagging \/ OneAgentPerKey BY DelegationAssumption DEF HostOK
<1>2. DelegatedIsWatched BY DEF DelegatedIsWatched, AskOK
<1>3. JoinersHaveALaunch BY DEF JoinersHaveALaunch, AskOK
<1>4. QED BY <1>1, <1>2, <1>3 DEF DelegationKept

\* However calls of one key overlap, fail half-way, are repeated or lose their
\* gateway: on a host whose list is complete one agent runs for a key, a
\* delegated task is watched, and whoever joined a launch has one to wait for
\* (delegation.service.ts:59-122, server.ts:933-961).
THEOREM DelegationAlwaysKept == DelegationSpec => []DelegationKept
<1>1. DelegationInit => DelegationInv BY DelegationInitial
<1>2. DelegationInv /\ [DelegationNext]_delegationVars => DelegationInv'
  BY DelegationInductive
<1>3. DelegationInv => DelegationKept BY DelegationInvKept
<1>4. QED BY <1>1, <1>2, <1>3, PTL DEF DelegationSpec

-----------------------------------------------------------------------------
(* Conversations at Hermes *)

Chat == [title : {"voice", "recall", "own", "moved"}, model : {"real", "virtual"}, tip : Nat]
Turn == [call : Requests \cup {NoRequest}, thread : Nat, at : {"running", "over", "failed"},
         reply : Nat]
Device == [at : {"off", "checking", "creating", "listing", "resuming", "open", "closed", "failed"},
           mode : {"unbound", "new", "persistent", "resume"},
           thread : Nat, recall : Nat, accepted : Nat]
Owner == Devices \cup {NewRequest.device}
Request == [at : {"none", "queued", "finding", "making", "readying", "locking", "asking",
                  "waiting", "done", "dropped"},
            kind : {"conversation", "recall"}, device : Owner,
            number : Nat, thread : Nat, by : {"stream", "chat"}, turn : Nat, heard : Nat,
            told : BOOLEAN]

\* Threads exist, and one that Hermes was told about is on a real model.
HermesInv ==
  /\ chats \in Seq(Chat) /\ turns \in Seq(Turn)
  /\ hermes \in [deferring : BOOLEAN, ready : SUBSET (1..Len(chats))]
  /\ \A t \in 1..Len(chats) : chats[t].tip \in 1..Len(chats)
  /\ \A i \in 1..Len(turns) : {turns[i].thread, turns[i].reply} \subseteq 1..Len(chats)
  /\ \A t \in hermes.ready : chats[t].model = "real"

DeviceOK(d) ==
  /\ device[d].thread \in 0..Len(chats)
  /\ device[d].recall # 0 =>
       device[d].recall \in 1..Len(chats) /\ chats[device[d].recall].title = "recall"
  /\ device[d].at = "open" /\ device[d].mode # "unbound" => device[d].thread # 0
  /\ device[d].at = "resuming" /\ device[d].mode = "persistent" => device[d].thread # 0
DevicesInv == device \in [Devices -> Device] /\ \A d \in Devices : DeviceOK(d)

\* What a request has at each point of its way.
RequestOK(c) ==
  /\ request[c].at # "none" =>
       /\ request[c].device \in Devices
       /\ request[c].number < device[request[c].device].accepted
       /\ request[c].by = "stream" => hermes.deferring
  /\ request[c].at \notin {"none", "done", "dropped"} =>
       /\ device[request[c].device].at = "open"
       /\ request[c].kind = "conversation" =>
            device[request[c].device].thread # 0 /\ ~request[c].told
  /\ request[c].at = "done" => request[c].told
  /\ request[c].thread \in 0..Len(chats)
  /\ request[c].at \in {"readying", "locking", "asking", "waiting"} =>
       request[c].thread \in 1..Len(chats)
  /\ request[c].at \in {"asking", "waiting"} => chats[request[c].thread].model = "real"
  /\ request[c].at = "waiting" =>
       request[c].turn \in 1..Len(turns) /\ turns[request[c].turn].call = c
RequestsInv == request \in [Requests -> Request] /\ \A c \in Requests : RequestOK(c)

\* Only the first operation of a chain works.
ChainInv ==
  \A d \in Devices : \A b, c \in Chain(d) :
    /\ request[b].number = request[c].number => b = c
    /\ request[b].at # "queued" => request[b].number <= request[c].number

\* The turns so far were accepted before whatever still waits.
Before(i, b) ==
  turns[i].call # NoRequest =>
    LET a == request[turns[i].call]
    IN  a.device = b.device /\ a.kind = "conversation" /\ b.kind = "conversation" =>
          a.number <= b.number
OrderInv ==
  /\ \A i \in 1..Len(turns) : \A d \in Devices : \A c \in Chain(d) : Before(i, request[c])
  /\ \A i, j \in 1..Len(turns) :
       i < j /\ turns[j].call # NoRequest => Before(i, request[turns[j].call])

\* The turns a request may have been so far.
TurnsOf(c) == {i \in 1..Len(turns) : turns[i].call = c}
Tries(r, deferring) ==
  (IF r.by = "chat" /\ deferring THEN 1 ELSE 0)
  + (IF r.at \in {"waiting", "done", "dropped"} THEN 1 ELSE 0)
CountInv ==
  \A c \in Requests : /\ Cardinality(TurnsOf(c)) <= Tries(request[c], hermes.deferring)
                      /\ request[c].at = "none" => TurnsOf(c) = {}

ConversationInv ==
  HermesInv /\ DevicesInv /\ RequestsInv /\ ChainInv /\ OrderInv /\ CountInv

LEMMA ConversationInitial ==
  ASSUME ConversationInit
  PROVE  ConversationInv
<1> USE DEF ConversationInit, NoThread, NoTurn
<1>1. HermesInv
  <2>1. chats \in Seq(Chat) /\ \A t \in 1..Len(chats) : chats[t].tip \in 1..Len(chats)
    <3>1. CASE chats = <<>> BY <3>1
    <3>2. CASE \E m \in {"real", "virtual"} : chats = <<[title |-> "voice", model |-> m, tip |-> 1]>>
      <4>1. PICK m \in {"real", "virtual"} : chats = <<[title |-> "voice", model |-> m, tip |-> 1]>>
        BY <3>2
      <4>2. [title |-> "voice", model |-> m, tip |-> 1] \in Chat BY DEF Chat
      <4>3. QED BY <4>1, <4>2
    <3>3. QED BY <3>1, <3>2
  <2>2. QED BY <2>1 DEF HermesInv
<1>2. DevicesInv BY DEF DevicesInv, Device, DeviceOK
<1>3. RequestsInv
  <2>1. NewRequest \in Request BY DEF NewRequest, Request, Owner
  <2>2. Len(chats) \in Nat BY <1>1 DEF HermesInv
  <2>3. \A c \in Requests : request[c] \in Request /\ request[c].at = "none" /\ request[c].thread = 0
    BY <2>1 DEF NewRequest
  <2>4. \A c \in Requests : RequestOK(c) BY <2>2, <2>3 DEF RequestOK
  <2>5. QED BY <2>1, <2>4 DEF RequestsInv
<1>4. \A d \in Devices : Chain(d) = {} BY DEF Chain, NewRequest
<1>5. ChainInv BY <1>4 DEF ChainInv
<1>6. OrderInv BY DEF OrderInv
<1>7. CountInv
  <2>1. \A c \in Requests : TurnsOf(c) = {} BY DEF TurnsOf
  <2>2. \A c \in Requests : request[c].at = "none" /\ request[c].by = "stream" BY DEF NewRequest
  <2>3. \A c \in Requests : Tries(request[c], hermes.deferring) = 0 BY <2>2 DEF Tries
  <2>4. \A c \in Requests : Cardinality(TurnsOf(c)) = 0 BY <2>1, FS_EmptySet
  <2>5. QED BY <2>1, <2>3, <2>4 DEF CountInv
<1>8. QED BY <1>1, <1>2, <1>3, <1>5, <1>6, <1>7 DEF ConversationInv

(* What other sessions and requests may count on *)

ChatsGrow ==
  /\ Len(chats) <= Len(chats')
  /\ \A t \in 1..Len(chats) : /\ chats'[t].title = chats[t].title
                              /\ chats'[t].model \in {chats[t].model, "real"}
TurnsGrow ==
  /\ Len(turns) <= Len(turns')
  /\ \A i \in 1..Len(turns) : turns'[i].call = turns[i].call
DevicesGo ==
  \A d \in Devices :
    /\ device[d].accepted <= device'[d].accepted
    /\ device[d].at = "open" =>
         device'[d].at = "open" /\ (device[d].thread # 0 => device'[d].thread # 0)

LEMMA OtherDevices ==
  ASSUME ConversationInv, ChatsGrow, HermesInv', NEW d \in Devices, device'[d] = device[d]
  PROVE  DeviceOK(d)'
BY DEF ConversationInv, HermesInv, DevicesInv, DeviceOK, ChatsGrow, Device, Chat

LEMMA OtherRequests ==
  ASSUME ConversationInv, ChatsGrow, TurnsGrow, DevicesGo, HermesInv', DevicesInv',
         hermes'.deferring = hermes.deferring, NEW c \in Requests, request'[c] = request[c]
  PROVE  RequestOK(c)'
<1> USE DEF ConversationInv, RequestsInv, HermesInv, DevicesInv
<1>1. RequestOK(c) /\ request[c] \in Request OBVIOUS
<1>2. request[c].at # "none" =>
       /\ request[c].device \in Devices
       /\ request[c].number < device'[request[c].device].accepted
       /\ request[c].by = "stream" => hermes'.deferring
  BY <1>1 DEF RequestOK, DevicesGo, Device, Request
<1>3. request[c].at \notin {"none", "done", "dropped"} =>
       /\ device'[request[c].device].at = "open"
       /\ request[c].kind = "conversation" =>
            device'[request[c].device].thread # 0 /\ ~request[c].told
  BY <1>1, <1>2 DEF RequestOK, DevicesGo
<1>4. request[c].at \in {"readying", "locking", "asking", "waiting"} =>
       request[c].thread \in 1..Len(chats')
  BY <1>1 DEF RequestOK, ChatsGrow
<1>5. request[c].at \in {"asking", "waiting"} => chats'[request[c].thread].model = "real"
  BY <1>1 DEF RequestOK, ChatsGrow
<1>6. request[c].at = "waiting" =>
       request[c].turn \in 1..Len(turns') /\ turns'[request[c].turn].call = c
  BY <1>1 DEF RequestOK, TurnsGrow
<1>7. request[c].thread \in 0..Len(chats') BY <1>1 DEF RequestOK, ChatsGrow
<1>8. QED BY <1>1, <1>2, <1>3, <1>4, <1>5, <1>6, <1>7 DEF RequestOK

\* A step of an operation leaves the order alone if it begins no turn and lets
\* only the first of a chain begin.
CallsKept ==
  /\ TurnsGrow
  /\ \A i \in Len(turns)+1..Len(turns') : turns'[i].call = NoRequest

LEMMA OrderStays ==
  ASSUME ConversationInv, HermesInv', request' \in [Requests -> Request],
         \A c \in Requests : /\ request'[c].device = request[c].device
                             /\ request'[c].number = request[c].number
                             /\ request'[c].kind = request[c].kind,
         \A d \in Devices : Chain(d)' \subseteq Chain(d),
         \A d \in Devices : \A c \in Chain(d)' :
           request'[c].at # "queued" =>
             \/ request[c].at # "queued"
             \/ \A o \in Chain(d) : request[c].number <= request[o].number
  PROVE  ChainInv' /\ (CallsKept => OrderInv')
<1> USE DEF ConversationInv, HermesInv
<1>0. \A d \in Devices : Chain(d) \subseteq Requests BY DEF Chain
<1>1. ChainInv'
  <2> SUFFICES ASSUME NEW d \in Devices, NEW b \in Chain(d)', NEW c \in Chain(d)'
               PROVE  /\ request'[b].number = request'[c].number => b = c
                      /\ request'[b].at # "queued" => request'[b].number <= request'[c].number
    BY DEF ChainInv
  <2>1. b \in Chain(d) /\ c \in Chain(d) OBVIOUS
  <2>2. b \in Requests /\ c \in Requests BY <2>1, <1>0
  <2>3. QED BY <2>1, <2>2 DEF ChainInv
<1>2. ASSUME CallsKept PROVE OrderInv'
  <2>1. \A i \in 1..Len(turns') : turns'[i].call # NoRequest =>
          i \in 1..Len(turns) /\ turns'[i].call = turns[i].call /\ turns[i].call \in Requests
    <3> SUFFICES ASSUME NEW i \in 1..Len(turns'), turns'[i].call # NoRequest
                 PROVE  i \in 1..Len(turns) /\ turns'[i].call = turns[i].call
                        /\ turns[i].call \in Requests
      OBVIOUS
    <3>1. i \in 1..Len(turns) /\ turns'[i].call = turns[i].call
      BY <1>2 DEF CallsKept, TurnsGrow
    <3>2. turns[i] \in Turn BY <3>1
    <3>3. QED BY <3>1, <3>2 DEF Turn
  <2>2. ASSUME NEW i \in 1..Len(turns'), NEW d \in Devices, NEW c \in Chain(d)'
        PROVE  Before(i, request[c])'
    <3>1. c \in Chain(d) /\ c \in Requests BY <1>0
    <3>2. i \in 1..Len(turns) => Before(i, request[c]) BY <3>1 DEF OrderInv
    <3>3. QED BY <2>1, <3>1, <3>2 DEF Before
  <2>3. ASSUME NEW i \in 1..Len(turns'), NEW j \in 1..Len(turns'), i < j,
               turns'[j].call # NoRequest
        PROVE  Before(i, request[turns[j].call])'
    <3>1. turns[j].call \in Requests /\ j \in 1..Len(turns) /\ turns'[j].call = turns[j].call
      BY <2>1, <2>3
    <3>2. i \in 1..Len(turns) => Before(i, request[turns[j].call]) BY <3>1, <2>3 DEF OrderInv
    <3>3. QED BY <2>1, <3>1, <3>2 DEF Before
  <2>4. QED BY <2>2, <2>3 DEF OrderInv
<1>3. QED BY <1>1, <1>2

LEMMA TurnsCounted ==
  ASSUME turns \in Seq(Turn), NEW c \in Requests
  PROVE  IsFiniteSet(TurnsOf(c)) /\ Cardinality(TurnsOf(c)) \in Nat
<1>1. Len(turns) \in Nat OBVIOUS
<1>2. IsFiniteSet(1..Len(turns)) BY <1>1, FS_Interval
<1>3. QED BY <1>2, FS_Subset, FS_CardinalityType DEF TurnsOf

LEMMA CountStays ==
  ASSUME ConversationInv, HermesInv', CallsKept, hermes'.deferring = hermes.deferring,
         \A c \in Requests :
           /\ Tries(request[c], hermes.deferring) <= Tries(request'[c], hermes.deferring)
           /\ request'[c].at = "none" => request[c].at = "none"
  PROVE  CountInv'
<1> USE DEF ConversationInv, HermesInv
<1>1. \A c \in Requests : TurnsOf(c)' = TurnsOf(c)
  <2> SUFFICES ASSUME NEW c \in Requests PROVE TurnsOf(c)' = TurnsOf(c) OBVIOUS
  <2>1. c # NoRequest BY ConversationAssumption
  <2>2. Len(turns) \in Nat /\ Len(turns') \in Nat OBVIOUS
  <2>3. /\ Len(turns) <= Len(turns')
        /\ \A i \in 1..Len(turns) : turns'[i].call = turns[i].call
        /\ \A i \in Len(turns)+1..Len(turns') : turns'[i].call = NoRequest
    BY DEF CallsKept, TurnsGrow
  <2>4. \A i \in 1..Len(turns') : turns'[i].call = c =>
          i \in 1..Len(turns) /\ turns[i].call = c
    BY <2>1, <2>2, <2>3
  <2>5. \A i \in 1..Len(turns) : turns[i].call = c =>
          i \in 1..Len(turns') /\ turns'[i].call = c
    BY <2>2, <2>3
  <2>6. QED BY <2>4, <2>5, Zenon DEF TurnsOf
<1>2. SUFFICES ASSUME NEW c \in Requests
               PROVE  /\ Cardinality(TurnsOf(c)) <= Tries(request'[c], hermes'.deferring)
                      /\ request'[c].at = "none" => TurnsOf(c) = {}
  BY <1>1 DEF CountInv
<1>3. Cardinality(TurnsOf(c)) \in Nat BY TurnsCounted
<1>4. QED BY <1>2, <1>3 DEF CountInv, Tries

LEMMA RequestsStand ==
  ASSUME ConversationInv, HermesInv', DevicesInv', ChatsGrow, CallsKept, DevicesGo,
         hermes'.deferring = hermes.deferring, request' = request
  PROVE  ConversationInv'
<1> USE DEF ConversationInv
<1>1. TurnsGrow BY DEF CallsKept
<1>2. \A c \in Requests : RequestOK(c)' BY <1>1, OtherRequests
<1>3. RequestsInv' BY <1>2 DEF RequestsInv
<1>4. \A d \in Devices : Chain(d)' = Chain(d) BY DEF Chain
<1>5. request' \in [Requests -> Request] BY DEF RequestsInv
<1>6. \A d \in Devices : \A c \in Chain(d)' : request'[c].at # "queued" => request[c].at # "queued"
  OBVIOUS
<1>7. ChainInv' /\ OrderInv' BY <1>4, <1>5, <1>6, OrderStays
<1>8. CountInv'
  <2>1. \A c \in Requests : Tries(request[c], hermes.deferring) \in Nat BY DEF Tries
  <2>2. \A c \in Requests :
          Tries(request[c], hermes.deferring) <= Tries(request'[c], hermes.deferring)
    BY <2>1
  <2>3. QED BY <2>2, CountStays
<1>9. QED BY <1>3, <1>7, <1>8

LEMMA RequestGoes ==
  ASSUME ConversationInv, HermesInv', DevicesInv', ChatsGrow, CallsKept, DevicesGo,
         hermes'.deferring = hermes.deferring,
         NEW c \in Requests, request' \in [Requests -> Request],
         \A o \in Requests \ {c} : request'[o] = request[o],
         request'[c].device = request[c].device, request'[c].number = request[c].number,
         request'[c].kind = request[c].kind,
         request[c].at \notin {"none", "dropped"}, request'[c].at # "none",
         request[c].told => request'[c].told,
         Tries(request[c], hermes.deferring) <= Tries(request'[c], hermes.deferring),
         \/ request[c].at # "queued"
         \/ \A o \in Chain(request[c].device) : request[c].number <= request[o].number,
         RequestOK(c)'
  PROVE  ConversationInv'
<1> USE DEF ConversationInv
<1>0. request \in [Requests -> Request] /\ TurnsGrow BY DEF RequestsInv, CallsKept
<1>1. \A o \in Requests : RequestOK(o)' BY <1>0, OtherRequests
<1>2. RequestsInv' BY <1>1 DEF RequestsInv
<1>3. \A d \in Devices : Chain(d)' \subseteq Chain(d) BY DEF Chain
<1>4. \A o \in Requests : /\ request'[o].device = request[o].device
                          /\ request'[o].number = request[o].number
                          /\ request'[o].kind = request[o].kind
  OBVIOUS
<1>5. \A d \in Devices : \A o \in Chain(d)' :
           request'[o].at # "queued" =>
             \/ request[o].at # "queued"
             \/ \A p \in Chain(d) : request[o].number <= request[p].number
  BY <1>3 DEF Chain
<1>6. ChainInv' /\ OrderInv' BY <1>3, <1>4, <1>5, OrderStays
<1>7. CountInv'
  <2>1. \A o \in Requests : Tries(request[o], hermes.deferring) \in Nat BY DEF Tries
  <2>2. \A o \in Requests :
          /\ Tries(request[o], hermes.deferring) <= Tries(request'[o], hermes.deferring)
          /\ request'[o].at = "none" => request[o].at = "none"
    BY <2>1
  <2>3. QED BY <2>2, CountStays
<1>8. QED BY <1>2, <1>6, <1>7

(* Threads *)

LEMMA SmallestOfNat ==
  ASSUME NEW T, T \subseteq Nat, T # {}
  PROVE  \E i \in T : \A j \in T : i <= j
<1>1. PICK i \in T : \A j \in T : ~ (<<j, i>> \in OpToRel(<, Nat))
  BY WFMin, NatLessThanWellFounded, Zenon
<1>2. \A j \in T : ~ (j < i)
  BY <1>1, Zenon DEF OpToRel
<1>3. \A j \in T : i <= j BY <1>2
<1>4. QED BY <1>3

LEMMA LargestUpTo ==
  ASSUME NEW n \in Nat, NEW T, T \subseteq 0..n, T # {}
  PROVE  \E i \in T : \A j \in T : j <= i
<1> DEFINE S == {n - i : i \in T}
<1>0. PICK i \in T : TRUE OBVIOUS
<1>1. S \subseteq Nat /\ n - i \in S BY <1>0
<1>2. PICK m \in S : \A k \in S : m <= k
  <2> HIDE DEF S
  <2> QED BY <1>1, SmallestOfNat
<1>3. PICK k \in T : m = n - k OBVIOUS
<1>4. \A j \in T : n - k <= n - j BY <1>2, <1>3
<1>5. \A j \in T : j <= k BY <1>4
<1>6. QED BY <1>5

LEMMA LastActiveTurn ==
  ASSUME turns \in Seq(Turn), NEW t
  PROVE  LastActive(t) \in 0..Len(turns)
<1> DEFINE used == {i \in DOMAIN turns : turns[i].thread = t}
<1>1. Len(turns) \in Nat /\ used \subseteq 0..Len(turns) /\ used \subseteq 1..Len(turns) OBVIOUS
<1>2. CASE used = {} BY <1>1, <1>2 DEF LastActive
<1>3. CASE used # {}
  <2> HIDE DEF used
  <2>1. \E i \in used : \A j \in used : j <= i BY <1>1, <1>3, LargestUpTo
  <2>2. (CHOOSE i \in used : \A j \in used : j <= i) \in used BY <2>1
  <2>3. LastActive(t) = CHOOSE i \in used : \A j \in used : j <= i
    BY <1>3 DEF LastActive, used
  <2>4. QED BY <1>1, <2>2, <2>3
<1>4. QED BY <1>2, <1>3

LEMMA NewestTitled ==
  ASSUME turns \in Seq(Turn), NEW title, Titled(title) # {}
  PROVE  Newest(title) \in Titled(title)
<1> DEFINE T == {LastActive(t) : t \in Titled(title)}
<1>1. T \subseteq 0..Len(turns) /\ T # {} /\ Len(turns) \in Nat BY LastActiveTurn
<1>2. PICK m \in T : \A k \in T : k <= m
  <2> HIDE DEF T
  <2> QED BY <1>1, LargestUpTo
<1>3. PICK t \in Titled(title) : m = LastActive(t) OBVIOUS
<1>4. \A o \in Titled(title) : LastActive(o) <= LastActive(t) BY <1>2, <1>3
<1>5. QED BY <1>4 DEF Newest

LEMMA WithOneMore ==
  ASSUME NEW n \in Nat, NEW R \in SUBSET (1..n), NEW m, NEW S,
         S = IF m = "real" THEN R \cup {n + 1} ELSE R
  PROVE  S \subseteq 1..(n + 1) /\ \A t \in S : t \in R \/ (t = n + 1 /\ m = "real")
OBVIOUS

LEMMA Creating ==
  ASSUME ConversationInv, NEW title \in {"voice", "recall", "own", "moved"}, Creates(title)
  PROVE  /\ HermesInv' /\ ChatsGrow /\ CallsKept /\ hermes'.deferring = hermes.deferring
         /\ Len(chats') = Len(chats) + 1 /\ chats'[Len(chats')].title = title
<1> USE DEF ConversationInv, HermesInv
<1>1. PICK model \in {"real", "virtual"} :
        /\ chats' = Append(chats, [title |-> title, model |-> model, tip |-> Len(chats) + 1])
        /\ hermes' = [hermes EXCEPT !.ready = ReadyAfter(model)]
  BY DEF Creates
<1>2. turns' = Append(turns, [call |-> NoRequest, thread |-> Len(chats) + 1, at |-> "over",
                              reply |-> Len(chats) + 1])
  BY DEF Creates
<1>3. [title |-> title, model |-> model, tip |-> Len(chats) + 1] \in Chat /\ Len(chats) \in Nat
  BY DEF Chat
<1>4. /\ chats' \in Seq(Chat) /\ Len(chats') = Len(chats) + 1
      /\ chats'[Len(chats) + 1] = [title |-> title, model |-> model, tip |-> Len(chats) + 1]
      /\ \A t \in 1..Len(chats) : chats'[t] = chats[t]
  BY <1>1, <1>3
<1>5. [call |-> NoRequest, thread |-> Len(chats) + 1, at |-> "over", reply |-> Len(chats) + 1]
        \in Turn
  BY <1>3 DEF Turn
<1>6. /\ turns' \in Seq(Turn) /\ Len(turns') = Len(turns) + 1 /\ Len(turns) \in Nat
      /\ turns'[Len(turns) + 1] = [call |-> NoRequest, thread |-> Len(chats) + 1, at |-> "over",
                                   reply |-> Len(chats) + 1]
      /\ \A i \in 1..Len(turns) : turns'[i] = turns[i]
  BY <1>2, <1>5
<1>7. ChatsGrow BY <1>3, <1>4 DEF ChatsGrow
<1>8. CallsKept BY <1>6 DEF CallsKept, TurnsGrow
<1>9. /\ hermes' \in [deferring : BOOLEAN, ready : SUBSET (1..Len(chats'))]
      /\ hermes'.deferring = hermes.deferring
      /\ \A t \in hermes'.ready : t \in hermes.ready \/ (t = Len(chats) + 1 /\ model = "real")
  <2>1. /\ ReadyAfter(model) \subseteq 1..Len(chats')
        /\ \A t \in ReadyAfter(model) : t \in hermes.ready \/ (t = Len(chats) + 1 /\ model = "real")
    <3>1. Len(chats') = Len(chats) + 1 BY <1>4
    <3>2. hermes.ready \subseteq 1..Len(chats) OBVIOUS
    <3>3. ReadyAfter(model) =
            IF model = "real" THEN hermes.ready \cup {Len(chats) + 1} ELSE hermes.ready
      BY DEF ReadyAfter
    <3>4. QED BY <3>1, <3>2, <3>3, <1>3, WithOneMore
  <2>2. hermes' = [hermes EXCEPT !.ready = ReadyAfter(model)] BY <1>1
  <2>3. QED BY <2>1, <2>2
<1>10. \A t \in hermes'.ready : chats'[t].model = "real"
  <2> SUFFICES ASSUME NEW t \in hermes'.ready PROVE chats'[t].model = "real" OBVIOUS
  <2>1. CASE t \in hermes.ready
    <3>1. t \in 1..Len(chats) BY <2>1
    <3>2. QED BY <2>1, <3>1, <1>4
  <2>2. CASE t = Len(chats) + 1 /\ model = "real" BY <2>2, <1>4
  <2>3. QED BY <1>9, <2>1, <2>2
<1>11. \A t \in 1..Len(chats') : chats'[t].tip \in 1..Len(chats') BY <1>3, <1>4
<1>12. \A i \in 1..Len(turns') : {turns'[i].thread, turns'[i].reply} \subseteq 1..Len(chats')
  <2> SUFFICES ASSUME NEW i \in 1..Len(turns')
               PROVE  turns'[i].thread \in 1..Len(chats') /\ turns'[i].reply \in 1..Len(chats')
    OBVIOUS
  <2>1. CASE i \in 1..Len(turns) BY <2>1, <1>3, <1>4, <1>6
  <2>2. CASE i = Len(turns) + 1 BY <2>2, <1>3, <1>4, <1>6
  <2>3. QED BY <1>6, <2>1, <2>2
<1>13. QED BY <1>4, <1>6, <1>7, <1>8, <1>9, <1>10, <1>11, <1>12

(* Steps of a session and of Hermes *)

LEMMA SessionOpens ==
  ASSUME ConversationInv, NEW d \in Devices,
         Opens(d) \/ Supported(d) \/ Lists(d) \/ Resumes(d) \/ MakesThread(d)
  PROVE  ConversationInv'
<1> USE DEF ConversationInv
<1>0. /\ device \in [Devices -> Device] /\ device[d] \in Device
      /\ Len(chats) \in Nat /\ Len(turns) \in Nat
  BY DEF DevicesInv, HermesInv
<1>1. /\ device[d].at # "open" /\ request' = request
      /\ \/ UNCHANGED <<chats, turns, hermes>>
         \/ device[d].at = "creating" /\ MakesThread(d)
            /\ Creates(IF device[d].mode = "persistent" THEN "voice" ELSE "own")
  BY DEF Opens, Supported, Lists, Resumes, MakesThread
<1>2. /\ HermesInv' /\ ChatsGrow /\ CallsKept /\ hermes'.deferring = hermes.deferring
      /\ UNCHANGED chats \/ Len(chats') = Len(chats) + 1
  <2>1. CASE UNCHANGED <<chats, turns, hermes>>
    <3>1. HermesInv' BY <2>1 DEF HermesInv
    <3>2. ChatsGrow BY <2>1, <1>0 DEF ChatsGrow
    <3>3. CallsKept BY <2>1, <1>0 DEF CallsKept, TurnsGrow
    <3>4. QED BY <2>1, <3>1, <3>2, <3>3
  <2>2. CASE Creates(IF device[d].mode = "persistent" THEN "voice" ELSE "own")
    BY <2>2, Creating
  <2>3. QED BY <1>1, <2>1, <2>2
<1>3. /\ device' \in [Devices -> Device] /\ \A o \in Devices \ {d} : device'[o] = device[o]
      /\ device'[d].accepted = device[d].accepted /\ device'[d].recall = device[d].recall
      /\ device'[d].thread \in 0..Len(chats')
      /\ device'[d].at \in {"open", "resuming"} /\ device'[d].mode # "unbound" =>
           device'[d].thread # 0 \/ (device'[d].at = "resuming" /\ device'[d].mode # "persistent")
  <2>0. DeviceOK(d) /\ device[d].thread \in 0..Len(chats') /\ Len(chats') \in Nat
    <3>1. DeviceOK(d) BY DEF DevicesInv
    <3>2. device[d].thread \in 0..Len(chats) BY <3>1 DEF DeviceOK
    <3>3. Len(chats') \in Nat /\ Len(chats) <= Len(chats') /\ Len(chats) \in Nat
      BY <1>2, <1>0 DEF ChatsGrow, HermesInv
    <3>4. QED
      <4> DEFINE n == Len(chats)
                 m == Len(chats')
                 t == device[d].thread
      <4>1. n \in Nat /\ m \in Nat /\ n <= m /\ t \in 0..n BY <3>2, <3>3
      <4>2. t \in 0..m
        <5> HIDE DEF n, m, t
        <5> QED BY <4>1
      <4>3. QED BY <3>1, <4>1, <4>2
  <2>1. CASE Opens(d)
    <3>1. PICK mode \in {"unbound", "new", "persistent", "resume"} :
            device' = [device EXCEPT ![d].at = IF mode = "unbound" THEN "open" ELSE "checking",
                                     ![d].mode = mode]
      BY <2>1 DEF Opens
    <3> DEFINE a == IF mode = "unbound" THEN "open" ELSE "checking"
    <3>2. a \in {"open", "checking"} /\ (a = "open" => mode = "unbound") OBVIOUS
    <3>3. device' = [device EXCEPT ![d].at = a, ![d].mode = mode] BY <3>1
    <3> HIDE DEF a
    <3>4. QED BY <1>0, <2>0, <3>2, <3>3 DEF Device
  <2>2. CASE Supported(d)
    <3> DEFINE next == CASE device[d].mode = "new" -> "creating"
                         [] device[d].mode = "persistent" -> "listing"
                         [] OTHER -> "resuming"
    <3>1. CASE device' = [device EXCEPT ![d].at = next]
      <4>1. /\ next \in {"creating", "listing", "resuming"}
            /\ next = "resuming" => device[d].mode # "persistent"
        OBVIOUS
      <4> HIDE DEF next
      <4>2. QED BY <1>0, <2>0, <3>1, <4>1 DEF Device
    <3>2. CASE device' = [device EXCEPT ![d].at = "open", ![d].mode = "unbound"]
      BY <1>0, <2>0, <3>2 DEF Device
    <3>3. CASE device' = [device EXCEPT ![d].at = "failed"] BY <1>0, <2>0, <3>3 DEF Device
    <3>4. QED BY <2>2, <3>1, <3>2, <3>3 DEF Supported
  <2>3. CASE Lists(d)
    <3>1. CASE device' = [device EXCEPT ![d].at = "creating"] BY <1>0, <2>0, <3>1 DEF Device
    <3>2. CASE Titled("voice") # {}
               /\ device' = [device EXCEPT ![d].at = "resuming", ![d].thread = Newest("voice")]
      <4>1. Newest("voice") \in 1..Len(chats')
        <5>1. Newest("voice") \in Titled("voice") BY <3>2, NewestTitled DEF HermesInv
        <5>2. chats' = chats BY <2>3 DEF Lists
        <5>3. QED BY <5>1, <5>2 DEF HermesInv, Titled
      <4>2. Newest("voice") \in Nat /\ Newest("voice") # 0 BY <4>1, <2>0
      <4>5. /\ device'[d].at = "resuming" /\ device'[d].thread = Newest("voice") /\ device'[d].mode = device[d].mode
           /\ device'[d].recall = device[d].recall /\ device'[d].accepted = device[d].accepted
           /\ device'[d] \in Device
        BY <1>0, <3>2, <4>1, <4>2 DEF Device
      <4>6. \A o \in Devices \ {d} : device'[o] = device[o] BY <1>0, <3>2, <4>1, <4>2
      <4>7. device' \in [Devices -> Device] BY <1>0, <3>2, <4>1, <4>2, <4>5
      <4>8. QED BY <2>0, <3>2, <4>1, <4>2, <4>5, <4>6, <4>7
    <3>3. QED BY <2>3, <3>1, <3>2 DEF Lists
  <2>4. CASE Resumes(d)
    <3>1. ASSUME NEW t \in IF device[d].mode = "persistent" THEN {device[d].thread}
                           ELSE DOMAIN chats,
                 device' = [device EXCEPT ![d].at = "open", ![d].thread = chats[t].tip]
          PROVE  /\ device' \in [Devices -> Device]
                 /\ \A o \in Devices \ {d} : device'[o] = device[o]
                 /\ device'[d].accepted = device[d].accepted /\ device'[d].recall = device[d].recall
                 /\ device'[d].thread \in 0..Len(chats') /\ device'[d].thread # 0
      <4>1. t \in 1..Len(chats)
        BY <2>0, <2>4, <1>0 DEF Resumes, DeviceOK, HermesInv
      <4>2. PICK tip \in 1..Len(chats') : tip = chats[t].tip
        BY <4>1, <2>4 DEF HermesInv, Resumes
      <4>3. tip \in Nat /\ tip # 0 BY <2>0
      <4>4. device' = [device EXCEPT ![d].at = "open", ![d].thread = tip] BY <3>1, <4>2
      <4>5. /\ device'[d].at = "open" /\ device'[d].thread = tip /\ device'[d].mode = device[d].mode
           /\ device'[d].recall = device[d].recall /\ device'[d].accepted = device[d].accepted
           /\ device'[d] \in Device
        BY <1>0, <4>3, <4>4 DEF Device
      <4>6. \A o \in Devices \ {d} : device'[o] = device[o] BY <1>0, <4>3, <4>4
      <4>7. device' \in [Devices -> Device] BY <1>0, <4>3, <4>4, <4>5
      <4>8. QED BY <2>0, <4>3, <4>4, <4>5, <4>6, <4>7
    <3>2. CASE device' = [device EXCEPT ![d].thread = NoThread,
                        ![d].at = IF @ = "resuming" /\ device[d].mode = "persistent"
                                  THEN "creating" ELSE "failed"]
      <4> DEFINE a == IF device[d].at = "resuming" /\ device[d].mode = "persistent"
                      THEN "creating" ELSE "failed"
      <4>1. device' = [device EXCEPT ![d].thread = 0, ![d].at = a] BY <1>0, <3>2 DEF NoThread
      <4>2. a \in {"creating", "failed"} OBVIOUS
      <4> HIDE DEF a
      <4>5. /\ device'[d].at = a /\ device'[d].thread = 0 /\ device'[d].mode = device[d].mode
           /\ device'[d].recall = device[d].recall /\ device'[d].accepted = device[d].accepted
           /\ device'[d] \in Device
        BY <1>0, <4>1, <4>2 DEF Device
      <4>6. \A o \in Devices \ {d} : device'[o] = device[o] BY <1>0, <4>1, <4>2
      <4>7. device' \in [Devices -> Device] BY <1>0, <4>1, <4>2, <4>5
      <4>8. device'[d].at \notin {"open", "resuming"} BY <4>2, <4>5
      <4>9. device'[d].thread \in 0..Len(chats') BY <2>0, <4>5
      <4>10. QED BY <4>5, <4>6, <4>7, <4>8, <4>9
    <3>3. \/ \E t \in (IF device[d].mode = "persistent" THEN {device[d].thread} ELSE DOMAIN chats) :
                device' = [device EXCEPT ![d].at = "open", ![d].thread = chats[t].tip]
          \/ device' = [device EXCEPT ![d].thread = NoThread,
                        ![d].at = IF @ = "resuming" /\ device[d].mode = "persistent"
                                  THEN "creating" ELSE "failed"]
      <4> DEFINE T == IF device[d].mode = "persistent" THEN {device[d].thread} ELSE DOMAIN chats
                 Kept(t) == device' = [device EXCEPT ![d].at = "open", ![d].thread = chats[t].tip]
                 Lost == device' = [device EXCEPT ![d].thread = NoThread,
                        ![d].at = IF @ = "resuming" /\ device[d].mode = "persistent"
                                  THEN "creating" ELSE "failed"]
      <4>1. (\E t \in T : Kept(t) /\ UNCHANGED trouble) \/ (Trouble /\ Lost) BY <2>4 DEF Resumes
      <4> HIDE DEF T, Kept, Lost
      <4>2. (\E t \in T : Kept(t)) \/ Lost BY <4>1
      <4>3. QED BY <4>2 DEF T, Kept, Lost
    <3>4. QED BY <3>1, <3>2, <3>3, Zenon
  <2>5. CASE MakesThread(d)
    <3>1. CASE device' = [device EXCEPT ![d].at = "failed"] BY <1>0, <2>0, <3>1 DEF Device
    <3>2. CASE /\ Creates(IF device[d].mode = "persistent" THEN "voice" ELSE "own")
               /\ device' = [device EXCEPT ![d].at = "open", ![d].thread = Len(chats')]
      <4>1. Len(chats') = Len(chats) + 1 BY <3>2, Creating
      <4>2. PICK t \in Nat : t = Len(chats') /\ t # 0 BY <4>1, <1>0
      <4>3. device' = [device EXCEPT ![d].at = "open", ![d].thread = t] BY <3>2, <4>2
      <4>5. /\ device'[d].at = "open" /\ device'[d].thread = t /\ device'[d].mode = device[d].mode
           /\ device'[d].recall = device[d].recall /\ device'[d].accepted = device[d].accepted
           /\ device'[d] \in Device
        BY <1>0, <4>2, <4>3 DEF Device
      <4>6. \A o \in Devices \ {d} : device'[o] = device[o] BY <1>0, <4>2, <4>3
      <4>7. device' \in [Devices -> Device] BY <1>0, <4>2, <4>3, <4>5
      <4>8. QED BY <2>0, <4>2, <4>3, <4>5, <4>6, <4>7
    <3>3. QED BY <2>5, <3>1, <3>2 DEF MakesThread
  <2>6. QED BY <2>1, <2>2, <2>3, <2>4, <2>5
<1>4. DevicesInv' /\ DevicesGo
  <2>1. DeviceOK(d)'
    <3>0. DeviceOK(d) BY DEF DevicesInv
    <3>1. device'[d].recall # 0 =>
            device'[d].recall \in 1..Len(chats') /\ chats'[device'[d].recall].title = "recall"
      BY <3>0, <1>0, <1>2, <1>3 DEF DeviceOK, ChatsGrow
    <3>2. QED BY <1>3, <3>1 DEF DeviceOK
  <2>2. \A o \in Devices : DeviceOK(o)' BY <1>3, <2>1, <1>2, OtherDevices
  <2>3. \A o \in Devices : device[o].accepted \in Nat BY <1>0 DEF Device
  <2>4. DevicesGo BY <1>1, <1>3, <2>3 DEF DevicesGo
  <2>5. QED BY <1>3, <2>2, <2>4 DEF DevicesInv
<1>5. QED BY <1>1, <1>2, <1>4, RequestsStand

LEMMA DevicesStand ==
  ASSUME ConversationInv, ChatsGrow, HermesInv', device' = device
  PROVE  DevicesInv' /\ DevicesGo
<1>1. device \in [Devices -> Device] BY DEF ConversationInv, DevicesInv
<1>2. \A d \in Devices : DeviceOK(d)' BY OtherDevices
<1>3. \A d \in Devices : device[d].accepted \in Nat BY <1>1 DEF Device
<1>4. QED BY <1>1, <1>2, <1>3 DEF DevicesInv, DevicesGo

LEMMA HermesEndsTurn ==
  ASSUME ConversationInv, NEW i \in DOMAIN turns, TurnEnds(i)
  PROVE  ConversationInv'
<1> USE DEF ConversationInv, HermesInv
<1>1. /\ hermes' = hermes /\ device' = device /\ request' = request
      /\ Len(chats) \in Nat /\ Len(turns) \in Nat /\ i \in 1..Len(turns)
      /\ turns[i].thread \in 1..Len(chats)
  BY DEF TurnEnds
<1>2. CASE \E at \in {"over", "failed"} : turns' = [turns EXCEPT ![i].at = at] /\ chats' = chats
  <2>1. PICK at \in {"over", "failed"} : turns' = [turns EXCEPT ![i].at = at] BY <1>2
  <2>2. chats' = chats BY <1>2
  <2>3. /\ turns' \in Seq(Turn) /\ Len(turns') = Len(turns)
        /\ \A j \in 1..Len(turns) : /\ turns'[j].call = turns[j].call
                                    /\ turns'[j].thread = turns[j].thread
                                    /\ turns'[j].reply = turns[j].reply
    <3>0. turns[i] \in Turn BY <1>1
    <3>1. [turns[i] EXCEPT !.at = at] \in Turn BY <3>0 DEF Turn
    <3>2. turns' = [turns EXCEPT ![i] = [turns[i] EXCEPT !.at = at]] BY <2>1
    <3>3. turns[i] \in Turn BY <1>1
    <3>4. /\ turns' \in Seq(Turn) /\ Len(turns') = Len(turns)
          /\ \A j \in 1..Len(turns) :
               turns'[j] = IF j = i THEN [turns[i] EXCEPT !.at = at] ELSE turns[j]
      BY <1>1, <3>1, <3>2
    <3>5. QED BY <1>1, <3>3, <3>4 DEF Turn
  <2>4. HermesInv' BY <1>1, <2>2, <2>3
  <2>5. ChatsGrow BY <1>1, <2>2 DEF ChatsGrow
  <2>6. CallsKept BY <1>1, <2>3 DEF CallsKept, TurnsGrow
  <2>7. DevicesInv' /\ DevicesGo BY <1>1, <2>4, <2>5, DevicesStand
  <2>8. QED BY <1>1, <2>4, <2>5, <2>6, <2>7, RequestsStand
<1>3. CASE /\ chats' = Append([u \in DOMAIN chats |->
                                IF chats[u].tip = turns[i].thread
                                THEN [chats[u] EXCEPT !.tip = Len(chats) + 1] ELSE chats[u]],
                             [title |-> "moved", model |-> chats[turns[i].thread].model,
                              tip |-> Len(chats) + 1])
           /\ turns' = [turns EXCEPT ![i].at = "over", ![i].reply = Len(chats) + 1]
  <2> DEFINE n == Len(chats) + 1
             old == [u \in DOMAIN chats |->
                       IF chats[u].tip = turns[i].thread THEN [chats[u] EXCEPT !.tip = n] ELSE chats[u]]
             new == [title |-> "moved", model |-> chats[turns[i].thread].model, tip |-> n]
  <2>1. \A u \in 1..Len(chats) : chats[u] \in Chat BY <1>1
  <2>2. \A u \in 1..Len(chats) :
          old[u] \in Chat /\ old[u].title = chats[u].title /\ old[u].model = chats[u].model
          /\ old[u].tip \in {chats[u].tip, n}
    <3> SUFFICES ASSUME NEW u \in 1..Len(chats)
                 PROVE  old[u] \in Chat /\ old[u].title = chats[u].title
                        /\ old[u].model = chats[u].model /\ old[u].tip \in {chats[u].tip, n}
      OBVIOUS
    <3>1. chats[u] \in Chat /\ n \in Nat BY <1>1, <2>1
    <3>0. u \in DOMAIN chats OBVIOUS
    <3>2. old[u] = IF chats[u].tip = turns[i].thread THEN [chats[u] EXCEPT !.tip = n] ELSE chats[u]
      BY <3>0, Zenon
    <3> HIDE DEF old, n
    <3>3. QED BY <3>1, <3>2 DEF Chat
  <2>3. new \in Chat
    <3> DEFINE x == chats[turns[i].thread]
    <3>1. x \in Chat /\ n \in Nat BY <1>1, <2>1
    <3>2. x.model \in {"real", "virtual"}
      <4> HIDE DEF x
      <4> QED BY <3>1 DEF Chat
    <3>3. new = [title |-> "moved", model |-> x.model, tip |-> n] OBVIOUS
    <3> HIDE DEF x, n, new
    <3>4. QED BY <3>1, <3>2, <3>3 DEF Chat
  <2>4. old \in Seq(Chat) /\ Len(old) = Len(chats)
    <3>1. DOMAIN chats = 1..Len(chats) OBVIOUS
    <3>2. DOMAIN old = DOMAIN chats /\ old = [u \in DOMAIN old |-> old[u]] OBVIOUS
    <3> HIDE DEF old
    <3>3. \A u \in 1..Len(chats) : old[u] \in Chat BY <2>2, Zenon
    <3>4. old \in [1..Len(chats) -> Chat] BY <3>1, <3>2, <3>3, Zenon
    <3> DEFINE k == Len(chats)
    <3>5. k \in Nat /\ old \in [1..k -> Chat] BY <1>1, <3>4
    <3>6. old \in Seq(Chat) /\ Len(old) = k
      <4> HIDE DEF k
      <4> QED BY <3>5
    <3>7. QED BY <3>6
  <2>5. /\ chats' \in Seq(Chat) /\ Len(chats') = n /\ chats'[n] = new
        /\ \A u \in 1..Len(chats) : chats'[u] = old[u]
    <3>1. chats' = Append(old, new) BY <1>3
    <3> HIDE DEF old, new
    <3>2. QED BY <1>1, <2>3, <2>4, <3>1
  <2>6. /\ turns' \in Seq(Turn) /\ Len(turns') = Len(turns)
        /\ \A j \in 1..Len(turns) : /\ turns'[j].call = turns[j].call
                                    /\ turns'[j].thread = turns[j].thread
                                    /\ turns'[j].reply \in {turns[j].reply, n}
    <3>0. turns[i] \in Turn /\ n \in Nat BY <1>1
    <3>1. [turns[i] EXCEPT !.at = "over", !.reply = n] \in Turn BY <3>0 DEF Turn
    <3>2. turns' = [turns EXCEPT ![i] = [turns[i] EXCEPT !.at = "over", !.reply = n]] BY <1>3
    <3>3. turns[i] \in Turn BY <1>1
    <3>4. /\ turns' \in Seq(Turn) /\ Len(turns') = Len(turns)
          /\ \A j \in 1..Len(turns) :
               turns'[j] = IF j = i THEN [turns[i] EXCEPT !.at = "over", !.reply = n] ELSE turns[j]
      BY <1>1, <3>1, <3>2
    <3>5. QED BY <1>1, <3>3, <3>4 DEF Turn
  <2>7. \A u \in 1..n : /\ chats'[u].tip \in 1..n
                        /\ u # n => chats'[u].model = chats[u].model
                        /\ u # n => chats'[u].title = chats[u].title
    <3> SUFFICES ASSUME NEW u \in 1..n
                 PROVE  /\ chats'[u].tip \in 1..n
                        /\ u # n => chats'[u].model = chats[u].model
                        /\ u # n => chats'[u].title = chats[u].title
      OBVIOUS
    <3>1. CASE u = n BY <1>1, <2>5, <3>1
    <3>2. CASE u # n
      <4>1. u \in 1..Len(chats) /\ chats[u].tip \in 1..Len(chats) BY <1>1, <3>2
      <4>2. chats'[u] = old[u] BY <2>5, <4>1
      <4>3. QED BY <1>1, <2>2, <4>1, <4>2
    <3>3. QED BY <3>1, <3>2
  <2> HIDE DEF old, new
  <2>8. HermesInv'
    <3>1. hermes' \in [deferring : BOOLEAN, ready : SUBSET (1..Len(chats'))]
      BY <1>1, <2>5
    <3>2. \A t \in hermes'.ready : chats'[t].model = "real"
      <4> SUFFICES ASSUME NEW t \in hermes.ready PROVE chats'[t].model = "real" BY <1>1
      <4>1. t \in 1..Len(chats) /\ chats[t].model = "real" OBVIOUS
      <4>2. t \in 1..n /\ t # n BY <1>1, <4>1
      <4>3. chats'[t].model = chats[t].model BY <2>7, <4>2, Zenon
      <4>4. QED BY <4>1, <4>3, Zenon
    <3>3. \A j \in 1..Len(turns') : {turns'[j].thread, turns'[j].reply} \subseteq 1..Len(chats')
      <4> SUFFICES ASSUME NEW j \in 1..Len(turns)
                   PROVE  turns'[j].thread \in 1..n /\ turns'[j].reply \in 1..n
        BY <2>5, <2>6
      <4>0. {turns[j].thread, turns[j].reply} \subseteq 1..Len(chats) OBVIOUS
      <4>1. turns[j].thread \in 1..Len(chats) /\ turns[j].reply \in 1..Len(chats) BY <4>0
      <4>2. turns'[j].thread = turns[j].thread /\ turns'[j].reply \in {turns[j].reply, n} BY <2>6
      <4>3. 1..Len(chats) \subseteq 1..n /\ n \in 1..n BY <1>1
      <4>4. QED BY <4>1, <4>2, <4>3, Zenon
    <3>4. QED BY <2>5, <2>6, <2>7, <3>1, <3>2, <3>3
  <2>9. ChatsGrow BY <1>1, <2>5, <2>7 DEF ChatsGrow
  <2>10. CallsKept BY <1>1, <2>6 DEF CallsKept, TurnsGrow
  <2>11. DevicesInv' /\ DevicesGo BY <1>1, <2>8, <2>9, DevicesStand
  <2>12. QED BY <1>1, <2>8, <2>9, <2>10, <2>11, RequestsStand
<1>4. QED
  <2>1. \/ chats' = chats /\ turns' \in {[turns EXCEPT ![i].at = "over"],
                                         [turns EXCEPT ![i].at = "failed"]}
        \/ <1>3!1
    BY DEF TurnEnds
  <2>2. QED BY <2>1, <1>2, <1>3

LEMMA SessionEnds ==
  ASSUME ConversationInv, NEW d \in Devices, DeviceCloses(d)
  PROVE  ConversationInv'
<1> USE DEF ConversationInv
<1>1. /\ UNCHANGED <<chats, turns, hermes>> /\ device[d].at = "open"
      /\ device' = [device EXCEPT ![d].at = "closed"]
      /\ device \in [Devices -> Device] /\ request \in [Requests -> Request]
      /\ Len(chats) \in Nat /\ Len(turns) \in Nat
  BY DEF DeviceCloses, DevicesInv, RequestsInv, HermesInv
<1>2. \A c \in Requests :
        request'[c] = IF request[c].device = d /\ request[c].at \notin {"none", "done"}
                      THEN [request[c] EXCEPT !.at = "dropped"] ELSE request[c]
  BY DEF DeviceCloses
<1>3. request' \in [Requests -> Request]
  <2>1. ASSUME NEW c \in Requests PROVE request'[c] \in Request
    <3>1. request[c] \in Request BY <1>1
    <3>2. [request[c] EXCEPT !.at = "dropped"] \in Request BY <3>1 DEF Request
    <3>3. QED BY <1>2, <3>1, <3>2
  <2>2. DOMAIN request' = Requests /\ request' = [c \in Requests |-> request'[c]]
    BY DEF DeviceCloses
  <2>3. QED BY <2>1, <2>2
<1>4. /\ device' \in [Devices -> Device] /\ \A o \in Devices \ {d} : device'[o] = device[o]
      /\ device'[d].at = "closed" /\ device'[d].thread = device[d].thread
      /\ device'[d].recall = device[d].recall /\ device'[d].accepted = device[d].accepted
  BY <1>1 DEF Device
<1>5. HermesInv' BY <1>1 DEF HermesInv
<1>6. ChatsGrow /\ CallsKept BY <1>1 DEF ChatsGrow, CallsKept, TurnsGrow
<1>7. DevicesInv'
  <2>1. DeviceOK(d)' BY <1>1, <1>4 DEF DevicesInv, DeviceOK
  <2>2. QED BY <1>4, <1>5, <1>6, <2>1, OtherDevices DEF DevicesInv
<1>8. \A c \in Requests :
        /\ request[c] \in Request /\ request'[c].device = request[c].device
        /\ request'[c].number = request[c].number /\ request'[c].kind = request[c].kind
        /\ request'[c].by = request[c].by /\ request'[c].told = request[c].told
        /\ request'[c].thread = request[c].thread /\ request'[c].turn = request[c].turn
        /\ request'[c].at \in {request[c].at, "dropped"}
        /\ request'[c].at = "dropped" => request[c].at # "none"
        /\ request[c].device = d => request'[c].at \in {"none", "done", "dropped"}
  <2> SUFFICES ASSUME NEW c \in Requests
               PROVE  /\ request[c] \in Request /\ request'[c].device = request[c].device
                      /\ request'[c].number = request[c].number /\ request'[c].kind = request[c].kind
                      /\ request'[c].by = request[c].by /\ request'[c].told = request[c].told
                      /\ request'[c].thread = request[c].thread /\ request'[c].turn = request[c].turn
                      /\ request'[c].at \in {request[c].at, "dropped"}
                      /\ request'[c].at = "dropped" => request[c].at # "none"
                      /\ request[c].device = d => request'[c].at \in {"none", "done", "dropped"}
    OBVIOUS
  <2>1. request[c] \in Request BY <1>1
  <2>2. CASE request'[c] = request[c] /\ ~ (request[c].device = d /\ request[c].at \notin {"none", "done"})
    BY <2>1, <2>2
  <2>3. CASE request'[c] = [request[c] EXCEPT !.at = "dropped"] /\ request[c].at # "none"
    BY <2>1, <2>3 DEF Request
  <2>4. QED BY <1>2, <2>2, <2>3
<1>9. RequestsInv'
  <2> SUFFICES ASSUME NEW c \in Requests PROVE RequestOK(c)' BY <1>3 DEF RequestsInv
  <2>1. RequestOK(c) BY DEF RequestsInv
  <2>2. request[c].device \in Devices =>
          /\ device'[request[c].device].accepted = device[request[c].device].accepted
          /\ request[c].device # d => device'[request[c].device] = device[request[c].device]
    BY <1>4
  <2>3. QED BY <1>1, <1>8, <2>1, <2>2 DEF RequestOK
<1>10. \A o \in Devices : Chain(o)' \subseteq Chain(o) BY <1>8 DEF Chain
<1>11. \A o \in Devices : \A c \in Chain(o)' : request'[c].at # "queued" => request[c].at # "queued"
  BY <1>8 DEF Chain
<1>12. ChainInv' /\ OrderInv' BY <1>3, <1>5, <1>6, <1>8, <1>10, <1>11, OrderStays
<1>13. CountInv'
  <2>1. \A c \in Requests :
          Tries(request[c], hermes.deferring) <= Tries(request'[c], hermes.deferring)
    BY <1>8 DEF Tries
  <2>2. \A c \in Requests : request'[c].at = "none" => request[c].at = "none" BY <1>8
  <2>3. QED BY <1>1, <1>5, <1>6, <2>1, <2>2, CountStays
<1>14. QED BY <1>5, <1>7, <1>9, <1>12, <1>13

(* Steps of a tool call *)

LEMMA OnlyRequests ==
  ASSUME ConversationInv, UNCHANGED <<chats, turns, hermes, device>>
  PROVE  /\ HermesInv' /\ DevicesInv' /\ ChatsGrow /\ CallsKept /\ DevicesGo
         /\ hermes'.deferring = hermes.deferring
<1>1. HermesInv' BY DEF ConversationInv, HermesInv
<1>2. Len(chats) \in Nat /\ Len(turns) \in Nat BY DEF ConversationInv, HermesInv
<1>3. ChatsGrow BY <1>2 DEF ChatsGrow
<1>4. CallsKept BY <1>2 DEF CallsKept, TurnsGrow
<1>5. QED BY <1>1, <1>3, <1>4, DevicesStand

\* The request c is now r.
Becomes(c, r) == request' = [request EXCEPT ![c] = r]

LEMMA RequestWith ==
  ASSUME ConversationInv, NEW c \in Requests, NEW r \in Request, Becomes(c, r)
  PROVE  /\ request[c] \in Request /\ RequestOK(c) /\ request' \in [Requests -> Request]
         /\ request'[c] = r /\ \A o \in Requests \ {c} : request'[o] = request[o]
BY DEF ConversationInv, RequestsInv, Becomes

LEMMA RequestFailing ==
  ASSUME ConversationInv, HermesInv', DevicesInv', ChatsGrow, CallsKept, DevicesGo,
         hermes'.deferring = hermes.deferring,
         NEW c \in Requests, request[c].at \in {"readying", "locking", "asking", "waiting"},
         RequestFails(c)
  PROVE  ConversationInv'
<1>1. request \in [Requests -> Request] /\ request[c] \in Request /\ RequestOK(c)
  BY DEF ConversationInv, RequestsInv
<1>2. /\ \A o \in Requests \ {c} : request'[o] = request[o]
      /\ request'[c] = IF request[c].by = "stream"
                       THEN [request[c] EXCEPT !.at = "readying", !.by = "chat", !.turn = NoTurn]
                       ELSE [request[c] EXCEPT !.at = "done", !.turn = NoTurn, !.told = TRUE]
      /\ request' = [o \in Requests |-> request'[o]]
  BY <1>1 DEF RequestFails
<1>3. /\ request'[c] \in Request /\ request'[c].device = request[c].device
      /\ request'[c].number = request[c].number /\ request'[c].kind = request[c].kind
      /\ request'[c].thread = request[c].thread
      /\ \/ /\ request[c].by = "stream" /\ request'[c].at = "readying" /\ request'[c].by = "chat"
            /\ request'[c].told = request[c].told
         \/ /\ request[c].by = "chat" /\ request'[c].at = "done" /\ request'[c].by = "chat"
            /\ request'[c].told
  <2> DEFINE q == request[c]
             r == request'[c]
  <2>1. q \in Request BY <1>1
  <2>2. r = IF q.by = "stream" THEN [q EXCEPT !.at = "readying", !.by = "chat", !.turn = NoTurn]
            ELSE [q EXCEPT !.at = "done", !.turn = NoTurn, !.told = TRUE]
    BY <1>2
  <2> HIDE DEF q, r
  <2>3. q.by \in {"stream", "chat"} BY <2>1 DEF Request
  <2>4. /\ r \in Request /\ r.device = q.device /\ r.number = q.number /\ r.kind = q.kind
        /\ r.thread = q.thread
        /\ \/ q.by = "stream" /\ r.at = "readying" /\ r.by = "chat" /\ r.told = q.told
           \/ q.by = "chat" /\ r.at = "done" /\ r.by = "chat" /\ r.told
    <3>1. CASE q.by = "stream" BY <2>1, <2>2, <3>1 DEF Request, NoTurn
    <3>2. CASE q.by = "chat" BY <2>1, <2>2, <3>2 DEF Request, NoTurn
    <3>3. QED BY <2>3, <3>1, <3>2
  <2>5. QED BY <2>4 DEF q, r
<1>4. request' \in [Requests -> Request] BY <1>1, <1>2, <1>3
<1>5. /\ request[c].device \in Devices
      /\ device[request[c].device].accepted \in Nat /\ device'[request[c].device].accepted \in Nat
      /\ device[request[c].device].accepted <= device'[request[c].device].accepted
      /\ request[c].number \in Nat
      /\ Len(chats) \in Nat /\ Len(chats') \in Nat /\ Len(chats) <= Len(chats')
  <2>1. request[c].device \in Devices BY <1>1 DEF RequestOK
  <2>2. device[request[c].device] \in Device /\ device'[request[c].device] \in Device
    BY <2>1 DEF ConversationInv, DevicesInv
  <2>3. device[request[c].device].accepted \in Nat /\ device'[request[c].device].accepted \in Nat
    BY <2>2 DEF Device
  <2>4. Len(chats) \in Nat /\ Len(chats') \in Nat BY DEF ConversationInv, HermesInv
  <2>5. request[c].number \in Nat BY <1>1 DEF Request
  <2>6. QED BY <2>1, <2>3, <2>4, <2>5 DEF DevicesGo, ChatsGrow
<1>6. RequestOK(c)'
  <2>1. request[c].number < device'[request[c].device].accepted BY <1>1, <1>5 DEF RequestOK
  <2>2. device'[request[c].device].at = "open" BY <1>1, <1>5 DEF RequestOK, DevicesGo
  <2>3. request[c].kind = "conversation" =>
          device'[request[c].device].thread # 0 /\ ~request[c].told
    BY <1>1, <1>5 DEF RequestOK, DevicesGo
  <2>4. request[c].thread \in 1..Len(chats')
    <3>1. request[c].thread \in 1..Len(chats) BY <1>1 DEF RequestOK
    <3>2. QED BY <3>1, <1>5
  <2>5. request[c].thread \in 0..Len(chats') BY <1>5, <2>4
  <2>6. QED BY <1>3, <1>5, <2>1, <2>2, <2>3, <2>4, <2>5 DEF RequestOK
<1>7. Tries(request[c], hermes.deferring) <= Tries(request'[c], hermes.deferring)
  BY <1>1, <1>3 DEF Tries, RequestOK
<1>8. QED BY <1>2, <1>3, <1>4, <1>6, <1>7, RequestGoes

LEMMA Begins ==
  ASSUME ConversationInv, NEW c \in Requests, RequestBegins(c)
  PROVE  ConversationInv'
<1> DEFINE d == request[c].device
           q == request[c]
           at == IF q.kind = "recall" /\ device[d].recall = NoThread THEN "finding" ELSE "readying"
           t == IF q.kind = "recall" THEN device[d].recall
                ELSE IF q.thread = NoThread THEN device[d].thread ELSE q.thread
           r == [q EXCEPT !.at = at, !.thread = t]
<1>1. request \in [Requests -> Request] /\ q \in Request /\ RequestOK(c)
  BY DEF ConversationInv, RequestsInv
<1>2. /\ UNCHANGED <<chats, turns, hermes, device>> /\ q.at = "queued"
      /\ \A o \in Chain(q.device) : q.number <= request[o].number
      /\ request' = [request EXCEPT ![c].at = at, ![c].thread = t]
  BY DEF RequestBegins, MayBegin
<1>3. d \in Devices /\ device[d].at = "open" /\ DeviceOK(d)
  BY <1>1, <1>2 DEF RequestOK, ConversationInv, DevicesInv
<1>4. /\ t \in 0..Len(chats) /\ (at = "readying" => t # 0)
      /\ q.kind = "conversation" => device[d].thread # 0 /\ ~q.told
      /\ at \in {"finding", "readying"}
  <2>1. Len(chats) \in Nat BY DEF ConversationInv, HermesInv
  <2>2. q.kind \in {"conversation", "recall"} BY <1>1 DEF Request
  <2>3. q.kind = "conversation" => device[d].thread # 0 /\ ~q.told
    BY <1>1, <1>2 DEF RequestOK
  <2>4. CASE q.kind = "recall" BY <1>3, <2>1, <2>4 DEF DeviceOK, NoThread
  <2>5. CASE q.kind = "conversation" BY <1>1, <1>3, <2>1, <2>3, <2>5 DEF DeviceOK, RequestOK, NoThread
  <2>6. QED BY <2>2, <2>3, <2>4, <2>5
<1>5. Becomes(c, r) BY <1>1, <1>2 DEF Becomes
<1> HIDE DEF at, t
<1>6. /\ r \in Request /\ r.device = q.device /\ r.number = q.number /\ r.kind = q.kind
      /\ r.by = q.by /\ r.told = q.told /\ r.at = at /\ r.thread = t
  <2> HIDE DEF q
  <2>1. q \in Request /\ t \in Nat BY <1>1, <1>4 DEF ConversationInv, HermesInv
  <2>2. QED BY <1>4, <2>1 DEF Request
<1> HIDE DEF r
<1>7. /\ request' \in [Requests -> Request] /\ request'[c] = r
      /\ \A o \in Requests \ {c} : request'[o] = request[o]
  BY <1>5, <1>6, RequestWith
<1>8. RequestOK(c)'
  <2>1. r.number < device[d].accepted /\ (r.by = "stream" => hermes.deferring)
    BY <1>1, <1>2, <1>6 DEF RequestOK
  <2>2. r.thread \in 0..Len(chats) /\ (r.at = "readying" => r.thread \in 1..Len(chats))
    BY <1>4, <1>6 DEF ConversationInv, HermesInv
  <2>3. QED BY <1>2, <1>3, <1>4, <1>6, <1>7, <2>1, <2>2 DEF RequestOK
<1>9. Tries(request[c], hermes.deferring) <= Tries(request'[c], hermes.deferring)
  BY <1>2, <1>4, <1>6, <1>7 DEF Tries
<1>10. QED BY <1>2, <1>4, <1>6, <1>7, <1>8, <1>9, OnlyRequests, RequestGoes

LEMMA RecallKnown ==
  ASSUME ConversationInv, HermesInv', ChatsGrow, NEW d \in Devices, NEW t \in 1..Len(chats'),
         chats'[t].title = "recall", device' = [device EXCEPT ![d].recall = t]
  PROVE  DevicesInv' /\ DevicesGo
<1>1. device \in [Devices -> Device] /\ DeviceOK(d) BY DEF ConversationInv, DevicesInv
<1>2. t \in Nat /\ Len(chats) \in Nat /\ Len(chats') \in Nat BY DEF ConversationInv, HermesInv
<1>3. /\ device' \in [Devices -> Device] /\ \A o \in Devices \ {d} : device'[o] = device[o]
      /\ device'[d].at = device[d].at /\ device'[d].mode = device[d].mode
      /\ device'[d].thread = device[d].thread /\ device'[d].recall = t
      /\ device'[d].accepted = device[d].accepted
  BY <1>1, <1>2 DEF Device
<1>4. device[d].thread \in 0..Len(chats') BY <1>1, <1>2 DEF DeviceOK, ChatsGrow
<1>5. DeviceOK(d)' BY <1>1, <1>3, <1>4 DEF DeviceOK
<1>6. \A o \in Devices : DeviceOK(o)' BY <1>3, <1>5, OtherDevices
<1>7. \A o \in Devices : device[o].accepted \in Nat BY <1>1 DEF Device
<1>8. DevicesGo BY <1>3, <1>7 DEF DevicesGo
<1>9. QED BY <1>3, <1>6, <1>8 DEF DevicesInv

LEMMA ToReadying ==
  ASSUME ConversationInv, HermesInv', DevicesInv', ChatsGrow, CallsKept, DevicesGo,
         hermes'.deferring = hermes.deferring,
         NEW c \in Requests, request[c].at \in {"finding", "making"}, NEW t \in 1..Len(chats'),
         request' = [request EXCEPT ![c].at = "readying", ![c].thread = t]
  PROVE  ConversationInv'
<1> DEFINE q == request[c]
           r == [q EXCEPT !.at = "readying", !.thread = t]
<1>1. request \in [Requests -> Request] /\ q \in Request /\ RequestOK(c)
  BY DEF ConversationInv, RequestsInv
<1>2. Becomes(c, r) BY <1>1 DEF Becomes
<1>3. Len(chats') \in Nat /\ t \in Nat BY DEF HermesInv
<1>4. /\ r \in Request /\ r.device = q.device /\ r.number = q.number /\ r.kind = q.kind
      /\ r.by = q.by /\ r.told = q.told /\ r.at = "readying" /\ r.thread = t
  <2> HIDE DEF q
  <2>1. QED BY <1>1, <1>3 DEF Request
<1> HIDE DEF r
<1>5. /\ request' \in [Requests -> Request] /\ request'[c] = r
      /\ \A o \in Requests \ {c} : request'[o] = request[o]
  BY <1>2, <1>4, RequestWith
<1>6. RequestOK(c)'
  <2>1. /\ q.device \in Devices /\ q.number < device[q.device].accepted
        /\ q.by = "stream" => hermes.deferring
        /\ device[q.device].at = "open"
        /\ q.kind = "conversation" => device[q.device].thread # 0 /\ ~q.told
    BY <1>1 DEF RequestOK
  <2>2. /\ device'[q.device].at = "open"
        /\ q.kind = "conversation" => device'[q.device].thread # 0
        /\ device[q.device].accepted <= device'[q.device].accepted
    BY <2>1 DEF DevicesGo
  <2>3. device[q.device].accepted \in Nat /\ device'[q.device].accepted \in Nat /\ q.number \in Nat
    BY <1>1, <2>1 DEF ConversationInv, DevicesInv, Device, Request
  <2>4. q.number < device'[q.device].accepted BY <2>1, <2>2, <2>3
  <2>5. t \in 0..Len(chats') BY <1>3
  <2>6. QED BY <1>4, <1>5, <2>1, <2>2, <2>4, <2>5 DEF RequestOK
<1>7. Tries(request[c], hermes.deferring) <= Tries(request'[c], hermes.deferring)
  BY <1>4, <1>5 DEF Tries
<1>8. QED BY <1>4, <1>5, <1>6, <1>7, RequestGoes

\* What a request keeps on its way.
SameRequest(q, r) ==
  r.device = q.device /\ r.number = q.number /\ r.kind = q.kind /\ r.by = q.by

LEMMA GoesOn ==
  ASSUME ConversationInv, HermesInv', DevicesInv', ChatsGrow, CallsKept, DevicesGo,
         hermes'.deferring = hermes.deferring,
         NEW c \in Requests, NEW r \in Request, Becomes(c, r), SameRequest(request[c], r),
         request[c].at \notin {"none", "queued", "done", "dropped"},
         r.at \notin {"none", "queued", "dropped"},
         request[c].told => r.told, r.kind = "conversation" /\ r.at # "done" => ~r.told,
         r.at = "done" => r.told,
         Tries(request[c], hermes.deferring) <= Tries(r, hermes.deferring),
         r.thread \in 0..Len(chats'),
         r.at \in {"readying", "locking", "asking", "waiting"} => r.thread \in 1..Len(chats'),
         r.at \in {"asking", "waiting"} => chats'[r.thread].model = "real",
         r.at = "waiting" => r.turn \in 1..Len(turns') /\ turns'[r.turn].call = c
  PROVE  ConversationInv'
<1> DEFINE q == request[c]
<1>1. q \in Request /\ RequestOK(c) BY DEF ConversationInv, RequestsInv
<1>2. /\ request' \in [Requests -> Request] /\ request'[c] = r
      /\ \A o \in Requests \ {c} : request'[o] = request[o]
  BY RequestWith
<1>3. /\ q.device \in Devices /\ q.number < device[q.device].accepted
      /\ q.by = "stream" => hermes.deferring
      /\ device[q.device].at = "open"
      /\ q.kind = "conversation" => device[q.device].thread # 0
  BY <1>1 DEF RequestOK
<1>4. /\ device'[q.device].at = "open"
      /\ q.kind = "conversation" => device'[q.device].thread # 0
      /\ device[q.device].accepted <= device'[q.device].accepted
  BY <1>3 DEF DevicesGo
<1>5. device[q.device].accepted \in Nat /\ device'[q.device].accepted \in Nat /\ q.number \in Nat
  BY <1>1, <1>3 DEF ConversationInv, DevicesInv, Device, Request
<1>6. q.number < device'[q.device].accepted BY <1>3, <1>4, <1>5
<1>7. RequestOK(c)' BY <1>2, <1>3, <1>4, <1>6 DEF RequestOK, SameRequest
<1>8. QED BY <1>2, <1>7, RequestGoes DEF SameRequest

LEMMA RequestFacts ==
  ASSUME ConversationInv, NEW c \in Requests
  PROVE  /\ request \in [Requests -> Request] /\ request[c] \in Request /\ RequestOK(c)
         /\ Len(chats) \in Nat /\ Len(turns) \in Nat
BY DEF ConversationInv, RequestsInv, HermesInv

LEMMA FindsStep ==
  ASSUME ConversationInv, NEW c \in Requests, FindsRecall(c)
  PROVE  ConversationInv'
<1> DEFINE d == request[c].device
<1>1. /\ request[c].at = "finding" /\ UNCHANGED <<chats, turns, hermes>>
      /\ \/ /\ Titled("recall") # {}
            /\ request' = [request EXCEPT ![c].at = "readying", ![c].thread = Newest("recall")]
            /\ device' = [device EXCEPT ![d].recall = Newest("recall")]
         \/ request' = [request EXCEPT ![c].at = "making"] /\ UNCHANGED device
  BY DEF FindsRecall
<1>2. /\ request \in [Requests -> Request] /\ request[c] \in Request /\ RequestOK(c)
      /\ Len(chats) \in Nat /\ Len(turns) \in Nat
  BY RequestFacts
<1>3. d \in Devices BY <1>1, <1>2 DEF RequestOK
<1>4. HermesInv' /\ ChatsGrow /\ CallsKept /\ hermes'.deferring = hermes.deferring
  <2>1. HermesInv' BY <1>1 DEF ConversationInv, HermesInv
  <2>2. ChatsGrow BY <1>1, <1>2 DEF ChatsGrow
  <2>3. CallsKept BY <1>1, <1>2 DEF CallsKept, TurnsGrow
  <2>4. QED BY <1>1, <2>1, <2>2, <2>3
<1>5. CASE /\ Titled("recall") # {}
           /\ request' = [request EXCEPT ![c].at = "readying", ![c].thread = Newest("recall")]
           /\ device' = [device EXCEPT ![d].recall = Newest("recall")]
  <2> DEFINE t == Newest("recall")
  <2>1. t \in Titled("recall") BY <1>5, NewestTitled DEF ConversationInv, HermesInv
  <2>2. t \in 1..Len(chats') /\ chats'[t].title = "recall"
    BY <1>1, <2>1 DEF Titled, ConversationInv, HermesInv
  <2>3. /\ request' = [request EXCEPT ![c].at = "readying", ![c].thread = t]
        /\ device' = [device EXCEPT ![d].recall = t]
    BY <1>5
  <2> HIDE DEF t
  <2>4. DevicesInv' /\ DevicesGo BY <1>3, <1>4, <2>2, <2>3, RecallKnown
  <2>5. QED BY <1>1, <1>4, <2>2, <2>3, <2>4, ToReadying
<1>6. CASE request' = [request EXCEPT ![c].at = "making"] /\ UNCHANGED device
  <2> DEFINE q == request[c]
             r == [q EXCEPT !.at = "making"]
  <2>1. Becomes(c, r) BY <1>2, <1>6 DEF Becomes
  <2>2. /\ r \in Request /\ SameRequest(q, r) /\ r.at = "making" /\ r.told = q.told
        /\ r.thread = q.thread
    <3> HIDE DEF q
    <3>1. q \in Request BY <1>2 DEF q
    <3>2. QED BY <3>1 DEF Request, SameRequest
  <2> HIDE DEF r
  <2>3. Tries(q, hermes.deferring) <= Tries(r, hermes.deferring)
    BY <1>1, <2>2 DEF Tries, SameRequest
  <2>4. q.thread \in 0..Len(chats') /\ (q.kind = "conversation" => ~q.told)
    BY <1>1, <1>2 DEF RequestOK
  <2>5. DevicesInv' /\ DevicesGo BY <1>4, <1>6, DevicesStand
  <2>6. r.kind = q.kind BY <2>2 DEF SameRequest
  <2>7. QED BY <1>1, <1>4, <2>1, <2>2, <2>3, <2>4, <2>5, <2>6, GoesOn
<1>7. QED BY <1>1, <1>5, <1>6

LEMMA MakesStep ==
  ASSUME ConversationInv, NEW c \in Requests, MakesRecall(c)
  PROVE  ConversationInv'
<1> DEFINE d == request[c].device
<1>1. /\ request[c].at = "making"
      /\ \/ /\ Creates("recall")
            /\ request' = [request EXCEPT ![c].at = "readying", ![c].thread = Len(chats')]
            /\ device' = [device EXCEPT ![d].recall = Len(chats')]
         \/ /\ request' = [request EXCEPT ![c].at = "done", ![c].told = TRUE]
            /\ UNCHANGED <<chats, turns, hermes, device>>
  BY DEF MakesRecall
<1>2. /\ request \in [Requests -> Request] /\ request[c] \in Request /\ RequestOK(c)
      /\ Len(chats) \in Nat /\ Len(turns) \in Nat
  BY RequestFacts
<1>3. d \in Devices BY <1>1, <1>2 DEF RequestOK
<1>4. CASE /\ Creates("recall")
           /\ request' = [request EXCEPT ![c].at = "readying", ![c].thread = Len(chats')]
           /\ device' = [device EXCEPT ![d].recall = Len(chats')]
  <2>1. /\ HermesInv' /\ ChatsGrow /\ CallsKept /\ hermes'.deferring = hermes.deferring
        /\ Len(chats') = Len(chats) + 1 /\ chats'[Len(chats')].title = "recall"
    BY <1>4, Creating
  <2> DEFINE t == Len(chats')
  <2>2. t \in 1..Len(chats') /\ chats'[t].title = "recall" BY <1>2, <2>1
  <2>3. /\ request' = [request EXCEPT ![c].at = "readying", ![c].thread = t]
        /\ device' = [device EXCEPT ![d].recall = t]
    BY <1>4
  <2> HIDE DEF t
  <2>4. DevicesInv' /\ DevicesGo BY <1>3, <2>1, <2>2, <2>3, RecallKnown
  <2>5. QED BY <1>1, <2>1, <2>2, <2>3, <2>4, ToReadying
<1>5. CASE /\ request' = [request EXCEPT ![c].at = "done", ![c].told = TRUE]
           /\ UNCHANGED <<chats, turns, hermes, device>>
  <2> DEFINE q == request[c]
             r == [q EXCEPT !.at = "done", !.told = TRUE]
  <2>1. Becomes(c, r) BY <1>2, <1>5 DEF Becomes
  <2>2. r \in Request /\ SameRequest(q, r) /\ r.at = "done" /\ r.told /\ r.thread = q.thread
    <3> HIDE DEF q
    <3>1. q \in Request BY <1>2 DEF q
    <3>2. QED BY <3>1 DEF Request, SameRequest
  <2> HIDE DEF r
  <2>3. Tries(q, hermes.deferring) <= Tries(r, hermes.deferring)
    BY <1>1, <2>2 DEF Tries, SameRequest
  <2>4. q.thread \in 0..Len(chats') BY <1>2, <1>5 DEF RequestOK
  <2>5. QED BY <1>1, <1>5, <2>1, <2>2, <2>3, <2>4, OnlyRequests, GoesOn
<1>6. QED BY <1>1, <1>4, <1>5

LEMMA AtStep ==
  ASSUME NEW q \in Request,
         NEW at \in {"locking", "asking"}
  PROVE  LET r == [q EXCEPT !.at = at]
         IN  /\ r \in Request /\ SameRequest(q, r) /\ r.at = at /\ r.told = q.told
             /\ r.thread = q.thread /\ r.turn = q.turn
BY DEF Request, SameRequest

\* Hermes was told the model of a thread, or moved it to a real one.
LEMMA ReadyThread ==
  ASSUME ConversationInv, NEW t \in 1..Len(chats), turns' = turns,
         chats' \in {chats, [chats EXCEPT ![t].model = "real"]},
         hermes' \in {hermes, [hermes EXCEPT !.ready = @ \cup {t}]},
         hermes' # hermes => chats'[t].model = "real"
  PROVE  /\ HermesInv' /\ ChatsGrow /\ CallsKept /\ hermes'.deferring = hermes.deferring
         /\ Len(chats') = Len(chats)
<1> USE DEF ConversationInv, HermesInv
<1>1. Len(chats) \in Nat /\ Len(turns) \in Nat /\ \A u \in 1..Len(chats) : chats[u] \in Chat
  OBVIOUS
<1>2. /\ chats' \in Seq(Chat) /\ Len(chats') = Len(chats)
      /\ \A u \in 1..Len(chats) : /\ chats'[u].tip = chats[u].tip
                                  /\ chats'[u].title = chats[u].title
                                  /\ chats'[u].model \in {chats[u].model, "real"}
  <2>1. CASE chats' = chats BY <1>1, <2>1
  <2>2. CASE chats' = [chats EXCEPT ![t].model = "real"]
    <3> DEFINE moved == [chats[t] EXCEPT !.model = "real"]
    <3>1. /\ moved \in Chat /\ moved.tip = chats[t].tip /\ moved.title = chats[t].title
          /\ moved.model = "real"
      <4>1. \A x \in Chat : LET y == [x EXCEPT !.model = "real"]
                             IN  y \in Chat /\ y.tip = x.tip /\ y.title = x.title /\ y.model = "real"
        BY DEF Chat
      <4>2. QED BY <1>1, <4>1
    <3>2. chats' = [chats EXCEPT ![t] = moved] BY <2>2
    <3> HIDE DEF moved
    <3>3. /\ chats' \in Seq(Chat) /\ Len(chats') = Len(chats)
          /\ \A u \in 1..Len(chats) : chats'[u] = IF u = t THEN moved ELSE chats[u]
      BY <3>1, <3>2
    <3>4. QED BY <3>1, <3>3
  <2>3. QED BY <2>1, <2>2
<1>3. /\ hermes' \in [deferring : BOOLEAN, ready : SUBSET (1..Len(chats))]
      /\ hermes'.deferring = hermes.deferring
      /\ \A u \in hermes'.ready : u \in hermes.ready \/ (u = t /\ chats'[t].model = "real")
  <2>1. CASE hermes' = hermes BY <2>1
  <2>2. CASE hermes' = [hermes EXCEPT !.ready = @ \cup {t}] /\ chats'[t].model = "real" BY <2>2
  <2>3. QED BY <2>1, <2>2
<1>4. \A u \in hermes'.ready : chats'[u].model = "real"
  <2> SUFFICES ASSUME NEW u \in hermes'.ready PROVE chats'[u].model = "real" OBVIOUS
  <2>1. CASE u \in hermes.ready
    <3>1. u \in 1..Len(chats) /\ chats[u].model = "real" BY <2>1
    <3>2. QED BY <3>1, <1>2
  <2>2. QED BY <1>3, <2>1
<1>5. \A u \in 1..Len(chats') : chats'[u].tip \in 1..Len(chats') BY <1>2
<1>6. \A i \in 1..Len(turns') : {turns'[i].thread, turns'[i].reply} \subseteq 1..Len(chats')
  BY <1>2
<1>7. HermesInv' BY <1>2, <1>3, <1>4, <1>5, <1>6
<1>8. ChatsGrow BY <1>1, <1>2 DEF ChatsGrow
<1>9. CallsKept BY <1>1 DEF CallsKept, TurnsGrow
<1>10. QED BY <1>2, <1>3, <1>7, <1>8, <1>9

LEMMA ReadiesStep ==
  ASSUME ConversationInv, NEW c \in Requests, Readies(c)
  PROVE  ConversationInv'
<1> DEFINE q == request[c]
           t == q.thread
<1>1. /\ q.at = "readying" /\ UNCHANGED <<chats, turns, device>>
      /\ \/ t \in hermes.ready /\ request' = [request EXCEPT ![c].at = "asking"] /\ hermes' = hermes
         \/ request' = [request EXCEPT ![c].at = "locking"] /\ hermes' = hermes
         \/ /\ chats[t].model # "virtual" /\ request' = [request EXCEPT ![c].at = "asking"]
            /\ hermes' = [hermes EXCEPT !.ready = @ \cup {t}]
         \/ RequestFails(c) /\ hermes' = hermes
  BY DEF Readies
<1>2. /\ request \in [Requests -> Request] /\ q \in Request /\ RequestOK(c)
      /\ Len(chats) \in Nat /\ Len(turns) \in Nat
  BY RequestFacts
<1>3. t \in 1..Len(chats) /\ chats[t] \in Chat
  BY <1>1, <1>2 DEF RequestOK, ConversationInv, HermesInv
<1>4. chats[t].model # "virtual" => chats[t].model = "real" BY <1>3 DEF Chat
<1>5. /\ HermesInv' /\ ChatsGrow /\ CallsKept /\ hermes'.deferring = hermes.deferring
      /\ Len(chats') = Len(chats)
  <2>1. CASE hermes' = hermes BY <1>1, <1>3, <2>1, ReadyThread
  <2>2. CASE chats[t].model = "real" /\ hermes' = [hermes EXCEPT !.ready = @ \cup {t}]
    <3> HIDE DEF t
    <3>1. QED BY <1>1, <1>3, <2>2, ReadyThread
  <2>3. QED BY <1>1, <1>4, <2>1, <2>2
<1>6. DevicesInv' /\ DevicesGo BY <1>1, <1>5, DevicesStand
<1>7. ASSUME NEW at \in {"locking", "asking"}, request' = [request EXCEPT ![c].at = at],
             at = "asking" => chats[t].model = "real"
      PROVE  ConversationInv'
  <2> DEFINE r == [q EXCEPT !.at = at]
  <2>1. Becomes(c, r) BY <1>2, <1>7 DEF Becomes
  <2>2. /\ r \in Request /\ SameRequest(q, r) /\ r.at = at /\ r.told = q.told
        /\ r.thread = q.thread
    BY <1>2, AtStep
  <2> HIDE DEF r
  <2>3. Tries(q, hermes.deferring) <= Tries(r, hermes.deferring)
    BY <1>1, <2>2 DEF Tries, SameRequest
  <2>4. /\ q.thread \in 0..Len(chats') /\ q.thread \in 1..Len(chats')
        /\ q.kind = "conversation" => ~q.told
    BY <1>1, <1>2, <1>3 DEF RequestOK
  <2>5. r.at = "asking" => chats'[r.thread].model = "real" BY <1>1, <1>7, <2>2
  <2>6. r.kind = q.kind BY <2>2 DEF SameRequest
  <2>7. QED BY <1>1, <1>5, <1>6, <2>1, <2>2, <2>3, <2>4, <2>5, <2>6, GoesOn
<1>8. t \in hermes.ready => chats[t].model = "real" BY DEF ConversationInv, HermesInv
<1>9. RequestFails(c) => ConversationInv' BY <1>1, <1>5, <1>6, RequestFailing
<1>10. QED BY <1>1, <1>4, <1>7, <1>8, <1>9

LEMMA LocksStep ==
  ASSUME ConversationInv, NEW c \in Requests, Locks(c)
  PROVE  ConversationInv'
<1> DEFINE q == request[c]
           t == q.thread
           locked == [chats EXCEPT ![t].model = "real"]
<1>1. /\ q.at = "locking" /\ UNCHANGED <<turns, device>>
      /\ \/ /\ chats' = locked /\ request' = [request EXCEPT ![c].at = "asking"]
            /\ hermes' = [hermes EXCEPT !.ready = @ \cup {t}]
         \/ RequestFails(c) /\ hermes' = hermes /\ chats' \in {chats, locked}
  BY DEF Locks
<1>2. /\ request \in [Requests -> Request] /\ q \in Request /\ RequestOK(c)
      /\ Len(chats) \in Nat /\ Len(turns) \in Nat
  BY RequestFacts
<1>3. t \in 1..Len(chats) /\ chats[t] \in Chat /\ chats \in Seq(Chat)
  BY <1>1, <1>2 DEF RequestOK, ConversationInv, HermesInv
<1>4. locked[t].model = "real" BY <1>3 DEF Chat
<1>5. /\ HermesInv' /\ ChatsGrow /\ CallsKept /\ hermes'.deferring = hermes.deferring
      /\ Len(chats') = Len(chats)
  <2>1. CASE hermes' = hermes
    <3> HIDE DEF t
    <3>1. QED BY <1>1, <1>3, <2>1, ReadyThread
  <2>2. CASE chats' = locked /\ hermes' = [hermes EXCEPT !.ready = @ \cup {t}]
    <3>1. chats'[t].model = "real" BY <1>4, <2>2
    <3> HIDE DEF t
    <3>2. QED BY <1>1, <1>3, <2>2, <3>1, ReadyThread
  <2>3. QED BY <1>1, <2>1, <2>2
<1>6. DevicesInv' /\ DevicesGo BY <1>1, <1>5, DevicesStand
<1>7. CASE chats' = locked /\ request' = [request EXCEPT ![c].at = "asking"]
  <2> DEFINE r == [q EXCEPT !.at = "asking"]
  <2>1. Becomes(c, r) BY <1>2, <1>7 DEF Becomes
  <2>2. /\ r \in Request /\ SameRequest(q, r) /\ r.at = "asking" /\ r.told = q.told
        /\ r.thread = q.thread
    BY <1>2, AtStep
  <2>3. chats'[r.thread].model = "real" BY <1>4, <1>7, <2>2
  <2> HIDE DEF r
  <2>4. Tries(q, hermes.deferring) <= Tries(r, hermes.deferring)
    BY <1>1, <2>2 DEF Tries, SameRequest
  <2>5. /\ q.thread \in 0..Len(chats') /\ q.thread \in 1..Len(chats')
        /\ q.kind = "conversation" => ~q.told
    BY <1>1, <1>2, <1>3, <1>5 DEF RequestOK
  <2>6. r.kind = q.kind BY <2>2 DEF SameRequest
  <2>7. QED BY <1>1, <1>5, <1>6, <2>1, <2>2, <2>3, <2>4, <2>5, <2>6, GoesOn
<1>8. RequestFails(c) => ConversationInv' BY <1>1, <1>5, <1>6, RequestFailing
<1>9. QED BY <1>1, <1>7, <1>8

LEMMA HearsStep ==
  ASSUME ConversationInv, NEW c \in Requests, HearsSentence(c)
  PROVE  ConversationInv'
<1> DEFINE q == request[c]
           r == [q EXCEPT !.heard = q.turn]
<1>1. /\ request \in [Requests -> Request] /\ q \in Request /\ RequestOK(c)
      /\ Len(chats) \in Nat /\ Len(turns) \in Nat
  BY RequestFacts
<1>2. /\ q.at = "waiting" /\ UNCHANGED <<chats, turns, hermes, device>>
      /\ request' = [request EXCEPT ![c].heard = q.turn]
  BY DEF HearsSentence
<1>3. Becomes(c, r) BY <1>1, <1>2 DEF Becomes
<1>4. /\ r \in Request /\ SameRequest(q, r) /\ r.at = q.at /\ r.told = q.told
      /\ r.thread = q.thread /\ r.turn = q.turn
  <2> HIDE DEF q
  <2>1. q \in Request BY <1>1 DEF q
  <2>2. QED BY <2>1 DEF Request, SameRequest
<1> HIDE DEF r
<1>5. Tries(q, hermes.deferring) <= Tries(r, hermes.deferring)
  BY <1>2, <1>4 DEF Tries, SameRequest
<1>6. /\ q.thread \in 0..Len(chats) /\ q.thread \in 1..Len(chats)
      /\ q.kind = "conversation" => ~q.told
      /\ chats[q.thread].model = "real"
      /\ q.turn \in 1..Len(turns) /\ turns[q.turn].call = c
  BY <1>1, <1>2 DEF RequestOK
<1>7. r.kind = q.kind BY <1>4 DEF SameRequest
<1>8. QED BY <1>2, <1>3, <1>4, <1>5, <1>6, <1>7, OnlyRequests, GoesOn

LEMMA TimesOutStep ==
  ASSUME ConversationInv, NEW c \in Requests, RecallTimesOut(c)
  PROVE  ConversationInv'
<1> DEFINE q == request[c]
           r == [q EXCEPT !.told = TRUE]
<1>1. /\ request \in [Requests -> Request] /\ q \in Request /\ RequestOK(c)
      /\ Len(chats) \in Nat /\ Len(turns) \in Nat
  BY RequestFacts
<1>2. /\ q.at \in {"readying", "locking", "asking", "waiting"} /\ q.kind = "recall"
      /\ UNCHANGED <<chats, turns, hermes, device>>
      /\ request' = [request EXCEPT ![c].told = TRUE]
  BY DEF RecallTimesOut
<1>3. Becomes(c, r) BY <1>1, <1>2 DEF Becomes
<1>4. /\ r \in Request /\ SameRequest(q, r) /\ r.at = q.at /\ r.told
      /\ r.thread = q.thread /\ r.turn = q.turn
  <2> HIDE DEF q
  <2>1. q \in Request BY <1>1 DEF q
  <2>2. QED BY <2>1 DEF Request, SameRequest
<1> HIDE DEF r
<1>5. Tries(q, hermes.deferring) <= Tries(r, hermes.deferring)
  BY <1>2, <1>4 DEF Tries, SameRequest
<1>6. /\ q.thread \in 0..Len(chats) /\ q.thread \in 1..Len(chats)
      /\ q.at \in {"asking", "waiting"} => chats[q.thread].model = "real"
      /\ q.at = "waiting" => q.turn \in 1..Len(turns) /\ turns[q.turn].call = c
  BY <1>1, <1>2 DEF RequestOK
<1>7. r.kind = "recall" BY <1>2, <1>4 DEF SameRequest
<1>8. QED BY <1>2, <1>3, <1>4, <1>5, <1>6, <1>7, OnlyRequests, GoesOn

LEMMA AnsweredStep ==
  ASSUME ConversationInv, NEW c \in Requests, TurnAnswered(c)
  PROVE  ConversationInv'
<1> DEFINE q == request[c]
           d == q.device
           r == [q EXCEPT !.at = "done", !.told = TRUE]
           t == turns[q.turn].reply
<1>1. /\ request \in [Requests -> Request] /\ q \in Request /\ RequestOK(c)
      /\ Len(chats) \in Nat /\ Len(turns) \in Nat
  BY RequestFacts
<1>2. /\ q.at = "waiting" /\ UNCHANGED <<chats, turns, hermes>>
      /\ request' = [request EXCEPT ![c].at = "done", ![c].told = TRUE]
      /\ device' = IF q.kind = "conversation" THEN [device EXCEPT ![d].thread = t] ELSE device
  BY DEF TurnAnswered
<1>3. Becomes(c, r) BY <1>1, <1>2 DEF Becomes
<1>4. r \in Request /\ SameRequest(q, r) /\ r.at = "done" /\ r.told /\ r.thread = q.thread
  <2> HIDE DEF q
  <2>1. q \in Request BY <1>1 DEF q
  <2>2. QED BY <2>1 DEF Request, SameRequest
<1>5. d \in Devices /\ t \in 1..Len(chats)
  <2>1. d \in Devices /\ q.turn \in 1..Len(turns) BY <1>1, <1>2 DEF RequestOK
  <2>2. {turns[q.turn].thread, turns[q.turn].reply} \subseteq 1..Len(chats)
    BY <2>1 DEF ConversationInv, HermesInv
  <2>3. QED BY <2>1, <2>2
<1> HIDE DEF r, t
<1>6. HermesInv' /\ ChatsGrow /\ CallsKept /\ hermes'.deferring = hermes.deferring
  <2>1. HermesInv' BY <1>2 DEF ConversationInv, HermesInv
  <2>2. ChatsGrow BY <1>1, <1>2 DEF ChatsGrow
  <2>3. CallsKept BY <1>1, <1>2 DEF CallsKept, TurnsGrow
  <2>4. QED BY <1>2, <2>1, <2>2, <2>3
<1>7. DevicesInv' /\ DevicesGo
  <2>1. CASE device' = device BY <1>6, <2>1, DevicesStand
  <2>2. CASE device' = [device EXCEPT ![d].thread = t]
    <3>1. device \in [Devices -> Device] /\ DeviceOK(d) BY <1>5 DEF ConversationInv, DevicesInv
    <3>2. t \in Nat /\ t # 0 /\ t \in 0..Len(chats') BY <1>1, <1>2, <1>5
    <3>3. /\ device' \in [Devices -> Device] /\ \A o \in Devices \ {d} : device'[o] = device[o]
          /\ device'[d].at = device[d].at /\ device'[d].mode = device[d].mode
          /\ device'[d].thread = t /\ device'[d].recall = device[d].recall
          /\ device'[d].accepted = device[d].accepted
      <4>1. \A x \in Device : \A m \in Nat :
              LET y == [x EXCEPT !.thread = m]
              IN  /\ y \in Device /\ y.at = x.at /\ y.mode = x.mode /\ y.thread = m
                  /\ y.recall = x.recall /\ y.accepted = x.accepted
        BY DEF Device
      <4>2. device[d] \in Device BY <1>5, <3>1
      <4> DEFINE y == [device[d] EXCEPT !.thread = t]
      <4>3. /\ y \in Device /\ y.at = device[d].at /\ y.mode = device[d].mode /\ y.thread = t
            /\ y.recall = device[d].recall /\ y.accepted = device[d].accepted
        BY <3>2, <4>1, <4>2
      <4>4. device' = [device EXCEPT ![d] = y] BY <2>2
      <4> HIDE DEF y, d
      <4>5. /\ device' \in [Devices -> Device] /\ device'[d] = y
            /\ \A o \in Devices \ {d} : device'[o] = device[o]
        BY <1>5, <3>1, <4>3, <4>4
      <4>6. QED BY <4>3, <4>5
    <3>4. ASSUME NEW o \in Devices, o = d PROVE DeviceOK(o)'
      <4>1. device[o].recall # 0 =>
              device[o].recall \in 1..Len(chats') /\ chats'[device[o].recall].title = "recall"
        BY <1>2, <3>1, <3>4 DEF DeviceOK
      <4>2. /\ device'[o].thread = t /\ device'[o].recall = device[o].recall
        BY <3>3, <3>4
      <4> HIDE DEF d
      <4>3. QED BY <3>2, <4>1, <4>2 DEF DeviceOK
    <3>5. \A o \in Devices : DeviceOK(o)' BY <1>6, <3>3, <3>4, OtherDevices
    <3>6. \A o \in Devices : device[o].accepted \in Nat BY <3>1 DEF Device
    <3>7. DevicesGo BY <3>2, <3>3, <3>6 DEF DevicesGo
    <3>8. QED BY <3>3, <3>5, <3>7 DEF DevicesInv
  <2>3. QED BY <1>2, <2>1, <2>2
<1>8. Tries(q, hermes.deferring) <= Tries(r, hermes.deferring)
  BY <1>2, <1>4 DEF Tries, SameRequest
<1>9. q.thread \in 0..Len(chats') BY <1>1, <1>2 DEF RequestOK
<1>10. QED BY <1>2, <1>3, <1>4, <1>6, <1>7, <1>8, <1>9, GoesOn

LEMMA BreaksStep ==
  ASSUME ConversationInv, NEW c \in Requests, Breaks(c)
  PROVE  ConversationInv'
<1>1. /\ request[c].at = "waiting" /\ RequestFails(c) /\ UNCHANGED <<chats, turns, hermes, device>>
  BY DEF Breaks
<1>2. QED BY <1>1, OnlyRequests, RequestFailing

LEMMA TurnBegins ==
  ASSUME ConversationInv, NEW c \in Requests, request[c].at = "asking",
         UNCHANGED <<chats, hermes, device>>,
         turns' = Append(turns, [call |-> c, thread |-> request[c].thread, at |-> "running",
                                 reply |-> request[c].thread]),
         request' = [request EXCEPT ![c].at = "waiting", ![c].turn = Len(turns')]
  PROVE  ConversationInv'
<1> DEFINE q == request[c]
           n == Len(turns) + 1
           r == [q EXCEPT !.at = "waiting", !.turn = n]
           new == [call |-> c, thread |-> q.thread, at |-> "running", reply |-> q.thread]
<1>1. /\ request \in [Requests -> Request] /\ q \in Request /\ RequestOK(c)
      /\ Len(chats) \in Nat /\ Len(turns) \in Nat /\ turns \in Seq(Turn)
  BY RequestFacts DEF ConversationInv, HermesInv
<1>2. q.thread \in 1..Len(chats) BY <1>1 DEF RequestOK
<1>3. new \in Turn BY <1>1, <1>2 DEF Turn
<1>4. /\ turns' \in Seq(Turn) /\ Len(turns') = n /\ turns'[n] = new
      /\ \A i \in 1..Len(turns) : turns'[i] = turns[i]
  <2>1. turns' = Append(turns, new) OBVIOUS
  <2> HIDE DEF new
  <2>2. QED BY <1>1, <1>3, <2>1
<1>5. Becomes(c, r) BY <1>1, <1>4 DEF Becomes
<1>6. /\ r \in Request /\ SameRequest(q, r) /\ r.at = "waiting" /\ r.told = q.told
      /\ r.thread = q.thread /\ r.turn = n
  <2> HIDE DEF q, n
  <2>1. q \in Request /\ n \in Nat BY <1>1 DEF q, n
  <2>2. QED BY <2>1 DEF Request, SameRequest
<1>7. /\ request' \in [Requests -> Request] /\ request'[c] = r
      /\ \A o \in Requests \ {c} : request'[o] = request[o]
  BY <1>5, <1>6, RequestWith
<1>8. new.call = c /\ new.thread = q.thread /\ new.reply = q.thread OBVIOUS
<1> HIDE DEF r, new
<1>9. HermesInv'
  <2>1. \A i \in 1..Len(turns') : {turns'[i].thread, turns'[i].reply} \subseteq 1..Len(chats')
    <3> SUFFICES ASSUME NEW i \in 1..n
                 PROVE  {turns'[i].thread, turns'[i].reply} \subseteq 1..Len(chats)
      BY <1>4
    <3>1. CASE i = n BY <1>2, <1>4, <1>8, <3>1
    <3>2. CASE i \in 1..Len(turns)
      <4>1. {turns[i].thread, turns[i].reply} \subseteq 1..Len(chats)
        BY <3>2 DEF ConversationInv, HermesInv
      <4>2. QED BY <1>4, <3>2, <4>1
    <3>3. QED BY <1>1, <3>1, <3>2
  <2>2. QED BY <1>4, <2>1 DEF ConversationInv, HermesInv
<1>10. ChatsGrow BY <1>1 DEF ChatsGrow
<1>11. TurnsGrow BY <1>1, <1>4 DEF TurnsGrow
<1>12. DevicesInv' /\ DevicesGo BY <1>9, <1>10, DevicesStand
<1>13. RequestOK(c)'
  <2>1. /\ q.device \in Devices /\ q.number < device[q.device].accepted
        /\ q.by = "stream" => hermes.deferring
        /\ device[q.device].at = "open"
        /\ q.kind = "conversation" => device[q.device].thread # 0 /\ ~q.told
        /\ chats[q.thread].model = "real"
    BY <1>1 DEF RequestOK
  <2>2. n \in 1..n /\ q.thread \in 0..Len(chats) BY <1>1, <1>2
  <2>3. QED BY <1>2, <1>4, <1>6, <1>7, <1>8, <2>1, <2>2 DEF RequestOK, SameRequest
<1>14. \A o \in Requests : RequestOK(o)'
  BY <1>7, <1>9, <1>10, <1>11, <1>12, <1>13, OtherRequests
<1>15. \A o \in Requests : /\ request'[o].device = request[o].device
                           /\ request'[o].number = request[o].number
                           /\ request'[o].kind = request[o].kind
  BY <1>6, <1>7 DEF SameRequest
<1>16. \A d \in Devices : Chain(d)' \subseteq Chain(d) /\ Chain(d) \subseteq Requests
  BY <1>6, <1>7 DEF Chain, SameRequest
<1>17. \A d \in Devices : \A o \in Chain(d)' : request'[o].at # "queued" => request[o].at # "queued"
  BY <1>7, <1>16
<1>18. ChainInv' BY <1>7, <1>9, <1>15, <1>16, <1>17, OrderStays
<1>19. q.kind = "conversation" => q.device \in Devices /\ c \in Chain(q.device)
  BY <1>1 DEF Chain, RequestOK
<1>20. \A i \in 1..Len(turns) : turns[i].call \in Requests \cup {NoRequest}
  <2> SUFFICES ASSUME NEW i \in 1..Len(turns) PROVE turns[i].call \in Requests \cup {NoRequest}
    OBVIOUS
  <2>1. turns[i] \in Turn BY <1>1
  <2>2. QED BY <2>1 DEF Turn
<1>21. OrderInv'
  <2>1. ASSUME NEW i \in 1..n, NEW d \in Devices, NEW b \in Chain(d)'
        PROVE  Before(i, request[b])'
    <3>1. b \in Chain(d) /\ b \in Requests BY <1>16
    <3>2. CASE i \in 1..Len(turns)
      <4>1. Before(i, request[b]) BY <3>1, <3>2 DEF ConversationInv, OrderInv
      <4>2. turns'[i].call = turns[i].call BY <1>4, <3>2
      <4>3. QED BY <1>15, <1>20, <3>1, <3>2, <4>1, <4>2 DEF Before
    <3>3. CASE i = n
      <4>1. turns'[i].call = c BY <1>4, <1>8, <3>3
      <4>2. ASSUME q.device = request[b].device, q.kind = "conversation"
            PROVE  q.number <= request[b].number
        <5>1. c \in Chain(q.device) /\ q.device \in Devices BY <1>19, <4>2
        <5>2. b \in Chain(q.device) BY <3>1, <4>2 DEF Chain
        <5>3. QED BY <5>1, <5>2 DEF ConversationInv, ChainInv
      <4>3. QED BY <1>15, <3>1, <4>1, <4>2 DEF Before
    <3>4. QED BY <1>1, <3>2, <3>3
  <2>2. ASSUME NEW i \in 1..n, NEW j \in 1..n, i < j, turns'[j].call # NoRequest
        PROVE  Before(i, request[turns[j].call])'
    <3>1. i \in 1..Len(turns) /\ turns'[i].call = turns[i].call BY <1>1, <1>4, <2>2
    <3>2. CASE j \in 1..Len(turns)
      <4>1. turns'[j].call = turns[j].call BY <1>4, <3>2
      <4>2. Before(i, request[turns[j].call])
        BY <2>2, <3>1, <3>2, <4>1 DEF ConversationInv, OrderInv
      <4>3. turns[j].call \in Requests BY <1>20, <2>2, <3>2, <4>1
      <4> DEFINE b == turns[j].call
      <4>5. b \in Requests /\ Before(i, request[b]) BY <4>2, <4>3
      <4>6. turns'[i].call # NoRequest => turns[i].call \in Requests BY <1>20, <3>1
      <4>7. /\ request'[b].device = request[b].device /\ request'[b].number = request[b].number
            /\ request'[b].kind = request[b].kind
        BY <1>15, <4>5
      <4>8. turns'[j].call = b BY <4>1
      <4> HIDE DEF b
      <4>9. QED BY <1>15, <3>1, <4>5, <4>6, <4>7, <4>8 DEF Before
    <3>3. CASE j = n
      <4>1. turns'[j].call = c BY <1>4, <1>8, <3>3
      <4>2. q.kind = "conversation" => Before(i, q)
        BY <1>19, <3>1 DEF ConversationInv, OrderInv
      <4>3. turns'[i].call # NoRequest => turns[i].call \in Requests BY <1>20, <3>1
      <4>4. /\ request'[c].device = q.device /\ request'[c].number = q.number
            /\ request'[c].kind = q.kind
        BY <1>15
      <4> HIDE DEF q
      <4>5. QED BY <1>15, <3>1, <4>1, <4>2, <4>3, <4>4 DEF Before
    <3>4. QED BY <1>1, <3>2, <3>3
  <2>3. QED BY <1>4, <2>1, <2>2 DEF OrderInv
<1>22. CountInv'
  <2> SUFFICES ASSUME NEW o \in Requests
               PROVE  /\ Cardinality(TurnsOf(o)') <= Tries(request'[o], hermes.deferring)
                      /\ request'[o].at = "none" => TurnsOf(o)' = {}
    BY DEF CountInv
  <2>1. /\ Cardinality(TurnsOf(o)) <= Tries(request[o], hermes.deferring)
        /\ request[o].at = "none" => TurnsOf(o) = {}
        /\ IsFiniteSet(TurnsOf(o)) /\ Cardinality(TurnsOf(o)) \in Nat
    BY <1>1, TurnsCounted DEF ConversationInv, CountInv
  <2>2. CASE o # c
    <3>1. TurnsOf(o)' = TurnsOf(o) BY <1>1, <1>4, <1>8, <2>2 DEF TurnsOf
    <3>2. QED BY <1>7, <2>1, <2>2, <3>1
  <2>3. CASE o = c
    <3>1. TurnsOf(o)' = TurnsOf(o) \cup {n} /\ n \notin TurnsOf(o)
      BY <1>1, <1>4, <1>8, <2>3 DEF TurnsOf
    <3>2. Cardinality(TurnsOf(o)') = Cardinality(TurnsOf(o)) + 1 BY <2>1, <3>1, FS_AddElement
    <3>3. Tries(r, hermes.deferring) = Tries(q, hermes.deferring) + 1
      BY <1>6 DEF Tries, SameRequest
    <3>4. Tries(q, hermes.deferring) \in Nat BY DEF Tries
    <3>5. QED BY <1>6, <1>7, <2>1, <2>3, <3>2, <3>3, <3>4
  <2>4. QED BY <2>2, <2>3
<1>23. QED BY <1>7, <1>9, <1>12, <1>14, <1>18, <1>21, <1>22 DEF ConversationInv, RequestsInv
LEMMA ChatsStep ==
  ASSUME ConversationInv, NEW c \in Requests, Chats(c)
  PROVE  ConversationInv'
<1>1. request[c].at = "asking" /\ UNCHANGED <<chats, hermes, device>> BY DEF Chats
<1>2. CASE /\ turns' = Append(turns, [call |-> c, thread |-> request[c].thread, at |-> "running",
                                      reply |-> request[c].thread])
           /\ request' = [request EXCEPT ![c].at = "waiting", ![c].turn = Len(turns')]
  BY <1>1, <1>2, TurnBegins
<1>3. CASE RequestFails(c) /\ UNCHANGED turns BY <1>1, <1>3, OnlyRequests, RequestFailing
<1>4. QED BY <1>2, <1>3 DEF Chats

LEMMA AskedStep ==
  ASSUME ConversationInv, NEW c \in Requests, NEW d \in Devices,
         NEW kind \in {"conversation", "recall"}, Asked(c, d, kind)
  PROVE  ConversationInv'
<1> DEFINE n == device[d].accepted
           t == IF hermes.deferring /\ kind = "conversation" THEN device[d].thread ELSE NoThread
           by == IF hermes.deferring THEN "stream" ELSE "chat"
           r == [NewRequest EXCEPT !.at = "queued", !.kind = kind, !.device = d, !.number = n,
                                   !.by = by, !.thread = t]
           e == [device[d] EXCEPT !.accepted = n + 1]
<1>1. /\ device \in [Devices -> Device] /\ device[d] \in Device /\ DeviceOK(d)
      /\ request \in [Requests -> Request] /\ \A o \in Requests : RequestOK(o)
      /\ Len(chats) \in Nat /\ Len(turns) \in Nat /\ turns \in Seq(Turn)
  BY DEF ConversationInv, DevicesInv, RequestsInv, HermesInv
<1>2. /\ request[c].at = "none" /\ device[d].at = "open"
      /\ kind = "conversation" => device[d].thread # 0
      /\ UNCHANGED <<chats, turns, hermes>>
      /\ device' = [device EXCEPT ![d] = e] /\ request' = [request EXCEPT ![c] = r]
  BY <1>1 DEF Asked, NoThread
<1>3. n \in Nat /\ t \in 0..Len(chats) /\ t \in Nat
  <2>1. n \in Nat /\ device[d].thread \in 0..Len(chats) BY <1>1 DEF Device, DeviceOK
  <2>2. QED BY <1>1, <2>1 DEF NoThread
<1>4. by \in {"stream", "chat"} /\ (by = "stream" <=> hermes.deferring) OBVIOUS
<1>5. /\ r \in Request /\ r.at = "queued" /\ r.kind = kind /\ r.device = d /\ r.number = n
      /\ r.by = by /\ r.thread = t /\ r.told = FALSE
  <2> HIDE DEF n, t, by
  <2>1. QED BY <1>3, <1>4 DEF NewRequest, Request, Owner, NoThread, NoTurn
<1>6. /\ e \in Device /\ e.at = device[d].at /\ e.mode = device[d].mode
      /\ e.thread = device[d].thread /\ e.recall = device[d].recall /\ e.accepted = n + 1
  <2>1. \A x \in Device : \A m \in Nat :
          LET y == [x EXCEPT !.accepted = m]
          IN  /\ y \in Device /\ y.at = x.at /\ y.mode = x.mode /\ y.thread = x.thread
              /\ y.recall = x.recall /\ y.accepted = m
    BY DEF Device
  <2>2. n + 1 \in Nat BY <1>3
  <2> HIDE DEF n
  <2>3. QED BY <1>1, <2>1, <2>2
<1> HIDE DEF n, t, by, r, e
<1>7. /\ request' \in [Requests -> Request] /\ request'[c] = r
      /\ \A o \in Requests \ {c} : request'[o] = request[o]
      /\ device' \in [Devices -> Device] /\ device'[d] = e
      /\ \A o \in Devices \ {d} : device'[o] = device[o]
  BY <1>1, <1>2, <1>5, <1>6
<1>8. HermesInv' /\ ChatsGrow /\ TurnsGrow
  <2>1. HermesInv' BY <1>2 DEF ConversationInv, HermesInv
  <2>2. ChatsGrow /\ TurnsGrow BY <1>1, <1>2 DEF ChatsGrow, TurnsGrow
  <2>3. QED BY <2>1, <2>2
<1>9. DevicesInv' /\ DevicesGo
  <2>1. DeviceOK(d)' BY <1>1, <1>2, <1>6, <1>7 DEF DeviceOK
  <2>2. \A o \in Devices : DeviceOK(o)' BY <1>7, <1>8, <2>1, OtherDevices
  <2>3. \A o \in Devices : device[o].accepted \in Nat BY <1>1 DEF Device
  <2>4. device'[d].accepted = n + 1 /\ device[d].accepted = n BY <1>6, <1>7 DEF n
  <2>5. DevicesGo BY <1>3, <1>6, <1>7, <2>3, <2>4 DEF DevicesGo
  <2>6. QED BY <1>7, <2>2, <2>5 DEF DevicesInv
<1>10. RequestsInv'
  <2>1. RequestOK(c)'
    <3>1. n < n + 1 /\ t \in 0..Len(chats) BY <1>3
    <3>2. QED BY <1>2, <1>4, <1>5, <1>6, <1>7, <3>1 DEF RequestOK
  <2>2. \A o \in Requests : RequestOK(o)' BY <1>2, <1>7, <1>8, <1>9, <2>1, OtherRequests
  <2>3. QED BY <1>7, <2>2 DEF RequestsInv
<1>11. \A o \in Requests : request[o].number \in Nat
  <2> SUFFICES ASSUME NEW o \in Requests PROVE request[o].number \in Nat OBVIOUS
  <2>1. request[o] \in Request BY <1>1
  <2>2. QED BY <2>1 DEF Request
\* Whatever the session accepted before has a smaller number.
<1>12. \A o \in Requests : request[o].at # "none" /\ request[o].device = d => request[o].number < n
  BY <1>1 DEF RequestOK, n
<1>13. \A x \in Devices : \A o \in Chain(x)' :
         /\ o \in Requests
         /\ \/ o = c /\ x = d /\ request'[o] = r
            \/ o # c /\ o \in Chain(x) /\ request'[o] = request[o]
  BY <1>5, <1>7 DEF Chain
<1>14. ChainInv'
  <2> SUFFICES ASSUME NEW x \in Devices, NEW b \in Chain(x)', NEW o \in Chain(x)'
               PROVE  /\ request'[b].number = request'[o].number => b = o
                      /\ request'[b].at # "queued" => request'[b].number <= request'[o].number
    BY DEF ChainInv
  <2>1. CASE b # c /\ o # c BY <1>13, <2>1 DEF ConversationInv, ChainInv
  <2>2. CASE b = c /\ o = c BY <1>5, <1>7, <2>2
  <2>3. CASE b = c /\ o # c
    <3>1. request'[o] = request[o] /\ request[o].number < n /\ request[o].number \in Nat
      BY <1>11, <1>12, <1>13, <2>3 DEF Chain
    <3>2. QED BY <1>3, <1>5, <1>7, <2>3, <3>1
  <2>4. CASE b # c /\ o = c
    <3>1. request'[b] = request[b] /\ request[b].number < n /\ request[b].number \in Nat
      BY <1>11, <1>12, <1>13, <2>4 DEF Chain
    <3>2. QED BY <1>3, <1>5, <1>7, <2>4, <3>1
  <2>5. QED BY <2>1, <2>2, <2>3, <2>4
<1>15. \A i \in 1..Len(turns) : turns[i].call # NoRequest =>
         /\ turns[i].call \in Requests \ {c}
         /\ request[turns[i].call].at # "none"
  <2> SUFFICES ASSUME NEW i \in 1..Len(turns), turns[i].call # NoRequest
               PROVE  turns[i].call \in Requests \ {c} /\ request[turns[i].call].at # "none"
    OBVIOUS
  <2>1. turns[i] \in Turn BY <1>1
  <2>2. turns[i].call \in Requests BY <2>1 DEF Turn
  <2>3. i \in TurnsOf(turns[i].call) BY DEF TurnsOf
  <2>4. request[turns[i].call].at # "none" BY <2>2, <2>3 DEF ConversationInv, CountInv
  <2>5. QED BY <1>2, <2>2, <2>4
<1>16. OrderInv'
  <2>1. ASSUME NEW i \in 1..Len(turns), NEW x \in Devices, NEW o \in Chain(x)'
        PROVE  Before(i, request[o])'
    <3>1. CASE o # c
      <4>1. o \in Chain(x) /\ request'[o] = request[o] BY <1>13, <3>1
      <4>2. Before(i, request[o]) BY <4>1 DEF ConversationInv, OrderInv
      <4>3. QED BY <1>2, <1>7, <1>15, <4>1, <4>2 DEF Before
    <3>2. CASE o = c
      <4>1. turns[i].call # NoRequest /\ request[turns[i].call].device = d =>
              request[turns[i].call].number < n /\ request[turns[i].call].number \in Nat
        BY <1>11, <1>12, <1>15
      <4>2. turns[i].call # NoRequest /\ request[turns[i].call].device = d =>
              request[turns[i].call].number <= n
        BY <1>3, <4>1
      <4>3. QED BY <1>2, <1>5, <1>7, <1>15, <3>2, <4>2 DEF Before
    <3>3. QED BY <3>1, <3>2
  <2>2. ASSUME NEW i \in 1..Len(turns), NEW j \in 1..Len(turns), i < j, turns[j].call # NoRequest
        PROVE  Before(i, request[turns[j].call])'
    <3>1. Before(i, request[turns[j].call]) BY <2>2 DEF ConversationInv, OrderInv
    <3>2. QED BY <1>2, <1>7, <1>15, <2>2, <3>1 DEF Before
  <2>3. QED BY <1>2, <2>1, <2>2 DEF OrderInv
<1>17. CountInv'
  <2> SUFFICES ASSUME NEW o \in Requests
               PROVE  /\ Cardinality(TurnsOf(o)) <= Tries(request'[o], hermes.deferring)
                      /\ request'[o].at = "none" => TurnsOf(o) = {}
    <3>1. \A o \in Requests : TurnsOf(o)' = TurnsOf(o) BY <1>2 DEF TurnsOf
    <3>2. QED BY <1>2, <3>1 DEF CountInv
  <2>1. CASE o # c BY <1>7, <2>1 DEF ConversationInv, CountInv
  <2>2. CASE o = c
    <3>1. TurnsOf(o) = {} BY <1>2, <2>2 DEF ConversationInv, CountInv
    <3>2. Cardinality(TurnsOf(o)) = 0 BY <3>1, FS_EmptySet
    <3>3. QED BY <3>1, <3>2 DEF Tries
  <2>3. QED BY <2>1, <2>2
<1>18. QED BY <1>8, <1>9, <1>10, <1>14, <1>16, <1>17 DEF ConversationInv

LEMMA ConversationStep ==
  ASSUME ConversationInv, [ConversationNext]_conversationVars
  PROVE  ConversationInv'
<1>1. CASE \E c \in Requests : RequestNext(c)
  <2>1. PICK c \in Requests : RequestNext(c) BY <1>1
  <2>2. CASE \E d \in Devices, kind \in {"conversation", "recall"} : Asked(c, d, kind)
    BY <2>2, AskedStep
  <2>3. CASE RequestBegins(c) BY <2>3, Begins
  <2>4. CASE FindsRecall(c) BY <2>4, FindsStep
  <2>5. CASE MakesRecall(c) BY <2>5, MakesStep
  <2>6. CASE Readies(c) BY <2>6, ReadiesStep
  <2>7. CASE Locks(c) BY <2>7, LocksStep
  <2>8. CASE Chats(c) BY <2>8, ChatsStep
  <2>9. CASE HearsSentence(c) BY <2>9, HearsStep
  <2>10. CASE TurnAnswered(c) BY <2>10, AnsweredStep
  <2>11. CASE Breaks(c) BY <2>11, BreaksStep
  <2>12. CASE RecallTimesOut(c) BY <2>12, TimesOutStep
  <2>13. QED BY <2>1, <2>2, <2>3, <2>4, <2>5, <2>6, <2>7, <2>8, <2>9, <2>10, <2>11, <2>12
          DEF RequestNext
<1>2. CASE \E d \in Devices : DeviceNext(d) BY <1>2, SessionOpens, SessionEnds DEF DeviceNext
<1>3. CASE \E i \in DOMAIN turns : TurnEnds(i) BY <1>3, HermesEndsTurn
<1>4. CASE UNCHANGED conversationVars
  <2>1. UNCHANGED <<chats, turns, hermes, device, request>> BY <1>4 DEF conversationVars
  <2>2. QED BY <2>1, OnlyRequests, RequestsStand
<1>5. QED BY <1>1, <1>2, <1>3, <1>4 DEF ConversationNext

(* What is kept *)

LEMMA OneWorks ==
  ASSUME ConversationInv, NEW d \in Devices
  PROVE  Cardinality(Working(d)) <= 1
<1>1. \A b, c \in Working(d) : b = c
  <2> SUFFICES ASSUME NEW b \in Working(d), NEW c \in Working(d) PROVE b = c OBVIOUS
  <2>1. /\ b \in Chain(d) /\ c \in Chain(d) /\ b \in Requests /\ c \in Requests
        /\ request[b].at # "queued" /\ request[c].at # "queued"
    BY DEF Working, Chain
  <2>2. request[b].number \in Nat /\ request[c].number \in Nat
    <3>1. request[b] \in Request /\ request[c] \in Request BY <2>1, RequestFacts
    <3>2. QED BY <3>1 DEF Request
  <2>3. /\ request[b].number <= request[c].number /\ request[c].number <= request[b].number
        /\ request[b].number = request[c].number => b = c
    BY <2>1 DEF ConversationInv, ChainInv
  <2>4. QED BY <2>2, <2>3
<1>2. CASE Working(d) = {}
  <2>1. Cardinality(Working(d)) = 0 BY <1>2, FS_EmptySet
  <2>2. QED BY <2>1
<1>3. CASE Working(d) # {}
  <2>1. PICK b \in Working(d) : TRUE BY <1>3
  <2>2. Working(d) = {b} BY <1>1, <2>1
  <2>3. Cardinality(Working(d)) = 1 BY <2>2, FS_Singleton
  <2>4. QED BY <2>3
<1>4. QED BY <1>2, <1>3

LEMMA ConversationIsKept == ConversationInv => ConversationKept
<1> SUFFICES ASSUME ConversationInv PROVE ConversationKept OBVIOUS
<1>1. /\ Len(chats) \in Nat /\ DOMAIN chats = 1..Len(chats)
      /\ Len(turns) \in Nat /\ DOMAIN turns = 1..Len(turns) /\ turns \in Seq(Turn)
  BY DEF ConversationInv, HermesInv
<1>2. ConversationTypeOK
  <2>1. ASSUME NEW d \in Devices
        PROVE  /\ device[d].thread \in {NoThread} \cup DOMAIN chats
               /\ device[d].recall \in {NoThread} \cup Titled("recall")
               /\ device[d].at = "open" /\ device[d].mode # "unbound" =>
                    device[d].thread # NoThread
    BY <1>1 DEF ConversationInv, DevicesInv, DeviceOK, Titled, NoThread
  <2>2. ASSUME NEW c \in Requests
        PROVE  request[c].at = "waiting" => turns[request[c].turn].call = c
    BY DEF ConversationInv, RequestsInv, RequestOK
  <2>3. hermes.ready \subseteq DOMAIN chats BY <1>1 DEF ConversationInv, HermesInv
  <2>4. QED BY <2>1, <2>2, <2>3 DEF ConversationTypeOK
<1>3. TurnsInOrder
  <2>1. ASSUME NEW i \in DOMAIN turns, NEW j \in DOMAIN turns, i < j,
               NoRequest \notin {turns[i].call, turns[j].call},
               request[turns[i].call].device = request[turns[j].call].device,
               request[turns[i].call].kind = request[turns[j].call].kind,
               request[turns[i].call].kind = "conversation"
        PROVE  request[turns[i].call].number <= request[turns[j].call].number
    <3>1. Before(i, request[turns[j].call]) BY <1>1, <2>1 DEF ConversationInv, OrderInv
    <3>2. QED BY <2>1, <3>1 DEF Before
  <2>2. QED BY <2>1, OneWorks DEF TurnsInOrder
<1>4. NoVirtualTurn BY DEF NoVirtualTurn, ConversationInv, RequestsInv, RequestOK
<1>5. AskedAtMostTwice
  <2> SUFFICES ASSUME NEW c \in Requests
               PROVE  Cardinality({i \in DOMAIN turns : turns[i].call = c}) <=
                        (IF hermes.deferring THEN 2 ELSE 1)
    BY DEF AskedAtMostTwice
  <2>1. {i \in DOMAIN turns : turns[i].call = c} = TurnsOf(c) BY <1>1 DEF TurnsOf
  <2>2. /\ Cardinality(TurnsOf(c)) \in Nat
        /\ Cardinality(TurnsOf(c)) <= Tries(request[c], hermes.deferring)
    BY <1>1, TurnsCounted DEF ConversationInv, CountInv
  <2>3. /\ Tries(request[c], hermes.deferring) \in Nat
        /\ Tries(request[c], hermes.deferring) <= (IF hermes.deferring THEN 2 ELSE 1)
    BY DEF Tries
  <2> DEFINE most == IF hermes.deferring THEN 2 ELSE 1
             n == Cardinality(TurnsOf(c))
             k == Tries(request[c], hermes.deferring)
  <2>4. most \in Nat OBVIOUS
  <2>5. n \in Nat /\ k \in Nat /\ n <= k /\ k <= most BY <2>2, <2>3
  <2> HIDE DEF most, n, k
  <2>6. n <= most BY <2>4, <2>5
  <2>7. Cardinality({i \in DOMAIN turns : turns[i].call = c}) = n BY <2>1 DEF n
  <2>8. QED BY <2>6, <2>7 DEF most
<1>6. QED BY <1>2, <1>3, <1>4, <1>5 DEF ConversationKept

\* Sessions find threads that exist, one operation of a session works at a
\* time and its turns reach Hermes in the order they were accepted, no turn is
\* asked of the virtual model, and none a third time
\* (live-gateway-session.ts:1149-1236, hermes-runs.client.ts:361-400).
THEOREM ConversationsAlwaysKept == ConversationSpec => []ConversationKept
<1>1. ConversationInit => ConversationInv BY ConversationInitial
<1>2. ConversationInv /\ [ConversationNext]_conversationVars => ConversationInv'
  BY ConversationStep
<1>3. QED BY <1>1, <1>2, ConversationIsKept, PTL DEF ConversationSpec

=============================================================================
