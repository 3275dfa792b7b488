----------------------------- MODULE Delegations -----------------------------
(***************************************************************************)
(* Handing work to an agent on a host: calls of one idempotency key share  *)
(* a launch, a repeated call finds the agent its predecessor started, and  *)
(* a linked task is delegated once its agent is watched.  The host runs    *)
(* each command by itself: one that failed here may have worked there.     *)
(***************************************************************************)
EXTENDS Integers, FiniteSets, Sequences

CONSTANTS
  Asks,         \* calls of the delegation route
  Keys,         \* their idempotency keys
  Linked,       \* the keys whose calls name the task
  MaxInflight,  \* launches at a time
  Lagging,      \* whether a started agent may be missing from the host's list
  MaxAgents, MaxHostFaults, MaxGatewayDeaths, MaxRetries, MaxStops  \* bounds

ASSUME DelegationAssumption ==
  /\ IsFiniteSet(Asks) /\ IsFiniteSet(Keys) /\ Linked \subseteq Keys
  /\ MaxInflight \in Nat \ {0} /\ Lagging \in BOOLEAN
  /\ {MaxAgents, MaxHostFaults, MaxGatewayDeaths, MaxRetries, MaxStops} \subseteq Nat

VARIABLES
  ask,         \* where every call is, and what it has learnt
  inflight,    \* the calls that launch
  agents,      \* what the host runs
  watches,     \* what the store of watches holds, in order
  linkedTask,  \* the linked task
  mishap       \* faults, deaths, retries and stops so far

delegationVars == <<ask, inflight, agents, watches, linkedTask, mishap>>

NoAgent == 0
DelegationInit ==
  /\ ask \in [Asks -> [key : Keys, at : {"idle"}, seen : {{}}, agent : {NoAgent}]]
  /\ inflight = {} /\ agents = <<>> /\ watches = <<>>
  /\ linkedTask = "active"
  /\ mishap = [faults |-> 0, deaths |-> 0, retries |-> 0, stops |-> 0]

\* The agents of a key as the host lists them.
Named(k) == {a \in DOMAIN agents : agents[a].key = k /\ agents[a].listed}
WatchesOf(seen, a) == {w \in seen : ~watches[w].stopped /\ watches[w].agent = a}
Faulty == mishap.faults < MaxHostFaults
HostFault == mishap' = [mishap EXCEPT !.faults = @ + 1]

\* A call learns that its launch is over: those that joined it do, too.
LaunchSettled(c, at, a) ==
  [d \in Asks |-> IF d = c \/ (ask[d].at = "joined" /\ ask[d].key = ask[c].key)
                  THEN [ask[d] EXCEPT !.at = at, !.agent = a] ELSE ask[d]]

LaunchFails(c) == ask' = LaunchSettled(c, "failed", NoAgent) /\ inflight' = inflight \ {c}

\* After an answer the route moves the linked task.
AnsweredAt(c) == IF ask[c].key \in Linked THEN "marking" ELSE "done"

(* delegate() *)

Arrives(c) ==
  /\ ask[c].at = "idle"
  /\ ask' = [ask EXCEPT ![c].at = "listing"]
  /\ UNCHANGED <<inflight, agents, watches, linkedTask, mishap>>

\* Mutant: a launch under way is not looked for.
NobodyLaunches(c) == {}
Launching(c) == {d \in inflight : ask[d].key = ask[c].key}

\* Nothing answers the call: it joins a launch, begins one, or is too many.
Enters(c) ==
  IF Launching(c) # {}
  THEN ask' = [ask EXCEPT ![c].at = "joined"] /\ UNCHANGED inflight
  ELSE IF Cardinality(inflight) >= MaxInflight
  THEN ask' = [ask EXCEPT ![c].at = "failed"] /\ UNCHANGED inflight
  ELSE ask' = [ask EXCEPT ![c].at = "reconciling"] /\ inflight' = inflight \cup {c}

AnswersFrom(c, a) ==
  ask' = [ask EXCEPT ![c].at = AnsweredAt(c), ![c].agent = a] /\ UNCHANGED inflight

\* The watches of the owner; a linked call is answered by any of its task, and
\* a list that cannot be read answers nobody.
ListsWatches(c) ==
  LET ofTask == {w \in DOMAIN watches : watches[w].linked /\ ~watches[w].stopped}
  IN  /\ ask[c].at = "listing"
      /\ \/ /\ IF ask[c].key \notin Linked
               THEN ask' = [ask EXCEPT ![c].at = "finding", ![c].seen = DOMAIN watches]
                    /\ UNCHANGED inflight
               ELSE IF ofTask = {} THEN Enters(c)
               ELSE \E w \in ofTask : AnswersFrom(c, watches[w].agent)
            /\ UNCHANGED mishap
         \/ Faulty /\ HostFault /\ Enters(c)
      /\ UNCHANGED <<agents, watches, linkedTask>>

\* The host's list, for a call that names no task; a fault finds nothing.
FindsAgents(c) ==
  /\ ask[c].at = "finding"
  /\ \/ \E a \in Named(ask[c].key) :
          /\ IF WatchesOf(ask[c].seen, a) = {} THEN Enters(c) ELSE AnswersFrom(c, a)
          /\ UNCHANGED mishap
     \/ Named(ask[c].key) = {} /\ Enters(c) /\ UNCHANGED mishap
     \/ Faulty /\ HostFault /\ Enters(c)
  /\ UNCHANGED <<agents, watches, linkedTask>>

(* The launch *)

\* Mutant: the host is not asked before an agent is started.
StartsUnasked(c) == {}
Reconcilable(c) == Named(ask[c].key)

Reconciles(c) ==
  /\ ask[c].at = "reconciling"
  /\ \/ /\ \/ \E a \in Reconcilable(c) :
                ask' = [ask EXCEPT ![c].at = "registering", ![c].agent = a]
           \/ Reconcilable(c) = {} /\ ask' = [ask EXCEPT ![c].at = "starting"]
        /\ UNCHANGED <<inflight, mishap>>
     \/ Faulty /\ HostFault /\ LaunchFails(c)
  /\ UNCHANGED <<agents, watches, linkedTask>>

\* The workspace and the agent in it.
Start(c) ==
  /\ Len(agents) < MaxAgents
  /\ \E listed \in {TRUE, ~Lagging} :
       agents' = Append(agents, [key |-> ask[c].key, listed |-> listed, told |-> FALSE])
StartsAgent(c) ==
  /\ ask[c].at = "starting"
  /\ \/ Start(c) /\ ask' = [ask EXCEPT ![c].at = "prompting", ![c].agent = Len(agents')]
        /\ UNCHANGED <<inflight, mishap>>
     \/ Faulty /\ HostFault /\ LaunchFails(c) /\ (Start(c) \/ UNCHANGED agents)
  /\ UNCHANGED <<watches, linkedTask>>

\* Its objective.
Prompts(c) ==
  /\ ask[c].at = "prompting"
  /\ \/ /\ agents' = [agents EXCEPT ![ask[c].agent].told = TRUE]
        /\ \/ ask' = [ask EXCEPT ![c].at = "verifying"] /\ UNCHANGED <<inflight, mishap>>
           \/ Faulty /\ HostFault /\ LaunchFails(c)
     \/ Faulty /\ HostFault /\ LaunchFails(c) /\ UNCHANGED agents
  /\ UNCHANGED <<watches, linkedTask>>

\* Five looks at the host's list.
Verifies(c) ==
  /\ ask[c].at = "verifying"
  /\ \/ \E a \in Named(ask[c].key) :
          /\ ask' = [ask EXCEPT ![c].at = "registering", ![c].agent = a]
          /\ UNCHANGED <<inflight, mishap>>
     \/ Named(ask[c].key) = {} /\ LaunchFails(c) /\ UNCHANGED mishap
     \/ Faulty /\ HostFault /\ LaunchFails(c)
  /\ UNCHANGED <<agents, watches, linkedTask>>

\* registerWatch: the agent is there, and a new watch is stored.
Registers(c) ==
  /\ ask[c].at = "registering"
  /\ \/ /\ watches' = Append(watches, [agent |-> ask[c].agent, stopped |-> FALSE,
                                        linked |-> ask[c].key \in Linked])
        /\ ask' = LaunchSettled(c, AnsweredAt(c), ask[c].agent)
        /\ inflight' = inflight \ {c}
        /\ UNCHANGED mishap
     \/ Faulty /\ HostFault /\ LaunchFails(c) /\ UNCHANGED watches
  /\ UNCHANGED <<agents, linkedTask>>

\* markDelegated, of a task that may be closed by then; its failure is logged.
Marks(c) ==
  /\ ask[c].at = "marking"
  /\ ask' = [ask EXCEPT ![c].at = "done"]
  /\ linkedTask' = IF linkedTask = "active" THEN "delegated" ELSE linkedTask
  /\ UNCHANGED <<inflight, agents, watches, mishap>>

(* Around it *)

Retries(c) ==
  /\ ask[c].at \in {"failed", "done"} /\ mishap.retries < MaxRetries
  /\ ask' = [ask EXCEPT ![c].at = "idle", ![c].seen = {}, ![c].agent = NoAgent]
  /\ mishap' = [mishap EXCEPT !.retries = @ + 1]
  /\ UNCHANGED <<inflight, agents, watches, linkedTask>>

\* An agent that was started turns up in the host's list.
Appears(a) ==
  /\ ~agents[a].listed
  /\ agents' = [agents EXCEPT ![a].listed = TRUE]
  /\ UNCHANGED <<ask, inflight, watches, linkedTask, mishap>>

OwnerStops(w) ==
  /\ ~watches[w].stopped /\ mishap.stops < MaxStops
  /\ watches' = [watches EXCEPT ![w].stopped = TRUE]
  /\ mishap' = [mishap EXCEPT !.stops = @ + 1]
  /\ UNCHANGED <<ask, inflight, agents, linkedTask>>

TaskCloses ==
  /\ linkedTask = "active" /\ linkedTask' = "closed"
  /\ UNCHANGED <<ask, inflight, agents, watches, mishap>>

\* The gateway dies with its calls; the command it was waiting for may still
\* run on the host.
GatewayDies ==
  /\ mishap.deaths < MaxGatewayDeaths
  /\ mishap' = [mishap EXCEPT !.deaths = @ + 1]
  /\ ask' = [c \in Asks |-> IF ask[c].at \in {"idle", "done"} THEN ask[c]
                            ELSE [ask[c] EXCEPT !.at = "failed", !.agent = NoAgent]]
  /\ inflight' = {}
  /\ \/ UNCHANGED agents
     \/ \E c \in inflight : ask[c].at = "starting" /\ Start(c)
  /\ UNCHANGED <<watches, linkedTask>>

Delegates(c) ==
  \/ Arrives(c) \/ ListsWatches(c) \/ FindsAgents(c) \/ Reconciles(c) \/ StartsAgent(c)
  \/ Prompts(c) \/ Verifies(c) \/ Registers(c) \/ Marks(c) \/ Retries(c)

DelegationNext ==
  \/ \E c \in Asks : Delegates(c)
  \/ \E a \in DOMAIN agents : Appears(a)
  \/ \E w \in DOMAIN watches : OwnerStops(w)
  \/ TaskCloses \/ GatewayDies

DelegationSpec == DelegationInit /\ [][DelegationNext]_delegationVars

Launches == {"reconciling", "starting", "prompting", "verifying", "registering"}
Points == Launches \cup {"idle", "listing", "finding", "joined", "marking", "done", "failed"}
DelegationTypeOK ==
  /\ ask \in [Asks -> [key : Keys, at : Points, seen : SUBSET DOMAIN watches,
                       agent : {NoAgent} \cup DOMAIN agents]]
  /\ inflight \subseteq Asks /\ linkedTask \in {"active", "delegated", "closed"}
  /\ agents \in Seq([key : Keys, listed : BOOLEAN, told : BOOLEAN])
  /\ watches \in Seq([agent : DOMAIN agents, stopped : BOOLEAN, linked : BOOLEAN])
  /\ mishap \in [faults : Nat, deaths : Nat, retries : Nat, stops : Nat]

\* However calls of one key overlap, fail half-way, are repeated or lose their
\* gateway, the host runs one agent for it; the comment at
\* herdr-external-launch.adapter.ts:16-18 says that "a retry can never
\* duplicate agents".
OneAgentPerKey ==
  \A a, b \in DOMAIN agents : agents[a].key = agents[b].key => a = b

\* A task is delegated only while an agent's watch names it, its owner's stop
\* aside, and a call that is answered has an agent (server.ts:933-961,
\* delegation.service.ts:72-97).
DelegatedIsWatched ==
  /\ linkedTask = "delegated" => \E w \in DOMAIN watches : watches[w].linked
  /\ \A c \in Asks : ask[c].at \in {"marking", "done"} =>
       \E w \in DOMAIN watches : watches[w].agent = ask[c].agent

\* A call that joined a launch waits for one that is under way, and a launch
\* that is over is off the list (delegation.service.ts:59-69).
JoinersHaveALaunch ==
  /\ \A c \in Asks : ask[c].at = "joined" => \E d \in inflight : ask[d].key = ask[c].key
  /\ \A c \in Asks : c \in inflight <=> ask[c].at \in Launches
  /\ Cardinality(inflight) <= MaxInflight

DelegationKept ==
  DelegationTypeOK /\ (Lagging \/ OneAgentPerKey) /\ DelegatedIsWatched /\ JoinersHaveALaunch

\* No run checks these: they fail.  A call that listed the watches before a
\* launch ended and the agents after registers the agent again
\* (delegation.service.ts:111-122, 83-95).
WatchedOnce ==
  \A v, w \in DOMAIN watches :
    watches[v].agent = watches[w].agent /\ ~watches[v].stopped /\ ~watches[w].stopped => v = w

\* An agent whose prompt failed is found by the retry, which answers
\* "delegated" (herdr-external-launch.adapter.ts:72-75, 105-107).
WatchedKnowsItsWork == \A w \in DOMAIN watches : agents[watches[w].agent].told

\* Two keys for one task launch an agent each (delegation.service.ts:111-117).
OneAgentPerTask ==
  \A a, b \in DOMAIN agents : agents[a].key \in Linked /\ agents[b].key \in Linked => a = b
=============================================================================
