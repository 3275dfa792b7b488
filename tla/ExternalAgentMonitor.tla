------------------------- MODULE ExternalAgentMonitor -------------------------
(***************************************************************************)
(* The monitor of agents on other hosts                                    *)
(* (application/external-work/external-agent-monitor.ts): one poll loop    *)
(* per host, owners that register and stop watches, and voice sessions     *)
(* that lease, speak and record an announcement of a watch.                *)
(*                                                                         *)
(* A store operation is one atomic step.  Between two of them an actor     *)
(* keeps its point, the watch it works on, and in "fresh" whether the      *)
(* revision it read is still the latest.                                   *)
(***************************************************************************)
EXTENDS FiniteSets, AgentWatches

CONSTANTS
  Hosts, Watches, Sessions,
  HostOf,       \* [Watches -> Hosts]
  Nobody,
  Agents,       \* sightings the hosts' agent lists may report
  Failing,      \* hosts that may be unreachable
  Browsing,     \* hosts somebody asks for their agents
  Stoppable,    \* watches their owner may stop
  MaxSpoken,    \* bound on the deliveries of an announcement
  MaxCrashes    \* bound on crashes

Owner(w) == <<"owner", w>>
Owners == {Owner(w) : w \in Watches}
Actors == Hosts \cup Sessions \cup Owners

\* Besides types: hosts, sessions and owners are told apart, and nothing else
\* passes for a watch or a session.
ASSUME MonitorAssumption ==
  /\ HostOf \in [Watches -> Hosts]
  /\ Agents \subseteq Sightings
  /\ Nobody \notin Sessions \cup Watches
  /\ Hosts \cap (Sessions \cup Owners) = {} /\ Sessions \cap Owners = {}
  /\ Watches \cap {"free", "poll", "browse"} = {}

VARIABLES
  watch,    \* the durable watches
  up,       \* the process runs
  timer,    \* hosts with an armed poll timer
  busy,     \* inFlight: "free", "poll", "browse" or the watch being registered
  ending,   \* hosts whose poll is about to arm the next one
  pc, cur,  \* point and current watch of an actor
  attempt,  \* updateWatch: "first", "reload" or "second"
  todo,     \* watches a host's poll did not get to yet
  sighting, \* what the list a poll works on says of the current watch
  fresh,    \* <<actor, watch>>: the revision the actor read is the latest
  lease,    \* announcementLeases, by watch
  open,     \* open voice sessions
  spoken,   \* deliveries of each watch's announcement
  crashes

hostVars == <<timer, busy, ending>>
pollVars == <<todo, sighting>>
actorVars == <<pc, cur, attempt>>
speechVars == <<lease, open, spoken>>
vars == <<watch, up, hostVars, pollVars, actorVars, fresh, speechVars,
          crashes>>

Init ==
  /\ watch = [w \in Watches |-> NoWatch]
  /\ up = TRUE
  /\ timer = {} /\ busy = [h \in Hosts |-> "free"] /\ ending = {}
  /\ pc = [x \in Actors |-> "idle"] /\ cur = [x \in Actors |-> Nobody]
  /\ attempt = [x \in Actors |-> "first"]
  /\ todo = [h \in Hosts |-> {}] /\ sighting = [h \in Hosts |-> "unknown"]
  /\ fresh = {}
  /\ lease = [w \in Watches |-> Nobody] /\ open = {}
  /\ spoken = [w \in Watches |-> 0]
  /\ crashes = 0

Watching(h) == {w \in Watches : HostOf[w] = h /\ watch[w].status = "watching"}

\* Actor x goes on with watch w at a point.
Goes(x, point, w) ==
  /\ pc' = [pc EXCEPT ![x] = point]
  /\ cur' = [cur EXCEPT ![x] = w]
  /\ attempt' = [attempt EXCEPT ![x] = "first"]

\* A host's poll turns to the watches on its list.
Batch(h, point) ==
  /\ Goes(h, point, Nobody)
  /\ todo' = [todo EXCEPT ![h] = Watching(h)]
  /\ fresh' = fresh \cup ({h} \X Watching(h))

-----------------------------------------------------------------------------
(* updateWatch: an attempt against the revision the caller read, then one  *)
(* against the latest.                                                     *)

Updated(x) ==
  LET w == watch[cur[x]]
  IN CASE pc[x] = "observe" -> Sighted(w, sighting[x])
       [] pc[x] = "charge" -> HostFailed(w)
       [] pc[x] = "stop" -> Stopped(w)
       [] pc[x] = "note" -> Announced(w)

Updating(x) == pc[x] \in {"observe", "charge", "stop", "note"} /\ cur[x] # Nobody

\* The store's comparison of revisions and its schema.
Accepted(x) == <<x, cur[x]>> \in fresh /\ Takes(watch[cur[x]], Updated(x))

UpdateSucceeds(x) ==
  /\ Updating(x) /\ attempt[x] \in {"first", "second"} /\ Accepted(x)
  /\ watch' = [watch EXCEPT ![cur[x]] = Updated(x)]
  /\ fresh' = {f \in fresh : f[2] # cur[x]}
  /\ IF x \in Hosts
     THEN /\ Goes(x, pc[x], Nobody)
          /\ todo' = [todo EXCEPT ![x] = @ \ {cur[x]}]
          /\ sighting' = [sighting EXCEPT ![x] = "unknown"]
     ELSE Goes(x, "idle", Nobody) /\ UNCHANGED pollVars
  /\ UNCHANGED <<up, hostVars, speechVars, crashes>>

UpdateConflicts(x) ==
  /\ Updating(x) /\ attempt[x] = "first" /\ ~Accepted(x)
  /\ attempt' = [attempt EXCEPT ![x] = "reload"]
  /\ UNCHANGED <<watch, up, hostVars, pollVars, pc, cur, fresh,
                 speechVars, crashes>>

Reload(x) ==
  /\ Updating(x) /\ attempt[x] = "reload"
  /\ attempt' = [attempt EXCEPT ![x] = "second"]
  /\ fresh' = fresh \cup {<<x, cur[x]>>}
  /\ UNCHANGED <<watch, up, hostVars, pollVars, pc, cur, speechVars,
                 crashes>>

UpdateFails(x) == Updating(x) /\ attempt[x] = "second" /\ ~Accepted(x)

\* A watch that cannot be observed is taken for a failure of its host.
ObservationFails(h) ==
  /\ pc[h] = "observe" /\ UpdateFails(h)
  /\ Batch(h, "charge")
  /\ sighting' = [sighting EXCEPT ![h] = "unknown"]
  /\ UNCHANGED <<watch, up, hostVars, speechVars, crashes>>

\* The owner, or the session's log, gets the error.
CallFails(x) ==
  /\ x \notin Hosts /\ UpdateFails(x)
  /\ Goes(x, "idle", Nobody)
  /\ fresh' = {f \in fresh : f[1] # x}
  /\ UNCHANGED <<watch, up, hostVars, pollVars, speechVars, crashes>>

-----------------------------------------------------------------------------
(* Registration and discovery. *)

\* registerWatch and discover wait for the host to be free.
Discovers(h, what) ==
  /\ up /\ busy[h] = "free"
  /\ busy' = [busy EXCEPT ![h] = what]
  /\ UNCHANGED <<watch, up, timer, ending, pollVars, actorVars, fresh,
                 speechVars, crashes>>

RegisterWatch(w) ==
  watch[w] = NoWatch /\ pc[Owner(w)] = "idle" /\ Discovers(HostOf[w], w)

Browse(h) == h \in Browsing /\ Discovers(h, "browse")

\* The list came back and shows the agent.
AgentFound(w) ==
  /\ busy[HostOf[w]] = w
  /\ busy' = [busy EXCEPT ![HostOf[w]] = "free"]
  /\ Goes(Owner(w), "put", w)
  /\ UNCHANGED <<watch, up, timer, ending, pollVars, fresh, speechVars,
                 crashes>>

\* The watch is written and its host is polled at once.
Registers(w) ==
  /\ pc[Owner(w)] = "put"
  /\ watch' = [watch EXCEPT ![w] = Created]
  /\ timer' = timer \cup {HostOf[w]}
  /\ Goes(Owner(w), "idle", Nobody)
  /\ UNCHANGED <<up, busy, ending, pollVars, fresh, speechVars, crashes>>

\* A discovery that leads to nothing: it was only asked for, it failed, or the
\* agent was not found.
DiscoveryEnds(h) ==
  /\ \/ busy[h] = "browse"
     \/ busy[h] \in Watches /\ (h \in Failing \/ ~(Agents \subseteq Runtime))
  /\ busy' = [busy EXCEPT ![h] = "free"]
  /\ UNCHANGED <<watch, up, timer, ending, pollVars, actorVars, fresh,
                 speechVars, crashes>>

StopWatch(w) ==
  /\ up /\ w \in Stoppable /\ pc[Owner(w)] = "idle"
  /\ watch[w].status # "absent"
  /\ Goes(Owner(w), "stop", w)
  /\ fresh' = fresh \cup {<<Owner(w), w>>}
  /\ UNCHANGED <<watch, up, hostVars, pollVars, speechVars, crashes>>

-----------------------------------------------------------------------------
(* The poll of a host. *)

\* The timer fires: pollHost returns at once while the host is busy.
TimerFires(h) ==
  /\ up /\ h \in timer
  /\ timer' = timer \ {h}
  /\ IF busy[h] = "free"
     THEN busy' = [busy EXCEPT ![h] = "poll"] /\ Goes(h, "list", Nobody)
     ELSE UNCHANGED <<busy, actorVars>>
  /\ UNCHANGED <<watch, up, ending, pollVars, fresh, speechVars,
                 crashes>>

ListAnswered(h) ==
  /\ pc[h] = "list"
  /\ Batch(h, "observe")
  /\ UNCHANGED <<watch, up, hostVars, sighting, speechVars, crashes>>

ListFails(h) ==
  /\ pc[h] = "list" /\ h \in Failing
  /\ Batch(h, "charge")
  /\ UNCHANGED <<watch, up, hostVars, sighting, speechVars, crashes>>

\* The loop turns to the next watch, of which the list may say anything, and
\* whose output may be read first.
NextWatch(h, w) ==
  /\ pc[h] \in {"observe", "charge"} /\ cur[h] = Nobody /\ w \in todo[h]
  /\ Goes(h, pc[h], w)
  /\ IF pc[h] = "observe"
     THEN \E s \in Agents : sighting' = [sighting EXCEPT ![h] = s]
     ELSE UNCHANGED sighting
  /\ UNCHANGED <<watch, up, hostVars, todo, fresh, speechVars,
                 crashes>>

PollEnds(h) ==
  /\ pc[h] \in {"observe", "charge"} /\ cur[h] = Nobody /\ todo[h] = {}
  /\ Goes(h, "idle", Nobody)
  /\ busy' = [busy EXCEPT ![h] = "free"]
  /\ ending' = ending \cup {h}
  /\ UNCHANGED <<watch, up, timer, pollVars, fresh, speechVars,
                 crashes>>

\* The end of pollHost, after its last look at the store.
Rearms(h) ==
  /\ h \in ending
  /\ ending' = ending \ {h}
  /\ timer' = IF Watching(h) # {} THEN timer \cup {h} ELSE timer
  /\ UNCHANGED <<watch, up, busy, pollVars, actorVars, fresh,
                 speechVars, crashes>>

-----------------------------------------------------------------------------
(* Announcements. *)

Release(s, w) == IF lease[w] = s THEN [lease EXCEPT ![w] = Nobody] ELSE lease

\* claimAnnouncement waits for the store ...
Claims(s, w) ==
  /\ up /\ s \in open /\ pc[s] = "idle" /\ watch[w].status # "absent"
  /\ Goes(s, "claim", w)
  /\ UNCHANGED <<watch, up, hostVars, pollVars, fresh, speechVars,
                 crashes>>

Claimable(w) == watch[w].status # "stopped" /\ ~watch[w].announced

\* Mutant: what the store says decides, whoever speaks.
LeasedAnyway(s) ==
  /\ pc[s] = "claim" /\ Claimable(cur[s])
  /\ lease' = [lease EXCEPT ![cur[s]] = s]
  /\ Goes(s, "speak", cur[s])
  /\ UNCHANGED <<watch, up, hostVars, pollVars, fresh, open, spoken,
                 crashes>>

\* ... whose answer and the lease are looked at together.
Leased(s) ==
  /\ pc[s] = "claim" /\ Claimable(cur[s]) /\ lease[cur[s]] \in {Nobody, s}
  /\ lease' = [lease EXCEPT ![cur[s]] = s]
  /\ Goes(s, "speak", cur[s])
  /\ UNCHANGED <<watch, up, hostVars, pollVars, fresh, open, spoken,
                 crashes>>

LeaseRefused(s) ==
  /\ pc[s] = "claim"
  /\ ~Claimable(cur[s]) \/ lease[cur[s]] \notin {Nobody, s}
  /\ Goes(s, "idle", Nobody)
  /\ UNCHANGED <<watch, up, hostVars, pollVars, fresh, speechVars,
                 crashes>>

Speaks(s) ==
  /\ pc[s] = "speak" /\ s \in open /\ spoken[cur[s]] < MaxSpoken
  /\ spoken' = [spoken EXCEPT ![cur[s]] = @ + 1]
  /\ Goes(s, "complete", cur[s])
  /\ UNCHANGED <<watch, up, hostVars, pollVars, fresh, lease, open,
                 crashes>>

\* The delivery fails, or the closed session aborts it.
SpeechFails(s) ==
  /\ pc[s] = "speak"
  /\ lease' = Release(s, cur[s])
  /\ Goes(s, "idle", Nobody)
  /\ UNCHANGED <<watch, up, hostVars, pollVars, fresh, open, spoken,
                 crashes>>

\* completeAnnouncement up to its update.
Completes(s) ==
  /\ pc[s] = "complete"
  /\ lease' = Release(s, cur[s])
  /\ IF watch[cur[s]].announced
     THEN Goes(s, "idle", Nobody) /\ UNCHANGED fresh
     ELSE Goes(s, "note", cur[s]) /\ fresh' = fresh \cup {<<s, cur[s]>>}
  /\ UNCHANGED <<watch, up, hostVars, pollVars, open, spoken, crashes>>

OpenSession(s) ==
  /\ up /\ s \notin open /\ pc[s] = "idle"
  /\ open' = open \cup {s}
  /\ UNCHANGED <<watch, up, hostVars, pollVars, actorVars, fresh, lease,
                 spoken, crashes>>

\* performClose drops the leases the session holds now.
CloseSession(s) ==
  /\ s \in open
  /\ open' = open \ {s}
  /\ lease' = [w \in Watches |-> IF lease[w] = s THEN Nobody ELSE lease[w]]
  /\ UNCHANGED <<watch, up, hostVars, pollVars, actorVars, fresh,
                 spoken, crashes>>

-----------------------------------------------------------------------------
(* The process. *)

Forget ==
  /\ up' = FALSE
  /\ timer' = {} /\ busy' = [h \in Hosts |-> "free"] /\ ending' = {}
  /\ pc' = [x \in Actors |-> "idle"] /\ cur' = [x \in Actors |-> Nobody]
  /\ attempt' = [x \in Actors |-> "first"]
  /\ todo' = [h \in Hosts |-> {}] /\ sighting' = [h \in Hosts |-> "unknown"]
  /\ fresh' = {} /\ lease' = [w \in Watches |-> Nobody] /\ open' = {}

Crash ==
  /\ up /\ crashes < MaxCrashes
  /\ crashes' = crashes + 1
  /\ Forget
  /\ UNCHANGED <<watch, spoken>>

\* recordHostFailure throws inside pollHost's catch: the promise nobody awaits
\* rejects, which ends a Node process.
PollRejects(h) ==
  /\ pc[h] = "charge" /\ UpdateFails(h)
  /\ Forget
  /\ UNCHANGED <<watch, spoken, crashes>>

\* initialize
Restart ==
  /\ ~up
  /\ up' = TRUE
  /\ timer' = {h \in Hosts : Watching(h) # {}}
  /\ UNCHANGED <<watch, busy, ending, pollVars, actorVars, fresh,
                 speechVars, crashes>>

-----------------------------------------------------------------------------
Poll(h) ==
  \/ TimerFires(h) \/ ListAnswered(h) \/ ListFails(h)
  \/ \E w \in Watches : NextWatch(h, w)
  \/ ObservationFails(h) \/ PollRejects(h) \/ PollEnds(h) \/ Rearms(h)

Update(x) ==
  UpdateSucceeds(x) \/ UpdateConflicts(x) \/ Reload(x) \/ CallFails(x)

Announce(s) ==
  \/ OpenSession(s) \/ CloseSession(s)
  \/ \E w \in Watches : Claims(s, w)
  \/ Leased(s) \/ LeaseRefused(s) \/ Speaks(s) \/ SpeechFails(s)
  \/ Completes(s)

Next ==
  \/ \E h \in Hosts : Poll(h) \/ Browse(h) \/ DiscoveryEnds(h)
  \/ \E x \in Actors : Update(x)
  \/ \E s \in Sessions : Announce(s)
  \/ \E w \in Watches :
       RegisterWatch(w) \/ AgentFound(w) \/ Registers(w) \/ StopWatch(w)
  \/ Crash \/ Restart

Spec == Init /\ [][Next]_vars

-----------------------------------------------------------------------------
(* What must hold. *)

Points ==
  {"idle", "list", "observe", "charge", "stop", "put", "claim", "speak",
   "complete", "note"}

\* Types; in particular no counter passes the limit of the schema.
MonitorTypeOK ==
  /\ watch \in [Watches -> Watch]
  /\ sighting \in [Hosts -> Sightings]
  /\ up \in BOOLEAN /\ timer \subseteq Hosts /\ ending \subseteq Hosts
  /\ busy \in [Hosts -> {"free", "poll", "browse"} \cup Watches]
  /\ pc \in [Actors -> Points]
  /\ cur \in [Actors -> Watches \cup {Nobody}]
  /\ attempt \in [Actors -> {"first", "reload", "second"}]
  /\ todo \in [Hosts -> SUBSET Watches]
  /\ fresh \subseteq Actors \X Watches
  /\ lease \in [Watches -> Sessions \cup {Nobody}]
  /\ open \subseteq Sessions
  /\ spoken \in [Watches -> Nat] /\ crashes \in Nat

\* A watch that was observed and is still watched shows offline exactly when
\* its host failed three times in a row, whatever writes of owners and
\* sessions came between.
OfflineAfterThree ==
  \A w \in Watches :
    watch[w].status = "watching" /\ watch[w].state # "none" =>
      (watch[w].failures >= 3 <=> watch[w].state = "offline")

\* A released watch stays as it was seen last: no late observation reaches it,
\* and a mismatched one is never followed again.
ReleasedIsFinal ==
  [][\A w \in Watches :
       watch[w].status \in {"mismatched", "stopped"} =>
         /\ watch'[w].status \in {watch[w].status, "stopped"}
         /\ watch'[w].state = watch[w].state]_vars

\* No two open sessions speak the same announcement at the same time.
OneSpeaker ==
  \A s, t \in open :
    s # t /\ pc[s] = "speak" /\ pc[t] = "speak" => cur[s] # cur[t]

\* A lease is held by a session that is delivering that announcement: no
\* failed delivery, closed session or late claim blocks it for good.
LeasesAreUsed ==
  \A w \in Watches :
    lease[w] # Nobody =>
      pc[lease[w]] \in {"speak", "complete"} /\ cur[lease[w]] = w

\* What is recorded as announced was spoken.
AnnouncedWasSpoken ==
  \A w \in Watches : watch[w].announced => spoken[w] > 0

\* Failures of a host are counted, within the schema's limit, and shown, and
\* the count survives every write between them (agent-watch.ts:270-300).
FailuresCounted == MonitorTypeOK /\ OfflineAfterThree

\* An announcement has one speaker at a time, who gives it back, and is
\* recorded only when it was delivered (external-agent-monitor.ts:220-250).
AnnouncementsSound == OneSpeaker /\ LeasesAreUsed /\ AnnouncedWasSpoken

\* One speech per announcement, as long as the gateway runs and its sessions
\* stay open.
SpokenOnce ==
  crashes = 0 /\ open = Sessions => \A w \in Watches : spoken[w] <= 1

\* A host with a watch is polled again: its timer is armed, or a poll of it or
\* a registration on it is under way.
PollsGoOn ==
  \A h \in Hosts :
    up /\ Watching(h) # {} =>
      \/ h \in timer \cup ending \/ busy[h] \in {"poll"} \cup Watches
      \/ \E w \in Watches : HostOf[w] = h /\ pc[Owner(w)] = "put"

\* Failing polls back off, they do not end the gateway.
GatewayStaysUp == crashes = 0 => up

\* No failure is held against a watch whose host always answers.
SuccessRecovers ==
  \A w \in Watches : HostOf[w] \notin Failing => watch[w].failures = 0

\* Three failures in a row show as offline.
ThreeFailuresShow ==
  \A w \in Watches :
    watch[w].status = "watching" /\ watch[w].failures >= 3 =>
      watch[w].state = "offline"
===============================================================================
