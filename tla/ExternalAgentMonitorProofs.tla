---------------------- MODULE ExternalAgentMonitorProofs ----------------------
(***************************************************************************)
(* Theorems about the monitor of agents on other hosts, for every set of   *)
(* hosts, watches and sessions and every bound: types, the offline rule,   *)
(* finality of released watches, and the discipline of announcements.      *)
(***************************************************************************)
EXTENDS ExternalAgentMonitor, TLAPS

\* The points of each kind of actor, and what an actor at a point works on.
PointsOK ==
  /\ \A h \in Hosts : pc[h] \in {"idle", "list", "observe", "charge"}
  /\ \A s \in Sessions : pc[s] \in {"idle", "claim", "speak", "complete", "note"}
  /\ \A x \in Owners : pc[x] \in {"idle", "put", "stop"}
  /\ \A x \in Actors :
       pc[x] \in {"put", "stop", "claim", "speak", "complete", "note"} =>
         cur[x] \in Watches
  /\ \A w \in Watches : pc[Owner(w)] = "put" => cur[Owner(w)] = w

\* Whoever works on a watch works on one that was written; a watch that is
\* being registered was not, and is registered once.
RegisteredOK ==
  /\ \A h \in Hosts : \A w \in todo[h] : watch[w].status # "absent"
  /\ \A x \in Actors :
       cur[x] # Nobody /\ pc[x] # "put" => watch[cur[x]].status # "absent"
  /\ \A w \in Watches :
       busy[HostOf[w]] = w =>
         watch[w].status = "absent" /\ pc[Owner(w)] # "put"
  /\ \A w \in Watches : pc[Owner(w)] = "put" => watch[w].status = "absent"

\* An open session that speaks holds the lease of what it says, and what is
\* about to be recorded was said.
SpeakersOK ==
  /\ \A s \in open : pc[s] = "speak" => lease[cur[s]] = s
  /\ \A s \in Sessions : pc[s] \in {"complete", "note"} => spoken[cur[s]] > 0

Well == MonitorTypeOK /\ PointsOK
Watched == Well /\ OfflineAfterThree /\ RegisteredOK
Spoken == LeasesAreUsed /\ SpeakersOK /\ AnnouncedWasSpoken

-----------------------------------------------------------------------------
(* What the updaters of a watch do. *)

\* A new revision changes nothing else.
LEMMA RevisedTyped ==
  ASSUME NEW w \in Watch
  PROVE  /\ Revised(w) \in Watch
         /\ Revised(w).status = w.status /\ Revised(w).state = w.state
         /\ Revised(w).failures = w.failures
         /\ Revised(w).announced = w.announced
<1>1. 1 - w.revision \in {0, 1}
  BY DEF Watch
<1> QED BY <1>1 DEF Revised, Watch

\* What recordWatchObservation, markWatchMismatched, recordWatchHostFailure,
\* stopWatch and noteWatchAnnounced make of a watch, as far as the store takes
\* it, is a watch.
LEMMA UpdatesTyped ==
  ASSUME NEW w \in Watch, NEW s \in Sightings,
         NEW n \in {Sighted(w, s), HostFailed(w), Stopped(w), Announced(w)},
         Takes(w, n)
  PROVE  n \in Watch
<1> DEFINE r == Revised(w)
<1>r. r \in Watch /\ r.failures = w.failures
  BY RevisedTyped
<1> HIDE DEF r
<1>1. CASE n = Sighted(w, s)
  <2> DEFINE st == IF s = "gone" THEN "missing" ELSE s
  <2>1. s # "foreign" => st \in Runtime \cup {"missing"}
    BY DEF Sightings, Runtime
  <2> HIDE DEF st
  <2>2. n \in {w, [r EXCEPT !.status = "mismatched"],
               [r EXCEPT !.state = st, !.failures = 0]}
    BY <1>1 DEF Sighted, Observed, Mismatched, r, st
  <2>3. s = "foreign" => n \in {w, [r EXCEPT !.status = "mismatched"]}
    BY <1>1 DEF Sighted, Mismatched, r
  <2>4. 0 \in 0..MaxFailures
    BY WatchAssumption
  <2>5. CASE s = "foreign"
    BY <1>r, <2>3, <2>5 DEF Watch
  <2>6. CASE s # "foreign"
    <3>1. st \in Runtime \cup {"none", "missing", "offline"}
      BY <2>1, <2>6
    <3>2. [r EXCEPT !.state = st, !.failures = 0] \in Watch
      BY <1>r, <2>4, <3>1 DEF Watch
    <3>3. [r EXCEPT !.status = "mismatched"] \in Watch
      BY <1>r DEF Watch
    <3> QED BY <2>2, <3>2, <3>3
  <2> QED BY <2>5, <2>6
<1>2. CASE n = HostFailed(w)
  <2> DEFINE st == IF w.failures = 2 /\ r.state # "none"
                   THEN "offline" ELSE r.state
  <2>1. st \in Runtime \cup {"none", "missing", "offline"}
    BY <1>r DEF Watch
  <2>2. n = w \/ n = [r EXCEPT !.failures = r.failures + 1, !.state = st]
    BY <1>2 DEF HostFailed, r
  <2> HIDE DEF st
  <2>3. CASE n # w
    <3>1. r.failures \in Nat
      BY <1>r, WatchAssumption DEF Watch
    <3>2. n = [r EXCEPT !.failures = r.failures + 1, !.state = st]
      BY <2>2, <2>3
    <3>3. n.failures = r.failures + 1
      BY <1>r, <3>2 DEF Watch
    <3>4. r.failures + 1 \in 0..MaxFailures
      BY <3>1, <3>3, WatchAssumption DEF Takes
    <3> QED BY <1>r, <2>1, <3>2, <3>4 DEF Watch
  <2> QED BY <2>3
<1>3. CASE n = Stopped(w)
  BY <1>r, <1>3 DEF Stopped, Watch, r
<1>4. CASE n = Announced(w)
  BY <1>r, <1>4 DEF Announced, Watch, r
<1> QED BY <1>1, <1>2, <1>3, <1>4

\* A watch starts unobserved.
LEMMA NewWatches ==
  /\ NoWatch \in Watch /\ NoWatch.status = "absent" /\ ~NoWatch.announced
  /\ Created \in Watch /\ Created.status = "watching"
  /\ Created.state = "none" /\ ~Created.announced
<1>1. NoWatch \in Watch
  BY WatchAssumption DEF NoWatch, Watch
<1>2. Created \in Watch
  BY <1>1 DEF Created, Watch
<1> QED BY <1>1, <1>2 DEF NoWatch, Created

\* None of them unregisters a watch, follows a released one again or observes
\* it.
LEMMA UpdatesKeep ==
  ASSUME NEW w \in Watch, NEW s \in Sightings,
         NEW n \in {Sighted(w, s), HostFailed(w), Stopped(w), Announced(w)},
         w.status # "absent"
  PROVE  /\ n.status # "absent"
         /\ w.status \in {"mismatched", "stopped"} =>
              n.status \in {w.status, "stopped"} /\ n.state = w.state
<1>1. CASE n = Sighted(w, s)
  BY <1>1 DEF Sighted, Observed, Mismatched, Revised, Watch
<1>2. CASE n = HostFailed(w)
  BY <1>2 DEF HostFailed, Revised, Watch
<1>3. CASE n = Stopped(w)
  BY <1>3 DEF Stopped, Revised, Watch
<1>4. CASE n = Announced(w)
  BY <1>4 DEF Announced, Revised, Watch
<1> QED BY <1>1, <1>2, <1>3, <1>4

\* Only noteWatchAnnounced records an announcement.
LEMMA UpdatesQuiet ==
  ASSUME NEW w \in Watch, NEW s \in Sightings,
         NEW n \in {Sighted(w, s), HostFailed(w), Stopped(w)}
  PROVE  n.announced = w.announced
<1>1. CASE n = Sighted(w, s)
  BY <1>1 DEF Sighted, Observed, Mismatched, Revised, Watch
<1>2. CASE n = HostFailed(w)
  BY <1>2 DEF HostFailed, Revised, Watch
<1>3. CASE n = Stopped(w)
  BY <1>3 DEF Stopped, Revised, Watch
<1> QED BY <1>1, <1>2, <1>3

\* Whatever comes between, three failures in a row and only they show a watch
\* that was observed as offline.
LEMMA UpdatesShow ==
  ASSUME NEW w \in Watch, NEW s \in Sightings,
         NEW n \in {Sighted(w, s), HostFailed(w), Stopped(w), Announced(w)},
         w.status = "watching" /\ w.state # "none" =>
           (w.failures >= 3 <=> w.state = "offline"),
         n.status = "watching", n.state # "none"
  PROVE  n.failures >= 3 <=> n.state = "offline"
<1>1. CASE n = Sighted(w, s)
  BY <1>1
  DEF Sighted, Observed, Mismatched, Revised, Watch, Sightings, Runtime
<1>2. CASE n = HostFailed(w)
  BY <1>2, WatchAssumption DEF HostFailed, Revised, Watch, Runtime
<1>3. CASE n = Stopped(w)
  BY <1>3 DEF Stopped, Revised, Watch
<1>4. CASE n = Announced(w)
  BY <1>4 DEF Announced, Revised, Watch
<1> QED BY <1>1, <1>2, <1>3, <1>4

-----------------------------------------------------------------------------
(* Types and points. *)

\* An actor that goes to a point of its kind leaves every point in order.
LEMMA GoesWell ==
  ASSUME Well, NEW x \in Actors, NEW p, NEW w, Goes(x, p, w),
         x \in Hosts => p \in {"idle", "list", "observe", "charge"},
         x \in Sessions => p \in {"idle", "claim", "speak", "complete", "note"},
         x \in Owners => p \in {"idle", "put", "stop"},
         w \in Watches \/ (w = Nobody /\ p \in {"idle", "list", "observe", "charge"}),
         p = "put" => x = Owner(w)
  PROVE  /\ pc' \in [Actors -> Points]
         /\ cur' \in [Actors -> Watches \cup {Nobody}]
         /\ attempt' \in [Actors -> {"first", "reload", "second"}]
         /\ PointsOK'
<1> USE DEF Well, MonitorTypeOK
<1>1. /\ pc' = [pc EXCEPT ![x] = p] /\ cur' = [cur EXCEPT ![x] = w]
      /\ attempt' = [attempt EXCEPT ![x] = "first"]
  BY DEF Goes
<1>2. p \in Points
  BY DEF Actors, Points
<1>3. /\ pc' \in [Actors -> Points]
      /\ cur' \in [Actors -> Watches \cup {Nobody}]
      /\ attempt' \in [Actors -> {"first", "reload", "second"}]
  BY <1>1, <1>2
<1>4. PointsOK'
  <2>1. /\ \A h \in Hosts : pc'[h] \in {"idle", "list", "observe", "charge"}
        /\ \A s \in Sessions :
             pc'[s] \in {"idle", "claim", "speak", "complete", "note"}
        /\ \A y \in Owners : pc'[y] \in {"idle", "put", "stop"}
    BY <1>1 DEF PointsOK, Actors
  <2>2. \A y \in Actors :
          pc'[y] \in {"put", "stop", "claim", "speak", "complete", "note"} =>
            cur'[y] \in Watches
    BY <1>1 DEF PointsOK
  <2>3. \A v \in Watches : pc'[Owner(v)] = "put" => cur'[Owner(v)] = v
    BY <1>1 DEF PointsOK, Owner, Owners, Actors
  <2> QED BY <2>1, <2>2, <2>3 DEF PointsOK
<1> QED BY <1>3, <1>4

\* An actor of each kind is of no other.
LEMMA Kinds ==
  /\ \A h \in Hosts : h \in Actors /\ h \notin Sessions /\ h \notin Owners
  /\ \A s \in Sessions : s \in Actors /\ s \notin Hosts /\ s \notin Owners
  /\ \A w \in Watches :
       /\ Owner(w) \in Actors /\ Owner(w) \in Owners
       /\ Owner(w) \notin Hosts /\ Owner(w) \notin Sessions
  /\ \A x \in Actors : x \in Hosts \/ x \in Sessions \/ x \in Owners
BY MonitorAssumption DEF Actors, Owners

\* Steps that move no actor keep every point.
LEMMA StaysWell ==
  ASSUME Well, UNCHANGED <<pc, cur>>
  PROVE  PointsOK'
BY DEF Well, PointsOK

LEMMA InitWell == Init => Well
<1> SUFFICES ASSUME Init
             PROVE  Well
  OBVIOUS
<1>1. MonitorTypeOK
  BY NewWatches DEF Init, MonitorTypeOK, Points, Sightings, Runtime
<1>2. PointsOK
  BY Kinds DEF Init, PointsOK, Actors
<1> QED BY <1>1, <1>2 DEF Well

\* updateWatch keeps watches well formed.
LEMMA UpdateWell ==
  ASSUME Well, NEW x \in Actors, Update(x)
  PROVE  Well'
<1> USE DEF Well
<1>1. CASE UpdateSucceeds(x)
  <2>1. cur[x] \in Watches /\ watch[cur[x]] \in Watch
    BY <1>1 DEF UpdateSucceeds, Updating, MonitorTypeOK
  <2>2. Updated(x) \in Watch
    <3>1. x \in Hosts => sighting[x] \in Sightings
      BY DEF MonitorTypeOK
    <3>2. pc[x] = "observe" => x \in Hosts
      BY Kinds DEF PointsOK
    <3> QED BY <1>1, <2>1, <3>1, <3>2, UpdatesTyped
        DEF UpdateSucceeds, Updating, Accepted, Updated, Sightings
  <2>3. CASE x \in Hosts
    <3>1. Goes(x, pc[x], Nobody)
      BY <1>1, <2>3 DEF UpdateSucceeds
    <3>2. pc[x] \in {"idle", "list", "observe", "charge"}
      BY <2>3 DEF PointsOK
    <3>3. /\ pc' \in [Actors -> Points]
          /\ cur' \in [Actors -> Watches \cup {Nobody}]
          /\ attempt' \in [Actors -> {"first", "reload", "second"}]
          /\ PointsOK'
      BY <2>3, <3>1, <3>2, GoesWell, Kinds
    <3> QED BY <1>1, <2>1, <2>2, <2>3, <3>3
        DEF UpdateSucceeds, MonitorTypeOK, hostVars, speechVars, Sightings,
            Runtime
  <2>4. CASE x \notin Hosts
    <3>1. Goes(x, "idle", Nobody)
      BY <1>1, <2>4 DEF UpdateSucceeds
    <3>2. /\ pc' \in [Actors -> Points]
          /\ cur' \in [Actors -> Watches \cup {Nobody}]
          /\ attempt' \in [Actors -> {"first", "reload", "second"}]
          /\ PointsOK'
      BY <3>1, GoesWell
    <3> QED BY <1>1, <2>1, <2>2, <2>4, <3>2
        DEF UpdateSucceeds, MonitorTypeOK, hostVars, pollVars, speechVars
  <2> QED BY <2>3, <2>4
<1>2. CASE UpdateConflicts(x)
  BY <1>2, StaysWell
  DEF UpdateConflicts, MonitorTypeOK, hostVars, pollVars, speechVars
<1>3. CASE Reload(x)
  BY <1>3, StaysWell
  DEF Reload, Updating, MonitorTypeOK, hostVars, pollVars, speechVars
<1>4. CASE CallFails(x)
  <2>1. Goes(x, "idle", Nobody)
    BY <1>4 DEF CallFails
  <2>2. /\ pc' \in [Actors -> Points]
        /\ cur' \in [Actors -> Watches \cup {Nobody}]
        /\ attempt' \in [Actors -> {"first", "reload", "second"}]
        /\ PointsOK'
    BY <2>1, GoesWell
  <2> QED BY <1>4, <2>2
      DEF CallFails, MonitorTypeOK, hostVars, pollVars, speechVars
<1> QED BY <1>1, <1>2, <1>3, <1>4 DEF Update

\* A new process starts with every actor idle.
LEMMA ForgetWell ==
  ASSUME Well, Forget, UNCHANGED <<watch, spoken>>, crashes' \in Nat
  PROVE  Well'
<1>1. PointsOK'
  BY Kinds DEF Forget, PointsOK, Actors
<1> QED BY <1>1
    DEF Well, Forget, MonitorTypeOK, Points, Sightings, Runtime

\* The poll of a host.
LEMMA PollWell ==
  ASSUME Well, NEW h \in Hosts, Poll(h)
  PROVE  Well'
<1> USE DEF Well
<1>h. h \in Actors /\ h \notin Sessions /\ h \notin Owners
  BY Kinds
<1>w. Watching(h) \subseteq Watches
  BY DEF Watching
<1> DEFINE Moved ==
             /\ pc' \in [Actors -> Points]
             /\ cur' \in [Actors -> Watches \cup {Nobody}]
             /\ attempt' \in [Actors -> {"first", "reload", "second"}]
             /\ PointsOK'
<1>m. ASSUME NEW p \in {"idle", "list", "observe", "charge"},
             NEW w \in Watches \cup {Nobody}, Goes(h, p, w)
      PROVE  Moved
  BY <1>h, <1>m, GoesWell
<1>1. CASE TimerFires(h)
  <2>1. CASE busy[h] = "free"
    <3>1. Moved
      BY <1>1, <2>1, <1>m DEF TimerFires
    <3> QED BY <1>1, <2>1, <3>1
        DEF TimerFires, MonitorTypeOK, pollVars, speechVars
  <2>2. CASE busy[h] # "free"
    <3>1. PointsOK'
      BY <1>1, <2>2, StaysWell DEF TimerFires, actorVars
    <3> QED BY <1>1, <2>2, <3>1
        DEF TimerFires, MonitorTypeOK, pollVars, speechVars, actorVars
  <2> QED BY <2>1, <2>2
<1>2. CASE ListAnswered(h)
  <2>1. Moved
    BY <1>2, <1>m DEF ListAnswered, Batch
  <2> QED BY <1>2, <1>h, <1>w, <2>1
      DEF ListAnswered, Batch, MonitorTypeOK, hostVars, speechVars
<1>3. CASE ListFails(h)
  <2>1. Moved
    BY <1>3, <1>m DEF ListFails, Batch
  <2> QED BY <1>3, <1>h, <1>w, <2>1
      DEF ListFails, Batch, MonitorTypeOK, hostVars, speechVars
<1>4. ASSUME NEW w \in Watches, NextWatch(h, w)
      PROVE  Well'
  <2>1. Moved
    BY <1>4, <1>m DEF NextWatch
  <2>2. sighting' \in [Hosts -> Sightings]
    BY <1>4, MonitorAssumption DEF NextWatch, MonitorTypeOK
  <2> QED BY <1>4, <2>1, <2>2
      DEF NextWatch, MonitorTypeOK, hostVars, speechVars
<1>5. CASE ObservationFails(h)
  <2>1. Moved
    BY <1>5, <1>m DEF ObservationFails, Batch
  <2> QED BY <1>5, <1>h, <1>w, <2>1
      DEF ObservationFails, Batch, MonitorTypeOK, hostVars, speechVars,
          Sightings, Runtime
<1>6. CASE PollRejects(h)
  BY <1>6, ForgetWell DEF PollRejects, MonitorTypeOK
<1>7. CASE PollEnds(h)
  <2>1. Moved
    BY <1>7, <1>m DEF PollEnds
  <2> QED BY <1>7, <2>1
      DEF PollEnds, MonitorTypeOK, pollVars, speechVars
<1>8. CASE Rearms(h)
  <2>1. PointsOK'
    BY <1>8, StaysWell DEF Rearms, actorVars
  <2> QED BY <1>8, <2>1
      DEF Rearms, MonitorTypeOK, pollVars, actorVars, speechVars
<1> QED BY <1>1, <1>2, <1>3, <1>4, <1>5, <1>6, <1>7, <1>8 DEF Poll

\* Registration and stops.
LEMMA OwnerWell ==
  ASSUME Well, NEW w \in Watches,
         RegisterWatch(w) \/ AgentFound(w) \/ Registers(w) \/ StopWatch(w)
  PROVE  Well'
<1> USE DEF Well
<1>w. Owner(w) \in Actors /\ Owner(w) \notin Hosts /\ Owner(w) \notin Sessions
  BY Kinds
<1>h. HostOf[w] \in Hosts
  BY MonitorAssumption
<1> DEFINE Moved ==
             /\ pc' \in [Actors -> Points]
             /\ cur' \in [Actors -> Watches \cup {Nobody}]
             /\ attempt' \in [Actors -> {"first", "reload", "second"}]
             /\ PointsOK'
<1>o. ASSUME NEW p \in {"put", "stop"}, Goes(Owner(w), p, w)
      PROVE  Moved
  BY <1>w, <1>o, GoesWell
<1>i. ASSUME Goes(Owner(w), "idle", Nobody)
      PROVE  Moved
  BY <1>w, <1>i, GoesWell
<1>1. CASE RegisterWatch(w)
  <2>1. PointsOK'
    BY <1>1, StaysWell DEF RegisterWatch, Discovers, actorVars
  <2> QED BY <1>1, <1>h, <2>1
      DEF RegisterWatch, Discovers, MonitorTypeOK, pollVars, actorVars,
          speechVars
<1>2. CASE AgentFound(w)
  <2>1. Moved
    BY <1>2, <1>o DEF AgentFound
  <2> QED BY <1>2, <1>h, <2>1
      DEF AgentFound, MonitorTypeOK, pollVars, speechVars
<1>3. CASE Registers(w)
  <2>1. Moved
    BY <1>3, <1>i DEF Registers
  <2> QED BY <1>3, <1>h, <2>1, NewWatches
      DEF Registers, MonitorTypeOK, pollVars, speechVars
<1>4. CASE StopWatch(w)
  <2>1. Moved
    BY <1>4, <1>o DEF StopWatch
  <2> QED BY <1>4, <1>w, <2>1
      DEF StopWatch, MonitorTypeOK, hostVars, pollVars, speechVars
<1> QED BY <1>1, <1>2, <1>3, <1>4

\* Announcements.
LEMMA SessionWell ==
  ASSUME Well, NEW s \in Sessions, Announce(s)
  PROVE  Well'
<1> USE DEF Well
<1>s. s \in Actors /\ s \notin Hosts /\ s \notin Owners
  BY Kinds
<1> DEFINE Moved ==
             /\ pc' \in [Actors -> Points]
             /\ cur' \in [Actors -> Watches \cup {Nobody}]
             /\ attempt' \in [Actors -> {"first", "reload", "second"}]
             /\ PointsOK'
<1>i. ASSUME Goes(s, "idle", Nobody)
      PROVE  Moved
  BY <1>s, <1>i, GoesWell
<1>c. ASSUME NEW p \in {"claim", "speak", "complete", "note"},
             NEW v \in Watches, Goes(s, p, v)
      PROVE  Moved
  BY <1>s, <1>c, GoesWell
<1>v. pc[s] \in {"claim", "speak", "complete", "note"} => cur[s] \in Watches
  BY <1>s DEF PointsOK
<1>1. ASSUME NEW w \in Watches, Claims(s, w)
      PROVE  Well'
  <2>1. Moved
    BY <1>1, <1>c DEF Claims
  <2> QED BY <1>1, <2>1
      DEF Claims, MonitorTypeOK, hostVars, pollVars, speechVars
<1>2. CASE Leased(s)
  <2>1. Moved
    BY <1>2, <1>c, <1>v DEF Leased
  <2> QED BY <1>2, <1>v, <2>1
      DEF Leased, MonitorTypeOK, hostVars, pollVars
<1>3. CASE LeaseRefused(s)
  <2>1. Moved
    BY <1>3, <1>i DEF LeaseRefused
  <2> QED BY <1>3, <2>1
      DEF LeaseRefused, MonitorTypeOK, hostVars, pollVars, speechVars
<1>4. CASE Speaks(s)
  <2>1. Moved
    BY <1>4, <1>c, <1>v DEF Speaks
  <2> QED BY <1>4, <1>v, <2>1
      DEF Speaks, MonitorTypeOK, hostVars, pollVars
<1>5. CASE SpeechFails(s)
  <2>1. Moved
    BY <1>5, <1>i DEF SpeechFails
  <2> QED BY <1>5, <1>v, <2>1
      DEF SpeechFails, Release, MonitorTypeOK, hostVars, pollVars
<1>6. CASE Completes(s)
  <2>1. Moved
    BY <1>6, <1>i, <1>c, <1>v DEF Completes
  <2>2. lease' \in [Watches -> Sessions \cup {Nobody}]
    BY <1>6, <1>v DEF Completes, Release, MonitorTypeOK
  <2>3. fresh' \subseteq Actors \X Watches
    BY <1>6, <1>s, <1>v DEF Completes, MonitorTypeOK
  <2> QED BY <1>6, <2>1, <2>2, <2>3
      DEF Completes, MonitorTypeOK, hostVars, pollVars
<1>7. CASE OpenSession(s)
  <2>1. PointsOK'
    BY <1>7, StaysWell DEF OpenSession, actorVars
  <2> QED BY <1>7, <2>1
      DEF OpenSession, MonitorTypeOK, hostVars, pollVars, actorVars
<1>8. CASE CloseSession(s)
  <2>1. PointsOK'
    BY <1>8, StaysWell DEF CloseSession, actorVars
  <2> QED BY <1>8, <2>1
      DEF CloseSession, MonitorTypeOK, hostVars, pollVars, actorVars
<1> QED BY <1>1, <1>2, <1>3, <1>4, <1>5, <1>6, <1>7, <1>8 DEF Announce

\* Every step keeps types and points.
LEMMA NextWell ==
  ASSUME Well, [Next]_vars
  PROVE  Well'
<1> USE DEF Well
<1>1. ASSUME NEW h \in Hosts, Poll(h)
      PROVE  Well'
  BY <1>1, PollWell
<1>2. ASSUME NEW h \in Hosts, Browse(h) \/ DiscoveryEnds(h)
      PROVE  Well'
  <2>1. PointsOK'
    BY <1>2, StaysWell DEF Browse, Discovers, DiscoveryEnds, actorVars
  <2> QED BY <1>2, <2>1
      DEF Browse, Discovers, DiscoveryEnds, MonitorTypeOK, pollVars, actorVars,
          speechVars
<1>3. ASSUME NEW x \in Actors, Update(x)
      PROVE  Well'
  BY <1>3, UpdateWell
<1>4. ASSUME NEW s \in Sessions, Announce(s)
      PROVE  Well'
  BY <1>4, SessionWell
<1>5. ASSUME NEW w \in Watches,
             \/ RegisterWatch(w) \/ AgentFound(w)
             \/ Registers(w) \/ StopWatch(w)
      PROVE  Well'
  BY <1>5, OwnerWell
<1>6. CASE Crash
  BY <1>6, ForgetWell DEF Crash, MonitorTypeOK
<1>7. CASE Restart
  <2>1. PointsOK'
    BY <1>7, StaysWell DEF Restart, actorVars
  <2> QED BY <1>7, <2>1
      DEF Restart, MonitorTypeOK, pollVars, actorVars, speechVars
<1>8. CASE UNCHANGED vars
  <2>1. PointsOK'
    BY <1>8, StaysWell DEF vars, actorVars
  <2> QED BY <1>8, <2>1
      DEF vars, MonitorTypeOK, hostVars, pollVars, actorVars, speechVars
<1> QED BY <1>1, <1>2, <1>3, <1>4, <1>5, <1>6, <1>7, <1>8 DEF Next

\* Whatever polls, owners, sessions and crashes do, every variable keeps its
\* type: in particular no failure counter passes what the schema of a watch
\* admits.
THEOREM MonitorTypeCorrect == Spec => []MonitorTypeOK
<1>1. Well /\ [Next]_vars => Well'
  BY NextWell
<1>2. Well => MonitorTypeOK
  BY DEF Well
<1> QED BY <1>1, <1>2, InitWell, PTL DEF Spec

-----------------------------------------------------------------------------
(* Watches. *)

\* A step that leaves the watches alone, or rewrites some that were registered
\* by what their updaters do, and creates those being registered.
Rewrites ==
  \A w \in Watches :
    \/ watch'[w] = watch[w]
    \/ /\ watch[w].status # "absent"
       /\ \E s \in Sightings :
            watch'[w] \in {Sighted(watch[w], s), HostFailed(watch[w]),
                          Stopped(watch[w]), Announced(watch[w])}
    \/ /\ watch[w].status = "absent" /\ watch'[w] = Created
       /\ pc[Owner(w)] = "put" /\ pc'[Owner(w)] # "put"

\* Such a step keeps the offline rule.
LEMMA RewritesShow ==
  ASSUME Well, OfflineAfterThree, Rewrites
  PROVE  OfflineAfterThree'
<1> SUFFICES ASSUME NEW w \in Watches,
                    watch'[w].status = "watching", watch'[w].state # "none"
             PROVE  watch'[w].failures >= 3 <=> watch'[w].state = "offline"
  BY DEF OfflineAfterThree
<1> watch[w] \in Watch
  BY DEF Well, MonitorTypeOK
<1>1. CASE watch'[w] = watch[w]
  BY <1>1 DEF OfflineAfterThree
<1>2. ASSUME NEW s \in Sightings,
             watch'[w] \in {Sighted(watch[w], s), HostFailed(watch[w]),
                           Stopped(watch[w]), Announced(watch[w])}
      PROVE  watch'[w].failures >= 3 <=> watch'[w].state = "offline"
  BY <1>2, UpdatesShow DEF OfflineAfterThree
<1>3. CASE watch'[w] = Created
  BY <1>3, NewWatches
<1> QED BY <1>1, <1>2, <1>3 DEF Rewrites

\* No such step unregisters a watch or reopens a released one.
LEMMA RewritesKeep ==
  ASSUME Well, Rewrites, NEW w \in Watches
  PROVE  /\ watch[w].status # "absent" => watch'[w].status # "absent"
         /\ watch'[w].status # "absent" =>
              watch[w].status # "absent" \/ pc[Owner(w)] = "put"
         /\ watch[w].status \in {"mismatched", "stopped"} =>
              /\ watch'[w].status \in {watch[w].status, "stopped"}
              /\ watch'[w].state = watch[w].state
<1> watch[w] \in Watch
  BY DEF Well, MonitorTypeOK
<1>1. CASE watch'[w] = watch[w]
  BY <1>1
<1>2. ASSUME NEW s \in Sightings, watch[w].status # "absent",
             watch'[w] \in {Sighted(watch[w], s), HostFailed(watch[w]),
                           Stopped(watch[w]), Announced(watch[w])}
      PROVE  /\ watch'[w].status # "absent"
             /\ watch[w].status \in {"mismatched", "stopped"} =>
                  /\ watch'[w].status \in {watch[w].status, "stopped"}
                  /\ watch'[w].state = watch[w].state
  BY <1>2, UpdatesKeep
<1>3. CASE watch[w].status = "absent" /\ watch'[w] = Created
           /\ pc[Owner(w)] = "put"
  BY <1>3, NewWatches
<1> QED BY <1>1, <1>2, <1>3 DEF Rewrites

\* Every step is such a step.
LEMMA StepRewrites ==
  ASSUME Well, RegisteredOK, [Next]_vars
  PROVE  Rewrites
<1>u. ASSUME UNCHANGED watch
      PROVE  Rewrites
  BY <1>u DEF Rewrites
<1>1. ASSUME NEW x \in Actors, UpdateSucceeds(x)
      PROVE  Rewrites
  <2>1. cur[x] \in Watches /\ watch[cur[x]].status # "absent"
    BY <1>1 DEF UpdateSucceeds, Updating, RegisteredOK, Well, MonitorTypeOK
  <2>2. pc[x] = "observe" => x \in Hosts
    BY Kinds DEF Well, PointsOK
  <2>3. \E s \in Sightings :
          Updated(x) \in {Sighted(watch[cur[x]], s), HostFailed(watch[cur[x]]),
                         Stopped(watch[cur[x]]), Announced(watch[cur[x]])}
    <3>1. CASE pc[x] = "observe"
      BY <2>2, <3>1 DEF Updated, Well, MonitorTypeOK
    <3>2. CASE pc[x] # "observe"
      <4>1. Updated(x) \in {HostFailed(watch[cur[x]]), Stopped(watch[cur[x]]),
                            Announced(watch[cur[x]])}
        BY <1>1, <3>2 DEF UpdateSucceeds, Updating, Updated
      <4> QED BY <4>1 DEF Sightings
    <3> QED BY <3>1, <3>2
  <2>4. watch' = [watch EXCEPT ![cur[x]] = Updated(x)]
    BY <1>1 DEF UpdateSucceeds
  <2> QED BY <2>1, <2>3, <2>4 DEF Rewrites, Well, MonitorTypeOK
<1>2. ASSUME NEW w \in Watches, Registers(w)
      PROVE  Rewrites
  <2>1. watch[w].status = "absent" /\ pc[Owner(w)] = "put"
    BY <1>2 DEF Registers, RegisteredOK
  <2>2. pc'[Owner(w)] = "idle"
    BY <1>2, Kinds DEF Registers, Goes, Well, MonitorTypeOK
  <2> QED BY <1>2, <2>1, <2>2 DEF Registers, Rewrites, Well, MonitorTypeOK
<1>3. ASSUME NEW x \in Actors, Update(x)
      PROVE  Rewrites
  BY <1>1, <1>3, <1>u DEF Update, UpdateConflicts, Reload, CallFails
<1>4. ASSUME NEW h \in Hosts, Poll(h) \/ Browse(h) \/ DiscoveryEnds(h)
      PROVE  Rewrites
  BY <1>4, <1>u
  DEF Poll, TimerFires, ListAnswered, ListFails, NextWatch, ObservationFails,
      PollRejects, PollEnds, Rearms, Browse, Discovers, DiscoveryEnds
<1>5. ASSUME NEW s \in Sessions, Announce(s)
      PROVE  Rewrites
  BY <1>5, <1>u
  DEF Announce, OpenSession, CloseSession, Claims, Leased, LeaseRefused, Speaks,
      SpeechFails, Completes
<1>6. ASSUME NEW w \in Watches,
             RegisterWatch(w) \/ AgentFound(w) \/ StopWatch(w)
      PROVE  Rewrites
  BY <1>6, <1>u DEF RegisterWatch, Discovers, AgentFound, StopWatch
<1>7. CASE Crash \/ Restart \/ UNCHANGED vars
  BY <1>7, <1>u DEF Crash, Restart, vars
<1> QED BY <1>2, <1>3, <1>4, <1>5, <1>6, <1>7 DEF Next

\* Points move to registered watches, nothing new is being registered.
Ordinary ==
  /\ \A h \in Hosts : \A w \in todo'[h] :
       w \in todo[h] \/ watch[w].status = "watching"
  /\ \A x \in Actors :
       \/ cur'[x] = Nobody \/ pc'[x] = "put"
       \/ watch[cur'[x]].status # "absent"
  /\ \A w \in Watches : busy'[HostOf[w]] = w => busy[HostOf[w]] = w
  /\ \A w \in Watches : pc'[Owner(w)] = "put" => pc[Owner(w)] = "put"

LEMMA OrdinaryRegistered ==
  ASSUME Well, Well', RegisteredOK, Rewrites, Ordinary
  PROVE  RegisteredOK'
<1>1. \A h \in Hosts : \A w \in todo'[h] : watch'[w].status # "absent"
  <2> SUFFICES ASSUME NEW h \in Hosts, NEW w \in todo'[h]
               PROVE  watch'[w].status # "absent"
    OBVIOUS
  <2>1. w \in Watches
    BY DEF Well, MonitorTypeOK
  <2>2. watch[w].status # "absent"
    BY DEF Ordinary, RegisteredOK
  <2> QED BY <2>1, <2>2, RewritesKeep
<1>2. \A x \in Actors :
        cur'[x] # Nobody /\ pc'[x] # "put" => watch'[cur'[x]].status # "absent"
  BY RewritesKeep DEF Ordinary, Well, MonitorTypeOK
<1>3. \A w \in Watches :
        busy'[HostOf[w]] = w =>
          watch'[w].status = "absent" /\ pc'[Owner(w)] # "put"
  BY RewritesKeep DEF Ordinary, RegisteredOK
<1>4. \A w \in Watches : pc'[Owner(w)] = "put" => watch'[w].status = "absent"
  BY DEF Ordinary, RegisteredOK, Rewrites
<1> QED BY <1>1, <1>2, <1>3, <1>4 DEF RegisteredOK

\* An actor may go to a watch that was written.
LEMMA GoesOrdinary ==
  ASSUME Well, RegisteredOK, NEW x \in Actors, NEW p, NEW v, Goes(x, p, v),
         p # "put", v # Nobody => watch[v].status # "absent"
  PROVE  /\ \A y \in Actors :
              \/ cur'[y] = Nobody \/ pc'[y] = "put"
              \/ watch[cur'[y]].status # "absent"
         /\ \A w \in Watches : pc'[Owner(w)] = "put" => pc[Owner(w)] = "put"
<1>1. pc' = [pc EXCEPT ![x] = p] /\ cur' = [cur EXCEPT ![x] = v]
  BY DEF Goes
<1>2. pc \in [Actors -> Points] /\ cur \in [Actors -> Watches \cup {Nobody}]
  BY DEF Well, MonitorTypeOK
<1>3. \A y \in Actors :
        \/ cur'[y] = Nobody \/ pc'[y] = "put"
        \/ watch[cur'[y]].status # "absent"
  BY <1>1, <1>2 DEF RegisteredOK
<1>4. \A w \in Watches : pc'[Owner(w)] = "put" => pc[Owner(w)] = "put"
  BY <1>1, <1>2, Kinds
<1> QED BY <1>3, <1>4

LEMMA StaysOrdinary ==
  ASSUME Well, RegisteredOK, UNCHANGED <<pc, cur>>
  PROVE  /\ \A y \in Actors :
              \/ cur'[y] = Nobody \/ pc'[y] = "put"
              \/ watch[cur'[y]].status # "absent"
         /\ \A w \in Watches : pc'[Owner(w)] = "put" => pc[Owner(w)] = "put"
BY DEF RegisteredOK

\* The poll of a host only takes up watches it lists.
LEMMA PollOrdinary ==
  ASSUME Well, RegisteredOK, NEW h \in Hosts, Poll(h), ~PollRejects(h)
  PROVE  Ordinary
<1>h. h \in Actors /\ busy \in [Hosts -> {"free", "poll", "browse"} \cup Watches]
  BY Kinds DEF Well, MonitorTypeOK
<1>t. todo \in [Hosts -> SUBSET Watches] /\ HostOf \in [Watches -> Hosts]
  BY MonitorAssumption DEF Well, MonitorTypeOK
<1>p. pc[h] # "put"
  BY DEF Well, PointsOK
<1>g. ASSUME NEW p \in {"idle", "list", "observe", "charge"}, Goes(h, p, Nobody)
      PROVE  /\ \A y \in Actors :
                  \/ cur'[y] = Nobody \/ pc'[y] = "put"
                  \/ watch[cur'[y]].status # "absent"
             /\ \A w \in Watches :
                  pc'[Owner(w)] = "put" => pc[Owner(w)] = "put"
  BY <1>h, <1>g, GoesOrdinary
<1>b. ASSUME NEW p \in {"observe", "charge"}, Batch(h, p), UNCHANGED busy
      PROVE  Ordinary
  BY <1>b, <1>g, <1>t DEF Batch, Ordinary, Watching
<1>1. CASE TimerFires(h)
  <2>1. CASE busy[h] = "free"
    <3>1. \A w \in Watches : busy'[HostOf[w]] = w => busy[HostOf[w]] = w
      BY <1>1, <1>h, <1>t, <2>1, MonitorAssumption DEF TimerFires
    <3> QED BY <1>1, <1>g, <2>1, <3>1 DEF TimerFires, pollVars, Ordinary
  <2>2. CASE busy[h] # "free"
    BY <1>1, <2>2, StaysOrdinary
    DEF TimerFires, pollVars, actorVars, Ordinary
  <2> QED BY <2>1, <2>2
<1>2. CASE ListAnswered(h)
  BY <1>2, <1>b DEF ListAnswered, hostVars
<1>3. CASE ListFails(h)
  BY <1>3, <1>b DEF ListFails, hostVars
<1>4. ASSUME NEW w \in Watches, NextWatch(h, w)
      PROVE  Ordinary
  <2>1. watch[w].status # "absent" /\ Goes(h, pc[h], w)
    BY <1>4 DEF NextWatch, RegisteredOK
  <2> QED BY <1>4, <1>h, <1>p, <2>1, GoesOrdinary
      DEF NextWatch, hostVars, Ordinary
<1>5. CASE ObservationFails(h)
  BY <1>5, <1>b DEF ObservationFails, hostVars
<1>6. CASE PollEnds(h)
  <2>1. \A w \in Watches : busy'[HostOf[w]] = w => busy[HostOf[w]] = w
    BY <1>6, <1>h, <1>t, MonitorAssumption DEF PollEnds
  <2> QED BY <1>6, <1>g, <2>1 DEF PollEnds, pollVars, Ordinary
<1>7. CASE Rearms(h)
  BY <1>7, StaysOrdinary DEF Rearms, pollVars, actorVars, Ordinary
<1> QED BY <1>1, <1>2, <1>3, <1>4, <1>5, <1>6, <1>7 DEF Poll

\* So do updates, sessions and stops.
LEMMA ActorsOrdinary ==
  ASSUME Well, RegisteredOK,
         \/ \E x \in Actors : Update(x)
         \/ \E s \in Sessions : Announce(s)
         \/ \E w \in Watches : Registers(w) \/ StopWatch(w)
         \/ \E h \in Hosts : Browse(h) \/ DiscoveryEnds(h)
         \/ Restart \/ UNCHANGED vars
  PROVE  Ordinary
<1>t. /\ todo \in [Hosts -> SUBSET Watches] /\ HostOf \in [Watches -> Hosts]
      /\ busy \in [Hosts -> {"free", "poll", "browse"} \cup Watches]
  BY MonitorAssumption DEF Well, MonitorTypeOK
<1>g. ASSUME NEW x \in Actors, NEW p, NEW v, Goes(x, p, v), p # "put",
             v # Nobody => watch[v].status # "absent", UNCHANGED <<todo, busy>>
      PROVE  Ordinary
  BY <1>g, GoesOrdinary DEF Ordinary
<1>u. ASSUME UNCHANGED <<todo, busy, pc, cur>>
      PROVE  Ordinary
  BY <1>u, StaysOrdinary DEF Ordinary
<1>1. ASSUME NEW x \in Actors, UpdateSucceeds(x)
      PROVE  Ordinary
  <2>1. CASE x \in Hosts
    <3>1. Goes(x, pc[x], Nobody) /\ pc[x] # "put"
      BY <1>1, <2>1 DEF UpdateSucceeds, Well, PointsOK
    <3> QED BY <1>1, <1>t, <2>1, <3>1, GoesOrdinary
        DEF UpdateSucceeds, hostVars, Ordinary
  <2>2. CASE x \notin Hosts
    BY <1>1, <1>g, <2>2 DEF UpdateSucceeds, hostVars, pollVars
  <2> QED BY <2>1, <2>2
<1>2. ASSUME NEW x \in Actors, UpdateConflicts(x) \/ Reload(x)
      PROVE  Ordinary
  BY <1>2, <1>u DEF UpdateConflicts, Reload, hostVars, pollVars
<1>3. ASSUME NEW x \in Actors, CallFails(x)
      PROVE  Ordinary
  BY <1>3, <1>g DEF CallFails, hostVars, pollVars
<1>4. ASSUME NEW s \in Sessions, Announce(s)
      PROVE  Ordinary
  <2>s. s \in Actors
    BY Kinds
  <2>c. pc[s] \in {"claim", "speak", "complete"} =>
          cur[s] # Nobody /\ watch[cur[s]].status # "absent"
    BY <2>s, MonitorAssumption DEF Well, PointsOK, RegisteredOK
  <2>1. ASSUME NEW w \in Watches, Claims(s, w)
        PROVE  Ordinary
    BY <2>1, <2>s, <1>g DEF Claims, hostVars, pollVars
  <2>2. CASE Leased(s) \/ Speaks(s)
    <3>1. /\ \E p \in {"speak", "complete"} : Goes(s, p, cur[s])
          /\ UNCHANGED <<todo, busy>>
      BY <2>2 DEF Leased, Speaks, hostVars, pollVars
    <3>2. watch[cur[s]].status # "absent"
      BY <2>2, <2>c DEF Leased, Speaks
    <3> QED BY <2>s, <3>1, <3>2, <1>g
  <2>3. CASE LeaseRefused(s) \/ SpeechFails(s)
    BY <2>3, <2>s, <1>g DEF LeaseRefused, SpeechFails, hostVars, pollVars
  <2>4. CASE Completes(s)
    <3>1. /\ Goes(s, "idle", Nobody) \/ Goes(s, "note", cur[s])
          /\ UNCHANGED <<todo, busy>>
      BY <2>4 DEF Completes, hostVars, pollVars
    <3>2. watch[cur[s]].status # "absent"
      BY <2>4, <2>c DEF Completes
    <3> QED BY <2>s, <3>1, <3>2, <1>g
  <2>5. CASE OpenSession(s) \/ CloseSession(s)
    BY <2>5, <1>u DEF OpenSession, CloseSession, hostVars, pollVars, actorVars
  <2> QED BY <1>4, <2>1, <2>2, <2>3, <2>4, <2>5 DEF Announce
<1>5. ASSUME NEW w \in Watches, Registers(w)
      PROVE  Ordinary
  BY <1>5, <1>g, Kinds DEF Registers, pollVars
<1>6. ASSUME NEW w \in Watches, StopWatch(w)
      PROVE  Ordinary
  BY <1>6, <1>g, Kinds DEF StopWatch, hostVars, pollVars
<1>7. ASSUME NEW h \in Hosts, Browse(h) \/ DiscoveryEnds(h)
      PROVE  Ordinary
  <2>1. \A w \in Watches : busy'[HostOf[w]] = w => busy[HostOf[w]] = w
    BY <1>7, <1>t, MonitorAssumption DEF Browse, Discovers, DiscoveryEnds
  <2> QED BY <1>7, <2>1, StaysOrdinary
      DEF Browse, Discovers, DiscoveryEnds, pollVars, actorVars, Ordinary
<1>8. CASE Restart \/ UNCHANGED vars
  BY <1>8, <1>u DEF Restart, vars, hostVars, pollVars, actorVars
<1> QED BY <1>1, <1>2, <1>3, <1>4, <1>5, <1>6, <1>7, <1>8 DEF Update

\* Registration itself.
LEMMA RegistrationRegistered ==
  ASSUME Well, RegisteredOK, NEW w \in Watches,
         RegisterWatch(w) \/ AgentFound(w)
  PROVE  RegisteredOK'
<1>t. /\ pc \in [Actors -> Points] /\ HostOf \in [Watches -> Hosts]
      /\ cur \in [Actors -> Watches \cup {Nobody}]
      /\ busy \in [Hosts -> {"free", "poll", "browse"} \cup Watches]
  BY MonitorAssumption DEF Well, MonitorTypeOK
<1>1. CASE RegisterWatch(w)
  <2>1. /\ busy' = [busy EXCEPT ![HostOf[w]] = w]
        /\ watch[w].status = "absent" /\ pc[Owner(w)] = "idle"
        /\ UNCHANGED <<watch, todo, pc, cur>>
    BY <1>1, NewWatches
    DEF RegisterWatch, Discovers, pollVars, actorVars
  <2>2. \A v \in Watches :
          busy'[HostOf[v]] = v => v = w \/ busy[HostOf[v]] = v
    BY <1>t, <2>1
  <2> QED BY <2>1, <2>2 DEF RegisteredOK
<1>2. CASE AgentFound(w)
  <2>1. /\ busy' = [busy EXCEPT ![HostOf[w]] = "free"]
        /\ busy[HostOf[w]] = w
        /\ pc' = [pc EXCEPT ![Owner(w)] = "put"]
        /\ cur' = [cur EXCEPT ![Owner(w)] = w]
        /\ UNCHANGED <<watch, todo>>
    BY <1>2 DEF AgentFound, Goes, pollVars
  <2>2. \A v \in Watches :
          busy'[HostOf[v]] = v => v # w /\ busy[HostOf[v]] = v
    BY <1>t, <2>1, MonitorAssumption
  <2>3. \A v \in Watches : v # w => pc'[Owner(v)] = pc[Owner(v)]
    BY <1>t, <2>1, Kinds DEF Owner
  <2>4. watch[w].status = "absent"
    BY <2>1 DEF RegisteredOK
  <2>5. \A x \in Actors :
          pc'[x] # "put" => pc[x] = pc'[x] /\ cur[x] = cur'[x]
    BY <1>t, <2>1
  <2> QED BY <2>1, <2>2, <2>3, <2>4, <2>5 DEF RegisteredOK
<1> QED BY <1>1, <1>2

\* A new process knows of no watch but the written ones.
LEMMA ForgetRegistered ==
  ASSUME Well, Forget
  PROVE  RegisteredOK'
BY Kinds, MonitorAssumption DEF Forget, RegisteredOK

LEMMA NextRegistered ==
  ASSUME Well, RegisteredOK, [Next]_vars
  PROVE  RegisteredOK'
<1>1. Well' /\ Rewrites
  BY NextWell, StepRewrites
<1>2. Ordinary => RegisteredOK'
  BY <1>1, OrdinaryRegistered
<1>3. ASSUME NEW h \in Hosts, Poll(h)
      PROVE  RegisteredOK'
  <2>1. CASE PollRejects(h)
    BY <2>1, ForgetRegistered DEF PollRejects
  <2> QED BY <1>2, <1>3, <2>1, PollOrdinary
<1>4. CASE Crash
  BY <1>4, ForgetRegistered DEF Crash
<1>5. ASSUME NEW w \in Watches, RegisterWatch(w) \/ AgentFound(w)
      PROVE  RegisteredOK'
  BY <1>5, RegistrationRegistered
<1> QED BY <1>2, <1>3, <1>4, <1>5, ActorsOrdinary DEF Next

\* The inductive invariant behind the two theorems below: types, points,
\* whose watch is registered, and the offline rule.
THEOREM MonitorSound == Spec => []Watched
<1>1. Init => Watched
  <2> SUFFICES ASSUME Init
               PROVE  Watched
    OBVIOUS
  <2>1. \A w \in Watches : watch[w] = NoWatch
    BY DEF Init
  <2>2. OfflineAfterThree
    BY <2>1, NewWatches DEF OfflineAfterThree
  <2>3. RegisteredOK
    BY <2>1, Kinds, NewWatches, MonitorAssumption DEF Init, RegisteredOK
  <2> QED BY <2>2, <2>3, InitWell DEF Watched
<1>2. Watched /\ [Next]_vars => Watched'
  BY NextWell, NextRegistered, StepRewrites, RewritesShow DEF Watched
<1> QED BY <1>1, <1>2, PTL DEF Spec

\* However many hosts fail, and whatever owners and sessions write meanwhile,
\* an observed watch shows offline exactly after three failures in a row.
THEOREM OfflineExactlyAfterThree == Spec => []OfflineAfterThree
<1>1. Watched => OfflineAfterThree
  BY DEF Watched
<1> QED BY <1>1, MonitorSound, PTL

\* The failures of every host are counted and shown as they should be.
THEOREM FailuresAlwaysCounted == Spec => []FailuresCounted
<1>1. MonitorTypeOK /\ OfflineAfterThree => FailuresCounted
  BY DEF FailuresCounted
<1> QED BY <1>1, MonitorTypeCorrect, OfflineExactlyAfterThree, PTL

\* No poll, late observation or retry reaches a watch that was released or
\* mismatched, other than its owner's stop.
THEOREM ReleasedStaysFinal == Spec => ReleasedIsFinal
<1>1. Watched /\ [Next]_vars =>
        [\A w \in Watches :
           watch[w].status \in {"mismatched", "stopped"} =>
             /\ watch'[w].status \in {watch[w].status, "stopped"}
             /\ watch'[w].state = watch[w].state]_vars
  BY StepRewrites, RewritesKeep DEF Watched
<1> QED BY <1>1, MonitorSound, PTL DEF Spec, ReleasedIsFinal

-----------------------------------------------------------------------------
(* Announcements. *)

\* What a step records as announced was spoken before it.
LEMMA RecordsSpoken ==
  ASSUME Watched, Spoken, [Next]_vars
  PROVE  \A w \in Watches : watch'[w].announced => spoken[w] > 0
<1> USE DEF Watched, Well, MonitorTypeOK
<1>u. ASSUME UNCHANGED watch
      PROVE  \A w \in Watches : watch'[w].announced => spoken[w] > 0
  BY <1>u DEF Spoken, AnnouncedWasSpoken
<1>1. ASSUME NEW x \in Actors, UpdateSucceeds(x)
      PROVE  \A w \in Watches : watch'[w].announced => spoken[w] > 0
  <2>1. cur[x] \in Watches /\ watch[cur[x]] \in Watch
    BY <1>1 DEF UpdateSucceeds, Updating
  <2>2. watch' = [watch EXCEPT ![cur[x]] = Updated(x)]
    BY <1>1 DEF UpdateSucceeds
  <2>3. Updated(x).announced => spoken[cur[x]] > 0
    <3>1. CASE pc[x] = "note"
      BY <3>1, Kinds DEF PointsOK, Spoken, SpeakersOK
    <3>2. CASE pc[x] = "observe"
      <4>1. Updated(x) = Sighted(watch[cur[x]], sighting[x])
        BY <3>2 DEF Updated
      <4>2. sighting[x] \in Sightings
        BY <3>2, Kinds DEF PointsOK
      <4>3. Updated(x).announced = watch[cur[x]].announced
        BY <2>1, <4>1, <4>2, UpdatesQuiet
      <4> QED BY <2>1, <4>3 DEF Spoken, AnnouncedWasSpoken
    <3>3. CASE pc[x] \in {"charge", "stop"}
      <4>1. Updated(x) \in {HostFailed(watch[cur[x]]), Stopped(watch[cur[x]])}
        BY <3>3 DEF Updated
      <4>2. Updated(x).announced = watch[cur[x]].announced
        BY <2>1, <4>1, UpdatesQuiet DEF Sightings
      <4> QED BY <2>1, <4>2 DEF Spoken, AnnouncedWasSpoken
    <3> QED BY <1>1, <3>1, <3>2, <3>3 DEF UpdateSucceeds, Updating
  <2> QED BY <2>1, <2>2, <2>3 DEF Spoken, AnnouncedWasSpoken
<1>2. ASSUME NEW v \in Watches, Registers(v)
      PROVE  \A w \in Watches : watch'[w].announced => spoken[w] > 0
  BY <1>2, NewWatches DEF Registers, Spoken, AnnouncedWasSpoken
<1>3. ASSUME NEW x \in Actors, Update(x)
      PROVE  \A w \in Watches : watch'[w].announced => spoken[w] > 0
  BY <1>1, <1>3, <1>u DEF Update, UpdateConflicts, Reload, CallFails
<1>4. ASSUME NEW h \in Hosts, Poll(h) \/ Browse(h) \/ DiscoveryEnds(h)
      PROVE  UNCHANGED watch
  BY <1>4
  DEF Poll, TimerFires, ListAnswered, ListFails, NextWatch, ObservationFails,
      PollRejects, PollEnds, Rearms, Browse, Discovers, DiscoveryEnds
<1>5. ASSUME NEW s \in Sessions, Announce(s)
      PROVE  UNCHANGED watch
  BY <1>5
  DEF Announce, OpenSession, CloseSession, Claims, Leased, LeaseRefused, Speaks,
      SpeechFails, Completes
<1>6. ASSUME NEW w \in Watches,
             RegisterWatch(w) \/ AgentFound(w) \/ StopWatch(w)
      PROVE  UNCHANGED watch
  BY <1>6 DEF RegisterWatch, Discovers, AgentFound, StopWatch
<1>7. CASE Crash \/ Restart \/ UNCHANGED vars
  BY <1>7, <1>u DEF Crash, Restart, vars
<1> QED BY <1>2, <1>3, <1>4, <1>5, <1>6, <1>7, <1>u DEF Next

\* The part of the invariant about leases and deliveries under way.
Delivering == LeasesAreUsed /\ SpeakersOK

\* Steps that concern no lease, delivery or session.
LEMMA SessionsStay ==
  ASSUME Well, Delivering, UNCHANGED speechVars,
         \A s \in Sessions : pc'[s] = pc[s] /\ cur'[s] = cur[s]
  PROVE  Delivering'
BY DEF Delivering, Well, MonitorTypeOK, LeasesAreUsed, SpeakersOK, speechVars

\* An actor that is no session moves no session.
LEMMA OthersMove ==
  ASSUME Well, NEW x \in Actors, x \notin Sessions, NEW p, NEW w, Goes(x, p, w)
  PROVE  \A s \in Sessions : pc'[s] = pc[s] /\ cur'[s] = cur[s]
BY Kinds DEF Well, MonitorTypeOK, Goes

\* A new process speaks nothing.
LEMMA ForgetDelivering ==
  ASSUME Well, Forget
  PROVE  Delivering'
BY Kinds DEF Forget, Delivering, LeasesAreUsed, SpeakersOK

\* A session's own steps.
LEMMA AnnounceDelivering ==
  ASSUME Well, Delivering, NEW s \in Sessions, Announce(s)
  PROVE  Delivering'
<1> USE DEF Delivering, Well, MonitorTypeOK
<1>s. /\ s \in Actors /\ open \subseteq Sessions /\ Nobody \notin Sessions
      /\ Sessions \subseteq Actors
  BY Kinds, MonitorAssumption
<1>c. pc[s] \in {"claim", "speak", "complete", "note"} => cur[s] \in Watches
  BY <1>s DEF PointsOK
<1>1. ASSUME NEW w \in Watches, Claims(s, w)
      PROVE  Delivering'
  BY <1>1, <1>s DEF Claims, Goes, speechVars, LeasesAreUsed, SpeakersOK
<1>2. CASE Leased(s)
  <2>1. LeasesAreUsed'
    BY <1>2, <1>c, <1>s DEF Leased, Goes, LeasesAreUsed
  <2>2. SpeakersOK'
    <3>1. \A t \in open' : pc'[t] = "speak" => lease'[cur'[t]] = t
      <4> SUFFICES ASSUME NEW t \in open', pc'[t] = "speak"
                   PROVE  lease'[cur'[t]] = t
        OBVIOUS
      <4>1. CASE t = s
        BY <1>2, <1>c, <1>s, <4>1 DEF Leased, Goes
      <4>2. CASE t # s
        <5>1. t \in open /\ pc[t] = "speak" /\ cur'[t] = cur[t]
          BY <1>2, <1>s, <4>2 DEF Leased, Goes
        <5>2. lease[cur[t]] = t
          BY <5>1 DEF SpeakersOK
        <5>3. lease' = [lease EXCEPT ![cur[s]] = s]
              /\ lease[cur[s]] \in {Nobody, s}
          BY <1>2 DEF Leased
        <5>4. t \in Sessions /\ cur[t] # cur[s]
          BY <1>s, <4>2, <5>1, <5>2, <5>3
        <5>5. lease'[cur[t]] = lease[cur[t]]
          BY <5>3, <5>4
        <5> QED BY <5>1, <5>2, <5>5
      <4> QED BY <4>1, <4>2
    <3>2. \A t \in Sessions :
            pc'[t] \in {"complete", "note"} => spoken'[cur'[t]] > 0
      BY <1>2, <1>s DEF Leased, Goes, SpeakersOK
    <3> QED BY <3>1, <3>2 DEF SpeakersOK
  <2> QED BY <2>1, <2>2
<1>3. CASE LeaseRefused(s)
  BY <1>3, <1>s DEF LeaseRefused, Goes, speechVars, LeasesAreUsed, SpeakersOK
<1>4. CASE Speaks(s)
  <2>1. LeasesAreUsed'
    BY <1>4, <1>c, <1>s DEF Speaks, Goes, LeasesAreUsed
  <2>2. \A t \in open' : pc'[t] = "speak" => lease'[cur'[t]] = t
    BY <1>4, <1>s DEF Speaks, Goes, SpeakersOK
  <2>3. \A w \in Watches : spoken[w] > 0 => spoken'[w] > 0
    BY <1>4, <1>c DEF Speaks
  <2>4. spoken'[cur[s]] > 0
    BY <1>4, <1>c DEF Speaks
  <2>5. \A t \in Sessions :
          pc'[t] \in {"complete", "note"} => spoken'[cur'[t]] > 0
    BY <1>4, <1>s, <2>3, <2>4 DEF Speaks, Goes, SpeakersOK, PointsOK
  <2> QED BY <2>1, <2>2, <2>5 DEF SpeakersOK
<1>5. CASE SpeechFails(s) \/ Completes(s)
  <2>1. /\ lease' = Release(s, cur[s]) /\ pc[s] \in {"speak", "complete"}
        /\ UNCHANGED <<open, spoken>>
    BY <1>5 DEF SpeechFails, Completes
  <2>2. \/ Goes(s, "idle", Nobody)
        \/ pc[s] = "complete" /\ Goes(s, "note", cur[s])
    BY <1>5 DEF SpeechFails, Completes
  <2>3. \A w \in Watches : lease'[w] \in {Nobody, lease[w]} /\ lease'[w] # s
    BY <1>c, <1>s, <2>1 DEF Release, LeasesAreUsed
  <2>4. \A t \in Sessions \ {s} : pc'[t] = pc[t] /\ cur'[t] = cur[t]
    BY <1>s, <2>2 DEF Goes
  <2>5. \A w \in Watches : lease[w] # s => lease'[w] = lease[w]
    BY <1>c, <2>1 DEF Release
  <2>6. LeasesAreUsed'
    BY <1>s, <2>3, <2>4 DEF LeasesAreUsed
  <2>7. \A t \in open' : pc'[t] = "speak" => lease'[cur'[t]] = t
    <3> SUFFICES ASSUME NEW t \in open', pc'[t] = "speak"
                 PROVE  lease'[cur'[t]] = t
      OBVIOUS
    <3>1. t # s
      BY <1>s, <2>2 DEF Goes
    <3>2. t \in Sessions /\ t \in open /\ pc[t] = "speak" /\ cur'[t] = cur[t]
      BY <1>s, <2>1, <2>4, <3>1
    <3>3. lease[cur[t]] = t /\ cur[t] \in Watches
      BY <1>s, <3>2 DEF SpeakersOK, PointsOK
    <3> QED BY <2>5, <3>1, <3>2, <3>3
  <2>8. \A t \in Sessions :
          pc'[t] \in {"complete", "note"} => spoken'[cur'[t]] > 0
    BY <1>s, <2>1, <2>2, <2>4 DEF Goes, SpeakersOK
  <2> QED BY <2>6, <2>7, <2>8 DEF SpeakersOK
<1>6. CASE OpenSession(s)
  BY <1>6, <1>s DEF OpenSession, actorVars, LeasesAreUsed, SpeakersOK
<1>7. CASE CloseSession(s)
  <2>1. /\ open' = open \ {s}
        /\ lease' = [w \in Watches |-> IF lease[w] = s THEN Nobody ELSE lease[w]]
        /\ UNCHANGED <<pc, cur, spoken>>
    BY <1>7 DEF CloseSession, actorVars
  <2>2. LeasesAreUsed'
    BY <2>1 DEF LeasesAreUsed
  <2>3. SpeakersOK'
    BY <1>s, <2>1 DEF SpeakersOK, PointsOK
  <2> QED BY <2>2, <2>3
<1> QED BY <1>1, <1>2, <1>3, <1>4, <1>5, <1>6, <1>7 DEF Announce

\* An update by a session ends what it recorded; no other moves a session.
LEMMA UpdateDelivering ==
  ASSUME Well, Delivering, NEW x \in Actors, Update(x)
  PROVE  Delivering'
<1>u. UNCHANGED speechVars
  BY DEF Update, UpdateSucceeds, UpdateConflicts, Reload, CallFails
<1>1. CASE UpdateConflicts(x) \/ Reload(x)
  BY <1>1, <1>u, SessionsStay DEF UpdateConflicts, Reload
<1>2. CASE UpdateSucceeds(x) \/ CallFails(x)
  <2>1. \E p \in {"idle", pc[x]} : Goes(x, p, Nobody)
    BY <1>2 DEF UpdateSucceeds, CallFails
  <2>2. CASE x \notin Sessions
    BY <1>u, <2>1, <2>2, OthersMove, SessionsStay
  <2>3. CASE x \in Sessions
    <3>1. Goes(x, "idle", Nobody) /\ pc[x] = "note"
      BY <1>2, <2>3, Kinds
      DEF UpdateSucceeds, CallFails, UpdateFails, Updating, Well, PointsOK
    <3>2. /\ pc' = [pc EXCEPT ![x] = "idle"] /\ cur' = [cur EXCEPT ![x] = Nobody]
          /\ UNCHANGED <<lease, open, spoken>>
      BY <1>u, <3>1 DEF Goes, speechVars
    <3> QED BY <3>1, <3>2, Kinds
        DEF Well, MonitorTypeOK, Delivering, LeasesAreUsed, SpeakersOK
  <2> QED BY <2>2, <2>3
<1> QED BY <1>1, <1>2 DEF Update

LEMMA NextDelivering ==
  ASSUME Well, Delivering, [Next]_vars
  PROVE  Delivering'
<1>g. ASSUME NEW x \in Actors, x \notin Sessions, NEW p, NEW w, Goes(x, p, w),
             UNCHANGED speechVars
      PROVE  Delivering'
  BY <1>g, OthersMove, SessionsStay
<1>u. ASSUME UNCHANGED <<pc, cur, speechVars>>
      PROVE  Delivering'
  BY <1>u, SessionsStay
<1>1. ASSUME NEW h \in Hosts, Poll(h)
      PROVE  Delivering'
  <2>1. CASE PollRejects(h)
    BY <2>1, ForgetDelivering DEF PollRejects
  <2>2. CASE Rearms(h) \/ (TimerFires(h) /\ busy[h] # "free")
    BY <1>u, <2>2 DEF Rearms, TimerFires, actorVars
  <2>3. CASE \/ TimerFires(h) /\ busy[h] = "free"
             \/ ListAnswered(h) \/ ListFails(h) \/ ObservationFails(h)
             \/ PollEnds(h) \/ \E w \in Watches : NextWatch(h, w)
    <3>1. \E p, w : Goes(h, p, w)
      BY <2>3
      DEF TimerFires, ListAnswered, ListFails, ObservationFails, Batch,
          PollEnds, NextWatch
    <3>2. UNCHANGED speechVars
      BY <2>3
      DEF TimerFires, ListAnswered, ListFails, ObservationFails, PollEnds,
          NextWatch
    <3> QED BY <1>g, <3>1, <3>2, Kinds
  <2> QED BY <1>1, <2>1, <2>2, <2>3 DEF Poll
<1>2. ASSUME NEW w \in Watches, AgentFound(w) \/ Registers(w) \/ StopWatch(w)
      PROVE  Delivering'
  <2>1. \E p, v : Goes(Owner(w), p, v)
    BY <1>2 DEF AgentFound, Registers, StopWatch
  <2> QED BY <1>2, <1>g, <2>1, Kinds DEF AgentFound, Registers, StopWatch
<1>3. ASSUME \/ \E w \in Watches : RegisterWatch(w)
             \/ \E h \in Hosts : Browse(h) \/ DiscoveryEnds(h)
             \/ Restart \/ UNCHANGED vars
      PROVE  Delivering'
  BY <1>3, <1>u
  DEF RegisterWatch, Browse, Discovers, DiscoveryEnds, Restart, vars, actorVars
<1>4. CASE Crash
  BY <1>4, ForgetDelivering DEF Crash
<1> QED BY <1>1, <1>2, <1>3, <1>4, AnnounceDelivering, UpdateDelivering DEF Next

\* No step takes a delivery back.
LEMMA SpokenGrows ==
  ASSUME Well, [Next]_vars
  PROVE  \A w \in Watches : spoken[w] > 0 => spoken'[w] > 0
<1>1. ASSUME NEW s \in Sessions, Speaks(s)
      PROVE  \A w \in Watches : spoken[w] > 0 => spoken'[w] > 0
  BY <1>1 DEF Speaks, Well, MonitorTypeOK
<1>2. ASSUME NEW s \in Sessions, Announce(s)
      PROVE  UNCHANGED spoken \/ Speaks(s)
  BY <1>2
  DEF Announce, OpenSession, CloseSession, Claims, Leased, LeaseRefused,
      SpeechFails, Completes, speechVars
<1>3. ASSUME NEW h \in Hosts, Poll(h) \/ Browse(h) \/ DiscoveryEnds(h)
      PROVE  UNCHANGED spoken
  BY <1>3
  DEF Poll, TimerFires, ListAnswered, ListFails, NextWatch, ObservationFails,
      PollRejects, PollEnds, Rearms, Browse, Discovers, DiscoveryEnds, speechVars
<1>4. ASSUME NEW x \in Actors, Update(x)
      PROVE  UNCHANGED spoken
  BY <1>4
  DEF Update, UpdateSucceeds, UpdateConflicts, Reload, CallFails, speechVars
<1>5. ASSUME NEW w \in Watches,
             \/ RegisterWatch(w) \/ AgentFound(w)
             \/ Registers(w) \/ StopWatch(w)
      PROVE  UNCHANGED spoken
  BY <1>5
  DEF RegisterWatch, Discovers, AgentFound, Registers, StopWatch, speechVars
<1>6. CASE Crash \/ Restart \/ UNCHANGED vars
  BY <1>6 DEF Crash, Restart, vars, speechVars
<1> QED BY <1>1, <1>2, <1>3, <1>4, <1>5, <1>6 DEF Next

\* The discipline of announcements: leases, deliveries and what is recorded.
THEOREM SpeechSound == Spec => []Spoken
<1>1. Init => Spoken
  <2> SUFFICES ASSUME Init
               PROVE  Spoken
    OBVIOUS
  <2>1. \A w \in Watches : ~watch[w].announced /\ lease[w] = Nobody
    BY NewWatches DEF Init
  <2>2. open = {} /\ \A s \in Sessions : pc[s] = "idle"
    BY Kinds DEF Init
  <2> QED BY <2>1, <2>2
      DEF Spoken, LeasesAreUsed, SpeakersOK, AnnouncedWasSpoken
<1>2. Watched /\ Spoken /\ [Next]_vars => Spoken'
  <2> SUFFICES ASSUME Watched, Spoken, [Next]_vars
               PROVE  Spoken'
    OBVIOUS
  <2>1. Well /\ Delivering
    BY DEF Watched, Spoken, Delivering
  <2>2. Delivering'
    BY <2>1, NextDelivering
  <2>3. AnnouncedWasSpoken'
    BY <2>1, RecordsSpoken, SpokenGrows DEF AnnouncedWasSpoken
  <2> QED BY <2>2, <2>3 DEF Spoken, Delivering
<1> QED BY <1>1, <1>2, MonitorSound, PTL DEF Spec

\* However many sessions claim, fail, close and reopen: two open ones never
\* speak the same announcement together.
THEOREM OneSpeakerAtATime == Spec => []OneSpeaker
<1>1. Spoken => OneSpeaker
  BY DEF Spoken, SpeakersOK, OneSpeaker
<1> QED BY <1>1, SpeechSound, PTL

\* No failed delivery, closed session or late claim leaves a lease behind.
THEOREM LeasesAlwaysUsed == Spec => []LeasesAreUsed
<1>1. Spoken => LeasesAreUsed
  BY DEF Spoken
<1> QED BY <1>1, SpeechSound, PTL

\* What the store says was announced, some session delivered, across crashes.
THEOREM AnnouncedAlwaysSpoken == Spec => []AnnouncedWasSpoken
<1>1. Spoken => AnnouncedWasSpoken
  BY DEF Spoken
<1> QED BY <1>1, SpeechSound, PTL

\* Claims, failures, closes and crashes keep the discipline of announcements.
THEOREM AnnouncementsAlwaysSound == Spec => []AnnouncementsSound
<1>1. OneSpeaker /\ LeasesAreUsed /\ AnnouncedWasSpoken => AnnouncementsSound
  BY DEF AnnouncementsSound
<1> QED BY <1>1, OneSpeakerAtATime, LeasesAlwaysUsed, AnnouncedAlwaysSpoken, PTL
===============================================================================
