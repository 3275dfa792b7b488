------------------------------ MODULE HttpRoutes ------------------------------
(***************************************************************************)
(* The HTTP routes of the gateway and the request of a WebSocket           *)
(* (adapters/inbound/http/server.ts): who is answered what, what a request *)
(* sets off, and the probe of the speech services, whose result requests   *)
(* share for a while.  Hermes, the narrator, the hosts of agents and the   *)
(* speech services are external.                                           *)
(***************************************************************************)
EXTENDS Naturals, FiniteSets

CONSTANTS
  Visits,    \* requests
  Origins,   \* what the probe of the speech services asks
  ProbeFor,  \* ticks until a check gives up
  CacheFor,  \* ticks for which its result is shared
  MaxTicks, MaxFlips  \* bounds

ASSUME RoutesAssumption ==
  /\ IsFiniteSet(Visits) /\ IsFiniteSet(Origins) /\ Origins # {}
  /\ {ProbeFor, CacheFor, MaxTicks, MaxFlips} \subseteq Nat

Open == {"asset", "health", "status", "other"}
\* requiresHttpAuth
NeedsToken == {"ready", "metrics", "narration", "delegations", "capabilities", "conversations"}
MethodsOf(route) ==
  CASE route \in {"narration", "delegations"} -> {"post"}
    [] route = "conversations" -> {"read", "post"}
    [] OTHER -> {"read"}

Tokens == {"none", "header", "address"}

VARIABLES
  setting,  \* whether a token is configured, whose pages may connect, and the
            \* services the gateway has
  visit,    \* every request, and what the probe it waits for has seen
  effects,  \* the requests that narrated, delegated or made a conversation
  up,       \* the speech services that answer
  cached,   \* the result that is shared
  clock     \* ticks and changes of the speech services so far

routeVars == <<setting, visit, effects, up, cached, clock>>

Unseen == [o \in Origins |-> [up |-> FALSE, at |-> MaxTicks + 1]]
RoutesInit ==
  /\ setting \in [guarded : BOOLEAN, pages : {"any", "one", "loopback"},
                  has : {{}, {"narration", "delegations", "conversations"}}]
  /\ visit = [v \in Visits |-> [at |-> "idle", route |-> "other", method |-> "read",
                               token |-> "none", body |-> "good", page |-> "none",
                               began |-> 0, seen |-> Unseen, code |-> 0]]
  /\ effects = {} /\ up \in {{}, Origins}
  /\ cached = [at |-> 0, seen |-> Unseen]
  /\ clock = [now |-> 0, flips |-> 0]

(* What is answered at once *)

\* isAuthorized: a token in the address is one for a WebSocket only.
Authorised(route, token) ==
  \/ ~setting.guarded \/ token = "header"
  \/ route = "live" /\ token = "address"

\* isWebSocketOriginAllowed: the page that connects, next to the gateway's host.
MayConnect(page) ==
  \/ page = "none" \/ setting.pages = "any"
  \/ setting.pages = "one" /\ page = "allowed"
  \/ setting.pages = "loopback" /\ page = "own_loopback"

Missing(route) == route \in {"narration", "delegations", "conversations"} \ setting.has

\* The answers that need no service, in the order of the handler; 0 is none.
AtOnce(route, method, token) ==
  IF method = "options" THEN 204
  ELSE IF route = "other" THEN 404
  ELSE IF route \in NeedsToken /\ ~Authorised(route, token) THEN 401
  ELSE IF route = "conversations" /\ Missing(route) THEN 503
  ELSE IF method \notin MethodsOf(route) THEN 405
  ELSE IF Missing(route) THEN 503
  ELSE IF route \in {"asset", "health"} THEN 200 ELSE 0

\* readBoundedJsonObject, readJsonObjectBody and what is asked of their fields; of
\* a reading, the page that is asked for.
Unreadable(route, method, body) ==
  IF body = "good" THEN 0
  ELSE IF method = "read" THEN IF route = "conversations" THEN 400 ELSE 0
  ELSE IF body = "large" /\ route = "conversations" THEN 413 ELSE 400

CodeOf(a, b) == IF a # 0 THEN a ELSE b
Answered(v, code) == visit' = [visit EXCEPT ![v].at = "answered", ![v].code = code]

\* A probe's result that is still shared.
Shared == cached.seen # Unseen /\ clock.now - cached.at <= CacheFor

RequestComes(v) ==
  /\ visit[v].at = "idle"
  /\ \E route \in Open \cup NeedsToken, method \in {"read", "post", "options", "else"},
        token \in Tokens, body \in {"good", "bad", "large"} :
       LET asked == [visit[v] EXCEPT !.route = route, !.method = method,
                                     !.token = token, !.body = body]
           code == CodeOf(AtOnce(route, method, token), Unreadable(route, method, body))
       IN  visit' = [visit EXCEPT ![v] =
             IF code # 0 THEN [asked EXCEPT !.at = "answered", !.code = code]
             ELSE IF route # "status" THEN [asked EXCEPT !.at = "working"]
             ELSE IF Shared
             THEN [asked EXCEPT !.at = "answered", !.code = 200, !.seen = cached.seen,
                                !.began = clock.now]
             ELSE [asked EXCEPT !.at = "probing", !.began = clock.now]]
  /\ UNCHANGED <<setting, effects, up, cached, clock>>

\* The upgrade handler up to its check of the places; a bad request has no
\* usable target or host.
Connects(v) ==
  /\ visit[v].at = "idle"
  /\ \E page \in {"none", "allowed", "own_loopback", "loopback", "foreign"},
        token \in Tokens, bad \in BOOLEAN :
       visit' = [visit EXCEPT ![v] =
         [@ EXCEPT !.at = "answered", !.route = "live", !.page = page, !.token = token,
                   !.code = IF bad THEN 400 ELSE IF ~MayConnect(page) THEN 403
                            ELSE IF ~Authorised("live", token) THEN 401 ELSE 101]]
  /\ UNCHANGED <<setting, effects, up, cached, clock>>

(* What waits for a service *)

\* The codes of a request by what its service did; one that failed may have
\* done its work all the same.
Codes(v) ==
  CASE visit[v].route = "ready" -> {200, 503, 500}
    [] visit[v].route = "narration" -> {200, 404, 500, 502}
    [] visit[v].route = "delegations" -> {200, 502}
    [] visit[v].route = "conversations" /\ visit[v].method = "post" -> {201, 500}
    [] OTHER -> {200, 500}

\* Whether the service did its work, by the answer; a record that is not there,
\* or cannot be read, is not narrated.
Worked(v, code) ==
  {done \in BOOLEAN : /\ code \in {200, 201} => done
                      /\ visit[v].route = "narration" /\ code \in {404, 500} => ~done}

Serves(v) ==
  /\ visit[v].at = "working"
  /\ \E code \in Codes(v) :
       /\ Answered(v, code)
       /\ \E done \in Worked(v, code) :
            effects' = IF done /\ visit[v].method = "post" THEN effects \cup {v} ELSE effects
  /\ UNCHANGED <<setting, up, cached, clock>>

(* The probe *)

\* Any answer of an origin will do; none in time is none.
ProbeSees(v, o) ==
  /\ visit[v].at = "probing" /\ visit[v].seen[o].at > MaxTicks
  /\ \E is \in BOOLEAN :
       /\ is => o \in up
       /\ ~is /\ o \in up => clock.now - visit[v].began = ProbeFor
       /\ visit' = [visit EXCEPT ![v].seen[o] = [up |-> is, at |-> clock.now]]
  /\ UNCHANGED <<setting, effects, up, cached, clock>>

ProbeDone(v) == visit[v].at = "probing" /\ \A o \in Origins : visit[v].seen[o].at <= MaxTicks

ProbeEnds(v) ==
  /\ ProbeDone(v)
  /\ cached' = [at |-> clock.now, seen |-> visit[v].seen]
  /\ Answered(v, 200)
  /\ UNCHANGED <<setting, effects, up, clock>>

\* No check outlasts its time, and one that is over is reported at once.
RoutesTick ==
  /\ clock.now < MaxTicks
  /\ \A v \in Visits : visit[v].at = "probing" =>
       ~ProbeDone(v) /\ clock.now - visit[v].began < ProbeFor
  /\ clock' = [clock EXCEPT !.now = @ + 1]
  /\ UNCHANGED <<setting, visit, effects, up, cached>>

SpeechFlips(o) ==
  /\ clock.flips < MaxFlips
  /\ up' = IF o \in up THEN up \ {o} ELSE up \cup {o}
  /\ clock' = [clock EXCEPT !.flips = @ + 1]
  /\ UNCHANGED <<setting, visit, effects, cached>>

RoutesNext ==
  \/ \E v \in Visits : RequestComes(v) \/ Connects(v) \/ Serves(v) \/ ProbeEnds(v)
  \/ \E v \in Visits, o \in Origins : ProbeSees(v, o)
  \/ RoutesTick \/ \E o \in Origins : SpeechFlips(o)

RoutesSpec == RoutesInit /\ [][RoutesNext]_routeVars

-----------------------------------------------------------------------------
\* What a request sets off it was entitled to: the token, the method and a
\* readable body; a success did what it says, and one that was turned away
\* did nothing (server.ts:740-953, 1020-1092).
EffectsAreEarned ==
  \A v \in Visits :
    /\ v \in effects =>
         /\ Authorised(visit[v].route, visit[v].token) /\ visit[v].method = "post" /\ visit[v].body = "good"
         /\ visit[v].route \in setting.has /\ visit[v].code \in {200, 201, 500, 502}
    /\ visit[v].method = "post" /\ visit[v].code \in {200, 201} => v \in effects

\* A status that is answered saw every speech service within the time of a
\* check and of sharing it, however requests and checks overlap
\* (server.ts:1197-1202).
ProbeIsRecent ==
  \A v \in Visits : visit[v].at = "answered" /\ visit[v].route = "status" /\ visit[v].code = 200 =>
    \A o \in Origins : visit[v].seen[o].at + CacheFor + ProbeFor >= visit[v].began

\* Without a setting only pages of the gateway's own loopback host and port, or
\* clients that are no page, become sessions, and none without the token.
StrangersStayOut ==
  \A v \in Visits : visit[v].code = 101 =>
    /\ Authorised(visit[v].route, visit[v].token)
    /\ setting.pages = "loopback" => visit[v].page \in {"none", "own_loopback"}
    /\ setting.pages # "any" => visit[v].page # "foreign"

RoutesKept == EffectsAreEarned /\ ProbeIsRecent /\ StrangersStayOut

\* No run checks this: it fails.  A check that began earlier and ended later
\* replaces the result of a younger one (server.ts:1203-1237).
NewestIsShared ==
  \A v \in Visits, o \in Origins :
    cached.seen # Unseen /\ visit[v].code = 200 /\ visit[v].route = "status" =>
      visit[v].seen[o].at <= cached.seen[o].at
=============================================================================
