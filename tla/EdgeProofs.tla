----------------------------- MODULE EdgeProofs -----------------------------
(***************************************************************************)
(* What is proved of each part at the edges of the gateway, put together   *)
(* for the behaviours that MCEdges gives to TLC: a behaviour is about one  *)
(* part, and the bounds that MCEdges lays on its steps take steps away and *)
(* add none.                                                               *)
(***************************************************************************)
EXTENDS MCEdges, ProviderProofs, BrowserProofs

-----------------------------------------------------------------------------
(* The routes *)

VisitFields == {"at", "route", "method", "token", "body", "page", "began", "seen", "code"}
AskingRoutes == {"narration", "delegations", "conversations"}

\* A request that may do what it asks for.
Entitled(x) ==
  /\ Authorised(x.route, x.token) /\ x.method = "post" /\ x.body = "good"
  /\ x.route \in setting.has /\ x.route \in AskingRoutes

Recent(x) == \A o \in Origins : x.seen[o].at + CacheFor + ProbeFor >= x.began

\* Where a request is at the time now, and whether it did its work.
VisitOK(x, did, now) ==
  /\ DOMAIN x = VisitFields /\ x.at \in {"idle", "working", "probing", "answered"}
  /\ x.at = "idle" => x.code = 0 /\ x.method = "read" /\ x.seen = Unseen
  /\ x.at = "working" => x.code = 0 /\ x.route # "status" /\ (x.method = "read" \/ Entitled(x))
  /\ x.at = "probing" =>
       /\ x.code = 0 /\ x.method = "read" /\ x.route = "status"
       /\ x.began \in Nat /\ x.began <= now /\ now <= x.began + ProbeFor
       /\ DOMAIN x.seen = Origins
       /\ \A o \in Origins : x.seen[o].at = MaxTicks + 1 \/ x.seen[o].at \in x.began..now
  /\ did => x.at = "answered" /\ Entitled(x) /\ x.code \in {200, 201, 500, 502}
  /\ x.method = "post" /\ x.code \in {200, 201} => did
  /\ x.at = "answered" /\ x.route = "status" /\ x.code = 200 => Recent(x)
  /\ x.code = 101 =>
       /\ Authorised(x.route, x.token)
       /\ setting.pages = "loopback" => x.page \in {"none", "own_loopback"}
       /\ setting.pages # "any" => x.page # "foreign"

\* A result that is shared saw every service within the time of a check.
SharedOK ==
  /\ cached.at \in Nat /\ cached.at <= clock.now
  /\ cached.seen # Unseen =>
       \A o \in Origins : cached.seen[o].at \in Nat /\ cached.seen[o].at + ProbeFor >= cached.at

RoutesInv ==
  /\ DOMAIN visit = Visits /\ effects \subseteq Visits
  /\ DOMAIN clock = {"now", "flips"} /\ clock.now \in 0..MaxTicks
  /\ setting.pages \in {"any", "one", "loopback"}
  /\ SharedOK
  /\ \A v \in Visits : VisitOK(visit[v], v \in effects, clock.now)

LEMMA RoutesInvInit == RoutesInit => RoutesInv
<1> SUFFICES ASSUME RoutesInit PROVE RoutesInv OBVIOUS
<1>1. MaxTicks \in Nat BY RoutesAssumption
<1>2. clock = [now |-> 0, flips |-> 0] /\ effects = {} /\ setting.pages \in {"any", "one", "loopback"}
  BY DEF RoutesInit
<1>3. SharedOK BY <1>2 DEF RoutesInit, SharedOK
<1>4. ASSUME NEW v \in Visits PROVE VisitOK(visit[v], v \in effects, clock.now)
  <2>1. /\ DOMAIN visit[v] = VisitFields /\ visit[v].at = "idle" /\ visit[v].code = 0
        /\ visit[v].method = "read" /\ visit[v].seen = Unseen
    BY DEF RoutesInit, VisitFields
  <2>2. QED BY <1>2, <2>1 DEF VisitOK
<1>5. DOMAIN visit = Visits BY DEF RoutesInit
<1>6. QED BY <1>1, <1>2, <1>3, <1>4, <1>5 DEF RoutesInv

LEMMA RoutesInvKept == RoutesInv => RoutesKept
<1> SUFFICES ASSUME RoutesInv PROVE RoutesKept OBVIOUS
<1>1. \A v \in Visits : VisitOK(visit[v], v \in effects, clock.now) BY DEF RoutesInv
<1>2. EffectsAreEarned BY <1>1 DEF EffectsAreEarned, VisitOK, Entitled
<1>3. ProbeIsRecent BY <1>1 DEF ProbeIsRecent, VisitOK, Recent
<1>4. StrangersStayOut BY <1>1 DEF StrangersStayOut, VisitOK
<1>5. QED BY <1>2, <1>3, <1>4 DEF RoutesKept

\* It is enough to look at the request that moves.
LEMMA VisitMoves ==
  ASSUME RoutesInv, NEW v \in Visits, NEW y, visit' = [visit EXCEPT ![v] = y],
         setting' = setting, clock' = clock, effects' \subseteq effects \cup {v},
         effects \subseteq effects', SharedOK',
         setting' = setting => VisitOK(y, v \in effects', clock.now)
  PROVE  RoutesInv'
<1>1. ASSUME NEW w \in Visits PROVE VisitOK(visit[w], w \in effects, clock.now)
  BY DEF RoutesInv
<1>2. DOMAIN visit = Visits /\ visit'[v] = y BY DEF RoutesInv
<1>3. ASSUME NEW w \in Visits, w # v
      PROVE  visit'[w] = visit[w] /\ ((w \in effects') = (w \in effects))
  BY <1>2, <1>3
<1>4. ASSUME NEW w \in Visits PROVE VisitOK(visit[w], w \in effects, clock.now)'
  <2>1. CASE w = v BY <1>2, <2>1 DEF VisitOK, Entitled, Recent, Authorised
  <2>2. CASE w # v BY <1>1, <1>3, <2>2 DEF VisitOK, Entitled, Recent, Authorised
  <2>3. QED BY <2>1, <2>2
<1>5. QED BY <1>2, <1>4 DEF RoutesInv

\* What a request must be to need a service.
LEMMA WorkIsEntitled ==
  ASSUME NEW route \in Open \cup NeedsToken, NEW method \in {"read", "post", "options", "else"},
         NEW token \in Tokens, NEW body \in {"good", "bad", "large"}
  PROVE  LET code == CodeOf(AtOnce(route, method, token), Unreadable(route, method, body))
         IN  /\ code = 0 => method = "read"
                            \/ (/\ method = "post" /\ route \in AskingRoutes /\ body = "good"
                                /\ Authorised(route, token) /\ ~Missing(route))
             /\ code \in {200, 201} => method # "post"
             /\ code = 200 => route # "status"
             /\ code # 101
<1>1. AtOnce(route, method, token) \in {0, 204, 404, 401, 503, 405, 200}
  BY DEF AtOnce
<1>2. Unreadable(route, method, body) \in {0, 400, 413} BY DEF Unreadable
<1>3. AtOnce(route, method, token) \in {0, 200} =>
        /\ method \in MethodsOf(route) /\ ~Missing(route)
        /\ route \in NeedsToken => Authorised(route, token)
  <2> DEFINE code == AtOnce(route, method, token)
             barred == route \in NeedsToken /\ ~Authorised(route, token)
  <2>1. method = "options" => code = 204 BY DEF AtOnce
  <2>2. method # "options" /\ route = "other" => code = 404 BY DEF AtOnce
  <2>3. method # "options" /\ route # "other" /\ barred => code = 401 BY DEF AtOnce
  <2>4. /\ method # "options" /\ route # "other" /\ ~barred
        /\ route = "conversations" /\ Missing(route)
        => code = 503
    BY DEF AtOnce
  <2>5. /\ method # "options" /\ route # "other" /\ ~barred
        /\ ~(route = "conversations" /\ Missing(route)) /\ method \notin MethodsOf(route)
        => code = 405
    BY DEF AtOnce
  <2>6. /\ method # "options" /\ route # "other" /\ ~barred
        /\ ~(route = "conversations" /\ Missing(route)) /\ method \in MethodsOf(route)
        /\ Missing(route)
        => code = 503
    BY DEF AtOnce
  <2> HIDE DEF code
  <2>7. code \in {0, 200} => method \in MethodsOf(route) /\ ~Missing(route) /\ ~barred
    BY <2>1, <2>2, <2>3, <2>4, <2>5, <2>6
  <2>8. QED BY <2>7 DEF code
<1>4. AtOnce(route, method, token) = 200 => route \in {"asset", "health"}
  BY DEF AtOnce
<1>5. method \in MethodsOf(route) => method = "read" \/ (method = "post" /\ route \in AskingRoutes)
  BY DEF MethodsOf, AskingRoutes
<1>6. method \in MethodsOf(route) /\ route \in {"asset", "health"} => method = "read"
  BY DEF MethodsOf
<1>7. Unreadable(route, method, body) = 0 /\ method = "post" => body = "good"
  BY DEF Unreadable
<1>8. AskingRoutes \subseteq NeedsToken BY DEF AskingRoutes, NeedsToken
<1>9. QED BY <1>1, <1>2, <1>3, <1>4, <1>5, <1>6, <1>7, <1>8 DEF CodeOf

LEMMA RequestComesKeeps ==
  ASSUME RoutesInv, NEW v \in Visits, RequestComes(v)
  PROVE  RoutesInv'
<1>1. PICK route \in Open \cup NeedsToken, method \in {"read", "post", "options", "else"},
           token \in Tokens, body \in {"good", "bad", "large"} :
        LET arrived == [visit[v] EXCEPT !.route = route, !.method = method,
                                      !.token = token, !.body = body]
            code == CodeOf(AtOnce(route, method, token), Unreadable(route, method, body))
        IN  visit' = [visit EXCEPT ![v] =
              IF code # 0 THEN [arrived EXCEPT !.at = "answered", !.code = code]
              ELSE IF route # "status" THEN [arrived EXCEPT !.at = "working"]
              ELSE IF Shared
              THEN [arrived EXCEPT !.at = "answered", !.code = 200, !.seen = cached.seen,
                                 !.began = clock.now]
              ELSE [arrived EXCEPT !.at = "probing", !.began = clock.now]]
  BY DEF RequestComes
<1>2. visit[v].at = "idle" /\ UNCHANGED <<setting, effects, up, cached, clock>> BY DEF RequestComes
<1>3. /\ VisitOK(visit[v], v \in effects, clock.now) /\ SharedOK /\ clock.now \in 0..MaxTicks
      /\ MaxTicks \in Nat /\ ProbeFor \in Nat /\ CacheFor \in Nat
  BY RoutesAssumption DEF RoutesInv
<1>4. v \notin effects /\ visit[v].code = 0 /\ visit[v].seen = Unseen /\ DOMAIN visit[v] = VisitFields
  BY <1>2, <1>3 DEF VisitOK
<1>5. SharedOK' BY <1>2, <1>3 DEF SharedOK, Unseen
<1> DEFINE arrived == [visit[v] EXCEPT !.route = route, !.method = method,
                                     !.token = token, !.body = body]
           code == CodeOf(AtOnce(route, method, token), Unreadable(route, method, body))
<1>6. /\ DOMAIN arrived = VisitFields /\ arrived.route = route /\ arrived.method = method
      /\ arrived.token = token /\ arrived.body = body /\ arrived.seen = Unseen /\ arrived.code = 0
      /\ arrived.at = "idle"
  BY <1>2, <1>4 DEF VisitFields
<1>7. /\ code = 0 => method = "read"
                     \/ (/\ method = "post" /\ route \in AskingRoutes /\ body = "good"
                         /\ Authorised(route, token) /\ ~Missing(route))
      /\ code \in {200, 201} => method # "post"
      /\ code = 200 => route # "status"
      /\ code # 101
  BY WorkIsEntitled
<1>8. route \in AskingRoutes /\ ~Missing(route) => route \in setting.has BY DEF Missing, AskingRoutes
<1> HIDE DEF code, arrived
<1>9. CASE code # 0
  <2> DEFINE y == [arrived EXCEPT !.at = "answered", !.code = code]
  <2>1. visit' = [visit EXCEPT ![v] = y] BY <1>1, <1>9 DEF code, arrived
  <2>2. /\ DOMAIN y = VisitFields /\ y.at = "answered" /\ y.code = code
        /\ y.method = method /\ y.route = route
    BY <1>6 DEF VisitFields
  <2> HIDE DEF y
  <2>3. VisitOK(y, v \in effects', clock.now) BY <1>2, <1>4, <1>7, <2>2 DEF VisitOK
  <2>4. QED BY <1>2, <1>5, <2>1, <2>3, VisitMoves
<1>10. CASE code = 0 /\ route # "status"
  <2> DEFINE y == [arrived EXCEPT !.at = "working"]
  <2>1. visit' = [visit EXCEPT ![v] = y] BY <1>1, <1>10 DEF code, arrived
  <2>2. /\ DOMAIN y = VisitFields /\ y.at = "working" /\ y.code = 0
        /\ y.method = method /\ y.route = route /\ y.token = token /\ y.body = body
    BY <1>6 DEF VisitFields
  <2> HIDE DEF y
  <2>3. VisitOK(y, v \in effects', clock.now)
    BY <1>2, <1>4, <1>7, <1>8, <1>10, <2>2 DEF VisitOK, Entitled
  <2>4. QED BY <1>2, <1>5, <2>1, <2>3, VisitMoves
<1>11. ASSUME code = 0, route = "status" PROVE method = "read"
  BY <1>7, <1>11 DEF AskingRoutes
<1>12. CASE code = 0 /\ route = "status" /\ Shared
  <2> DEFINE y == [arrived EXCEPT !.at = "answered", !.code = 200, !.seen = cached.seen,
                                !.began = clock.now]
  <2>1. visit' = [visit EXCEPT ![v] = y] BY <1>1, <1>12 DEF code, arrived
  <2>2. /\ DOMAIN y = VisitFields /\ y.at = "answered" /\ y.code = 200 /\ y.seen = cached.seen
        /\ y.method = "read" /\ y.route = route /\ y.began = clock.now
    BY <1>6, <1>11, <1>12 DEF VisitFields
  <2> HIDE DEF y
  <2>3. Recent(y)
    <3>1. /\ cached.at \in Nat /\ clock.now \in Nat /\ cached.at <= clock.now
          /\ clock.now - cached.at <= CacheFor
          /\ \A o \in Origins : cached.seen[o].at \in Nat /\ cached.seen[o].at + ProbeFor >= cached.at
      BY <1>3, <1>12 DEF SharedOK, Shared
    <3>2. QED BY <1>3, <2>2, <3>1 DEF Recent
  <2>4. VisitOK(y, v \in effects', clock.now) BY <1>2, <1>4, <2>2, <2>3 DEF VisitOK
  <2>5. QED BY <1>2, <1>5, <2>1, <2>4, VisitMoves
<1>13. CASE code = 0 /\ route = "status" /\ ~Shared
  <2> DEFINE y == [arrived EXCEPT !.at = "probing", !.began = clock.now]
  <2>1. visit' = [visit EXCEPT ![v] = y] BY <1>1, <1>13 DEF code, arrived
  <2>2. /\ DOMAIN y = VisitFields /\ y.at = "probing" /\ y.code = 0 /\ y.seen = Unseen
        /\ y.method = "read" /\ y.route = "status" /\ y.began = clock.now
    BY <1>6, <1>11, <1>13 DEF VisitFields
  <2> HIDE DEF y
  <2>3. DOMAIN Unseen = Origins /\ \A o \in Origins : Unseen[o].at = MaxTicks + 1
    BY <1>3 DEF Unseen
  <2>4. y.began \in Nat /\ y.began <= clock.now /\ clock.now <= y.began + ProbeFor
    BY <1>3, <2>2
  <2>5. VisitOK(y, v \in effects', clock.now) BY <1>2, <1>4, <2>2, <2>3, <2>4 DEF VisitOK
  <2>6. QED BY <1>2, <1>5, <2>1, <2>5, VisitMoves
<1>14. QED BY <1>9, <1>10, <1>12, <1>13

LEMMA RoutesInvNext ==
  ASSUME RoutesInv, [RoutesNext]_routeVars
  PROVE  RoutesInv'
<1>1. /\ DOMAIN visit = Visits /\ SharedOK /\ clock.now \in 0..MaxTicks /\ DOMAIN clock = {"now", "flips"}
      /\ MaxTicks \in Nat /\ ProbeFor \in Nat /\ CacheFor \in Nat
      /\ setting.pages \in {"any", "one", "loopback"}
  BY RoutesAssumption DEF RoutesInv
<1>2. \A v \in Visits : VisitOK(visit[v], v \in effects, clock.now) BY DEF RoutesInv
<1>3. ASSUME NEW v \in Visits, RequestComes(v) PROVE RoutesInv' BY <1>3, RequestComesKeeps
<1>4. ASSUME NEW v \in Visits, Connects(v) PROVE RoutesInv'
  <2>1. PICK origin \in {"none", "allowed", "own_loopback", "loopback", "foreign"},
             token \in Tokens, bad \in BOOLEAN :
          visit' = [visit EXCEPT ![v] =
            [@ EXCEPT !.at = "answered", !.route = "live", !.page = origin, !.token = token,
                      !.code = IF bad THEN 400 ELSE IF ~MayConnect(origin) THEN 403
                               ELSE IF ~Authorised("live", token) THEN 401 ELSE 101]]
    BY <1>4 DEF Connects
  <2> DEFINE code == IF bad THEN 400 ELSE IF ~MayConnect(origin) THEN 403
                     ELSE IF ~Authorised("live", token) THEN 401 ELSE 101
             y == [visit[v] EXCEPT !.at = "answered", !.route = "live", !.page = origin,
                                   !.token = token, !.code = code]
  <2>2. visit' = [visit EXCEPT ![v] = y] BY <1>1, <2>1
  <2>3. /\ UNCHANGED <<setting, effects, up, cached, clock>> /\ visit[v].at = "idle"
        /\ VisitOK(visit[v], v \in effects, clock.now)
    BY <1>2, <1>4 DEF Connects
  <2>4. v \notin effects /\ DOMAIN visit[v] = VisitFields /\ visit[v].method = "read"
    BY <2>3 DEF VisitOK
  <2>5. /\ DOMAIN y = VisitFields /\ y.at = "answered" /\ y.route = "live" /\ y.page = origin
        /\ y.token = token /\ y.code = code /\ y.method = "read"
    BY <2>4 DEF VisitFields
  <2>6. code = 101 => /\ Authorised("live", token) /\ MayConnect(origin)
    OBVIOUS
  <2>7. code \in {400, 403, 401, 101} OBVIOUS
  <2> HIDE DEF code, y
  <2>8. MayConnect(origin) =>
          /\ setting.pages = "loopback" => origin \in {"none", "own_loopback"}
          /\ setting.pages # "any" => origin # "foreign"
    BY DEF MayConnect
  <2>9. VisitOK(y, v \in effects', clock.now)
    BY <2>3, <2>4, <2>5, <2>6, <2>7, <2>8 DEF VisitOK
  <2>10. SharedOK' BY <1>1, <2>3 DEF SharedOK, Unseen
  <2>11. QED BY <2>2, <2>3, <2>9, <2>10, VisitMoves
<1>5. ASSUME NEW v \in Visits, Serves(v) PROVE RoutesInv'
  <2>1. PICK code \in Codes(v) : \E done \in Worked(v, code) :
          /\ visit' = [visit EXCEPT ![v].at = "answered", ![v].code = code]
          /\ effects' = IF done /\ visit[v].method = "post" THEN effects \cup {v} ELSE effects
    BY <1>5 DEF Serves, Answered
  <2>0. PICK done \in Worked(v, code) :
          effects' = IF done /\ visit[v].method = "post" THEN effects \cup {v} ELSE effects
    BY <2>1
  <2>2. /\ UNCHANGED <<setting, up, cached, clock>> /\ visit[v].at = "working"
        /\ VisitOK(visit[v], v \in effects, clock.now)
    BY <1>2, <1>5 DEF Serves
  <2> DEFINE y == [visit[v] EXCEPT !.at = "answered", !.code = code]
  <2>3. visit' = [visit EXCEPT ![v] = y] BY <1>1, <2>1
  <2>4. /\ v \notin effects /\ DOMAIN visit[v] = VisitFields /\ visit[v].route # "status"
        /\ visit[v].method = "read" \/ Entitled(visit[v])
    BY <2>2 DEF VisitOK
  <2>5. /\ DOMAIN y = VisitFields /\ y.at = "answered" /\ y.code = code
        /\ y.method = visit[v].method /\ y.route = visit[v].route /\ y.token = visit[v].token
        /\ y.body = visit[v].body
    BY <2>4 DEF VisitFields
  <2> HIDE DEF y
  <2>6. code \in {200, 201, 503, 500, 404, 502}
    <3>1. CASE visit[v].route = "ready" BY <3>1 DEF Codes
    <3>2. CASE visit[v].route = "narration" BY <3>2 DEF Codes
    <3>3. CASE visit[v].route = "delegations" BY <3>3 DEF Codes
    <3>4. CASE visit[v].route = "conversations" BY <3>4 DEF Codes
    <3>5. CASE visit[v].route \notin {"ready", "narration", "delegations", "conversations"}
      BY <3>5 DEF Codes
    <3>6. QED BY <3>1, <3>2, <3>3, <3>4, <3>5
  <2>7. code \in {200, 201} => done = TRUE
    BY <2>0 DEF Worked
  <2>8. Entitled(visit[v]) /\ done => code \in {200, 201, 500, 502}
    <3>1. Entitled(visit[v]) => visit[v].route \in AskingRoutes /\ visit[v].method = "post"
      BY DEF Entitled
    <3>2. visit[v].route = "narration" /\ code \in {404, 500} => done = FALSE BY DEF Worked
    <3>3. visit[v].route = "narration" => code \in {200, 404, 500, 502} BY DEF Codes
    <3>4. visit[v].route = "delegations" => code \in {200, 502} BY DEF Codes
    <3>5. visit[v].route = "conversations" /\ visit[v].method = "post" => code \in {201, 500}
      BY DEF Codes
    <3>6. QED BY <3>1, <3>2, <3>3, <3>4, <3>5 DEF AskingRoutes
  <2>9. Entitled(visit[v]) => Entitled(y) BY <2>5 DEF Entitled
  <2>10. /\ v \in effects' => Entitled(visit[v]) /\ done
         /\ Entitled(visit[v]) /\ done => v \in effects'
         /\ y.method = "post" => Entitled(visit[v])
    <3>1. Entitled(visit[v]) => visit[v].method = "post" BY DEF Entitled
    <3>2. QED BY <2>0, <2>4, <2>5, <3>1
  <2>11. VisitOK(y, v \in effects', clock.now)
    BY <2>4, <2>5, <2>6, <2>7, <2>8, <2>9, <2>10 DEF VisitOK
  <2>12. SharedOK' BY <1>1, <2>2 DEF SharedOK, Unseen
  <2>13. effects' \subseteq effects \cup {v} /\ effects \subseteq effects' BY <2>0
  <2>14. QED BY <2>2, <2>3, <2>11, <2>12, <2>13, VisitMoves
<1>6. ASSUME NEW v \in Visits, ProbeEnds(v) PROVE RoutesInv'
  <2>1. /\ visit[v].at = "probing" /\ \A o \in Origins : visit[v].seen[o].at <= MaxTicks
        /\ cached' = [at |-> clock.now, seen |-> visit[v].seen]
        /\ visit' = [visit EXCEPT ![v].at = "answered", ![v].code = 200]
        /\ UNCHANGED <<setting, effects, up, clock>>
        /\ VisitOK(visit[v], v \in effects, clock.now)
    BY <1>2, <1>6 DEF ProbeEnds, ProbeDone, Answered
  <2> DEFINE y == [visit[v] EXCEPT !.at = "answered", !.code = 200]
  <2>2. visit' = [visit EXCEPT ![v] = y] BY <1>1, <2>1
  <2>3. /\ v \notin effects /\ DOMAIN visit[v] = VisitFields /\ visit[v].method = "read"
        /\ visit[v].began \in Nat /\ visit[v].began <= clock.now
        /\ clock.now <= visit[v].began + ProbeFor
        /\ \A o \in Origins : visit[v].seen[o].at = MaxTicks + 1
                              \/ visit[v].seen[o].at \in visit[v].began..clock.now
    BY <2>1 DEF VisitOK
  <2>4. /\ DOMAIN y = VisitFields /\ y.at = "answered" /\ y.code = 200 /\ y.method = "read"
        /\ y.seen = visit[v].seen /\ y.began = visit[v].began
    BY <2>3 DEF VisitFields
  <2> HIDE DEF y
  <2>5. \A o \in Origins : visit[v].seen[o].at \in visit[v].began..clock.now
    <3> SUFFICES ASSUME NEW o \in Origins PROVE visit[v].seen[o].at \in visit[v].began..clock.now
      OBVIOUS
    <3>1. visit[v].seen[o].at <= MaxTicks BY <2>1
    <3>2. visit[v].seen[o].at = MaxTicks + 1 \/ visit[v].seen[o].at \in visit[v].began..clock.now BY <2>3
    <3>3. CASE visit[v].seen[o].at \in visit[v].began..clock.now BY <3>3
    <3>4. CASE visit[v].seen[o].at = MaxTicks + 1 BY <1>1, <3>1, <3>4
    <3>5. QED BY <3>2, <3>3, <3>4
  <2>6. SharedOK'
    <3>1. cached'.at = clock'.now /\ clock'.now = clock.now /\ cached'.seen = visit[v].seen BY <2>1
    <3>2. \A o \in Origins : visit[v].seen[o].at \in Nat /\ visit[v].seen[o].at + ProbeFor >= clock.now
      BY <1>1, <2>3, <2>5
    <3>3. QED BY <1>1, <3>1, <3>2 DEF SharedOK
  <2>7. Recent(y) BY <1>1, <2>3, <2>4, <2>5 DEF Recent
  <2>8. VisitOK(y, v \in effects', clock.now) BY <2>1, <2>3, <2>4, <2>7 DEF VisitOK
  <2>9. QED BY <2>1, <2>2, <2>6, <2>8, VisitMoves
<1>7. ASSUME NEW v \in Visits, NEW o \in Origins, ProbeSees(v, o) PROVE RoutesInv'
  <2>1. PICK is \in BOOLEAN :
          visit' = [visit EXCEPT ![v].seen[o] = [up |-> is, at |-> clock.now]]
    BY <1>7 DEF ProbeSees
  <2>2. /\ visit[v].at = "probing" /\ UNCHANGED <<setting, effects, up, cached, clock>>
        /\ VisitOK(visit[v], v \in effects, clock.now)
    BY <1>2, <1>7 DEF ProbeSees
  <2> DEFINE y == [visit[v] EXCEPT !.seen[o] = [up |-> is, at |-> clock.now]]
  <2>3. visit' = [visit EXCEPT ![v] = y] BY <1>1, <2>1
  <2>4. /\ v \notin effects /\ DOMAIN visit[v] = VisitFields /\ visit[v].method = "read"
        /\ visit[v].code = 0 /\ visit[v].route = "status" /\ DOMAIN visit[v].seen = Origins
        /\ visit[v].began \in Nat /\ visit[v].began <= clock.now
        /\ clock.now <= visit[v].began + ProbeFor
        /\ \A p \in Origins : visit[v].seen[p].at = MaxTicks + 1
                              \/ visit[v].seen[p].at \in visit[v].began..clock.now
    BY <2>2 DEF VisitOK
  <2>5. /\ DOMAIN y = VisitFields /\ y.at = "probing" /\ y.code = 0 /\ y.method = "read"
        /\ y.route = "status" /\ y.began = visit[v].began
        /\ y.seen = [visit[v].seen EXCEPT ![o] = [up |-> is, at |-> clock.now]]
    BY <2>2, <2>4 DEF VisitFields
  <2> HIDE DEF y
  <2>6. /\ DOMAIN y.seen = Origins /\ y.seen[o].at = clock.now
        /\ \A p \in Origins : p # o => y.seen[p] = visit[v].seen[p]
    BY <2>4, <2>5
  <2>7. \A p \in Origins : y.seen[p].at = MaxTicks + 1 \/ y.seen[p].at \in y.began..clock.now
    BY <1>1, <2>4, <2>5, <2>6
  <2>8. VisitOK(y, v \in effects', clock.now) BY <2>2, <2>4, <2>5, <2>6, <2>7 DEF VisitOK
  <2>9. SharedOK' BY <1>1, <2>2 DEF SharedOK, Unseen
  <2>10. QED BY <2>2, <2>3, <2>8, <2>9, VisitMoves
<1>8. CASE RoutesTick
  <2>1. /\ clock.now < MaxTicks /\ clock' = [clock EXCEPT !.now = @ + 1]
        /\ UNCHANGED <<setting, visit, effects, up, cached>>
        /\ \A v \in Visits : visit[v].at = "probing" => clock.now - visit[v].began < ProbeFor
    BY <1>8 DEF RoutesTick
  <2>2. clock'.now = clock.now + 1 /\ DOMAIN clock' = {"now", "flips"} BY <1>1, <2>1
  <2>3. clock'.now \in 0..MaxTicks BY <1>1, <2>1, <2>2
  <2>4. SharedOK'
    <3>1. cached.at <= clock'.now BY <1>1, <2>2 DEF SharedOK
    <3>2. QED BY <1>1, <2>1, <3>1 DEF SharedOK, Unseen
  <2>5. ASSUME NEW v \in Visits PROVE VisitOK(visit[v], v \in effects, clock.now)'
    <3>1. VisitOK(visit[v], v \in effects, clock.now) BY <1>2
    <3>2. ASSUME visit[v].at = "probing"
          PROVE  /\ visit[v].began <= clock'.now /\ clock'.now <= visit[v].began + ProbeFor
                 /\ \A o \in Origins : visit[v].seen[o].at = MaxTicks + 1
                                       \/ visit[v].seen[o].at \in visit[v].began..clock'.now
      <4>1. /\ visit[v].began \in Nat /\ visit[v].began <= clock.now
            /\ \A o \in Origins : visit[v].seen[o].at = MaxTicks + 1
                                  \/ visit[v].seen[o].at \in visit[v].began..clock.now
        BY <3>1, <3>2 DEF VisitOK
      <4>2. clock.now - visit[v].began < ProbeFor BY <2>1, <3>2
      <4>3. QED BY <1>1, <2>2, <4>1, <4>2
    <3>3. visit'[v] = visit[v] /\ effects' = effects /\ setting' = setting BY <2>1
    <3>4. QED BY <3>1, <3>2, <3>3 DEF VisitOK, Entitled, Recent, Authorised, Unseen
  <2>6. QED BY <1>1, <2>1, <2>2, <2>3, <2>4, <2>5 DEF RoutesInv
<1>9. ASSUME NEW o \in Origins, SpeechFlips(o) PROVE RoutesInv'
  <2>1. /\ clock' = [clock EXCEPT !.flips = @ + 1] /\ UNCHANGED <<setting, visit, effects, cached>>
    BY <1>9 DEF SpeechFlips
  <2>2. clock'.now = clock.now /\ DOMAIN clock' = {"now", "flips"} BY <1>1, <2>1
  <2>3. SharedOK' BY <1>1, <2>1, <2>2 DEF SharedOK, Unseen
  <2>4. ASSUME NEW v \in Visits PROVE VisitOK(visit[v], v \in effects, clock.now)'
    <3>1. VisitOK(visit[v], v \in effects, clock.now) BY <1>2
    <3>2. visit'[v] = visit[v] /\ effects' = effects /\ setting' = setting BY <2>1
    <3>3. QED BY <2>2, <3>1, <3>2 DEF VisitOK, Entitled, Recent, Authorised, Unseen
  <2>5. QED BY <1>1, <2>1, <2>2, <2>3, <2>4 DEF RoutesInv
<1>10. CASE UNCHANGED routeVars
  <2>1. UNCHANGED <<setting, visit, effects, cached, clock>> BY <1>10 DEF routeVars
  <2>2. ASSUME NEW v \in Visits PROVE VisitOK(visit[v], v \in effects, clock.now)'
    <3>1. VisitOK(visit[v], v \in effects, clock.now) BY <1>2
    <3>2. visit'[v] = visit[v] /\ effects' = effects /\ setting' = setting /\ clock' = clock
      BY <2>1
    <3>3. QED BY <3>1, <3>2 DEF VisitOK, Entitled, Recent, Authorised, Unseen
  <2>3. SharedOK' BY <1>1, <2>1 DEF SharedOK, Unseen
  <2>4. effects' \subseteq Visits BY <2>1 DEF RoutesInv
  <2>5. QED BY <1>1, <2>1, <2>2, <2>3, <2>4 DEF RoutesInv
<1>11. QED BY <1>3, <1>4, <1>5, <1>6, <1>7, <1>8, <1>9, <1>10 DEF RoutesNext

\* What a request sets off it was entitled to, a status saw every service within
\* the time of a check and of sharing it, and no stranger becomes a session
\* (server.ts, the routes, the shared probe and the upgrade).
THEOREM RoutesAlwaysKept == RoutesSpec => []RoutesKept
<1>1. RoutesInv /\ [RoutesNext]_routeVars => RoutesInv' BY RoutesInvNext
<1>2. QED BY <1>1, RoutesInvInit, RoutesInvKept, PTL DEF RoutesSpec

-----------------------------------------------------------------------------
(* The tools *)

WorkFields == {"status", "place", "notice", "unread", "heard", "ran", "handed", "watched", "swept"}
CallFields == {"tool", "task", "at", "saw", "told"}
OfTask == {"accepted", "cancelled", "resolved", "delegated", "archived", "deleted", "acknowledged"}
Waits == {"stopping", "handing_over", "forgetting", "acknowledging"}

\* What has ended and is read was acknowledged, and what is not read has a notice.
WorkOK(r) ==
  /\ DOMAIN r = WorkFields /\ r.notice \in Nat /\ r.heard \in Nat
  /\ r.place \in {"nowhere", "inbox", "archive", "deleted"}
  /\ r.place = "nowhere" => /\ r.status = "none" /\ r.notice = 0
                          /\ ~r.unread /\ ~r.handed /\ ~r.watched /\ ~r.swept
  /\ r.place \in {"archive", "deleted"} => r.status \in Closed
  /\ r.unread => r.notice > 0
  /\ r.place = "inbox" /\ r.status \in Notable /\ ~r.unread => r.heard > 0
  /\ r.swept => r.heard > 0
  /\ r.status = "delegated" => r.handed

\* What never happens to a task again: r is the task, and s the task later.
LaterWork(r, s) ==
  /\ r.place # "nowhere" => s.place # "nowhere"
  /\ r.place \in {"archive", "deleted"} => s.place = r.place
  /\ r.status \in Closed => s.status = r.status
  /\ r.handed => s.handed
  /\ r.watched => s.watched
  /\ s.notice >= r.notice
  /\ s.unread => s.notice > r.notice \/ (r.unread /\ s.notice = r.notice)

\* What a call saw, and was answer, is so.
CallOK(x) ==
  /\ DOMAIN x = CallFields /\ x.saw \in Nat
  /\ x.told \in OfTask \/ x.at \in Waits => x.task \in ToolTasks /\ works[x.task].place # "nowhere"
  /\ x.at = "handing_over" => works[x.task].watched
  /\ x.at = "forgetting" => works[x.task].place = "deleted"
  /\ x.at = "acknowledging" => x.saw > 0 /\ x.saw <= works[x.task].notice
  /\ x.told = "cancelled" => works[x.task].status = "cancelled"
  /\ x.told = "resolved" => works[x.task].handed /\ works[x.task].status \in {"completed", "failed"}
  /\ x.told = "delegated" => works[x.task].handed /\ works[x.task].watched
  /\ x.told = "archived" => works[x.task].place = "archive"
  /\ x.told = "deleted" => works[x.task].place = "deleted" /\ x.task \notin index.docs \cup index.known
  /\ x.told = "acknowledged" =>
       /\ x.saw <= works[x.task].notice
       /\ ~works[x.task].unread \/ works[x.task].notice > x.saw
  /\ x.told = "refused" => ~IsOffered(x.tool)

IndexOK ==
  /\ DOMAIN index = {"docs", "known", "synced", "sound"}
  /\ index.known \subseteq index.docs /\ index.docs \subseteq ToolTasks
  /\ \A k \in index.docs : works[k].status \in Closed
  /\ index.synced /\ index.sound => Finished \subseteq index.known

DeletedIsPending ==
  index.sound => \A k \in index.docs : works[k].place = "deleted" =>
    \E c \in ToolCalls : toolCall[c].at = "forgetting" /\ toolCall[c].task = k

ToolsInv ==
  /\ DOMAIN works = ToolTasks /\ DOMAIN toolCall = ToolCalls /\ offer.version \in Nat
  /\ \A k \in ToolTasks : WorkOK(works[k])
  /\ IndexOK /\ DeletedIsPending
  /\ \A c \in ToolCalls : CallOK(toolCall[c])

LEMMA HadIsOK ==
  ASSUME NEW status \in {"queued", "running", "unknown", "delegated", "completed"},
         NEW unread \in BOOLEAN, unread => status \in Notable
  PROVE  /\ WorkOK(Had(status, unread)) /\ Had(status, unread).place = "inbox"
         /\ Had(status, unread).status = status /\ (Had(status, unread).unread <=> unread)
<1> DEFINE r == Had(status, unread)
<1>1. /\ DOMAIN r = WorkFields /\ r.status = status /\ r.place = "inbox" /\ (r.unread <=> unread)
      /\ r.notice = IF status \in Notable THEN 1 ELSE 0
      /\ r.heard = IF status \in Notable /\ ~unread THEN 1 ELSE 0
      /\ (r.handed <=> status = "delegated") /\ ~r.watched /\ ~r.swept
  BY DEF Had, NoWork, WorkFields
<1> HIDE DEF r
<1>2. WorkOK(r) BY <1>1 DEF WorkOK
<1>3. QED BY <1>1, <1>2 DEF r

LEMMA NoWorkIsOK == WorkOK(NoWork) /\ NoWork.place = "nowhere"
BY DEF WorkOK, NoWork, WorkFields, Notable, Closed

LEMMA IdleIsOK == DOMAIN NoToolCall = CallFields /\ CallOK(NoToolCall)
BY DEF CallOK, NoToolCall, CallFields, OfTask, Waits

LEMMA ToolsInvInit == ToolsInit => ToolsInv
<1> SUFFICES ASSUME ToolsInit PROVE ToolsInv OBVIOUS
<1>1. /\ DOMAIN works = ToolTasks /\ DOMAIN toolCall = ToolCalls /\ offer.version \in Nat
  BY DEF ToolsInit, SessionOffers
<1>2. ASSUME NEW k \in ToolTasks
      PROVE  WorkOK(works[k]) /\ (works[k].place = "inbox" \/ works[k] = NoWork)
  <2>1. works[k] \in {NoWork, Had("running", FALSE), Had("unknown", TRUE), Had("delegated", FALSE),
                      Had("completed", TRUE), Had("completed", FALSE)}
    BY DEF ToolsInit
  <2>2. CASE works[k] = NoWork BY <2>2, NoWorkIsOK
  <2>3. CASE works[k] = Had("running", FALSE) BY <2>3, HadIsOK
  <2>4. CASE works[k] = Had("unknown", TRUE) BY <2>4, HadIsOK DEF Notable
  <2>5. CASE works[k] = Had("delegated", FALSE) BY <2>5, HadIsOK
  <2>6. CASE works[k] = Had("completed", TRUE) BY <2>6, HadIsOK DEF Notable, Closed
  <2>7. CASE works[k] = Had("completed", FALSE) BY <2>7, HadIsOK
  <2>8. QED BY <2>1, <2>2, <2>3, <2>4, <2>5, <2>6, <2>7
<1>3. PICK docs \in SUBSET Finished :
        index = [docs |-> docs, known |-> {}, synced |-> FALSE, sound |-> TRUE]
  BY DEF ToolsInit
<1>4. IndexOK BY <1>3 DEF IndexOK, Finished, Inbox
<1>5. DeletedIsPending BY <1>3 DEF DeletedIsPending, Finished, Inbox
<1>6. \A c \in ToolCalls : CallOK(toolCall[c])
  <2>1. \A c \in ToolCalls : toolCall[c] = NoToolCall BY DEF ToolsInit
  <2>2. QED BY <2>1, IdleIsOK
<1>7. QED BY <1>1, <1>2, <1>4, <1>5, <1>6 DEF ToolsInv

LEMMA ToolsInvKept == ToolsInv => ToolsKept
<1> SUFFICES ASSUME ToolsInv PROVE ToolsKept OBVIOUS
<1>1. /\ \A k \in ToolTasks : WorkOK(works[k])
      /\ \A c \in ToolCalls : CallOK(toolCall[c])
      /\ IndexOK /\ DeletedIsPending
  BY DEF ToolsInv
<1>2. AnswersAreTrue BY <1>1 DEF AnswersAreTrue, CallOK, OfTask
<1>3. OnlyFinishedLeave BY <1>1 DEF OnlyFinishedLeave, WorkOK
<1>4. RecallIsRight BY <1>1 DEF RecallIsRight, IndexOK, DeletedIsPending
<1>5. OfferedIsServed BY <1>1 DEF OfferedIsServed, CallOK
<1>6. QED BY <1>2, <1>3, <1>4, <1>5 DEF ToolsKept

LEMMA EnteredIsLater ==
  ASSUME NEW r, WorkOK(r), r.place = "inbox", r.status \notin Closed,
         NEW status \in {"running", "delegated"} \cup Notable
  PROVE  LET s == Entered(r, status)
         IN  WorkOK(s) /\ LaterWork(r, s) /\ s.place = "inbox" /\ s.status = status
             /\ (status = "delegated" => s.handed)
<1> DEFINE s == Entered(r, status)
<1>1. /\ DOMAIN s = WorkFields /\ s.status = status /\ s.place = "inbox"
      /\ (s.unread <=> status \in Notable) /\ s.heard = r.heard
      /\ s.notice = IF status \in Notable THEN r.notice + 1 ELSE r.notice
      /\ (s.handed <=> r.handed \/ status = "delegated")
      /\ s.watched = r.watched /\ s.swept = r.swept
  BY DEF Entered, WorkOK, WorkFields
<1> HIDE DEF s
<1>2. WorkOK(s) BY <1>1 DEF WorkOK
<1>3. LaterWork(r, s) BY <1>1 DEF WorkOK, LaterWork
<1>4. QED BY <1>1, <1>2, <1>3 DEF s

LEMMA SameIsLater == ASSUME NEW r, WorkOK(r) PROVE LaterWork(r, r)
BY DEF LaterWork, WorkOK

LEMMA LeavesIsLater ==
  ASSUME NEW k \in Finished, WorkOK(works[k]), NEW place \in {"archive", "deleted"}
  PROVE  LET s == Leaves(k, place)
         IN  /\ WorkOK(s) /\ LaterWork(works[k], s) /\ s.place = place /\ s.status = works[k].status
             /\ s.heard = works[k].heard
<1> DEFINE s == Leaves(k, place)
<1>1. /\ DOMAIN s = WorkFields /\ s.status = works[k].status /\ s.place = place
      /\ s.unread = FALSE /\ s.heard = works[k].heard /\ s.notice = works[k].notice
      /\ s.handed = works[k].handed /\ s.watched = works[k].watched /\ s.swept = works[k].swept
  BY DEF Leaves, WorkOK, WorkFields
<1>2. works[k].place = "inbox" /\ works[k].status \in Closed BY DEF Finished, Inbox
<1> HIDE DEF s
<1>3. WorkOK(s) BY <1>1, <1>2 DEF WorkOK, Closed
<1>4. LaterWork(works[k], s) BY <1>1, <1>2 DEF WorkOK, LaterWork
<1>5. QED BY <1>1, <1>3, <1>4 DEF s

\* What calls know stays so.
LEMMA CallStaysOK ==
  ASSUME NEW x, CallOK(x), offer' = offer,
         \A k \in ToolTasks : WorkOK(works[k]) /\ LaterWork(works[k], works'[k]) /\ WorkOK(works'[k]),
         \A k \in ToolTasks : works[k].place = "deleted" /\ k \notin index.docs \cup index.known
                              => k \notin index'.docs \cup index'.known
  PROVE  CallOK(x)'
<1>1. ASSUME x.task \in ToolTasks
      PROVE  /\ LaterWork(works[x.task], works'[x.task])
             /\ works[x.task].notice \in Nat /\ works'[x.task].notice \in Nat
             /\ works[x.task].status = "cancelled" => works'[x.task].status = "cancelled"
             /\ works[x.task].status \in {"completed", "failed"} =>
                  works'[x.task].status = works[x.task].status
  BY <1>1 DEF LaterWork, WorkOK, Closed
<1>2. IsOffered(x.tool)' = IsOffered(x.tool) BY DEF IsOffered, VersionFor
<1>3. QED BY <1>1, <1>2 DEF CallOK, LaterWork, OfTask, Waits

\* One call moves.
LEMMA CallMoves ==
  ASSUME ToolsInv, offer' = offer, NEW c \in ToolCalls, NEW y,
         toolCall' = [toolCall EXCEPT ![c] = y], toolCall[c].at # "forgetting",
         DOMAIN works' = ToolTasks,
         \A k \in ToolTasks : LaterWork(works[k], works'[k]) /\ WorkOK(works'[k]),
         IndexOK',
         \A k \in ToolTasks : works[k].place = "deleted" /\ k \notin index.docs \cup index.known
                              => k \notin index'.docs \cup index'.known,
         index'.sound => index.sound
           /\ \A k \in index'.docs : works'[k].place = "deleted" =>
                \/ k \in index.docs /\ works[k].place = "deleted"
                \/ y.at = "forgetting" /\ y.task = k,
         CallOK(y)'
  PROVE  ToolsInv'
<1>1. DOMAIN toolCall = ToolCalls /\ toolCall'[c] = y
      /\ \A d \in ToolCalls : d # c => toolCall'[d] = toolCall[d]
  BY DEF ToolsInv
<1>2. \A k \in ToolTasks : WorkOK(works[k]) BY DEF ToolsInv
<1>3. ASSUME NEW d \in ToolCalls PROVE CallOK(toolCall[d])'
  <2>1. CASE d = c
    <3>1. toolCall'[d] = y /\ CallOK(y)' BY <1>1, <2>1
    <3>2. QED BY <3>1 DEF CallOK, IsOffered, VersionFor
  <2>2. CASE d # c
    <3>1. PICK x : x = toolCall[d] OBVIOUS
    <3>2. CallOK(x) BY <3>1 DEF ToolsInv
    <3>3. CallOK(x)' BY <1>2, <3>2, CallStaysOK
    <3>4. toolCall'[d] = x BY <1>1, <2>2, <3>1
    <3>5. QED BY <3>3, <3>4 DEF CallOK, IsOffered, VersionFor
  <2>3. QED BY <2>1, <2>2
<1>4. DeletedIsPending'
  <2> SUFFICES ASSUME index'.sound, NEW k \in index'.docs, works'[k].place = "deleted"
               PROVE  \E d \in ToolCalls : toolCall'[d].at = "forgetting" /\ toolCall'[d].task = k
    BY DEF DeletedIsPending
  <2>1. CASE y.at = "forgetting" /\ y.task = k BY <1>1, <2>1
  <2>2. CASE k \in index.docs /\ works[k].place = "deleted"
    <3>1. PICK d \in ToolCalls : toolCall[d].at = "forgetting" /\ toolCall[d].task = k
      BY <2>2 DEF ToolsInv, DeletedIsPending
    <3>2. d # c BY <3>1
    <3>3. QED BY <1>1, <3>1, <3>2
  <2>3. QED BY <2>1, <2>2
<1>5. QED BY <1>1, <1>3, <1>4 DEF ToolsInv

\* A step of the tasks and the index that a call makes.
WorldOK ==
  /\ offer' = offer /\ DOMAIN works' = ToolTasks
  /\ \A k \in ToolTasks : LaterWork(works[k], works'[k]) /\ WorkOK(works'[k])
  /\ IndexOK'
  /\ \A k \in ToolTasks : works[k].place = "deleted" /\ k \notin index.docs \cup index.known
                          => k \notin index'.docs \cup index'.known
  /\ index'.sound => index.sound
  /\ \A k \in index'.docs : works'[k].place = "deleted" => k \in index.docs /\ works[k].place = "deleted"

LEMMA IndexStaysOK ==
  ASSUME ToolsInv, index' = index,
         \A k \in ToolTasks : LaterWork(works[k], works'[k]), Finished' \subseteq Finished
  PROVE  IndexOK'
<1>1. IndexOK BY DEF ToolsInv
<1>2. \A k \in index.docs : works'[k].status \in Closed BY <1>1 DEF IndexOK, LaterWork
<1>3. QED BY <1>1, <1>2 DEF IndexOK

LEMMA WorldStays ==
  ASSUME ToolsInv, UNCHANGED <<offer, works, index>>
  PROVE  WorldOK
<1>1. DOMAIN works' = ToolTasks BY DEF ToolsInv
<1>2. \A k \in ToolTasks : LaterWork(works[k], works'[k]) /\ WorkOK(works'[k])
  BY SameIsLater DEF ToolsInv
<1>3. Finished' = Finished BY DEF Finished, Inbox
<1>4. IndexOK' BY <1>2, <1>3, IndexStaysOK
<1>5. QED BY <1>1, <1>2, <1>4 DEF WorldOK

LEMMA OneWorkMoves ==
  ASSUME ToolsInv, NEW k \in ToolTasks, NEW s, works' = [works EXCEPT ![k] = s],
         WorkOK(s), LaterWork(works[k], s)
  PROVE  /\ DOMAIN works' = ToolTasks /\ works'[k] = s
         /\ \A j \in ToolTasks : LaterWork(works[j], works'[j]) /\ WorkOK(works'[j])
         /\ \A j \in ToolTasks : j # k => works'[j] = works[j]
<1>1. DOMAIN works = ToolTasks /\ \A j \in ToolTasks : WorkOK(works[j]) BY DEF ToolsInv
<1>2. \A j \in ToolTasks : LaterWork(works[j], works[j]) BY <1>1, SameIsLater
<1>3. DOMAIN works' = ToolTasks /\ works'[k] = s /\ \A j \in ToolTasks : j # k => works'[j] = works[j]
  BY <1>1
<1>4. QED BY <1>1, <1>2, <1>3

LEMMA WorldWorks ==
  ASSUME ToolsInv, offer' = offer, index' = index, NEW k \in ToolTasks, NEW s,
         works' = [works EXCEPT ![k] = s], WorkOK(s), LaterWork(works[k], s),
         s.place = "deleted" => works[k].place = "deleted",
         s.place = "inbox" /\ s.status \in Closed => k \in Finished
  PROVE  WorldOK
<1>1. /\ DOMAIN works' = ToolTasks /\ works'[k] = s
      /\ \A j \in ToolTasks : LaterWork(works[j], works'[j]) /\ WorkOK(works'[j])
      /\ \A j \in ToolTasks : j # k => works'[j] = works[j]
  BY OneWorkMoves
<1>2. Finished' \subseteq Finished BY <1>1 DEF Finished, Inbox
<1>3. IndexOK' BY <1>1, <1>2, IndexStaysOK
<1>4. \A j \in index.docs : works'[j].place = "deleted" => works[j].place = "deleted"
  BY <1>1 DEF ToolsInv, IndexOK
<1>5. QED BY <1>1, <1>3, <1>4 DEF WorldOK

\* The index follows a task that moved in the inbox.
LEMMA WorldFollows ==
  ASSUME ToolsInv, offer' = offer, NEW k \in Inbox, NEW s, NEW status, NEW counts,
         works' = [works EXCEPT ![k] = s], WorkOK(s), LaterWork(works[k], s),
         s.place = "inbox", s.status = status, FollowsTask(k, status, counts)
  PROVE  WorldOK
<1>0. k \in ToolTasks /\ works[k].place = "inbox" BY DEF Inbox
<1>1. /\ DOMAIN works' = ToolTasks /\ works'[k] = s
      /\ \A j \in ToolTasks : LaterWork(works[j], works'[j]) /\ WorkOK(works'[j])
      /\ \A j \in ToolTasks : j # k => works'[j] = works[j]
  BY <1>0, OneWorkMoves
<1>2. IndexOK BY DEF ToolsInv
<1>3. \/ status \notin Closed /\ index' = index
      \/ status \in Closed /\ index' = [index EXCEPT !.docs = @ \cup {k}, !.known = @ \cup {k}]
      \/ status \in Closed /\ index' = [index EXCEPT !.sound = FALSE]
  BY DEF FollowsTask
<1>4. Finished' \subseteq Finished \cup {k} /\ (k \in Finished' => status \in Closed)
  BY <1>1 DEF Finished, Inbox
<1>5. \A j \in index.docs : works'[j].status \in Closed BY <1>1, <1>2 DEF IndexOK, LaterWork
<1>6. /\ DOMAIN index' = {"docs", "known", "synced", "sound"} /\ index'.synced = index.synced
      /\ \/ index'.docs = index.docs /\ index'.known = index.known
         \/ index'.docs = index.docs \cup {k} /\ index'.known = index.known \cup {k} /\ status \in Closed
      /\ index'.sound => index.sound /\ (status \in Closed => k \in index'.known)
  BY <1>2, <1>3 DEF IndexOK
<1>7. IndexOK' BY <1>0, <1>1, <1>2, <1>4, <1>5, <1>6 DEF IndexOK
<1>8. \A j \in index'.docs : works'[j].place = "deleted" => j \in index.docs /\ works[j].place = "deleted"
  BY <1>0, <1>1, <1>2, <1>6 DEF IndexOK
<1>9. QED BY <1>0, <1>1, <1>6, <1>7, <1>8 DEF WorldOK

LEMMA CallMovesOn ==
  ASSUME ToolsInv, WorldOK, NEW c \in ToolCalls, NEW y,
         toolCall' = [toolCall EXCEPT ![c] = y], toolCall[c].at # "forgetting", CallOK(y)'
  PROVE  ToolsInv'
BY CallMoves DEF WorldOK

\* A call is answered, or is awaited, at its first step.
LEMMA MakesKeeps ==
  ASSUME ToolsInv, WorldOK, NEW c \in ToolCalls, NEW tool, NEW k, NEW at, NEW answer,
         Makes(c, tool, k, at, answer),
         answer \in OfTask \/ at \in Waits => k \in ToolTasks /\ works'[k].place # "nowhere",
         at \notin {"forgetting", "acknowledging"},
         at = "handing_over" => works'[k].watched,
         answer \notin {"delegated", "deleted", "acknowledged"},
         answer = "cancelled" => works'[k].status = "cancelled",
         answer = "resolved" => works'[k].handed /\ works'[k].status \in {"completed", "failed"},
         answer = "archived" => works'[k].place = "archive",
         answer = "refused" => ~IsOffered(tool)
  PROVE  ToolsInv'
<1> DEFINE y == [NoToolCall EXCEPT !.tool = tool, !.task = k, !.at = at, !.told = answer]
<1>1. toolCall' = [toolCall EXCEPT ![c] = y] /\ toolCall[c].at # "forgetting"
  BY DEF Makes, Idle, NoToolCall
<1>2. /\ DOMAIN y = CallFields /\ y.tool = tool /\ y.task = k /\ y.at = at /\ y.told = answer /\ y.saw = 0
  BY DEF NoToolCall, CallFields
<1> HIDE DEF y
<1>3. IsOffered(tool)' = IsOffered(tool) BY DEF IsOffered, VersionFor, WorldOK
<1>4. CallOK(y)' BY <1>2, <1>3 DEF CallOK
<1>5. QED BY <1>1, <1>4, CallMovesOn

\* The same, when nothing is done.
LEMMA RepliesKeeps ==
  ASSUME ToolsInv, UNCHANGED <<offer, works, index>>, NEW c \in ToolCalls, NEW tool, NEW k, NEW answer,
         Replies(c, tool, k, answer),
         answer \notin OfTask, answer = "refused" => ~IsOffered(tool)
  PROVE  ToolsInv'
<1>1. WorldOK BY WorldStays
<1>2. Makes(c, tool, k, "told", answer) BY DEF Replies
<1>3. QED BY <1>1, <1>2, MakesKeeps DEF OfTask, Waits

\* A call that was awaited is answered.
LEMMA TellsKeeps ==
  ASSUME ToolsInv, WorldOK, NEW c \in ToolCalls, NEW answer, Tells(c, answer),
         toolCall[c].at \in Waits \ {"forgetting"},
         answer \notin {"accepted", "resolved", "archived", "deleted", "refused"},
         LET k == toolCall[c].task
         IN  /\ answer = "cancelled" => works'[k].status = "cancelled"
             /\ answer = "delegated" => works'[k].handed /\ works'[k].watched
             /\ answer = "acknowledged" => toolCall[c].saw <= works'[k].notice /\ ~works'[k].unread
  PROVE  ToolsInv'
<1>0. CallOK(toolCall[c]) /\ DOMAIN toolCall = ToolCalls BY DEF ToolsInv
<1> PICK y : y = [toolCall[c] EXCEPT !.at = "told", !.told = answer] OBVIOUS
<1>1. toolCall' = [toolCall EXCEPT ![c] = y] BY <1>0 DEF Tells
<1>2. /\ DOMAIN y = CallFields /\ y.task = toolCall[c].task /\ y.at = "told" /\ y.told = answer
      /\ y.saw = toolCall[c].saw
  BY <1>0 DEF CallOK, CallFields
<1>3. y.task \in ToolTasks /\ y.saw \in Nat /\ works'[y.task].place # "nowhere"
  <2>1. toolCall[c].task \in ToolTasks /\ works[toolCall[c].task].place # "nowhere" BY <1>0 DEF CallOK
  <2>2. QED BY <1>0, <1>2, <2>1 DEF CallOK, WorldOK, LaterWork
<1>4. CallOK(y)' BY <1>2, <1>3 DEF CallOK, Waits
<1>5. QED BY <1>1, <1>4, CallMovesOn

LEMMA NewWork ==
  ASSUME ToolsInv, offer' = offer, index' = index, NEW k \in ToolTasks, works[k].place = "nowhere",
         Keeps(k, Had("queued", FALSE))
  PROVE  WorldOK /\ works'[k].place = "inbox"
<1>0. PICK s : s = Had("queued", FALSE) OBVIOUS
<1>1. WorkOK(s) /\ s.place = "inbox" /\ s.status = "queued" /\ ~s.unread BY <1>0, HadIsOK
<1>2. WorkOK(works[k]) /\ works' = [works EXCEPT ![k] = s] BY <1>0 DEF ToolsInv, Keeps
<1>3. LaterWork(works[k], s) BY <1>1, <1>2 DEF LaterWork, WorkOK, Closed
  \* A task that was nowhere has no past.
<1>4. WorldOK
  <2>1. s.place # "deleted" /\ s.status \notin Closed BY <1>1 DEF Closed
  <2>2. QED BY <1>1, <1>2, <1>3, <2>1, WorldWorks
<1>5. QED BY <1>1, <1>2, <1>3, <1>4, OneWorkMoves

LEMMA StartKeeps ==
  ASSUME ToolsInv, NEW c \in ToolCalls, NEW parent, StartsTask(c) \/ FollowsUp(c, parent)
  PROVE  ToolsInv'
<1>1. UNCHANGED <<offer, index, toolCounts>> BY DEF StartsTask, FollowsUp
<1>2. CASE works' = works /\ \E tool \in {"start", "follow"}, k \in {parent, NoToolCall.task} :
                               Replies(c, tool, k, "failed")
  BY <1>1, <1>2, RepliesKeeps DEF OfTask
<1>3. ASSUME NEW k \in ToolTasks, NEW tool \in {"start", "follow"}, works[k].place = "nowhere",
             Keeps(k, Had("queued", FALSE)), Replies(c, tool, k, "accepted")
      PROVE  ToolsInv'
  <2>1. WorldOK /\ works'[k].place = "inbox" BY <1>1, <1>3, NewWork
  <2>2. Makes(c, tool, k, "told", "accepted") BY <1>3 DEF Replies
  <2>3. QED BY <2>1, <2>2, MakesKeeps DEF Waits
<1>4. QED BY <1>2, <1>3 DEF StartsTask, FollowsUp

\* A task of the inbox that has not ended enters a status.
LEMMA EntersOK ==
  ASSUME ToolsInv, offer' = offer, NEW k \in Inbox, works[k].status \notin Closed,
         NEW status \in {"running", "delegated"} \cup Notable, NEW counts,
         Keeps(k, Entered(works[k], status)), FollowsTask(k, status, counts)
  PROVE  /\ WorldOK /\ works'[k].status = status /\ works'[k].place = "inbox"
         /\ works[k].handed => works'[k].handed
<1>1. k \in ToolTasks /\ works[k].place = "inbox" BY DEF Inbox
<1>2. PICK s : s = Entered(works[k], status) OBVIOUS
<1>3. WorkOK(works[k]) BY <1>1 DEF ToolsInv
<1>4. /\ WorkOK(s) /\ LaterWork(works[k], s) /\ s.place = "inbox" /\ s.status = status
  BY <1>1, <1>2, <1>3, EnteredIsLater
<1>5. works' = [works EXCEPT ![k] = s] BY <1>2 DEF Keeps
<1>6. WorldOK BY <1>4, <1>5, WorldFollows
<1>7. works'[k] = s BY <1>1, <1>4, <1>5, OneWorkMoves
<1>8. QED BY <1>4, <1>6, <1>7 DEF LaterWork

LEMMA StopsKeeps ==
  ASSUME ToolsInv, NEW c \in ToolCalls, NEW k \in ToolTasks, StopsWork(c, k)
  PROVE  ToolsInv'
<1>1. offer' = offer BY DEF StopsWork
<1>2. CASE k \notin Inbox /\ Replies(c, "stop", k, "failed") /\ UNCHANGED <<works, index, toolCounts>>
  BY <1>1, <1>2, RepliesKeeps DEF OfTask
<1>3. CASE /\ k \in Inbox /\ works[k].status \in {"queued", "delegated"}
           /\ Keeps(k, Entered(works[k], "cancelled")) /\ FollowsTask(k, "cancelled", toolCounts)
           /\ Replies(c, "stop", k, "cancelled")
  <2>1. WorldOK /\ works'[k].status = "cancelled" /\ works'[k].place = "inbox"
    BY <1>1, <1>3, EntersOK DEF Closed, Notable
  <2>2. Makes(c, "stop", k, "told", "cancelled") BY <1>3 DEF Replies
  <2>3. QED BY <2>1, <2>2, MakesKeeps DEF Waits
<1>4. CASE k \in Finished /\ Replies(c, "stop", k, StopTold(k)) /\ UNCHANGED <<works, index, toolCounts>>
  <2>1. k \in Inbox BY <1>4 DEF Finished
  <2>2. works'[k].place = "inbox" BY <1>4, <2>1 DEF Inbox
  <2>3. StopTold(k) \in {"cancelled", "stopping"} /\ (StopTold(k) = "cancelled" => works'[k].status = "cancelled")
    BY <1>4 DEF StopTold
  <2>4. Makes(c, "stop", k, "told", StopTold(k)) BY <1>4 DEF Replies
  <2>5. WorldOK BY <1>1, <1>4, WorldStays
  <2>6. PICK answer : answer = StopTold(k) OBVIOUS
  <2>7. QED BY <2>2, <2>3, <2>4, <2>5, <2>6, MakesKeeps DEF Waits
<1>5. CASE /\ k \in Inbox /\ works[k].status \in {"running", "unknown"} /\ Awaits(c, "stop", k, "stopping")
           /\ UNCHANGED <<works, index, toolCounts>>
  <2>1. works'[k].place = "inbox" BY <1>5 DEF Inbox
  <2>2. Makes(c, "stop", k, "stopping", "nothing") BY <1>5 DEF Awaits
  <2>3. WorldOK BY <1>1, <1>5, WorldStays
  <2>4. QED BY <2>1, <2>2, <2>3, MakesKeeps DEF OfTask
<1>6. QED BY <1>2, <1>3, <1>4, <1>5 DEF StopsWork

LEMMA StopAnsweredKeeps ==
  ASSUME ToolsInv, NEW c \in ToolCalls, StopAnswered(c)
  PROVE  ToolsInv'
<1>1. /\ toolCall[c].at = "stopping" /\ Tells(c, StopTold(toolCall[c].task))
      /\ UNCHANGED <<offer, works, index, toolCounts>>
  BY DEF StopAnswered
<1>2. PICK answer : answer = StopTold(toolCall[c].task) OBVIOUS
<1>3. answer \in {"cancelled", "stopping"} /\ (answer = "cancelled" => works'[toolCall[c].task].status = "cancelled")
  BY <1>1, <1>2 DEF StopTold
<1>4. WorldOK BY <1>1, WorldStays
<1>5. QED BY <1>1, <1>2, <1>3, <1>4, TellsKeeps DEF Waits

LEMMA ResolvesKeeps ==
  ASSUME ToolsInv, NEW c \in ToolCalls, NEW k \in ToolTasks, ResolvesTask(c, k)
  PROVE  ToolsInv'
<1>1. offer' = offer BY DEF ResolvesTask
<1>2. CASE Replies(c, "resolve", k, "failed") /\ UNCHANGED <<works, index, toolCounts>>
  BY <1>1, <1>2, RepliesKeeps DEF OfTask
<1>3. ASSUME NEW s \in {"completed", "failed"}, k \in Inbox, works[k].status = "delegated",
             Keeps(k, Entered(works[k], s)), FollowsTask(k, s, toolCounts),
             Replies(c, "resolve", k, "resolved")
      PROVE  ToolsInv'
  <2>1. works[k].handed BY <1>3 DEF ToolsInv, WorkOK
  <2>2. WorldOK /\ works'[k].status = s /\ works'[k].place = "inbox" /\ works'[k].handed
    BY <1>1, <1>3, <2>1, EntersOK DEF Closed, Notable
  <2>3. Makes(c, "resolve", k, "told", "resolved") BY <1>3 DEF Replies
  <2>4. QED BY <2>2, <2>3, MakesKeeps DEF Waits
<1>4. QED BY <1>2, <1>3 DEF ResolvesTask

LEMMA RegistersKeeps ==
  ASSUME ToolsInv, NEW c \in ToolCalls, NEW k \in ToolTasks, RegistersWatch(c, k)
  PROVE  ToolsInv'
<1>1. UNCHANGED <<offer, index, toolCounts>> BY DEF RegistersWatch
<1>2. CASE Replies(c, "watch", k, "failed") /\ UNCHANGED works
  BY <1>1, <1>2, RepliesKeeps DEF OfTask
<1>3. CASE /\ works[k].place # "nowhere" /\ Keeps(k, [works[k] EXCEPT !.watched = TRUE])
           /\ Awaits(c, "watch", k, "handing_over")
  <2>1. PICK s : s = [works[k] EXCEPT !.watched = TRUE] OBVIOUS
  <2>2. WorkOK(works[k]) BY DEF ToolsInv
  <2>3. /\ DOMAIN s = WorkFields /\ s.watched /\ s.status = works[k].status /\ s.place = works[k].place
        /\ s.notice = works[k].notice /\ s.heard = works[k].heard /\ s.unread = works[k].unread
        /\ s.handed = works[k].handed /\ s.swept = works[k].swept
    BY <2>1, <2>2 DEF WorkOK, WorkFields
  <2>4. WorkOK(s) /\ LaterWork(works[k], s) BY <1>3, <2>2, <2>3 DEF WorkOK, LaterWork
  <2>5. works' = [works EXCEPT ![k] = s] BY <1>3, <2>1 DEF Keeps
  <2>6. s.place = "inbox" /\ s.status \in Closed => k \in Finished BY <2>3 DEF Finished, Inbox
  <2>7. WorldOK BY <1>1, <2>3, <2>4, <2>5, <2>6, WorldWorks
  <2>8. works'[k] = s BY <2>4, <2>5, OneWorkMoves
  <2>9. Makes(c, "watch", k, "handing_over", "nothing") BY <1>3 DEF Awaits
  <2>10. QED BY <1>3, <2>3, <2>7, <2>8, <2>9, MakesKeeps DEF OfTask
<1>4. QED BY <1>2, <1>3 DEF RegistersWatch

LEMMA HandsOverKeeps ==
  ASSUME ToolsInv, NEW c \in ToolCalls, HandsOver(c)
  PROVE  ToolsInv'
<1>1. toolCall[c].at = "handing_over" /\ UNCHANGED <<offer, index, toolCounts>> BY DEF HandsOver
<1>2. PICK k : k = toolCall[c].task OBVIOUS
<1>3. k \in ToolTasks /\ works[k].watched /\ WorkOK(works[k])
  BY <1>1, <1>2 DEF ToolsInv, CallOK, Waits
<1>4. CASE Tells(c, "failed") /\ UNCHANGED works
  <2>1. WorldOK BY <1>1, <1>4, WorldStays
  <2>2. QED BY <1>1, <1>4, <2>1, TellsKeeps DEF Waits
<1>5. CASE /\ k \in Inbox /\ works[k].status \in {"running", "delegated"} /\ Tells(c, "delegated")
           /\ Keeps(k, IF works[k].status = "delegated" THEN works[k] ELSE Entered(works[k], "delegated"))
  <2>1. WorldOK /\ works'[k].handed /\ works'[k].watched
    <3>1. CASE works[k].status = "delegated"
      <4>1. PICK s : s = works[k] OBVIOUS
      <4>2. works' = [works EXCEPT ![k] = s] BY <1>5, <3>1, <4>1 DEF Keeps
      <4>3. WorkOK(s) /\ LaterWork(works[k], s) /\ s.handed /\ s.watched
        BY <1>3, <3>1, <4>1, SameIsLater DEF WorkOK
      <4>4. works'[k] = s BY <1>3, <4>2, <4>3, OneWorkMoves
      <4>5. WorldOK BY <1>1, <1>3, <3>1, <4>1, <4>2, <4>3, WorldWorks DEF Closed
      <4>6. QED BY <4>3, <4>4, <4>5
    <3>2. CASE works[k].status = "running"
      <4>1. PICK s : s = Entered(works[k], "delegated") OBVIOUS
      <4>2. works' = [works EXCEPT ![k] = s] BY <1>5, <3>2, <4>1 DEF Keeps
      <4>3. works[k].place = "inbox" BY <1>5 DEF Inbox
      <4>4. /\ WorkOK(s) /\ LaterWork(works[k], s) /\ s.place = "inbox" /\ s.status = "delegated" /\ s.handed
        BY <1>3, <3>2, <4>1, <4>3, EnteredIsLater DEF Closed
      <4>5. works'[k] = s BY <1>3, <4>2, <4>4, OneWorkMoves
      <4>6. WorldOK BY <1>1, <1>3, <4>2, <4>4, WorldWorks DEF Closed
      <4>7. QED BY <1>3, <4>4, <4>5, <4>6 DEF LaterWork
    <3>3. QED BY <1>5, <3>1, <3>2
  <2>2. QED BY <1>1, <1>2, <1>5, <2>1, TellsKeeps DEF Waits
<1>6. QED BY <1>2, <1>4, <1>5 DEF HandsOver


LEMMA CleansKeeps ==
  ASSUME ToolsInv, NEW c \in ToolCalls, NEW k \in ToolTasks, CleansTask(c, k)
  PROVE  ToolsInv'
<1>1. UNCHANGED <<offer, index, toolCounts>> BY DEF CleansTask
<1>2. CASE works' = works /\ (Replies(c, "archive", k, "failed") \/ Replies(c, "delete", k, "failed"))
  BY <1>1, <1>2, RepliesKeeps DEF OfTask
<1>3. ASSUME NEW place \in {"archive", "deleted"}, k \in Finished, Keeps(k, Leaves(k, place))
      PROVE  \E s : /\ works' = [works EXCEPT ![k] = s] /\ WorkOK(s) /\ LaterWork(works[k], s)
                    /\ s.place = place /\ works'[k] = s /\ s.status = works[k].status
  <2>1. PICK s : s = Leaves(k, place) OBVIOUS
  <2>2. WorkOK(works[k]) BY DEF ToolsInv
  <2>3. WorkOK(s) /\ LaterWork(works[k], s) /\ s.place = place /\ s.status = works[k].status
    BY <1>3, <2>1, <2>2, LeavesIsLater
  <2>4. works' = [works EXCEPT ![k] = s] BY <1>3, <2>1 DEF Keeps
  <2>5. works'[k] = s BY <2>3, <2>4, OneWorkMoves
  <2>6. QED BY <2>3, <2>4, <2>5
<1>4. CASE k \in Finished /\ Keeps(k, Leaves(k, "archive")) /\ Replies(c, "archive", k, "archived")
  <2>1. PICK s : /\ works' = [works EXCEPT ![k] = s] /\ WorkOK(s) /\ LaterWork(works[k], s)
                 /\ s.place = "archive" /\ works'[k] = s
    BY <1>3, <1>4
  <2>2. WorldOK BY <1>1, <2>1, WorldWorks
  <2>3. Makes(c, "archive", k, "told", "archived") BY <1>4 DEF Replies
  <2>4. QED BY <2>1, <2>2, <2>3, MakesKeeps DEF Waits
<1>5. CASE k \in Finished /\ Keeps(k, Leaves(k, "deleted")) /\ Awaits(c, "delete", k, "forgetting")
  <2>1. PICK s : /\ works' = [works EXCEPT ![k] = s] /\ WorkOK(s) /\ LaterWork(works[k], s)
                 /\ s.place = "deleted" /\ works'[k] = s
    BY <1>3, <1>5
  <2>2. /\ DOMAIN works' = ToolTasks
        /\ \A j \in ToolTasks : LaterWork(works[j], works'[j]) /\ WorkOK(works'[j])
        /\ \A j \in ToolTasks : j # k => works'[j] = works[j]
    BY <2>1, OneWorkMoves
  <2>3. Finished' \subseteq Finished BY <2>1, <2>2 DEF Finished, Inbox
  <2>4. IndexOK' BY <1>1, <2>2, <2>3, IndexStaysOK
  <2> DEFINE y == [NoToolCall EXCEPT !.tool = "delete", !.task = k, !.at = "forgetting", !.told = "nothing"]
  <2>5. toolCall' = [toolCall EXCEPT ![c] = y] /\ toolCall[c].at # "forgetting"
    BY <1>5 DEF Awaits, Makes, Idle, NoToolCall
  <2>6. DOMAIN y = CallFields /\ y.task = k /\ y.at = "forgetting" /\ y.told = "nothing" /\ y.saw = 0
    BY DEF NoToolCall, CallFields
  <2> HIDE DEF y
  <2>7. CallOK(y)' BY <2>1, <2>6 DEF CallOK, OfTask
  <2>8. \A j \in index.docs : works'[j].place = "deleted" => works[j].place = "deleted" \/ j = k
    BY <2>2 DEF ToolsInv, IndexOK
  <2>9. QED BY <1>1, <2>2, <2>4, <2>5, <2>6, <2>7, <2>8, CallMoves
<1>6. QED BY <1>2, <1>4, <1>5 DEF CleansTask

LEMMA ForgetsKeeps ==
  ASSUME ToolsInv, NEW c \in ToolCalls, ForgetsTask(c)
  PROVE  ToolsInv'
<1>1. toolCall[c].at = "forgetting" /\ UNCHANGED <<offer, works>> BY DEF ForgetsTask
<1>2. PICK k : k = toolCall[c].task OBVIOUS
<1>3. PICK x : x = toolCall[c] OBVIOUS
<1>4. /\ DOMAIN toolCall = ToolCalls /\ IndexOK /\ DeletedIsPending /\ DOMAIN works = ToolTasks
      /\ \A j \in ToolTasks : WorkOK(works[j])
      /\ \A d \in ToolCalls : CallOK(toolCall[d])
  BY DEF ToolsInv
<1>5. CallOK(x) /\ k = x.task BY <1>2, <1>3, <1>4
<1>6. k \in ToolTasks /\ works[k].place = "deleted" BY <1>1, <1>3, <1>5 DEF CallOK, Waits
<1>7. Finished' = Finished /\ k \notin Finished BY <1>1, <1>6 DEF Finished, Inbox
<1> DEFINE kept == index.known \ {k}
<1>8. PICK answer \in {"deleted", "failed"} :
        /\ Tells(c, answer)
        /\ answer = "deleted" => index' = [index EXCEPT !.docs = @ \cap kept, !.known = kept]
        /\ answer = "failed" => index' = [index EXCEPT !.known = kept, !.sound = FALSE]
  BY <1>2 DEF ForgetsTask
<1>9. /\ DOMAIN index' = {"docs", "known", "synced", "sound"} /\ index'.synced = index.synced
      /\ index'.known = kept /\ kept \subseteq index.docs
      /\ answer = "deleted" => index'.docs = kept /\ index'.sound = index.sound
      /\ answer = "failed" => index'.docs = index.docs /\ ~index'.sound
  BY <1>4, <1>8 DEF IndexOK
<1>10. index'.docs \subseteq index.docs /\ index'.known \subseteq index.known BY <1>8, <1>9
<1>11. IndexOK'
  <2>1. index'.known \subseteq index'.docs BY <1>8, <1>9
  <2>2. index'.docs \subseteq ToolTasks /\ \A j \in index'.docs : works'[j].status \in Closed
    BY <1>1, <1>4, <1>10 DEF IndexOK
  <2>3. index'.synced /\ index'.sound => Finished' \subseteq index'.known
    <3>1. index'.synced /\ index'.sound => index.synced /\ index.sound BY <1>8, <1>9
    <3>2. QED BY <1>4, <1>7, <1>9, <3>1 DEF IndexOK
  <2>4. QED BY <1>9, <2>1, <2>2, <2>3 DEF IndexOK
<1>12. DeletedIsPending'
  <2> SUFFICES ASSUME index'.sound, NEW j \in index'.docs, works'[j].place = "deleted"
               PROVE  \E d \in ToolCalls : toolCall'[d].at = "forgetting" /\ toolCall'[d].task = j
    BY DEF DeletedIsPending
  <2>1. answer = "deleted" /\ index.sound /\ j \in kept BY <1>8, <1>9
  <2>2. PICK d \in ToolCalls : toolCall[d].at = "forgetting" /\ toolCall[d].task = j
    BY <1>1, <1>4, <1>10, <2>1 DEF DeletedIsPending
  <2>3. d # c BY <1>2, <2>1, <2>2
  <2>4. toolCall'[d] = toolCall[d] BY <1>4, <1>8, <2>3 DEF Tells
  <2>5. QED BY <2>2, <2>4
<1>13. \A j \in ToolTasks : /\ LaterWork(works[j], works'[j]) /\ WorkOK(works'[j]) /\ WorkOK(works[j])
  BY <1>1, <1>4, SameIsLater
<1>14. ASSUME NEW d \in ToolCalls PROVE CallOK(toolCall[d])'
  <2>1. CASE d # c
    <3>1. PICK z : z = toolCall[d] OBVIOUS
    <3>2. CallOK(z) BY <1>4, <3>1
    <3>3. CallOK(z)' BY <1>1, <1>10, <1>13, <3>2, CallStaysOK
    <3>4. toolCall'[d] = z BY <1>4, <1>8, <2>1, <3>1 DEF Tells
    <3>5. QED BY <3>3, <3>4 DEF CallOK, IsOffered, VersionFor
  <2>2. CASE d = c
    <3>1. PICK y : y = [x EXCEPT !.at = "told", !.told = answer] OBVIOUS
    <3>2. toolCall'[d] = y BY <1>3, <1>4, <1>8, <2>2, <3>1 DEF Tells
    <3>3. DOMAIN y = CallFields /\ y.task = k /\ y.at = "told" /\ y.told = answer /\ y.saw \in Nat
      BY <1>5, <3>1 DEF CallOK, CallFields
    <3>4. k \notin index'.docs \cup index'.known \/ answer = "failed" BY <1>8, <1>9
    <3>5. CallOK(y)' BY <1>1, <1>6, <1>8, <3>3, <3>4 DEF CallOK, OfTask, Waits
    <3>6. QED BY <3>2, <3>5 DEF CallOK, IsOffered, VersionFor
  <2>3. QED BY <2>1, <2>2
<1>15. DOMAIN toolCall' = ToolCalls BY <1>4, <1>8 DEF Tells
<1>16. DOMAIN works' = ToolTasks BY <1>1, <1>4
<1>17. QED BY <1>1, <1>11, <1>12, <1>13, <1>14, <1>15, <1>16 DEF ToolsInv

LEMMA SweepsKeeps ==
  ASSUME ToolsInv, NEW c \in ToolCalls, SweepsInbox(c)
  PROVE  ToolsInv'
<1>1. /\ works' = [k \in ToolTasks |-> IF SweptBy(k) THEN [Leaves(k, "archive") EXCEPT !.swept = TRUE] ELSE works[k]]
      /\ Replies(c, "sweep", NoToolCall.task, "swept") /\ UNCHANGED <<offer, index, toolCounts>>
  BY DEF SweepsInbox
<1>2. ASSUME NEW k \in ToolTasks
      PROVE  /\ LaterWork(works[k], works'[k]) /\ WorkOK(works'[k])
             /\ works'[k] = works[k] \/ works'[k].place = "archive"
  <2>1. WorkOK(works[k]) BY DEF ToolsInv
  <2>2. CASE ~SweptBy(k) BY <1>1, <2>1, <2>2, SameIsLater
  <2>3. CASE SweptBy(k)
    <3>1. k \in Finished /\ ~works[k].unread BY <2>3 DEF SweptBy
    <3>2. PICK s : s = Leaves(k, "archive") OBVIOUS
    <3>3. /\ WorkOK(s) /\ LaterWork(works[k], s) /\ s.place = "archive" /\ s.status = works[k].status
          /\ s.heard = works[k].heard
      BY <2>1, <3>1, <3>2, LeavesIsLater
    <3>4. works[k].heard > 0 BY <2>1, <3>1 DEF WorkOK, Finished, Inbox, Notable
    <3>5. PICK t : t = [s EXCEPT !.swept = TRUE] OBVIOUS
    <3>6. /\ DOMAIN t = WorkFields /\ t.swept /\ t.status = s.status /\ t.place = s.place
          /\ t.notice = s.notice /\ t.heard = s.heard /\ t.unread = s.unread
          /\ t.handed = s.handed /\ t.watched = s.watched
      BY <3>3, <3>5 DEF WorkOK, WorkFields
    <3>7. WorkOK(t) /\ LaterWork(works[k], t) BY <3>3, <3>4, <3>6 DEF WorkOK, LaterWork
    <3>8. works'[k] = t BY <1>1, <2>3, <3>2, <3>5
    <3>9. QED BY <3>3, <3>6, <3>7, <3>8
  <2>4. QED BY <2>2, <2>3
<1>3. DOMAIN works' = ToolTasks BY <1>1
<1>4. Finished' \subseteq Finished BY <1>2 DEF Finished, Inbox
<1>5. IndexOK' BY <1>1, <1>2, <1>4, IndexStaysOK
<1>6. \A k \in index'.docs : works'[k].place = "deleted" => k \in index.docs /\ works[k].place = "deleted"
  BY <1>1, <1>2 DEF ToolsInv, IndexOK
<1>7. WorldOK BY <1>1, <1>2, <1>3, <1>5, <1>6 DEF WorldOK
<1>8. Makes(c, "sweep", NoToolCall.task, "told", "swept") BY <1>1 DEF Replies
<1>9. QED BY <1>7, <1>8, MakesKeeps DEF OfTask, Waits

LEMMA ReadsNoticeKeeps ==
  ASSUME ToolsInv, NEW c \in ToolCalls, NEW k \in ToolTasks, ReadsNotice(c, k)
  PROVE  ToolsInv'
<1>1. UNCHANGED <<offer, works, index, toolCounts>> BY DEF ReadsNotice
<1>2. CASE Replies(c, "acknowledge", k, "failed") BY <1>1, <1>2, RepliesKeeps DEF OfTask
<1>3. CASE k \in Inbox /\ works[k].unread /\ ~Replies(c, "acknowledge", k, "failed")
  <2>1. PICK y : y = [tool |-> "acknowledge", task |-> k, at |-> "acknowledging",
                      saw |-> works[k].notice, told |-> "nothing"]
    OBVIOUS
  <2>2. toolCall' = [toolCall EXCEPT ![c] = y] /\ toolCall[c].at # "forgetting"
    BY <1>3, <2>1 DEF ReadsNotice, Idle, NoToolCall
  <2>3. WorkOK(works[k]) /\ works'[k] = works[k] /\ works[k].place = "inbox"
    BY <1>1, <1>3 DEF ToolsInv, Inbox
  <2>4. DOMAIN y = CallFields /\ y.task = k /\ y.at = "acknowledging" /\ y.told = "nothing"
        /\ y.saw = works[k].notice
    BY <2>1 DEF CallFields
  <2>5. CallOK(y)' BY <1>3, <2>3, <2>4 DEF CallOK, WorkOK, OfTask
  <2>6. WorldOK BY <1>1, WorldStays
  <2>7. QED BY <2>2, <2>5, <2>6, CallMovesOn
<1>4. QED BY <1>2, <1>3 DEF ReadsNotice

LEMMA AcknowledgesKeeps ==
  ASSUME ToolsInv, NEW c \in ToolCalls, Acknowledges(c)
  PROVE  ToolsInv'
<1>1. toolCall[c].at = "acknowledging" /\ offer' = offer BY DEF Acknowledges
<1>2. PICK k : k = toolCall[c].task OBVIOUS
<1>3. PICK saw : saw = toolCall[c].saw OBVIOUS
<1>4. /\ k \in ToolTasks /\ WorkOK(works[k]) /\ saw \in Nat /\ saw > 0 /\ saw <= works[k].notice
  BY <1>1, <1>2, <1>3 DEF ToolsInv, CallOK, Waits
<1>5. CASE Tells(c, "failed") /\ UNCHANGED <<works, index, toolCounts>>
  <2>1. WorldOK BY <1>1, <1>5, WorldStays
  <2>2. QED BY <1>1, <1>5, <2>1, TellsKeeps DEF Waits
<1>6. CASE ~works[k].unread /\ Tells(c, "acknowledged") /\ UNCHANGED <<works, index, toolCounts>>
  <2>1. WorldOK BY <1>1, <1>6, WorldStays
  <2>2. QED BY <1>1, <1>2, <1>3, <1>4, <1>6, <2>1, TellsKeeps DEF Waits
<1>7. CASE /\ k \in Inbox /\ works[k].unread /\ Tells(c, "acknowledged")
           /\ Keeps(k, [works[k] EXCEPT !.unread = FALSE, !.heard = saw])
           /\ FollowsTask(k, works[k].status, toolCounts)
  <2>1. PICK s : s = [works[k] EXCEPT !.unread = FALSE, !.heard = saw] OBVIOUS
  <2>2. /\ DOMAIN s = WorkFields /\ ~s.unread /\ s.heard = saw /\ s.status = works[k].status
        /\ s.place = works[k].place /\ s.notice = works[k].notice /\ s.handed = works[k].handed
        /\ s.watched = works[k].watched /\ s.swept = works[k].swept
    BY <1>4, <2>1 DEF WorkOK, WorkFields
  <2>3. WorkOK(s) /\ LaterWork(works[k], s) BY <1>4, <2>2 DEF WorkOK, LaterWork
  <2>4. works' = [works EXCEPT ![k] = s] /\ s.place = "inbox" BY <1>7, <2>1, <2>2 DEF Keeps, Inbox
  <2>5. works'[k] = s BY <1>4, <2>3, <2>4, OneWorkMoves
  <2>6. PICK status : status = works[k].status OBVIOUS
  <2>7. WorldOK BY <1>1, <1>7, <2>2, <2>3, <2>4, <2>6, WorldFollows
  <2>8. QED BY <1>1, <1>2, <1>3, <1>4, <1>7, <2>2, <2>5, <2>7, TellsKeeps DEF Waits
<1>8. QED BY <1>2, <1>3, <1>5, <1>6, <1>7 DEF Acknowledges

LEMMA DeclinesKeeps ==
  ASSUME ToolsInv, NEW c \in ToolCalls, Declines(c)
  PROVE  ToolsInv'
<1>1. PICK tool \in Tools :
        /\ IsRefused(tool)
        /\ toolCall' = [toolCall EXCEPT ![c].tool = tool, ![c].at = "told", ![c].told = "refused"]
  BY DEF Declines
<1>2. Idle(c) /\ UNCHANGED <<offer, works, index, toolCounts>> BY DEF Declines
<1>3. PICK y : y = [NoToolCall EXCEPT !.tool = tool, !.at = "told", !.told = "refused"] OBVIOUS
<1>4. toolCall' = [toolCall EXCEPT ![c] = y] /\ toolCall[c].at # "forgetting"
  <2>1. toolCall[c] = NoToolCall /\ DOMAIN toolCall = ToolCalls BY <1>2 DEF Idle, ToolsInv
  <2>2. toolCall' = [toolCall EXCEPT ![c] = [@ EXCEPT !.tool = tool, !.at = "told", !.told = "refused"]]
    BY <1>1, <2>1
  <2>3. NoToolCall.at = "idle" BY DEF NoToolCall
  <2>4. QED BY <1>3, <2>1, <2>2, <2>3
<1>5. DOMAIN y = CallFields /\ y.tool = tool /\ y.at = "told" /\ y.told = "refused" /\ y.saw = 0
  BY <1>3 DEF NoToolCall, CallFields
<1>6. ~IsOffered(tool)'
  <2>1. \/ ~(offer.version >= VersionFor(tool))
        \/ tool \in {"watch", "agents"} /\ ~offer.monitor
        \/ tool = "continue" /\ ~(offer.bound /\ offer.chats)
    <3>1. VersionFor(tool) \in Nat BY DEF VersionFor
    <3>2. QED BY <1>1, <3>1 DEF IsRefused, ToolsInv
  <2>2. QED BY <1>2, <2>1 DEF IsOffered
<1>7. CallOK(y)' BY <1>5, <1>6 DEF CallOK, OfTask, Waits
<1>8. WorldOK BY <1>2, WorldStays
<1>9. QED BY <1>4, <1>7, <1>8, CallMovesOn

LEMMA LooksKeeps ==
  ASSUME ToolsInv, NEW c \in ToolCalls, NEW k,
         \/ Reports(c, k) \/ Suggests(c) \/ LooksAtAgents(c) \/ AsksClient(c) \/ Recalls(c)
  PROVE  ToolsInv'
<1>1. UNCHANGED <<offer, works, index, toolCounts>>
  BY DEF Reports, Suggests, LooksAtAgents, AsksClient, Recalls, Nothing
<1>2. \E tool \in Tools, task \in {k, NoToolCall.task}, answer \in {"reported", "failed", "refused"} :
        Replies(c, tool, task, answer) /\ (answer = "refused" => tool = "recall" /\ ~offer.chats)
  BY DEF Reports, Suggests, LooksAtAgents, AsksClient, Recalls, Tools
<1>3. ~offer.chats => ~IsOffered("recall") BY DEF IsOffered
<1>4. QED BY <1>1, <1>2, <1>3, RepliesKeeps DEF OfTask

LEMMA TaskMovesKeeps ==
  ASSUME ToolsInv, NEW k \in ToolTasks, TaskMoves(k)
  PROVE  ToolsInv'
<1>1. /\ k \in Inbox /\ works[k].status \in DOMAIN Follow /\ UNCHANGED <<offer, toolCall>>
  BY DEF TaskMoves
<1>2. PICK status \in Follow[works[k].status] :
        /\ Keeps(k, Entered(works[k], status))
        /\ FollowsTask(k, status, [toolCounts EXCEPT !.moves = @ + 1])
  BY DEF TaskMoves
<1>3. works[k].status \notin Closed /\ status \in {"running", "delegated"} \cup Notable
  BY <1>1, <1>2 DEF Follow, Notable, Closed
<1>4. WorldOK BY <1>1, <1>2, <1>3, EntersOK
<1>5. ASSUME NEW d \in ToolCalls PROVE CallOK(toolCall[d])'
  <2>1. PICK x : x = toolCall[d] OBVIOUS
  <2>2. CallOK(x) /\ \A j \in ToolTasks : WorkOK(works[j]) BY <2>1 DEF ToolsInv
  <2>3. CallOK(x)' BY <1>4, <2>2, CallStaysOK DEF WorldOK
  <2>4. toolCall'[d] = x BY <1>1, <2>1
  <2>5. QED BY <2>3, <2>4 DEF CallOK, IsOffered, VersionFor
<1>6. DeletedIsPending' BY <1>1, <1>4 DEF WorldOK, DeletedIsPending, ToolsInv
<1>7. QED BY <1>1, <1>4, <1>5, <1>6 DEF ToolsInv, WorldOK

LEMMA SynchronisesKeeps ==
  ASSUME ToolsInv, Synchronises
  PROVE  ToolsInv'
<1>1. UNCHANGED <<offer, works, toolCall>> BY DEF Synchronises
<1>2. Finished' = Finished BY <1>1 DEF Finished, Inbox
<1>3. IndexOK /\ DeletedIsPending /\ \A k \in ToolTasks : WorkOK(works[k]) BY DEF ToolsInv
<1>4. \A k \in Finished : k \in ToolTasks /\ works[k].status \in Closed /\ works[k].place = "inbox"
  BY DEF Finished, Inbox
<1>5. /\ IndexOK' /\ index'.docs \cup index'.known \subseteq index.docs \cup index.known \cup Finished
      /\ index'.sound => \A k \in index'.docs : works[k].place = "deleted" => k \in index.docs /\ index.sound
  <2>1. CASE index' = [docs |-> Finished, known |-> Finished, synced |-> TRUE, sound |-> TRUE]
    BY <1>1, <1>2, <1>4, <2>1 DEF IndexOK
  <2>2. CASE index' = index BY <1>1, <1>2, <1>3, <2>2 DEF IndexOK
  <2>3. CASE index' = [index EXCEPT !.docs = @ \cup Finished, !.known = Finished, !.sound = FALSE]
    BY <1>1, <1>2, <1>3, <1>4, <2>3 DEF IndexOK
  <2>4. QED BY <2>1, <2>2, <2>3 DEF Synchronises
<1>6. DeletedIsPending' BY <1>1, <1>3, <1>5 DEF DeletedIsPending
<1>7. ASSUME NEW d \in ToolCalls PROVE CallOK(toolCall[d])'
  <2>1. PICK x : x = toolCall[d] OBVIOUS
  <2>2. CallOK(x) BY <2>1 DEF ToolsInv
  <2>3. \A j \in ToolTasks : LaterWork(works[j], works'[j]) /\ WorkOK(works'[j])
    BY <1>1, <1>3, SameIsLater
  <2>4. \A j \in ToolTasks : works[j].place = "deleted" /\ j \notin index.docs \cup index.known
                             => j \notin index'.docs \cup index'.known
    BY <1>4, <1>5
  <2>5. CallOK(x)' BY <1>1, <1>3, <2>2, <2>3, <2>4, CallStaysOK
  <2>6. toolCall'[d] = x BY <1>1, <2>1
  <2>7. QED BY <2>5, <2>6 DEF CallOK, IsOffered, VersionFor
<1>8. QED BY <1>1, <1>3, <1>5, <1>6, <1>7 DEF ToolsInv

LEMMA ToolsInvNext ==
  ASSUME ToolsInv, [ToolsNext]_toolVars
  PROVE  ToolsInv'
<1>1. CASE UNCHANGED toolVars
  BY <1>1 DEF toolVars, ToolsInv, IndexOK, DeletedIsPending, CallOK, Finished, Inbox, IsOffered
<1>2. ASSUME NEW c \in ToolCalls,
             \/ Declines(c) \/ StopAnswered(c) \/ HandsOver(c) \/ ForgetsTask(c)
             \/ SweepsInbox(c) \/ Acknowledges(c)
      PROVE  ToolsInv'
  BY <1>2, DeclinesKeeps, StopAnsweredKeeps, HandsOverKeeps, ForgetsKeeps, SweepsKeeps, AcknowledgesKeeps
<1>3. ASSUME NEW c \in ToolCalls, NEW k \in ToolTasks,
             \/ StopsWork(c, k) \/ ResolvesTask(c, k) \/ RegistersWatch(c, k) \/ CleansTask(c, k)
             \/ ReadsNotice(c, k) \/ FollowsUp(c, k) \/ Reports(c, k)
      PROVE  ToolsInv'
  BY <1>3, StopsKeeps, ResolvesKeeps, RegistersKeeps, CleansKeeps, ReadsNoticeKeeps, StartKeeps, LooksKeeps
<1>4. ASSUME NEW c \in ToolCalls,
             \/ StartsTask(c) \/ Suggests(c) \/ LooksAtAgents(c) \/ AsksClient(c) \/ Recalls(c)
      PROVE  ToolsInv'
  <2>1. PICK k : k = NoToolCall.task OBVIOUS
  <2>2. QED BY <1>4, StartKeeps, LooksKeeps
<1>5. ASSUME NEW k \in ToolTasks, TaskMoves(k) PROVE ToolsInv' BY <1>5, TaskMovesKeeps
<1>6. QED BY <1>1, <1>2, <1>3, <1>4, <1>5, SynchronisesKeeps DEF ToolsNext

\* What a tool told is so whatever was done to its task since, only what has ended
\* leaves the inbox, the index recalls what has ended, and no tool that is
\* offered is refused (live-gateway-session.ts, the tools of a session).
THEOREM ToolsAlwaysKept == ToolsSpec => []ToolsKept
<1>1. ToolsInv /\ [ToolsNext]_toolVars => ToolsInv' BY ToolsInvNext
<1>2. QED BY <1>1, ToolsInvInit, ToolsInvKept, PTL DEF ToolsSpec

-----------------------------------------------------------------------------
(* The parts together *)

VoiceInv == RequestInv /\ BrainInv /\ RivaInv /\ RealtimeInv

LEMMA VoiceInvInit == EdgeInit => VoiceInv
BY RequestInvInit, BrainInvInit, RivaInvInit, RealtimeInvInit DEF EdgeInit, VoiceInv

\* Every step of the edges is a step of each part, or leaves it as it is.
LEMMA EdgeStep ==
  ASSUME [EdgeNext]_edgeVars
  PROVE  /\ [RequestNext]_requestVars /\ [BrainNext]_brainVars
         /\ [RivaNext]_rivaVars /\ [RealtimeNext]_realtimeVars
         /\ [PageNext]_pageVars /\ [AudioNext]_audioVars
         /\ [TaskViewNext]_taskViewVars \/ ConsoleNext
<1>0. UNCHANGED consoleVars => UNCHANGED taskViewVars BY DEF consoleVars, taskViewVars
<1>1. CASE UNCHANGED edgeVars
  <2>1. UNCHANGED <<voiceVars, netVars>> BY <1>1 DEF edgeVars
  <2>2. UNCHANGED <<realtimeVars, brainVars, pageVars, audioVars, rivaVars, consoleVars, requestVars>>
    BY <2>1 DEF voiceVars, netVars
  <2>3. QED BY <1>0, <2>2
<1>2. CASE VoiceEdges
  <2>1. UNCHANGED requestVars BY <1>2 DEF VoiceEdges, netVars
  <2>2. \/ RealtimeNext /\ UNCHANGED <<brainVars, pageVars, audioVars, rivaVars, consoleVars>>
        \/ BrainNext /\ UNCHANGED <<realtimeVars, pageVars, audioVars, rivaVars, consoleVars>>
        \/ PageNext /\ UNCHANGED <<realtimeVars, brainVars, audioVars, rivaVars, consoleVars>>
        \/ RivaNext /\ UNCHANGED <<realtimeVars, brainVars, pageVars, audioVars, consoleVars>>
        \/ TaskViewNext /\ UNCHANGED <<realtimeVars, brainVars, pageVars, audioVars, rivaVars>>
        \/ ConsoleNext /\ UNCHANGED <<realtimeVars, brainVars, pageVars, audioVars, rivaVars>>
        \/ AudioNext /\ UNCHANGED <<realtimeVars, brainVars, pageVars, rivaVars, consoleVars>>
    BY <1>2 DEF VoiceEdges
  <2>3. QED BY <1>0, <2>1, <2>2
<1>3. CASE ShellEdges
  <2>1. UNCHANGED <<voiceVars, netVars>> BY <1>3 DEF ShellEdges
  <2>2. UNCHANGED <<realtimeVars, brainVars, pageVars, audioVars, rivaVars, consoleVars, requestVars>>
    BY <2>1 DEF voiceVars, netVars
  <2>3. QED BY <1>0, <2>2
<1>4. CASE NetEdges
  <2>1. UNCHANGED voiceVars /\ [RequestNext]_requestVars BY <1>4 DEF NetEdges
  <2>2. UNCHANGED <<realtimeVars, brainVars, pageVars, audioVars, rivaVars, consoleVars>>
    BY <2>1 DEF voiceVars
  <2>3. QED BY <1>0, <2>1, <2>2
<1>5. QED BY <1>1, <1>2, <1>3, <1>4 DEF EdgeNext

LEMMA VoiceInvNext == VoiceInv /\ [EdgeNext]_edgeVars => VoiceInv'
BY EdgeStep, RequestInvNext, BrainInvNext, RivaInvNext, RealtimeInvNext DEF VoiceInv

\* The parts that speak with a provider, with the services or the brain, and a
\* request to Hermes, keep what they promise, in every behaviour of the edges.
THEOREM ProvidersAlwaysKept == EdgeSpec => []ProvidersKept
<1>1. VoiceInv => ProvidersKept
  BY RequestInvKept, BrainInvKept, RivaInvKept, RealtimeInvKept DEF VoiceInv, ProvidersKept
<1>2. QED BY <1>1, VoiceInvInit, VoiceInvNext, PTL DEF EdgeSpec

\* The tasks of the page and of the console are read from one feed; the client
\* of the page stays as it was while a behaviour is about the console.
PartInv ==
  /\ PageInv /\ AudioInv
  /\ part # "console" => ViewInv
  /\ part = "console" => client.view.seq \in Nat

LEMMA PartInvInit == EdgeInit => PartInv
<1> SUFFICES ASSUME EdgeInit PROVE PartInv OBVIOUS
<1>1. PageInv /\ AudioInv /\ ViewInv
  BY PageInitial, AudioInitial, ViewInvInit DEF EdgeInit, ConsoleInit
<1>2. client.view.seq \in Nat BY <1>1 DEF ViewInv, ViewTrue, View
<1>3. QED BY <1>1, <1>2 DEF PartInv

\* A step of the page's view is one of the part "tasks"; in the console the
\* client is left alone.
LEMMA ViewStep ==
  ASSUME [EdgeNext]_edgeVars
  PROVE  /\ part' = part
         /\ part # "console" => [TaskViewNext]_taskViewVars
         /\ part = "console" => client' = client
<1>1. part' = part BY DEF EdgeNext, edgeVars
<1>2. UNCHANGED consoleVars => UNCHANGED taskViewVars /\ client' = client
  BY DEF consoleVars, taskViewVars
<1>3. CASE UNCHANGED edgeVars
  <2>1. UNCHANGED voiceVars BY <1>3 DEF edgeVars
  <2>2. QED BY <1>1, <1>2, <2>1 DEF voiceVars
<1>4. CASE VoiceEdges
  <2>1. UNCHANGED consoleVars \/ (part = "tasks" /\ TaskViewNext) \/ (part = "console" /\ ConsoleNext)
    BY <1>4 DEF VoiceEdges
  <2>2. ConsoleNext => client' = client
    BY DEF ConsoleNext, ConsoleReads, ConsoleAsks, Types, RequestServed, Quits, ConsoleEnds,
      RecordMoves, ReadsRecent, ReadsUnread, SendsHydration
  <2>3. QED BY <1>1, <1>2, <2>1, <2>2
<1>5. CASE ShellEdges \/ NetEdges
  <2>1. UNCHANGED voiceVars BY <1>5 DEF ShellEdges, NetEdges
  <2>2. QED BY <1>1, <1>2, <2>1 DEF voiceVars
<1>6. QED BY <1>1, <1>3, <1>4, <1>5 DEF EdgeNext

LEMMA PartInvNext == PartInv /\ [EdgeNext]_edgeVars => PartInv'
BY EdgeStep, ViewStep, PageInvNext, AudioInvNext, ViewInvNext DEF PartInv

\* The page reconnects and plays as it should in every behaviour of the edges.
THEOREM ConnectionsAlwaysKept == EdgeSpec => [](ReconnectKept /\ AudioKept)
<1>1. PartInv => ReconnectKept /\ AudioKept BY PageInvKept, AudioInvKept DEF PartInv
<1>2. QED BY <1>1, PartInvInit, PartInvNext, PTL DEF EdgeSpec

ClientInv == PresenceInv /\ NarrationInv /\ RelayInv /\ ServiceInv /\ RoutesInv /\ ToolsInv

LEMMA ClientInvInit == EdgeInit => ClientInv
BY PresenceInvInit, NarrationInvInit, RelayInvInit, ServiceInvInit, RoutesInvInit, ToolsInvInit
   DEF EdgeInit, ClientInv

LEMMA ClientStep ==
  ASSUME [EdgeNext]_edgeVars
  PROVE  /\ [PresenceNext]_presenceVars /\ [NarrationNext]_narrationVars
         /\ [RelayNext]_relayVars /\ [ServiceNext]_serviceVars
         /\ [RoutesNext]_routeVars /\ [ToolsNext]_toolVars
<1>1. CASE UNCHANGED edgeVars
  <2>1. UNCHANGED <<shellVars, netVars>> BY <1>1 DEF edgeVars
  <2>2. QED BY <2>1 DEF shellVars, netVars
<1>2. CASE VoiceEdges
  <2>1. UNCHANGED <<shellVars, netVars>> BY <1>2 DEF VoiceEdges
  <2>2. QED BY <2>1 DEF shellVars, netVars
<1>3. CASE ShellEdges
  <2>1. UNCHANGED netVars BY <1>3 DEF ShellEdges
  <2>2. \/ PresenceNext /\ UNCHANGED <<narrationVars, relayVars, serviceVars>>
        \/ NarrationNext /\ UNCHANGED <<presenceVars, relayVars, serviceVars>>
        \/ RelayNext /\ UNCHANGED <<presenceVars, narrationVars, serviceVars>>
        \/ ServiceNext /\ UNCHANGED <<presenceVars, narrationVars, relayVars>>
    BY <1>3 DEF ShellEdges
  <2>3. QED BY <2>1, <2>2 DEF netVars
<1>4. CASE NetEdges
  <2>1. UNCHANGED shellVars BY <1>4 DEF NetEdges
  <2>2. \/ UNCHANGED <<routeVars, toolVars>>
        \/ RoutesNext /\ UNCHANGED toolVars
        \/ ToolsNext /\ UNCHANGED routeVars
    BY <1>4 DEF NetEdges
  <2>3. QED BY <2>1, <2>2 DEF shellVars
<1>5. QED BY <1>1, <1>2, <1>3, <1>4 DEF EdgeNext

LEMMA ClientInvNext == ClientInv /\ [EdgeNext]_edgeVars => ClientInv'
BY ClientStep, PresenceInvNext, NarrationInvNext, RelayInvNext, ServiceInvNext, RoutesInvNext,
   ToolsInvNext DEF ClientInv

\* In every behaviour of the edges the page's face and its task log, the bridge of
\* the dashboard, the commands of the service (but for an ignored bootout), the
\* routes and the tools keep what they promise.
THEOREM ClientsAlwaysKept == EdgeSpec => [](part \notin {"console", "tasks"} => ClientsKept)
<1>1. ClientInv => (part \notin {"console", "tasks"} => ClientsKept)
  BY PresenceInvKept, NarrationInvKept, RelayInvKept, ServiceInvKept, RoutesInvKept, ToolsInvKept
     DEF ClientInv, ClientsKept
<1>2. QED BY <1>1, ClientInvInit, ClientInvNext, PTL DEF EdgeSpec

\* Nor does any of these behaviours have a call reported that was cut off, or a
\* view of a task that goes back.
THEOREM EdgesGoOn == EdgeSpec => CutOffIsSilent /\ NeverBack
<1>1. VoiceInv /\ [EdgeNext]_edgeVars
        => [\A id \in reported' \ reported : id \notin ended]_realtimeVars
  BY EdgeStep, ReportedIsLive DEF VoiceInv
<1>2. EdgeSpec => CutOffIsSilent
  BY <1>1, VoiceInvInit, VoiceInvNext, PTL DEF EdgeSpec, CutOffIsSilent
<1> DEFINE Further == client.up /\ client'.up /\ Known(client) /\ Known(client') /\ ~client.hydrate
                   => /\ client'.view.seq >= client.view.seq
                      /\ client.view.state \in Final => client'.view.state = client.view.state
<1>3. PartInv /\ [EdgeNext]_edgeVars => [Further]_taskViewVars
  <2> SUFFICES ASSUME PartInv, [EdgeNext]_edgeVars PROVE Further OBVIOUS
  <2>1. CASE part # "console" BY <2>1, ViewStep, ViewInvNext DEF PartInv, Onward
  <2>2. CASE part = "console" BY <2>2, ViewStep DEF PartInv
  <2>3. QED BY <2>1, <2>2
<1>4. EdgeSpec => [][Further]_taskViewVars
  BY <1>3, PartInvInit, PartInvNext, PTL DEF EdgeSpec
<1>5. QED BY <1>2, <1>4 DEF NeverBack
=============================================================================
