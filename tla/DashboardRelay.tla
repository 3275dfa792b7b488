---------------------------- MODULE DashboardRelay ----------------------------
(***************************************************************************)
(* The dashboard plugin between a browser and the gateway                  *)
(* (plugins/hermes-live/dashboard/plugin_api.py): the checks before the    *)
(* connection, the two tasks that relay messages, how the relay ends, and  *)
(* the status it puts together from three requests.  A message is its      *)
(* number, an invalid one is 0; browser, gateway and network are external. *)
(***************************************************************************)
EXTENDS Naturals, Sequences

CONSTANTS
  MaxRelayed,     \* bounds: messages of each side,
  MaxHostChanges  \* changes of what answers at the gateway's address

Sides == {"browser", "gateway"}
Other(side) == IF side = "browser" THEN "gateway" ELSE "browser"
Paths == {"health", "capabilities", "ready"}

VARIABLES
  relay,  \* the handler: its point, close code, session.error it sent, and how
          \* many messages the browser had when it ended
  relays, \* the task that reads from each side: its state, and what ended it
  peer,   \* each side: open, clean or broken; what it sent, how much of it
          \* the relay took, and what it received
  host,   \* what answers at the gateway's address, and its changes so far
  probe   \* the answers of a status request, and the error it reports

relayVars == <<relay, relays, peer, host, probe>>

RelayInit ==
  /\ relay = [at |-> "arrived", code |-> 0, error |-> "none", had |-> 0]
  /\ relays = [s \in Sides |-> [state |-> "none", cause |-> "none"]]
  /\ peer = [s \in Sides |-> [link |-> IF s = "browser" THEN "open" ELSE "none",
                             sent |-> <<>>, taken |-> 0, got |-> <<>>]]
  /\ host = [is |-> "ready", changes |-> 0]
  /\ probe = [at |-> "idle", answers |-> [p \in Paths |-> "none"], error |-> "none",
              since |-> 0]

relayOnly == <<host, probe>>

(* Before the relay *)

Ended(code, error) ==
  relay' = [at |-> "closed", code |-> code, error |-> error, had |-> Len(peer["browser"].got)]

Rejected ==
  /\ relay.at = "arrived" /\ probe.at = "idle"
  /\ \E code \in {4401, 4403} : Ended(code, "none")
  /\ UNCHANGED <<relays, peer, relayOnly>>

Accepted ==
  /\ relay.at = "arrived" /\ probe.at = "idle"
  /\ relay' = [relay EXCEPT !.at = "connecting"]
  /\ UNCHANGED <<relays, peer, relayOnly>>

\* The configuration cannot be used, or the gateway does not answer.
NoGateway ==
  /\ relay.at = "connecting"
  /\ Ended(1013, "gateway_unavailable")
  /\ UNCHANGED <<relays, peer, relayOnly>>

GatewayAnswers ==
  /\ relay.at = "connecting"
  /\ relay' = [relay EXCEPT !.at = "relaying"]
  /\ relays' = [s \in Sides |-> [state |-> "reading", cause |-> "none"]]
  /\ peer' = [peer EXCEPT !["gateway"].link = "open"]
  /\ UNCHANGED relayOnly

(* The two sides *)

PeerSends(s) ==
  /\ relay.at \in {"connecting", "relaying"} /\ peer[s].link = "open"
  /\ Len(peer[s].sent) < MaxRelayed
  /\ \E m \in {0, Len(peer[s].sent) + 1} : peer' = [peer EXCEPT ![s].sent = Append(@, m)]
  /\ UNCHANGED <<relay, relays, relayOnly>>

PeerLeaves(s) ==
  /\ relay.at = "relaying" /\ peer[s].link = "open"
  /\ \E how \in {"clean", "broken"} : peer' = [peer EXCEPT ![s].link = how]
  /\ UNCHANGED <<relay, relays, relayOnly>>

(* The relay tasks *)

RelayOver(s, cause) == relays' = [relays EXCEPT ![s] = [state |-> "over", cause |-> cause]]
Reading(s) == relay.at = "relaying" /\ relays[s].state = "reading"

TakesMessage(s) ==
  /\ Reading(s) /\ peer[s].taken < Len(peer[s].sent)
  /\ IF peer[s].sent[peer[s].taken + 1] = 0 THEN RelayOver(s, "protocol")
     ELSE relays' = [relays EXCEPT ![s].state = "holding"]
  /\ peer' = [peer EXCEPT ![s].taken = @ + 1]
  /\ UNCHANGED <<relay, relayOnly>>

\* A browser that left raises WebSocketDisconnect or another error.
PassesMessage(s) ==
  /\ relay.at = "relaying" /\ relays[s].state = "holding"
  /\ IF peer[Other(s)].link = "open"
     THEN /\ relays' = [relays EXCEPT ![s].state = "reading"]
          /\ peer' = [peer EXCEPT ![Other(s)].got = Append(@, peer[s].sent[peer[s].taken])]
     ELSE /\ \E cause \in (IF s = "gateway" THEN {"left", "failed"} ELSE {"failed"}) :
               RelayOver(s, cause)
          /\ UNCHANGED peer
  /\ UNCHANGED <<relay, relayOnly>>

\* What was sent before the end is read first.
SeesEnd(s) ==
  /\ Reading(s) /\ peer[s].link # "open" /\ peer[s].taken = Len(peer[s].sent)
  /\ RelayOver(s, IF s = "gateway" /\ peer[s].link = "broken" THEN "failed" ELSE "none")
  /\ UNCHANGED <<relay, peer, relayOnly>>

\* live_websocket: how the cause is told and which code closes the socket.
CloseCode(s, cause) ==
  CASE cause = "none" -> <<1000, "none">>
    [] cause = "left" -> <<0, "none">>
    [] cause = "failed" -> <<1013, "gateway_unavailable">>
    [] OTHER -> IF s = "browser" THEN <<1008, "invalid_message">>
                ELSE <<1011, "gateway_protocol_error">>

\* The first task that is over ends the relay, an exception of either before a
\* normal end; the other one is cancelled, with the message it may hold.
BridgeEnds ==
  /\ relay.at = "relaying"
  /\ \E s \in Sides :
       /\ relays[s].state = "over"
       /\ relays[s].cause = "none" => relays[Other(s)].state # "over" \/ relays[Other(s)].cause = "none"
       /\ Ended(CloseCode(s, relays[s].cause)[1], CloseCode(s, relays[s].cause)[2])
       /\ relays' = [r \in Sides |-> [relays[r] EXCEPT !.state = "over"]]
  /\ peer' = [r \in Sides |-> [peer[r] EXCEPT !.link = IF @ = "open" THEN "clean" ELSE @]]
  /\ UNCHANGED relayOnly

(* The status request *)

HostChanges ==
  /\ probe.at = "asking" /\ host.changes < MaxHostChanges
  /\ \E h \in {"down", "foreign", "locked", "starting", "ready"} \ {host.is} :
       host' = [is |-> h, changes |-> host.changes + 1]
  /\ UNCHANGED <<relay, relays, peer, probe>>

StatusAsked ==
  /\ relay.at = "arrived" /\ probe.at = "idle"
  /\ \E h \in {"down", "foreign", "locked", "starting", "ready"} : host' = [host EXCEPT !.is = h]
  /\ probe' = [probe EXCEPT !.at = "asking", !.since = host.changes]
  /\ UNCHANGED <<relay, relays, peer>>

\* _fetch_json, and what the checks make of the answer.
ProbeAnswer(p, h) ==
  CASE h \in {"down", "foreign"} -> h
    [] h = "locked" -> IF p = "health" THEN "own" ELSE "denied"
    [] h = "starting" -> IF p = "ready" THEN "not_ready" ELSE "own"
    [] OTHER -> "own"

ProbeAnswered(p) ==
  /\ probe.at = "asking" /\ probe.answers[p] = "none"
  /\ probe' = [probe EXCEPT !.answers[p] = ProbeAnswer(p, host.is)]
  /\ UNCHANGED <<relay, relays, peer, host>>

StatusError(a) ==
  CASE \A p \in Paths : a[p] = "down" -> "gateway_unreachable"
    [] OTHER ->
       IF a["health"] = "foreign" THEN "wrong_gateway_service"
       ELSE IF "denied" \in {a["capabilities"], a["ready"]} THEN "gateway_auth_failed"
       ELSE IF a["capabilities"] # "own" THEN "capabilities_unavailable"
       ELSE IF a["ready"] # "own" THEN "gateway_not_ready"
       ELSE "no_error"

StatusReported ==
  /\ probe.at = "asking" /\ \A p \in Paths : probe.answers[p] # "none"
  /\ probe' = [probe EXCEPT !.at = "reported", !.error = StatusError(probe.answers)]
  /\ UNCHANGED <<relay, relays, peer, host>>

RelayNext ==
  \/ Rejected \/ Accepted \/ NoGateway \/ GatewayAnswers \/ BridgeEnds
  \/ \E s \in Sides : PeerSends(s) \/ PeerLeaves(s) \/ TakesMessage(s) \/ PassesMessage(s) \/ SeesEnd(s)
  \/ StatusAsked \/ HostChanges \/ StatusReported \/ \E p \in Paths : ProbeAnswered(p)

RelaySpec == RelayInit /\ [][RelayNext]_relayVars

-----------------------------------------------------------------------------
\* Each side receives a beginning of what the other sent, in order, and
\* nothing at or after an invalid message.
RelayedInOrder ==
  \A s \in Sides :
    LET got == peer[Other(s)].got
    IN  got = SubSeq(peer[s].sent, 1, Len(got)) /\ \A i \in 1..Len(got) : got[i] # 0

\* The close code names the side that is to blame, and nothing reaches the
\* browser after the relay told it why it ends.
EndIsTold ==
  /\ relay.code = 1008 => 0 \in {peer["browser"].sent[i] : i \in 1..peer["browser"].taken}
  /\ relay.code = 1011 => 0 \in {peer["gateway"].sent[i] : i \in 1..peer["gateway"].taken}
  /\ relay.code = 1000 => relay.error = "none"
  /\ relay.at = "closed" => Len(peer["browser"].got) = relay.had

\* While the same thing answers all three requests, the status names it.
StatusNamesHost ==
  probe.at = "reported" /\ host.changes = probe.since =>
    probe.error = CASE host.is = "down" -> "gateway_unreachable"
                    [] host.is = "foreign" -> "wrong_gateway_service"
                    [] host.is = "locked" -> "gateway_auth_failed"
                    [] host.is = "starting" -> "gateway_not_ready"
                    [] OTHER -> "no_error"

\* The dashboard's bridge passes on what it is given and says why it ends.
RelayKept == RelayedInOrder /\ EndIsTold /\ StatusNamesHost
=============================================================================
