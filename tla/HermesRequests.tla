---------------------------- MODULE HermesRequests ----------------------------
(***************************************************************************)
(* A request of the gateway to Hermes about a run, from its deadline to    *)
(* what its caller may conclude (hermes-runs.client.ts, sse.ts), and the   *)
(* repetition of a start that was refused (the supervisor's dispatch).     *)
(* Hermes and the network are external: a request may be handled without   *)
(* its answer arriving, and an answer may come from something in between.  *)
(***************************************************************************)
EXTENDS Naturals

CONSTANTS
  MaxBytes,     \* the size of a body, or of an event, that is still read
  MaxStarts,    \* bounds: sendings of the start,
  MaxParts      \* what arrives of a stream

ASSUME BytesAssumption == MaxBytes \in Nat

Kinds == {"start", "status", "stop", "approval", "events"}

VARIABLES
  exchange,  \* the request: its point, its deadline, its listener at the
             \* caller's signal, its reader, what it read and how it ended
  reply,     \* what answers it: a class of status, the code and size of the
             \* body, and whether it is about the run that was asked for
  upstream     \* the runs that were started for it, and whether a stop was taken

requestVars == <<exchange, reply, upstream>>

NoReply == [status |-> "none", coded |-> FALSE, size |-> 0, declared |-> FALSE, shape |-> "good"]
RequestInit ==
  /\ exchange \in [kind : Kinds, at : {"idle"}, timer : {FALSE}, listening : {FALSE},
                   reading : {FALSE}, aborted : BOOLEAN, bytes : {0},
                   outcome : {"none"}, sends : {0}, parts : {0}]
  /\ reply = NoReply
  /\ upstream = [runs |-> 0, stopping |-> FALSE]

(* How a request ends *)

\* What the caller is told by the status of an answer (HermesRequestError, and
\* the supervisor's readings of it).
Told(status, coded) ==
  CASE status = "refused" -> "refused"
    [] status = "busy" /\ coded -> "retryable"
    [] OTHER -> "unclear"

\* The finally blocks: deadline and listener go, and the reader is cancelled.
RequestOver(e, outcome) ==
  exchange' = [e EXCEPT !.at = "over", !.timer = FALSE, !.listening = FALSE,
                        !.reading = FALSE, !.outcome = outcome]

\* An error where the request stands.  An error body that cannot be read leaves
\* the status without a code.
RequestFails(e) ==
  RequestOver(e, IF exchange.at = "error body" THEN Told(reply.status, FALSE) ELSE "unclear")

(* The exchange *)

\* A caller that has aborted sends nothing.
SendsRequest ==
  /\ exchange.at = "idle" /\ exchange.sends < MaxStarts
  /\ IF exchange.aborted THEN RequestOver(exchange, "unclear")
     ELSE exchange' = [exchange EXCEPT !.at = "sent", !.timer = TRUE, !.listening = TRUE,
                                       !.sends = @ + 1]
  /\ reply' = IF exchange.aborted THEN reply ELSE NoReply
  /\ UNCHANGED upstream

\* Hermes refuses what it does not do; where it does, or what is between fails,
\* the answer may be any that does not deny it.  It may be too late for it.
HermesHandles ==
  /\ exchange.at \in {"sent", "over"} /\ exchange.sends > 0 /\ reply.status = "none"
  /\ \E taken \in BOOLEAN, coded \in BOOLEAN, declared \in BOOLEAN, size \in 0..MaxBytes + 1 :
       /\ \E status \in {"ok", "refused", "busy", "failed"}, shape \in {"good", "foreign", "broken"} :
            /\ taken => status # "refused" /\ ~coded
            /\ status = "ok" => (taken \/ shape # "good") /\ ~coded
            /\ status # "ok" => shape = "good"
            /\ reply' = [status |-> status, coded |-> coded, size |-> size,
                         declared |-> declared, shape |-> shape]
       /\ upstream' = [runs |-> IF taken /\ exchange.kind = "start" THEN upstream.runs + 1 ELSE upstream.runs,
                     stopping |-> upstream.stopping \/ (taken /\ exchange.kind = "stop")]
  /\ UNCHANGED exchange

\* The header arrives; a stream is no longer under the deadline.
BeginsReading(e, at) ==
  IF reply.declared /\ reply.size > MaxBytes /\ at # "streaming"
  THEN IF at = "body" THEN RequestOver(e, "unclear") ELSE RequestOver(e, Told(reply.status, FALSE))
  ELSE exchange' = [e EXCEPT !.at = at, !.reading = TRUE]

HeaderArrives ==
  /\ exchange.at = "sent" /\ reply.status # "none"
  /\ IF reply.status # "ok" THEN BeginsReading(exchange, "error body")
     ELSE IF exchange.kind = "events" THEN BeginsReading([exchange EXCEPT !.timer = FALSE], "streaming")
     ELSE BeginsReading(exchange, "body")
  /\ UNCHANGED <<reply, upstream>>

\* readBoundedResponseText
PartArrives ==
  /\ exchange.at \in {"body", "error body"} /\ exchange.bytes < reply.size
  /\ IF exchange.bytes = MaxBytes THEN RequestFails(exchange)
     ELSE exchange' = [exchange EXCEPT !.bytes = @ + 1]
  /\ UNCHANGED <<reply, upstream>>

\* An approval is not looked into.
Fits == reply.shape = "good" \/ (exchange.kind = "approval" /\ reply.shape = "foreign")

BodyEnds ==
  /\ exchange.at \in {"body", "error body"} /\ exchange.bytes = reply.size
  /\ RequestOver(exchange, IF exchange.at = "error body" THEN Told(reply.status, reply.coded)
                    ELSE IF Fits THEN "answered" ELSE "unclear")
  /\ UNCHANGED <<reply, upstream>>

\* Part of an event, or its end; one that is too large ends the stream.
StreamGoesOn ==
  /\ exchange.at = "streaming" /\ exchange.parts < MaxParts
  /\ \/ exchange' = [exchange EXCEPT !.bytes = 0, !.parts = @ + 1]
     \/ IF exchange.bytes = MaxBytes THEN RequestOver(exchange, "unclear")
        ELSE exchange' = [exchange EXCEPT !.bytes = @ + 1, !.parts = @ + 1]
  /\ UNCHANGED <<reply, upstream>>

\* The stream ends, or its reader goes.
StreamEnds ==
  /\ exchange.at = "streaming" /\ RequestOver(exchange, "answered")
  /\ UNCHANGED <<reply, upstream>>

\* The network fails, or nothing comes on a stream for too long.
ConnectionBreaks ==
  /\ exchange.at \in {"sent", "body", "error body", "streaming"} /\ RequestFails(exchange)
  /\ UNCHANGED <<reply, upstream>>

\* It hides the error of an answer that was being read.
DeadlinePasses ==
  /\ exchange.timer /\ RequestOver(exchange, "unclear")
  /\ UNCHANGED <<reply, upstream>>

CallerAborts ==
  /\ ~exchange.aborted /\ exchange.at # "over"
  /\ IF exchange.listening THEN RequestFails([exchange EXCEPT !.aborted = TRUE])
     ELSE exchange' = [exchange EXCEPT !.aborted = TRUE]
  /\ UNCHANGED <<reply, upstream>>

\* The supervisor sends a start again that was refused before its admission.
RepeatsStart ==
  /\ exchange.kind = "start" /\ exchange.at = "over"
  /\ exchange.outcome = "retryable"
  /\ exchange' = [exchange EXCEPT !.at = "idle", !.outcome = "none", !.bytes = 0]
  /\ UNCHANGED <<reply, upstream>>

RequestNext ==
  \/ SendsRequest \/ HermesHandles \/ HeaderArrives \/ PartArrives \/ BodyEnds
  \/ StreamGoesOn \/ StreamEnds \/ ConnectionBreaks \/ DeadlinePasses \/ CallerAborts
  \/ RepeatsStart

RequestSpec == RequestInit /\ [][RequestNext]_requestVars

-----------------------------------------------------------------------------
\* What a caller may conclude from an error is so: a start it calls refused
\* started nothing, so repeating it starts one run at most; an answer is about
\* the run it asked for, and a stop that was confirmed was taken
\* (hermes-runs.client.ts:643-644, "cannot prove a safe POST rejection").
ConclusionsHold ==
  /\ upstream.runs <= 1
  /\ exchange.kind = "start" /\ exchange.outcome \in {"refused", "retryable"} => upstream.runs = 0
  /\ exchange.kind \notin {"approval", "events"} /\ exchange.outcome = "answered" =>
       reply.shape = "good"
  /\ exchange.kind = "stop" /\ exchange.outcome = "answered" => upstream.stopping

\* However a request ends, it leaves no timer, no listener at the caller's
\* signal and no open body behind; it holds no more of an answer than it may,
\* and the deadline of a request does not cut a stream.
NothingIsLeft ==
  /\ exchange.at = "over" => ~(exchange.timer \/ exchange.listening \/ exchange.reading)
  /\ exchange.bytes <= MaxBytes
  /\ exchange.at = "streaming" => ~exchange.timer /\ exchange.listening

\* A request to Hermes ends, cleans up and says no more than it knows.
RequestsKept == ConclusionsHold /\ NothingIsLeft
=============================================================================
