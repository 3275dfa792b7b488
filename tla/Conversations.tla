---------------------------- MODULE Conversations ----------------------------
(***************************************************************************)
(* The conversations at Hermes that voice sessions of one owner speak in:  *)
(* how a session finds its thread, how its turns and recalls queue behind  *)
(* each other, and how each is asked, by a stream and then by a blocking   *)
(* chat.  Hermes compresses a thread by moving it to a new one.  A request *)
(* that fails here may have been carried out there.                        *)
(***************************************************************************)
EXTENDS Integers, FiniteSets, Sequences

CONSTANTS
  Devices,                           \* voice sessions of the owner
  Requests,                          \* tool calls that go to a conversation
  NoRequest,
  MaxThreads, MaxTroubles, MaxMoves  \* bounds

ASSUME ConversationAssumption ==
  /\ IsFiniteSet(Devices) /\ IsFiniteSet(Requests) /\ NoRequest \notin Requests
  /\ {MaxThreads, MaxTroubles, MaxMoves} \subseteq Nat

VARIABLES
  chats,    \* Hermes: the sessions, their title, model and where they moved to
  turns,    \* Hermes: what was done in them, in order
  hermes,   \* the one HermesClient of the gateway, and the setting asyncTools
  device,   \* a live session's conversation, and how many operations it accepted
  request,  \* where every tool call is
  trouble   \* faults and moves so far

conversationVars == <<chats, turns, hermes, device, request, trouble>>

NoThread == 0
NoTurn == 0
NewRequest == [at |-> "none", kind |-> "conversation", device |-> CHOOSE d \in Devices : TRUE,
            number |-> 0, thread |-> NoThread, by |-> "stream", turn |-> NoTurn,
            heard |-> NoTurn, told |-> FALSE]

\* The thread an earlier session left may be on Hermes's virtual model.
ConversationInit ==
  /\ chats \in {<<>>} \cup
       {<<[title |-> "voice", model |-> m, tip |-> 1]>> : m \in {"real", "virtual"}}
  /\ turns = <<>>
  /\ hermes \in [deferring : BOOLEAN, ready : {{}}]
  /\ device = [d \in Devices |-> [at |-> "off", mode |-> "unbound", thread |-> NoThread,
                                  recall |-> NoThread, accepted |-> 0]]
  /\ request = [c \in Requests |-> NewRequest]
  /\ trouble = [faults |-> 0, moves |-> 0]

(* Hermes *)

Trouble == trouble.faults < MaxTroubles /\ trouble' = [trouble EXCEPT !.faults = @ + 1]

Titled(title) == {t \in DOMAIN chats : chats[t].title = title}
LastActive(t) ==
  LET used == {i \in DOMAIN turns : turns[i].thread = t}
  IN  IF used = {} THEN 0 ELSE CHOOSE i \in used : \A j \in used : j <= i

\* findSessionIdByTitle, of a list that arrived.
Newest(title) ==
  CHOOSE t \in Titled(title) : \A o \in Titled(title) : LastActive(o) <= LastActive(t)

\* Mutant: a new thread is taken to be on the model that was asked for.
TrustsModel(model) == hermes.ready \cup {Len(chats) + 1}
ReadyAfter(model) ==
  IF model = "real" THEN hermes.ready \cup {Len(chats) + 1} ELSE hermes.ready

\* createSession; an older Hermes may leave the thread on its virtual model.
Creates(title) ==
  /\ Len(chats) < MaxThreads
  /\ \E model \in {"real", "virtual"} :
       /\ chats' = Append(chats, [title |-> title, model |-> model, tip |-> Len(chats) + 1])
       /\ hermes' = [hermes EXCEPT !.ready = ReadyAfter(model)]
  /\ turns' = Append(turns, [call |-> NoRequest, thread |-> Len(chats) + 1, at |-> "over",
                             reply |-> Len(chats) + 1])

\* The agent ends a turn, and Hermes may move the thread as it does.
TurnEnds(i) ==
  LET t == turns[i].thread IN
  /\ turns[i].at = "running"
  /\ \/ /\ turns' = [turns EXCEPT ![i].at = "over"]
        /\ UNCHANGED <<chats, trouble>>
     \/ /\ turns' = [turns EXCEPT ![i].at = "failed"]
        /\ Trouble /\ UNCHANGED chats
     \/ /\ trouble.moves < MaxMoves /\ Len(chats) < MaxThreads
        /\ chats[t].tip = t
        /\ chats' = Append([u \in DOMAIN chats |->
                                IF chats[u].tip = t THEN [chats[u] EXCEPT !.tip = Len(chats) + 1]
                                ELSE chats[u]],
                             [title |-> "moved", model |-> chats[t].model, tip |-> Len(chats) + 1])
        /\ turns' = [turns EXCEPT ![i].at = "over", ![i].reply = Len(chats) + 1]
        /\ trouble' = [trouble EXCEPT !.moves = @ + 1]
  /\ UNCHANGED <<hermes, device, request>>

(* Opening a session *)

Opens(d) ==
  /\ device[d].at = "off"
  /\ \E mode \in {"unbound", "new", "persistent", "resume"} :
       device' = [device EXCEPT ![d].at = IF mode = "unbound" THEN "open" ELSE "checking",
                                ![d].mode = mode]
  /\ UNCHANGED <<chats, turns, hermes, request, trouble>>

\* assertSessionsSupported.
Supported(d) ==
  /\ device[d].at = "checking"
  /\ \/ /\ device' = [device EXCEPT ![d].at =
               CASE device[d].mode = "new" -> "creating"
                 [] device[d].mode = "persistent" -> "listing"
                 [] OTHER -> "resuming"]
        /\ UNCHANGED trouble
     \/ /\ Trouble
        /\ device' = IF device[d].mode = "persistent"
                     THEN [device EXCEPT ![d].at = "open", ![d].mode = "unbound"]
                     ELSE [device EXCEPT ![d].at = "failed"]
  /\ UNCHANGED <<chats, turns, hermes, request>>

\* A list that failed is as good as one without the thread.
Lists(d) ==
  /\ device[d].at = "listing"
  /\ \/ /\ device' = IF Titled("voice") = {} THEN [device EXCEPT ![d].at = "creating"]
                     ELSE [device EXCEPT ![d].at = "resuming", ![d].thread = Newest("voice")]
        /\ UNCHANGED trouble
     \/ Trouble /\ device' = [device EXCEPT ![d].at = "creating"]
  /\ UNCHANGED <<chats, turns, hermes, request>>

\* The history names the thread to write to.  A voice thread that cannot be
\* read is replaced, a thread the user chose is not.
Resumes(d) ==
  /\ device[d].at = "resuming"
  /\ \/ \E t \in (IF device[d].mode = "persistent" THEN {device[d].thread} ELSE DOMAIN chats) :
          /\ device' = [device EXCEPT ![d].at = "open", ![d].thread = chats[t].tip]
          /\ UNCHANGED trouble
     \/ /\ Trouble
        /\ device' = [device EXCEPT ![d].thread = NoThread,
                        ![d].at = IF @ = "resuming" /\ device[d].mode = "persistent"
                                  THEN "creating" ELSE "failed"]
  /\ UNCHANGED <<chats, turns, hermes, request>>

MakesThread(d) ==
  /\ device[d].at = "creating"
  /\ \/ /\ Creates(IF device[d].mode = "persistent" THEN "voice" ELSE "own")
        /\ device' = [device EXCEPT ![d].at = "open", ![d].thread = Len(chats')]
        /\ UNCHANGED trouble
     \/ /\ Trouble /\ device' = [device EXCEPT ![d].at = "failed"]
        /\ UNCHANGED <<chats, turns, hermes>>
  /\ UNCHANGED request

\* close(): its signal ends every request of the session.
DeviceCloses(d) ==
  /\ device[d].at = "open"
  /\ device' = [device EXCEPT ![d].at = "closed"]
  /\ request' = [c \in Requests |-> IF request[c].device = d /\ request[c].at \notin {"none", "done"}
                              THEN [request[c] EXCEPT !.at = "dropped"] ELSE request[c]]
  /\ UNCHANGED <<chats, turns, hermes, trouble>>

(* A tool call *)

\* A deferred turn takes its thread with it, a recall and a turn that is
\* waited for look when their turn has come.
Asked(c, d, kind) ==
  /\ request[c].at = "none" /\ device[d].at = "open"
  /\ kind = "conversation" => device[d].thread # NoThread
  /\ request' = [request EXCEPT ![c] = [NewRequest EXCEPT !.at = "queued", !.kind = kind, !.device = d,
                !.number = device[d].accepted,
                !.by = IF hermes.deferring THEN "stream" ELSE "chat",
                !.thread = IF hermes.deferring /\ kind = "conversation"
                           THEN device[d].thread ELSE NoThread]]
  /\ device' = [device EXCEPT ![d].accepted = @ + 1]
  /\ UNCHANGED <<chats, turns, hermes, trouble>>

\* The operations a session has accepted whose tool calls have no result yet.
Chain(d) ==
  {c \in Requests : request[c].device = d /\ ~request[c].told
                 /\ request[c].at \notin {"none", "dropped"}}

\* Mutant: an operation does not wait for the one before.
WaitsForNone(c) == request[c].at = "queued"
MayBegin(c) ==
  /\ request[c].at = "queued"
  /\ \A o \in Chain(request[c].device) : request[c].number <= request[o].number

RequestBegins(c) ==
  LET d == request[c].device
  IN  /\ MayBegin(c)
      /\ request' = [request EXCEPT
           ![c].at = IF request[c].kind = "recall" /\ device[d].recall = NoThread
                     THEN "finding" ELSE "readying",
           ![c].thread = IF request[c].kind = "recall" THEN device[d].recall
                         ELSE IF @ = NoThread THEN device[d].thread ELSE @]
      /\ UNCHANGED <<chats, turns, hermes, device, trouble>>

\* recallSession: found by its title, or made.
FindsRecall(c) ==
  LET d == request[c].device
  IN  /\ request[c].at = "finding"
      /\ \/ /\ Titled("recall") # {}
            /\ request' = [request EXCEPT ![c].at = "readying", ![c].thread = Newest("recall")]
            /\ device' = [device EXCEPT ![d].recall = Newest("recall")]
            /\ UNCHANGED trouble
         \/ /\ \/ Titled("recall") = {} /\ UNCHANGED trouble
               \/ Trouble
            /\ request' = [request EXCEPT ![c].at = "making"] /\ UNCHANGED device
      /\ UNCHANGED <<chats, turns, hermes>>
MakesRecall(c) ==
  /\ request[c].at = "making"
  /\ \/ /\ Creates("recall")
        /\ request' = [request EXCEPT ![c].at = "readying", ![c].thread = Len(chats')]
        /\ device' = [device EXCEPT ![request[c].device].recall = Len(chats')]
        /\ UNCHANGED trouble
     \/ /\ Trouble
        /\ request' = [request EXCEPT ![c].at = "done", ![c].told = TRUE]
        /\ UNCHANGED <<chats, turns, hermes, device>>

\* A request of the call failed: a stream is tried again as a chat, a chat is
\* excused, and the next operation may begin.
RequestFails(c) ==
  request' = IF request[c].by = "stream"
             THEN [request EXCEPT ![c].at = "readying", ![c].by = "chat", ![c].turn = NoTurn]
             ELSE [request EXCEPT ![c].at = "done", ![c].turn = NoTurn, ![c].told = TRUE]

\* ensureSessionModelReady.
Readies(c) ==
  /\ request[c].at = "readying"
  /\ \/ /\ request[c].thread \in hermes.ready
        /\ request' = [request EXCEPT ![c].at = "asking"]
        /\ UNCHANGED <<hermes, trouble>>
     \/ /\ request[c].thread \notin hermes.ready
        /\ IF chats[request[c].thread].model = "virtual"
           THEN request' = [request EXCEPT ![c].at = "locking"] /\ UNCHANGED hermes
           ELSE /\ request' = [request EXCEPT ![c].at = "asking"]
                /\ hermes' = [hermes EXCEPT !.ready = @ \cup {request[c].thread}]
        /\ UNCHANGED trouble
     \/ /\ request[c].thread \notin hermes.ready /\ Trouble /\ RequestFails(c) /\ UNCHANGED hermes
  /\ UNCHANGED <<chats, turns, device>>

Locks(c) ==
  LET locked == [chats EXCEPT ![request[c].thread].model = "real"]
  IN  /\ request[c].at = "locking"
      /\ \/ /\ chats' = locked
            /\ hermes' = [hermes EXCEPT !.ready = @ \cup {request[c].thread}]
            /\ request' = [request EXCEPT ![c].at = "asking"]
            /\ UNCHANGED trouble
         \/ Trouble /\ RequestFails(c) /\ chats' \in {chats, locked} /\ UNCHANGED hermes
      /\ UNCHANGED <<turns, device>>

\* The chat reaches Hermes, which begins a turn.
Chats(c) ==
  /\ request[c].at = "asking"
  /\ \/ /\ turns' = Append(turns, [call |-> c, thread |-> request[c].thread, at |-> "running",
                                   reply |-> request[c].thread])
        /\ request' = [request EXCEPT ![c].at = "waiting", ![c].turn = Len(turns')]
        /\ UNCHANGED trouble
     \/ Trouble /\ RequestFails(c) /\ UNCHANGED turns
  /\ UNCHANGED <<chats, hermes, device>>

\* A first sentence of the stream goes to the voice of the sidecar.
HearsSentence(c) ==
  /\ request[c].at = "waiting" /\ request[c].by = "stream" /\ request[c].heard = NoTurn
  /\ turns[request[c].turn].at = "running"
  /\ request' = [request EXCEPT ![c].heard = request[c].turn]
  /\ UNCHANGED <<chats, turns, hermes, device, trouble>>

\* The answer; a conversation follows its thread.
TurnAnswered(c) ==
  /\ request[c].at = "waiting" /\ turns[request[c].turn].at = "over"
  /\ request' = [request EXCEPT ![c].at = "done", ![c].told = TRUE]
  /\ device' = IF request[c].kind = "conversation"
                THEN [device EXCEPT ![request[c].device].thread = turns[request[c].turn].reply]
                ELSE device
  /\ UNCHANGED <<chats, turns, hermes, trouble>>

\* The turn failed, or the stream broke, was silent for too long, or ended
\* without an answer, while the turn may go on.
Breaks(c) ==
  /\ request[c].at = "waiting"
  /\ \/ turns[request[c].turn].at = "failed" /\ UNCHANGED trouble
     \/ Trouble
  /\ RequestFails(c)
  /\ UNCHANGED <<chats, turns, hermes, device>>

\* A recall that is waited for is given up; its request goes on.
RecallTimesOut(c) ==
  /\ request[c].kind = "recall" /\ ~hermes.deferring /\ ~request[c].told
  /\ request[c].at \in {"readying", "locking", "asking", "waiting"}
  /\ request' = [request EXCEPT ![c].told = TRUE]
  /\ UNCHANGED <<chats, turns, hermes, device, trouble>>

RequestNext(c) ==
  \/ \E d \in Devices, kind \in {"conversation", "recall"} : Asked(c, d, kind)
  \/ RequestBegins(c) \/ FindsRecall(c) \/ MakesRecall(c) \/ Readies(c) \/ Locks(c) \/ Chats(c)
  \/ HearsSentence(c) \/ TurnAnswered(c) \/ Breaks(c) \/ RecallTimesOut(c)

DeviceNext(d) ==
  Opens(d) \/ Supported(d) \/ Lists(d) \/ Resumes(d) \/ MakesThread(d) \/ DeviceCloses(d)

ConversationNext ==
  \/ \E c \in Requests : RequestNext(c)
  \/ \E d \in Devices : DeviceNext(d)
  \/ \E i \in DOMAIN turns : TurnEnds(i)

ConversationSpec == ConversationInit /\ [][ConversationNext]_conversationVars

ConversationTypeOK ==
  /\ \A d \in Devices : /\ device[d].thread \in {NoThread} \cup DOMAIN chats
                        /\ device[d].recall \in {NoThread} \cup Titled("recall")
                        /\ device[d].at = "open" /\ device[d].mode # "unbound" =>
                             device[d].thread # NoThread
  /\ \A c \in Requests : request[c].at = "waiting" => turns[request[c].turn].call = c
  /\ hermes.ready \subseteq DOMAIN chats

\* Requests of a session, those of recalls it has given up aside.
Working(d) == {c \in Chain(d) : request[c].at # "queued"}

\* One operation of a session at a time, and its turns reach Hermes in the
\* order their tool calls were accepted (live-gateway-session.ts:1149-1153).
TurnsInOrder ==
  /\ \A d \in Devices : Cardinality(Working(d)) <= 1
  /\ \A i, j \in DOMAIN turns :
       i < j /\ NoRequest \notin {turns[i].call, turns[j].call} =>
         LET a == request[turns[i].call]
             b == request[turns[j].call]
         IN  a.device = b.device /\ a.kind = b.kind /\ a.kind = "conversation" =>
               a.number <= b.number

\* No turn is asked of Hermes's virtual model, whoever made the thread and
\* however the lock of its model went (hermes-runs.client.ts:361-400).
NoVirtualTurn ==
  \A c \in Requests : request[c].at \in {"asking", "waiting"} => chats[request[c].thread].model = "real"

\* A tool call becomes a second turn only by a chat after its stream, and
\* never a third (live-gateway-session.ts:1197-1236).
AskedAtMostTwice ==
  \A c \in Requests :
    Cardinality({i \in DOMAIN turns : turns[i].call = c}) <= (IF hermes.deferring THEN 2 ELSE 1)

ConversationKept == ConversationTypeOK /\ TurnsInOrder /\ NoVirtualTurn /\ AskedAtMostTwice

\* No run checks these: they fail.  A deferred turn that queued behind another
\* goes to the thread as it was, when the other moved it
\* (live-gateway-session.ts:1431, 1237-1243).
TurnsFollowTheThread ==
  \A c \in Requests : request[c].at = "readying" /\ request[c].kind = "conversation" =>
    request[c].thread = device[request[c].device].thread

\* A stream that broke is followed by the same turn while Hermes still does
\* the first (live-gateway-session.ts:1215-1236).
NoTurnWhileRunning ==
  \A i, j \in DOMAIN turns :
    turns[i].at = "running" /\ turns[j].at = "running" /\ turns[i].call = turns[j].call => i = j

\* What follows a broken stream is the tail of another answer
\* (live-gateway-session.ts:1260-1268).
AnswerIsOneTurn ==
  \A c \in Requests : request[c].at = "done" /\ request[c].turn # NoTurn =>
    request[c].heard \in {NoTurn, request[c].turn}

\* A list that failed makes a new voice thread, and later sessions take it
\* (live-gateway-session.ts:1118-1125).
VoiceThreadStays ==
  \A d \in Devices : device[d].at = "creating" /\ device[d].mode = "persistent" =>
    Titled("voice") = {}
=============================================================================
