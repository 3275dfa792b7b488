---------------------------- MODULE SessionTools ----------------------------
(***************************************************************************)
(* What a live session does to the tasks of its owner when it is asked by  *)
(* voice (the provider's tools) or by the page (an acknowledgement), what  *)
(* it answers, and the local index that recalls finished tasks             *)
(* (live-gateway-session.ts, task-supervisor.ts, knowledge-service.ts).    *)
(* Two calls of one owner, of the same session or of two, run at a time.   *)
(* A behaviour starts with the gateway: the store has tasks, the index has *)
(* what it was left with, and the first synchronisation is under way.  The *)
(* runs, the hosts of agents and the faults are external.                  *)
(***************************************************************************)
EXTENDS Naturals, FiniteSets

CONSTANTS
  ToolTasks,   \* tasks of the owner
  ToolCalls,   \* calls of tools, each made once
  MaxQueuedTasks,
  MaxToolMoves, MaxToolFaults  \* bounds

ASSUME ToolsAssumption ==
  /\ IsFiniteSet(ToolTasks) /\ {MaxQueuedTasks, MaxToolMoves, MaxToolFaults} \subseteq Nat

VARIABLES
  offer,   \* the protocol, the monitor, the chats and the conversation of the session
  works,   \* the tasks
  index,   \* the documents of tasks, the ids the service knows (indexedTaskIds),
           \* whether it has synchronised, and whether a write failed since
  toolCall,
  toolCounts

toolVars == <<offer, works, index, toolCall, toolCounts>>

Closed == {"completed", "failed", "cancelled"}
Notable == Closed \cup {"unknown"}

\* "remember" is a start too; the list of tasks is a look; the lists of agents
\* and watches and the end of a watch are about agents.
Tools == {"start", "follow", "stop", "resolve", "archive", "delete", "sweep", "watch",
          "get", "look", "suggest", "agents", "recall", "continue", "pause", "audio"}

NoWork == [status |-> "none", place |-> "nowhere", notice |-> 0, unread |-> FALSE, heard |-> 0,
           ran |-> FALSE, handed |-> FALSE, watched |-> FALSE, swept |-> FALSE]
Had(status, unread) ==
  [NoWork EXCEPT !.status = status, !.place = "inbox", !.notice = IF status \in Notable THEN 1 ELSE 0,
                 !.unread = unread, !.heard = IF status \in Notable /\ ~unread THEN 1 ELSE 0,
                 !.ran = status # "queued", !.handed = status = "delegated"]

Inbox == {k \in ToolTasks : works[k].place = "inbox"}
Finished == {k \in Inbox : works[k].status \in Closed}

SessionOffers == [version : {3, 4, 6, 9}, monitor : BOOLEAN, chats : BOOLEAN, bound : BOOLEAN]
NoToolCall == [tool |-> "none", task |-> CHOOSE k \in ToolTasks : TRUE, at |-> "idle", saw |-> 0, told |-> "nothing"]

ToolsInit ==
  /\ offer \in SessionOffers
  /\ works \in [ToolTasks -> {NoWork, Had("running", FALSE), Had("unknown", TRUE), Had("delegated", FALSE),
                              Had("completed", TRUE), Had("completed", FALSE)}]
  /\ \E docs \in SUBSET Finished :
       index = [docs |-> docs, known |-> {}, synced |-> FALSE, sound |-> TRUE]
  /\ toolCall = [c \in ToolCalls |-> NoToolCall]
  /\ toolCounts = [moves |-> 0, faults |-> 0]

(* The tools a session has *)

VersionFor(tool) == CASE tool \in {"follow", "continue"} -> 4 [] tool = "pause" -> 6 [] tool = "audio" -> 9 [] OTHER -> 0

\* availableProviderTools
IsOffered(tool) ==
  /\ offer.version >= VersionFor(tool)
  /\ tool \in {"watch", "agents", "resolve"} => offer.monitor
  /\ tool = "continue" => offer.bound /\ offer.chats
  /\ tool = "recall" => offer.chats

\* What executeToolCall refuses before it does anything: a name the provider
\* makes up is asked for like any other.
IsRefused(tool) ==
  \/ offer.version < VersionFor(tool)
  \/ tool \in {"watch", "agents"} /\ ~offer.monitor
  \/ tool = "continue" /\ ~(offer.bound /\ offer.chats)

\* A call is answered at its first step, or is awaited.
Idle(c) == toolCall[c] = NoToolCall
Makes(c, tool, k, at, told) ==
  /\ Idle(c) /\ ~IsRefused(tool)
  /\ toolCall' = [toolCall EXCEPT ![c] = [NoToolCall EXCEPT !.tool = tool, !.task = k, !.at = at, !.told = told]]
Replies(c, tool, k, told) == Makes(c, tool, k, "told", told)
Awaits(c, tool, k, at) == Makes(c, tool, k, at, "nothing")
Tells(c, told) == toolCall' = [toolCall EXCEPT ![c].at = "told", ![c].told = told]
Keeps(k, r) == works' = [works EXCEPT ![k] = r]

Declines(c) ==
  /\ Idle(c)
  /\ \E tool \in Tools :
       /\ IsRefused(tool)
       /\ toolCall' = [toolCall EXCEPT ![c].tool = tool, ![c].at = "told", ![c].told = "refused"]
  /\ UNCHANGED <<offer, works, index, toolCounts>>

(* The index *)

\* noteTask follows what the supervisor publishes: a task that has ended is
\* added, and is known once it was; a failure is only logged.
FollowsTask(k, status, counts) ==
  \/ status \notin Closed /\ toolCounts' = counts /\ UNCHANGED index
  \/ /\ status \in Closed /\ toolCounts' = counts
     /\ index' = [index EXCEPT !.docs = @ \cup {k}, !.known = @ \cup {k}]
  \/ /\ status \in Closed /\ counts.faults < MaxToolFaults
     /\ toolCounts' = [counts EXCEPT !.faults = @ + 1]
     /\ index' = [index EXCEPT !.sound = FALSE]

IndexFails == toolCounts.faults < MaxToolFaults /\ toolCounts' = [toolCounts EXCEPT !.faults = @ + 1]

\* syncTasks: what has left the inbox leaves the index, by the ids it has now.
Synchronises ==
  /\ \/ /\ index' = [docs |-> Finished, known |-> Finished, synced |-> TRUE, sound |-> TRUE]
        /\ UNCHANGED toolCounts
     \/ IndexFails /\ UNCHANGED index
     \/ IndexFails /\ index' = [index EXCEPT !.docs = @ \cup Finished, !.known = Finished, !.sound = FALSE]
  /\ UNCHANGED <<offer, works, toolCall>>

(* What happens to tasks by themselves *)

\* A task enters a status: its notice is for the owner, and one that no longer
\* holds is withdrawn.
Entered(r, status) ==
  [r EXCEPT !.status = status, !.unread = status \in Notable,
            !.notice = IF status \in Notable THEN @ + 1 ELSE @,
            !.ran = @ \/ status = "running", !.handed = @ \/ status = "delegated"]

Follow == [queued |-> {"running"}, running |-> Closed \cup {"unknown"}, unknown |-> {"running"} \cup Closed]

TaskMoves(k) ==
  /\ k \in Inbox /\ toolCounts.moves < MaxToolMoves
  /\ works[k].status \in DOMAIN Follow
  /\ \E status \in Follow[works[k].status] :
       /\ Keeps(k, Entered(works[k], status))
       /\ FollowsTask(k, status, [toolCounts EXCEPT !.moves = @ + 1])
  /\ UNCHANGED <<offer, toolCall>>

(* What the tools do *)

\* What a stop is told by the record at its end.
StopTold(k) == IF k \in Inbox /\ works[k].status = "cancelled" THEN "cancelled" ELSE "stopping"

QueueIsFull == Cardinality({k \in Inbox : works[k].status = "queued"}) >= MaxQueuedTasks

\* submit
StartsTask(c) ==
  /\ \/ QueueIsFull /\ Replies(c, "start", NoToolCall.task, "failed") /\ UNCHANGED works
     \/ \E k \in ToolTasks :
          /\ ~QueueIsFull /\ works[k].place = "nowhere"
          /\ Keeps(k, Had("queued", FALSE)) /\ Replies(c, "start", k, "accepted")
  /\ UNCHANGED <<offer, index, toolCounts>>

\* followUp, of a task that has ended.
FollowsUp(c, parent) ==
  /\ \/ /\ (QueueIsFull \/ parent \notin Finished)
        /\ Replies(c, "follow", parent, "failed") /\ UNCHANGED works
     \/ \E k \in ToolTasks :
          /\ ~QueueIsFull /\ parent \in Finished /\ works[k].place = "nowhere"
          /\ Keeps(k, Had("queued", FALSE)) /\ Replies(c, "follow", k, "accepted")
  /\ UNCHANGED <<offer, index, toolCounts>>

\* stop: what has not started, or was handed over, is cancelled at once; for a
\* run, Hermes is asked and the record is read again.
StopsWork(c, k) ==
  /\ \/ k \notin Inbox /\ Replies(c, "stop", k, "failed") /\ UNCHANGED <<works, index, toolCounts>>
     \/ /\ k \in Inbox /\ works[k].status \in {"queued", "delegated"}
        /\ Keeps(k, Entered(works[k], "cancelled")) /\ FollowsTask(k, "cancelled", toolCounts)
        /\ Replies(c, "stop", k, "cancelled")
     \/ /\ k \in Finished /\ Replies(c, "stop", k, StopTold(k)) /\ UNCHANGED <<works, index, toolCounts>>
     \/ /\ k \in Inbox /\ works[k].status \in {"running", "unknown"} /\ Awaits(c, "stop", k, "stopping")
        /\ UNCHANGED <<works, index, toolCounts>>
  /\ UNCHANGED offer

StopAnswered(c) ==
  /\ toolCall[c].at = "stopping" /\ Tells(c, StopTold(toolCall[c].task))
  /\ UNCHANGED <<offer, works, index, toolCounts>>

\* resolveDelegated
ResolvesTask(c, k) ==
  /\ \/ /\ (k \notin Inbox \/ works[k].status # "delegated")
        /\ Replies(c, "resolve", k, "failed") /\ UNCHANGED <<works, index, toolCounts>>
     \/ \E s \in {"completed", "failed"} :
          /\ k \in Inbox /\ works[k].status = "delegated"
          /\ Keeps(k, Entered(works[k], s)) /\ FollowsTask(k, s, toolCounts)
          /\ Replies(c, "resolve", k, "resolved")
  /\ UNCHANGED offer

\* watch_external_agent for a task: the pane is looked up on its host, the watch
\* is registered, and the task is handed over.
RegistersWatch(c, k) ==
  /\ \/ Replies(c, "watch", k, "failed") /\ UNCHANGED works
     \/ /\ works[k].place # "nowhere" /\ Keeps(k, [works[k] EXCEPT !.watched = TRUE])
        /\ Awaits(c, "watch", k, "handing_over")
  /\ UNCHANGED <<offer, index, toolCounts>>

HandsOver(c) ==
  /\ toolCall[c].at = "handing_over"
  /\ LET k == toolCall[c].task
     IN  IF k \in Inbox /\ works[k].status \in {"running", "delegated"}
         THEN /\ Tells(c, "delegated")
              /\ Keeps(k, IF works[k].status = "delegated" THEN works[k] ELSE Entered(works[k], "delegated"))
         ELSE Tells(c, "failed") /\ UNCHANGED works
  /\ UNCHANGED <<offer, index, toolCounts>>

\* What leaves the inbox has ended; a sweep takes what is read.
Leaves(k, place) == [works[k] EXCEPT !.place = place, !.unread = FALSE]

\* Mutant: a sweep takes what nobody has read.
SweptUnread(k) == k \in Finished
SweptBy(k) == k \in Finished /\ ~works[k].unread

CleansTask(c, k) ==
  /\ \/ /\ k \notin Finished /\ UNCHANGED works
        /\ (Replies(c, "archive", k, "failed") \/ Replies(c, "delete", k, "failed"))
     \/ k \in Finished /\ Keeps(k, Leaves(k, "archive")) /\ Replies(c, "archive", k, "archived")
     \/ k \in Finished /\ Keeps(k, Leaves(k, "deleted")) /\ Awaits(c, "delete", k, "forgetting")
  /\ UNCHANGED <<offer, index, toolCounts>>

\* forgetTask: the index keeps what the service knows, less this one.
ForgetsTask(c) ==
  /\ toolCall[c].at = "forgetting"
  /\ LET kept == index.known \ {toolCall[c].task}
     IN  \/ /\ index' = [index EXCEPT !.docs = @ \cap kept, !.known = kept]
            /\ Tells(c, "deleted") /\ UNCHANGED toolCounts
         \/ /\ IndexFails /\ index' = [index EXCEPT !.known = kept, !.sound = FALSE]
            /\ Tells(c, "failed")
  /\ UNCHANGED <<offer, works>>

SweepsInbox(c) ==
  /\ works' = [k \in ToolTasks |-> IF SweptBy(k) THEN [Leaves(k, "archive") EXCEPT !.swept = TRUE] ELSE works[k]]
  /\ Replies(c, "sweep", NoToolCall.task, "swept")
  /\ UNCHANGED <<offer, index, toolCounts>>

\* task.notification.ack: the notice is compared with the record that was read,
\* and the record is marked when its turn comes, whatever its notice is then.
ReadsNotice(c, k) ==
  /\ IF k \in Inbox /\ works[k].unread
     THEN Idle(c) /\ toolCall' = [toolCall EXCEPT ![c] =
            [tool |-> "acknowledge", task |-> k, at |-> "acknowledging", saw |-> works[k].notice, told |-> "nothing"]]
     ELSE Replies(c, "acknowledge", k, "failed")
  /\ UNCHANGED <<offer, works, index, toolCounts>>

Acknowledges(c) ==
  /\ toolCall[c].at = "acknowledging"
  /\ LET k == toolCall[c].task
     IN  \/ k \notin Inbox /\ Tells(c, "failed") /\ UNCHANGED <<works, index, toolCounts>>
         \/ /\ k \in Inbox /\ ~works[k].unread /\ Tells(c, "acknowledged")
            /\ UNCHANGED <<works, index, toolCounts>>
         \/ /\ k \in Inbox /\ works[k].unread /\ Tells(c, "acknowledged")
            /\ Keeps(k, [works[k] EXCEPT !.unread = FALSE, !.heard = toolCall[c].saw])
            /\ FollowsTask(k, works[k].status, toolCounts)
  /\ UNCHANGED offer

\* What changes nothing here: the lists and a task, the suggestions, what is about
\* agents, what the client is asked to do, and what is recalled from the index or,
\* with the conversation, asked of Hermes.
Nothing == UNCHANGED <<offer, works, index, toolCounts>>
Reports(c, k) ==
  \/ Replies(c, "look", NoToolCall.task, "reported") /\ Nothing
  \/ Replies(c, "get", k, IF k \in Inbox THEN "reported" ELSE "failed") /\ Nothing
Suggests(c) == Replies(c, "suggest", NoToolCall.task, "reported") /\ Nothing
LooksAtAgents(c) == \E told \in {"reported", "failed"} : Replies(c, "agents", NoToolCall.task, told) /\ Nothing
AsksClient(c) == \E tool \in {"pause", "audio"} : Replies(c, tool, NoToolCall.task, "reported") /\ Nothing
Recalls(c) ==
  \/ Replies(c, "recall", NoToolCall.task, IF index.docs = {} /\ ~offer.chats THEN "refused" ELSE "reported") /\ Nothing
  \/ Replies(c, "continue", NoToolCall.task, "reported") /\ Nothing

ToolsNext ==
  \/ \E c \in ToolCalls :
       \/ Declines(c) \/ StartsTask(c) \/ StopAnswered(c) \/ HandsOver(c) \/ ForgetsTask(c)
       \/ SweepsInbox(c) \/ Acknowledges(c) \/ Suggests(c) \/ LooksAtAgents(c) \/ AsksClient(c) \/ Recalls(c)
       \/ \E k \in ToolTasks : \/ StopsWork(c, k) \/ ResolvesTask(c, k) \/ RegistersWatch(c, k)
                               \/ CleansTask(c, k) \/ ReadsNotice(c, k) \/ Reports(c, k) \/ FollowsUp(c, k)
  \/ \E k \in ToolTasks : TaskMoves(k)
  \/ Synchronises

ToolsSpec == ToolsInit /\ [][ToolsNext]_toolVars

-----------------------------------------------------------------------------
\* What a call was told is so, whatever was done to its task since by another
\* (live-gateway-session.ts:1512-1954): cancelled, archived and resolved are final,
\* a task that is told to be delegated is watched, and one that is told to be
\* deleted can be recalled no more.
AnswersAreTrue ==
  \A c \in ToolCalls :
    LET k == toolCall[c].task
        r == works[k]
        told == toolCall[c].told
    IN  /\ told = "accepted" => r.place # "nowhere"
        /\ told = "cancelled" => r.status = "cancelled"
        /\ told = "resolved" => r.handed /\ r.status \in {"completed", "failed"}
        /\ told = "delegated" => r.handed /\ r.watched
        /\ told = "archived" => r.place = "archive"
        /\ told = "deleted" => r.place = "deleted" /\ k \notin index.docs \cup index.known
        /\ told = "acknowledged" => ~r.unread \/ r.notice > toolCall[c].saw

\* Only what has ended leaves the inbox, and a sweep takes nothing of which no
\* notice was acknowledged (task-supervisor.ts:505-547, file-task-store.ts:426-455).
OnlyFinishedLeave ==
  \A k \in ToolTasks :
    /\ works[k].place \in {"archive", "deleted"} => works[k].status \in Closed
    /\ works[k].swept => works[k].heard > 0

\* The index recalls what has ended; unless a write of it failed, all that has
\* ended and is in the inbox, and nothing that was deleted, but for the moment
\* before it is forgotten (knowledge-service.ts:82-121).
RecallIsRight ==
  /\ index.known \subseteq index.docs
  /\ \A k \in index.docs : works[k].status \in Closed
  /\ index.synced /\ index.sound => Finished \subseteq index.docs
  /\ index.sound => \A k \in index.docs : works[k].place = "deleted" =>
                      \E c \in ToolCalls : toolCall[c].at = "forgetting" /\ toolCall[c].task = k

\* No tool that is offered is refused for what the session lacks (1373-1410).
OfferedIsServed == \A c \in ToolCalls : toolCall[c].told = "refused" => ~IsOffered(toolCall[c].tool)

ToolsKept == AnswersAreTrue /\ OnlyFinishedLeave /\ RecallIsRight /\ OfferedIsServed

\* No run checks these: they fail.  A task that ran and was handed over, or whose
\* run ended before the stop was answered, is told to be cancelled like one that
\* "never started running" (live-gateway-session.ts:1646-1649).
CancelledNeverRan == \A c \in ToolCalls : toolCall[c].told = "cancelled" => ~works[toolCall[c].task].ran

\* An acknowledgement marks the notice that is current when its turn comes: the
\* outcome of a task that was unknown is taken for read, and may be swept
\* (live-gateway-session.ts:1004-1021, file-task-store.ts:437-439, "a sweep must
\* never swallow a terminal outcome the user has not been told about yet").
SweptWasHeard == \A k \in ToolTasks : works[k].swept => works[k].heard = works[k].notice

\* A watch whose task cannot be handed over goes on, though the call failed.
FailedDoesNothing ==
  \A c \in ToolCalls :
    toolCall[c].tool = "watch" /\ toolCall[c].told = "failed" => ~works[toolCall[c].task].watched

\* A deletion before the first synchronisation empties the index.
RecallSurvives == [][index.docs \ index'.docs \subseteq {k \in ToolTasks : works[k].place # "inbox"}]_toolVars
=============================================================================
