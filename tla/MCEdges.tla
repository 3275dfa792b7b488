------------------------------ MODULE MCEdges ------------------------------
(***************************************************************************)
(* The parts at the edges of the gateway, each on its own: the session     *)
(* with one speech provider, the session with separate speech services,    *)
(* the failover of the voice service's brain, of the page its connection,  *)
(* what it knows of a task, its playback and its microphone, what it shows *)
(* and the narrations of its task log, the bridge of the dashboard, what   *)
(* the text console knows of a task, the installed service, the requests   *)
(* to Hermes, the HTTP routes with their shared probe, and the tools of a  *)
(* session with the index of its tasks.  A behaviour is about one of them, *)
(* and the others stay as they started.                                    *)
(***************************************************************************)
EXTENDS OpenAIRealtimeSession, BrainFailover, BrowserConnection, BrowserAudio,
  RivaRealtimeSession, TerminalConsole, VoicePresence, TaskNarration,
  DashboardRelay, ServiceManager,
  HermesRequests, HttpRoutes, SessionTools, TLC

VARIABLE part \* which of them this behaviour is about

\* The calls of the gateway and the voice turns of one provider session together.
MaxUtterances == 2

shellVars == <<presenceVars, narrationVars, relayVars, serviceVars>>
netVars == <<requestVars, routeVars, toolVars>>
voiceVars == <<realtimeVars, brainVars, pageVars, audioVars, rivaVars, consoleVars>>
edgeVars == <<part, voiceVars, shellVars, netVars>>

\* The gateway whose probe is asked.
OpenGateway == [guarded |-> FALSE, pages |-> "any", has |-> {}]

\* The session with every tool, and the tools that change a task.
FullOffer == [version |-> 9, monitor |-> TRUE, chats |-> TRUE, bound |-> TRUE]
FirstCall == CHOOSE c \in ToolCalls : TRUE
FirstTask == CHOOSE k \in ToolTasks : TRUE
ChangingTools == {"none", "start", "follow", "stop", "resolve", "archive", "delete", "sweep", "watch", "acknowledge"}

EdgeInit ==
  /\ part \in {"provider", "brain", "connection", "playback", "microphone",
             "riva", "tasks", "console", "screen", "transcript",
             "narration", "dashboard", "service", "hermes", "routes", "probe", "tools", "offers"}
  /\ ToolsInit /\ index.docs = Finished
  /\ part # "offers" => offer = FullOffer
  /\ Inbox \subseteq IF part = "tools" THEN {FirstTask} ELSE {}
  /\ BrainInit /\ (part # "brain" => env = "none")
  /\ RivaInit /\ (part # "riva" => ~speech.streaming)
  /\ ServiceInit /\ (part # "service" => Launchd)
  /\ RequestInit /\ (part # "hermes" => exchange.kind = "start" /\ ~exchange.aborted)
  /\ RoutesInit /\ (part # "routes" => setting = OpenGateway)
  /\ part # "probe" => up = {}
  /\ RealtimeInit /\ PageInit /\ AudioInit /\ ConsoleInit
  /\ PresenceInit /\ NarrationInit /\ RelayInit

\* A session with separate speech services is told to speak or to stop, not both;
\* the console has its last request before the task has a third event.
VoiceEdges ==
  /\ UNCHANGED <<shellVars, netVars>>
  /\ \/ /\ part = "provider" /\ RealtimeNext /\ asked' + provider'.spoken <= MaxUtterances
        /\ UNCHANGED <<brainVars, pageVars, audioVars, rivaVars, consoleVars>>
     \/ /\ part = "brain" /\ BrainNext
        /\ UNCHANGED <<realtimeVars, pageVars, audioVars, rivaVars, consoleVars>>
     \/ /\ part = "connection" /\ PageNext
        /\ UNCHANGED <<realtimeVars, brainVars, audioVars, rivaVars, consoleVars>>
     \/ /\ part = "riva" /\ RivaNext /\ informed'.sayings + informed'.bargeIns <= 1
        /\ UNCHANGED <<realtimeVars, brainVars, pageVars, audioVars, consoleVars>>
     \/ /\ part = "tasks" /\ TaskViewNext
        /\ UNCHANGED <<realtimeVars, brainVars, pageVars, audioVars, rivaVars, console, orders>>
     \/ /\ part = "console" /\ ConsoleNext
        /\ console'.typed = MaxTyped => Len(taskLog') <= 2
        /\ UNCHANGED <<realtimeVars, brainVars, pageVars, audioVars, rivaVars>>
     \/ /\ part \in {"playback", "microphone"} /\ AudioNext
        /\ \/ part = "playback" /\ calls'.mic = 0
           \/ part = "microphone" /\ speaking'.number <= 1 /\ speaking'.frames = 0
        /\ UNCHANGED <<realtimeVars, brainVars, pageVars, rivaVars, consoleVars>>

ShellEdges ==
  /\ UNCHANGED <<voiceVars, netVars>>
  /\ \/ /\ part \in {"screen", "transcript"} /\ PresenceNext
        /\ \/ part = "screen" /\ seen'.lines = 0
           \/ /\ part = "transcript" /\ face'.mic # "active"
              /\ seen'.events <= 1 /\ seen'.drops = 0
        /\ UNCHANGED <<narrationVars, relayVars, serviceVars>>
     \/ /\ part = "narration" /\ NarrationNext
        /\ UNCHANGED <<presenceVars, relayVars, serviceVars>>
     \/ /\ part = "dashboard" /\ RelayNext
        /\ UNCHANGED <<presenceVars, narrationVars, serviceVars>>
     \/ /\ part = "service" /\ ServiceNext
        /\ UNCHANGED <<presenceVars, narrationVars, relayVars>>

\* The routes take one request, before the first tick, up to its answer; the
\* probe only requests for the status.  The tools are those that change a task,
\* two at a time, in an inbox that starts with at most one; the offers one call of
\* any.
NetEdges ==
  /\ UNCHANGED <<voiceVars, shellVars>>
  /\ \/ part = "hermes" /\ RequestNext /\ UNCHANGED <<routeVars, toolVars>>
     \/ /\ part = "routes" /\ \A v \in Visits : visit[v].at # "answered"
        /\ RoutesNext
        /\ clock'.now = 0 /\ clock'.flips = 0
        /\ \A v \in Visits : visit'[v].at # "idle" => \A w \in Visits \ {v} : visit'[w].at = "idle"
        /\ UNCHANGED <<requestVars, toolVars>>
     \/ /\ part = "probe" /\ RoutesNext
        /\ \A v \in Visits : visit'[v].at # "idle" =>
             /\ visit'[v].route = "status" /\ visit'[v].method = "read"
             /\ visit'[v].token = "none" /\ visit'[v].body = "good"
        /\ UNCHANGED <<requestVars, toolVars>>
     \/ /\ part = "tools" /\ ToolsNext
        /\ \A c \in ToolCalls : toolCall'[c].tool \in ChangingTools
        /\ toolCall'[FirstCall] = NoToolCall => toolCall' = toolCall
        /\ UNCHANGED <<requestVars, routeVars>>
     \/ /\ part = "offers" /\ ToolsNext
        /\ \A c, d \in ToolCalls : toolCall'[c] # NoToolCall /\ toolCall'[d] # NoToolCall => c = d
        /\ UNCHANGED <<requestVars, routeVars>>

EdgeNext == UNCHANGED part /\ (VoiceEdges \/ ShellEdges \/ NetEdges)

EdgeSpec == EdgeInit /\ [][EdgeNext]_edgeVars

\* The sessions with speech providers keep what they owe to the gateway, and
\* the voice service keeps a brain; requests to Hermes conclude what is so.
ProvidersKept ==
  CASE part = "provider" -> ProviderKept
    [] part = "riva" -> RivaKept
    [] part = "brain" -> FailoverKept
    [] part = "hermes" -> RequestsKept
    [] OTHER -> TRUE

\* What page, dashboard and console show is what they were told, and the
\* commands leave the installed service as they say, but for a bootout whose failure
\* is ignored; a request to the gateway
\* does what it may and no more, and is answered from a recent probe; a tool of
\* a session tells what is so, and the index recalls what has ended.
ClientsKept ==
  CASE part = "console" -> ConsoleKept
    [] part \in {"screen", "transcript"} -> PresenceKept
    [] part = "narration" -> NarrationKept
    [] part = "dashboard" -> RelayKept
    [] part = "service" -> ServiceKept
    [] part = "tasks" -> PageKept
    [] part \in {"routes", "probe"} -> RoutesKept
    [] part \in {"tools", "offers"} -> ToolsKept
    [] OTHER -> TRUE
=============================================================================
