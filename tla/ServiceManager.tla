---------------------------- MODULE ServiceManager ----------------------------
(***************************************************************************)
(* The command line as manager of the installed service                    *)
(* (cli/service-manager.ts): the definition file, what launchd or systemd  *)
(* loaded of it, and the process that runs.  A command is the sequence of  *)
(* the steps it awaits; each may fail, and the user may interrupt the      *)
(* command between two of them.  launchctl and systemctl are external.     *)
(***************************************************************************)
EXTENDS Naturals, Sequences

CONSTANTS
  MaxCommands,   \* bounds: commands given,
  MaxDefinitions, \* definitions written,
  MaxRefusals,   \* steps of commands that fail,
  MaxExits       \* ends of the process by itself

VARIABLES
  service, \* platform; versions (0: none) of the file, loaded and running; overlooked: the
           \* last bootout failed on a loaded service and was ignored
  command, \* the command in progress: its action, and the steps to come
  outcome,    \* what the last command told its user
  uses     \* how much of each bound is used

serviceVars == <<service, command, outcome, uses>>

Resting == [action |-> "none", steps |-> <<>>]

ServiceInit ==
  /\ \E p \in {"launchd", "systemd"} :
       service = [platform |-> p, file |-> 0, loaded |-> 0, running |-> 0, enabled |-> FALSE,
                  overlooked |-> FALSE]
  /\ command = Resting
  /\ outcome = [action |-> "none", ok |-> FALSE, running |-> FALSE]
  /\ uses = [commands |-> 0, definitions |-> 0, refusals |-> 0, exits |-> 0]

LaunchdSteps(action) ==
  CASE action = "install"   -> <<"write", "unload", "logs", "bootstrap">>
    [] action = "uninstall" -> <<"unload", "remove">>
    [] action = "start"     -> <<"installed", "bootstrap_or_kick">>
    [] action = "stop"      -> <<"installed", "unload">>
    [] action = "restart"   -> <<"installed", "unload", "bootstrap">>
    [] OTHER                -> <<>>

\* The results of disable and of the reload after a removal are not looked at.
SystemdSteps(action) ==
  CASE action = "install"   -> <<"write", "reload", "enable">>
    [] action = "uninstall" -> <<"disable", "remove", "try_reload">>
    [] action = "start"     -> <<"installed", "start">>
    [] action = "stop"      -> <<"installed", "stop">>
    [] action = "restart"   -> <<"installed", "restart">>
    [] OTHER                -> <<>>

ServiceCommand ==
  /\ command = Resting /\ uses.commands < MaxCommands
  /\ \E action \in {"install", "uninstall", "start", "stop", "restart", "status"} :
       /\ action = "install" => uses.definitions < MaxDefinitions
       /\ command' = [action |-> action,
                      steps |-> (IF service.platform = "launchd" THEN LaunchdSteps(action)
                                 ELSE SystemdSteps(action)) \o <<"status">>]
  /\ uses' = [uses EXCEPT !.commands = @ + 1]
  /\ UNCHANGED <<service, outcome>>

At(step) == command # Resting /\ Head(command.steps) = step
Goes(s) ==
  service' = s /\ command' = [command EXCEPT !.steps = Tail(@)] /\ UNCHANGED <<outcome, uses>>
CommandThrows ==
  /\ command' = Resting
  /\ outcome' = [action |-> command.action, ok |-> FALSE, running |-> FALSE]
Refused == uses.refusals < MaxRefusals /\ uses' = [uses EXCEPT !.refusals = @ + 1]

\* A step whose failure ends the command, or a Ctrl-C; one that took effect although its
\* answer came too late is a failure at the next step.
CommandFails == command # Resting /\ Refused /\ CommandThrows /\ UNCHANGED service

DefinitionWritten ==
  /\ At("write")
  /\ service' = [service EXCEPT !.file = uses.definitions + 1]
  /\ command' = [command EXCEPT !.steps = Tail(@)]
  /\ uses' = [uses EXCEPT !.definitions = @ + 1]
  /\ UNCHANGED outcome

DefinitionLookedFor ==
  /\ At("installed")
  /\ IF service.file # 0 THEN Goes(service) ELSE CommandThrows /\ UNCHANGED <<service, uses>>

DefinitionRemoved == At("remove") /\ Goes([service EXCEPT !.file = 0])
LogsPrepared == At("logs") /\ Goes(service)

\* launchctl bootout, by the definition file: it fails without one, and print tells
\* whether that counts.
Unloaded ==
  /\ At("unload")
  /\ IF service.loaded = 0 \/ service.file # 0
     THEN Goes([service EXCEPT !.loaded = 0, !.running = 0, !.overlooked = FALSE])
     ELSE CommandThrows /\ UNCHANGED <<service, uses>>

\* Both fail (a timeout, a spawn error): any failure of print counts as "not loaded".
UnloadIgnored == At("unload") /\ Refused
  /\ service' = [service EXCEPT !.overlooked = service.loaded # 0]
  /\ command' = [command EXCEPT !.steps = Tail(@)] /\ UNCHANGED outcome

\* launchctl bootstrap refuses a service that is loaded; RunAtLoad starts it.
Loaded(s) == [s EXCEPT !.loaded = s.file, !.running = s.file]
Bootstrapped ==
  /\ At("bootstrap")
  /\ IF service.loaded = 0 THEN Goes(Loaded(service)) ELSE CommandThrows /\ UNCHANGED <<service, uses>>

\* startService: a service that is loaded is restarted instead.
BootstrappedOrKicked ==
  /\ At("bootstrap_or_kick")
  /\ Goes(IF service.loaded = 0 THEN Loaded(service)
          ELSE [service EXCEPT !.running = service.loaded])

Reloaded ==
  /\ At("reload") \/ At("try_reload")
  /\ Goes([service EXCEPT !.loaded = service.file])
ReloadIgnored == At("try_reload") /\ Refused /\ service' = service
  /\ command' = [command EXCEPT !.steps = Tail(@)] /\ UNCHANGED outcome

Enabled == At("enable") /\ Goes([service EXCEPT !.enabled = TRUE])

\* disable --now, and its failure, which is not looked at.
Disabled == At("disable") /\ Goes([service EXCEPT !.enabled = FALSE, !.running = 0])
DisableIgnored == At("disable") /\ Refused /\ service' = service
  /\ command' = [command EXCEPT !.steps = Tail(@)] /\ UNCHANGED outcome

UnitStarted ==
  /\ At("start")
  /\ IF service.loaded = 0 THEN CommandThrows /\ UNCHANGED <<service, uses>>
     ELSE Goes([service EXCEPT !.running = IF @ = 0 THEN service.loaded ELSE @])
UnitStopped == At("stop") /\ Goes([service EXCEPT !.running = 0])
UnitRestarted ==
  /\ At("restart")
  /\ IF service.loaded = 0 THEN CommandThrows /\ UNCHANGED <<service, uses>>
     ELSE Goes([service EXCEPT !.running = service.loaded])

\* serviceStatus, which every command ends with; a query that fails tells "not running".
StatusTold ==
  /\ At("status")
  /\ command' = Resting
  /\ \E told \in {FALSE, service.file # 0 /\ service.running # 0} :
       outcome' = [action |-> command.action, ok |-> TRUE, running |-> told]
  /\ UNCHANGED <<service, uses>>

\* The process ends; the manager restarts it after a failure.
ProcessEnds ==
  /\ service.running # 0 /\ uses.exits < MaxExits
  /\ uses' = [uses EXCEPT !.exits = @ + 1]
  /\ \E next \in {0, service.loaded} : service' = [service EXCEPT !.running = next]
  /\ UNCHANGED <<command, outcome>>

ServiceNext ==
  \/ ServiceCommand \/ CommandFails \/ DefinitionWritten \/ DefinitionLookedFor
  \/ DefinitionRemoved \/ LogsPrepared \/ Unloaded \/ UnloadIgnored \/ Bootstrapped \/ BootstrappedOrKicked
  \/ Reloaded \/ ReloadIgnored \/ Enabled \/ Disabled \/ DisableIgnored
  \/ UnitStarted \/ UnitStopped \/ UnitRestarted \/ StatusTold \/ ProcessEnds

ServiceSpec == ServiceInit /\ [][ServiceNext]_serviceVars

-----------------------------------------------------------------------------
Done(action) == command = Resting /\ outcome.ok /\ outcome.action = action
Launchd == service.platform = "launchd"

\* launchd keeps a service whose definition is gone only after a bootout that failed and
\* was ignored, and what it runs is what it loaded, whatever command failed half-way.
NoOrphanService ==
  Launchd => /\ service.loaded # 0 /\ service.file = 0 => service.overlooked
             /\ service.running \in {0, service.loaded}

\* A command that reports success left the service as it says: an installed or restarted
\* definition is the one loaded, also where a bootout was ignored; a removed or stopped
\* service runs no more, unless its bootout was (disable, under systemd).
CommandsDeliver ==
  /\ Done("install") => service.loaded = service.file /\ service.file # 0
  /\ Done("restart") /\ Launchd => service.loaded = service.file
  /\ Done("uninstall") => service.file = 0
  /\ Done("uninstall") /\ Launchd => service.loaded = 0 \/ service.overlooked
  /\ Done("stop") => service.running = 0 \/ (Launchd /\ service.overlooked)

\* The manager and the definition on disk do not come apart.
ServiceKept == NoOrphanService /\ CommandsDeliver
=============================================================================
