--------------------------- MODULE BrainFailover ---------------------------
(***************************************************************************)
(* The controller that moves the voice service between the primary brain   *)
(* and its fallback: it probes the primary, switches by writing an         *)
(* environment file and restarting the service, and keeps its own state in *)
(* a file that survives it.  The voice service and systemd are external.   *)
(***************************************************************************)
EXTENDS Integers, Sequences

CONSTANTS
  DownAfter,      \* down_after, up_after of the configuration
  UpAfter,
  BrainFaults,    \* steps that may fail: "values", "restart", "spawn"
  MaxBrainFaults, \* bounds: failed steps, deaths of the controller,
  MaxBrainDeaths, \* episodes
  MaxEpisodes

ASSUME BrainAssumption == MaxEpisodes \in Nat

VARIABLES
  serving,    \* the controller's process runs
  controller, \* its state in memory
  saved,      \* state.json
  todo,       \* the steps the running handler has still to do
  env,        \* the brain the environment file names
  voice,      \* the brain the running voice service uses, or "dead"
  mailbox,    \* command.json
  diary,      \* what was spawned, told and closed, by episode
  mishaps     \* failed steps and deaths so far, and whether the last switch
              \* found no values to write

brainVars == <<serving, controller, saved, todo, env, voice, mailbox, diary, mishaps>>

FreshState == [state |-> "up", oks |-> 0, fails |-> 0, aged |-> TRUE, episode |-> 0, diag |-> FALSE]
Brain(state) == IF state = "down" THEN "failover" ELSE "primary"
AtRest == serving /\ todo = <<>>

BrainInit ==
  /\ serving = FALSE /\ controller = FreshState /\ saved = FreshState /\ todo = <<>>
  /\ env \in {"none", "primary"} /\ voice = "primary" /\ mailbox = "empty"
  /\ diary = [e \in 1..MaxEpisodes |-> <<>>]
  /\ mishaps = [faults |-> 0, deaths |-> 0, missing |-> FALSE]

\* Mutant: a restarted controller adopts whatever brain is configured.
Adopted(state) == <<>>

\* The steps of apply_brain after a start: the state wins over the file.
Reconciled(state) ==
  IF env \notin {"none", Brain(state)} THEN <<"switch", "restart">> ELSE <<>>

StartsServing ==
  /\ ~serving /\ serving' = TRUE
  /\ controller' = saved
  /\ todo' = Reconciled(saved.state)
  /\ UNCHANGED <<saved, env, voice, mailbox, diary, mishaps>>

ControllerDies ==
  /\ serving /\ mishaps.deaths < MaxBrainDeaths
  /\ serving' = FALSE /\ controller' = FreshState /\ todo' = <<>>
  /\ mishaps' = [mishaps EXCEPT !.deaths = @ + 1]
  /\ UNCHANGED <<saved, env, voice, mailbox, diary>>

(* Transitions: the new state is on disk before anything is done about it. *)

Saves(c) == controller' = c /\ saved' = c

GoesDown(c, rest) ==
  /\ c.episode < MaxEpisodes
  /\ Saves([c EXCEPT !.state = "down", !.aged = FALSE, !.episode = @ + 1, !.diag = FALSE])
  /\ todo' = <<"switch", "restart", "spawn", "tell">> \o rest

GoesUp(c, rest) ==
  /\ Saves([c EXCEPT !.state = "up"])
  /\ todo' = <<"switch", "restart", "tell", "close", "clear">> \o rest

\* The command is taken out of the mailbox before it is obeyed.
TakesCommand ==
  /\ AtRest /\ mailbox # "empty"
  /\ mailbox' = "empty"
  /\ \/ mailbox = "down" /\ controller.state = "up" /\ GoesDown(controller, <<>>)
     \/ mailbox = "up" /\ controller.state = "down" /\ GoesUp(controller, <<>>)
     \/ mailbox = controller.state /\ UNCHANGED <<controller, saved, todo>>
  /\ UNCHANGED <<serving, env, voice, diary, mishaps>>

CommandArrives ==
  /\ mailbox = "empty"
  /\ mailbox' \in {"down", "up"}
  /\ UNCHANGED <<serving, controller, saved, todo, env, voice, diary, mishaps>>

Capped(n, cap) == IF n < cap THEN n + 1 ELSE cap
Probed(ok) ==
  [controller EXCEPT !.oks = IF ok THEN Capped(@, UpAfter) ELSE 0,
                     !.fails = IF ok THEN 0 ELSE Capped(@, DownAfter)]

\* A tick.  Its retry of unfinished actions never finds one: an entry of the
\* journal is made only when its action is done.
Probes ==
  /\ AtRest
  /\ \E ok \in BOOLEAN :
       LET c == Probed(ok)
       IN  IF c.state = "up" /\ c.fails >= DownAfter THEN GoesDown(c, <<"save">>)
           ELSE IF c.state = "down" /\ c.oks >= UpAfter /\ c.aged THEN GoesUp(c, <<"save">>)
           ELSE controller' = c /\ todo' = <<"save">> /\ UNCHANGED saved
  /\ UNCHANGED <<serving, env, voice, mailbox, diary, mishaps>>

\* min_down_s has passed since the transition.
MinDownElapses ==
  /\ AtRest /\ ~controller.aged
  /\ Saves([controller EXCEPT !.aged = TRUE])
  /\ UNCHANGED <<serving, todo, env, voice, mailbox, diary, mishaps>>

(* The steps *)

Doing(step) == serving /\ todo # <<>> /\ Head(todo) = step
Fails(fault) ==
  /\ fault \in BrainFaults /\ mishaps.faults < MaxBrainFaults
  /\ mishaps' = [mishaps EXCEPT !.faults = @ + 1]
Target == Brain(controller.state)

\* The values of the fallback come from another file, and may be missing: the
\* file is then left alone, and so is the service.
Switches ==
  /\ Doing("switch")
  /\ \/ /\ todo' = (IF env # Target THEN <<"renew">> ELSE <<"restart">>) \o Tail(Tail(todo))
        /\ env' = Target /\ mishaps' = [mishaps EXCEPT !.missing = FALSE]
     \/ /\ Target = "failover" /\ "values" \in BrainFaults /\ mishaps.faults < MaxBrainFaults
        /\ mishaps' = [mishaps EXCEPT !.faults = @ + 1, !.missing = TRUE]
        /\ todo' = Tail(Tail(todo)) /\ UNCHANGED env
  /\ UNCHANGED <<serving, controller, saved, voice, mailbox, diary>>

\* Only a changed file or a dead service makes a restart, and a restart that
\* is not answered in time may have happened all the same.
RestartsService ==
  /\ Doing("restart") \/ Doing("renew")
  /\ todo' = Tail(todo)
  /\ LET needed == Doing("renew") \/ voice = "dead"
     IN  \/ voice' = (IF needed THEN env ELSE voice) /\ UNCHANGED mishaps
         \/ needed /\ Fails("restart") /\ voice' \in {voice, env, "dead"}
  /\ saved' = controller
  /\ UNCHANGED <<serving, controller, env, mailbox, diary>>

Notes(what) ==
  diary' = IF controller.episode = 0 THEN diary
           ELSE [diary EXCEPT ![controller.episode] = Append(@, what)]

SpawnsDiagnosis ==
  /\ Doing("spawn")
  /\ todo' = Tail(todo)
  /\ \/ Saves([controller EXCEPT !.diag = TRUE]) /\ Notes("spawn") /\ UNCHANGED mishaps
     \/ Fails("spawn") /\ UNCHANGED <<controller, saved, diary>>
  /\ UNCHANGED <<serving, env, voice, mailbox>>

\* A message that cannot be delivered is marked done as well.
TellsOwner ==
  /\ Doing("tell")
  /\ todo' = Tail(todo) /\ saved' = controller
  /\ Notes(controller.state)
  /\ UNCHANGED <<serving, controller, env, voice, mailbox, mishaps>>

\* The record of the episode is appended, and then the episode forgotten.
ClosesEpisode ==
  /\ Doing("close")
  /\ todo' = Tail(todo) /\ Notes("close")
  /\ UNCHANGED <<serving, controller, saved, env, voice, mailbox, mishaps>>

ClearsEpisode ==
  /\ Doing("clear")
  /\ todo' = Tail(todo)
  /\ Saves([controller EXCEPT !.diag = FALSE])
  /\ UNCHANGED <<serving, env, voice, mailbox, diary, mishaps>>

EndsTick ==
  /\ Doing("save")
  /\ todo' = Tail(todo) /\ saved' = controller
  /\ UNCHANGED <<serving, controller, env, voice, mailbox, diary, mishaps>>

\* systemd or the owner restarts the voice service: it reads the file.
ServiceComesBack ==
  /\ voice = "dead"
  /\ voice' = IF env = "none" THEN "primary" ELSE env
  /\ UNCHANGED <<serving, controller, saved, todo, env, mailbox, diary, mishaps>>

BrainNext ==
  \/ StartsServing \/ ControllerDies \/ TakesCommand \/ CommandArrives \/ Probes
  \/ MinDownElapses \/ Switches \/ RestartsService \/ SpawnsDiagnosis \/ TellsOwner
  \/ ClosesEpisode \/ ClearsEpisode \/ EndsTick \/ ServiceComesBack

BrainSpec == BrainInit /\ [][BrainNext]_brainVars

-----------------------------------------------------------------------------
\* Whatever step the controller died at, the next one makes the environment
\* file name the brain of the recorded state ("the state wins",
\* docs/brain-failover.md:162-164), unless the values of the fallback were missing.
FileFollows == AtRest /\ env # "none" /\ ~mishaps.missing => env = Brain(controller.state)

\* What the owner is told about an episode is told once and in order: down
\* before up, and the record of the episode after both.
Rank(what) == CASE what = "spawn" -> 1 [] what = "down" -> 2 [] what = "up" -> 3 [] what = "close" -> 4
ToldInOrder ==
  \A e \in DOMAIN diary : \A i, j \in DOMAIN diary[e] :
    i < j => Rank(diary[e][i]) < Rank(diary[e][j])

FailoverKept == FileFollows /\ ToldInOrder

\* "A crash can never leave the system half-switched" (docs/brain-failover.md:
\* 165).  No run checks this: it fails.  A crash between the write of the file
\* and the restart of the service leaves the old brain running, and the start
\* that follows looks at the file only.  A restart that fails is not repeated
\* either: the journal has no entry of it.
NeverHalfSwitched == AtRest => voice \in {Brain(controller.state), "dead"}

=============================================================================
