# A verification project for hermes-live-voice

Hermes Live is a gateway between a person who speaks and an agent that works. A
browser or terminal streams audio to the gateway; a realtime voice model hears
it, answers, and calls tools; the tools start *background tasks* that the Hermes
agent runs; what those tasks find is spoken back when the conversation leaves
room for it. This directory holds TLA+ models of the parts of the system whose
correctness depends on the order of events, the TLC runs that check them, and
proofs checked by TLAPS.

Paths below are relative to the repository; `application/...`, `adapters/...`,
`domain/...` and `cli/...` are in the gateway's TypeScript (`src/` of the
repository).

## Inventory

| part | state it keeps | operations | hard because |
| --- | --- | --- | --- |
| **Task supervisor** `application/task-supervisor/task-supervisor.ts` | the durable records (through the store); registered owners; drain loop flags; retry and poll timers; run subscriptions; stop requests | submit, followUp, admission, dispatch, poll, run event, stop, delegate, resolve, announce, acknowledge, initialize, close | every operation awaits Hermes or the store between reading a record and writing it; a start request may be lost after Hermes acted on it; the process restarts |
| **Task records** `domain/tasks/*` | status, stop intent, run id, missing and containment marks, event log, notification | pure transitions behind a table of allowed moves | written by every operation; must be right for any order of writers |
| **Task store** `adapters/outbound/task-store/file-task-store.ts` | live and archive documents, a lock directory | load, update with expected revision, archive, restore, delete, close | temp-file, fsync and rename with a crash between any two steps; two documents; two processes |
| **Queue view** `task-supervisor/task-queue-supervision.ts` | none | position and blockers of queued tasks | repeats the admission rules in other words |
| **Task operator** `cli/task-operator.ts` | none | list, contain while the gateway is down | writes the same records |
| **Live session** `application/live-gateway/live-gateway-session.ts` | client queue, tool ledger, held input, pending notifications, deferred answers, response and speaker latches, its Hermes thread | bind, start, client frames, provider events, tool calls, notifications, close | one object mutated by client frames, provider events, supervisor events and timers, with an await in nearly every handler |
| **Speech gate, mux, filler** `live-gateway/vad/*`, `speech-mux.ts`, `filler-speaker.ts` | voice state, queue of utterances, clips | open, close, preempt, play | timing windows, barge-in |
| **External monitor** `application/external-work/external-agent-monitor.ts` | durable watches; a timer, a busy flag and a failure count per host; announcement leases | register, stop, poll, claim, complete, release | polls, discoveries, owners and several sessions interleave |
| **Watch store** `adapters/outbound/external-work/file-agent-watch-store.ts` | the registry and its file | list, create, update, delete | a write that fails after memory changed |
| **Delegation** `application/external-work/delegation.service.ts` | launches under way | launch an agent for a task, watch it | a launch whose outcome is unknown, repeated calls |
| **Hermes client** `adapters/outbound/hermes/*` | threads, model locks, per-stream cursor | start, status, stop, approve, events; sessions, chat | reconnects, ambiguous answers, threads that move |
| **Realtime adapters** `adapters/outbound/realtime/*` | socket, response, turn and tool-call state | connect, send audio, text and tool results, interrupt | one adapter per provider, each with messages in both directions under way |
| **Server** `adapters/inbound/http/server.ts` | what a start acquired, sockets, sessions, a probe's result that requests share | start, upgrade, routes, keepalive, shutdown | a start that fails half-way, vanished clients, shutdown order, requests that join a probe |
| **Browser client** `clients/browser/*.js` | socket, reconnect timer, playback queue, microphone, tasks | connect, resume, play, acknowledge | reconnects racing user actions, messages racing requests |
| **Voice page** `clients/browser/voice.js`, `entity-state.js`, `task-narrator.js` | headline, presence mode, transcript row, narrated log | handlers of client events | late probes and answers, reconnects |
| **Brain failover** `tools/brain-failover/brain_failover.py` | state, environment file, journal | probe, fail over, recover, report | dies between any two of its writes |
| **Dashboard plugin** `plugins/hermes-live/dashboard/plugin_api.py` | a bridge between two sockets | relay, status | two tasks that end each other |
| **Terminal console** `cli/terminal-session.ts` | connection, unanswered requests, tasks | status, stop, follow up, read, quit | requests overlap with pushed events |
| **Service manager** `cli/service-manager.ts` | none (launchd, systemd) | install, start, stop, restart, uninstall | steps that fail or are interrupted |
| **Knowledge** `application/knowledge/*` | an index of finished tasks, the ids it believes indexed | add, synchronise, forget, recall | written beside the tasks it mirrors |
| **Configuration, setup, sidecars** | files | parse, doctor | little: sequential |

How they interact. The session calls the supervisor (`submit`, `stop`,
`followUp`, `markDelegated`, claims) and subscribes to its records; the
supervisor calls the store inside one serialized operation chain and Hermes
outside it; the server owns both and closes sessions before the supervisor. The
monitor works beside the supervisor and meets it in the session, which speaks
what both report. The session drives one realtime adapter and asks Hermes by a
thread of its own. Pages and consoles see tasks only as the public projections
their session sends them.

What makes each part correct:

- supervisor: a task is started upstream at most once, whatever answers are
  lost; slots and reservations are never exceeded; a stop intent is never lost;
  a closed record is never reopened; an open one is always followed; the queue
  never sleeps over work it could admit; everything settles or is fenced;
- stores: what a caller was told is stored survives a crash; no record is lost
  between live and archive; one writer; admitted work can always be finished;
- session: input held behind a tool call is delivered, in order, once; a tool
  call is executed once; an announcement recorded as heard was heard; one
  session of an owner speaks; turns reach Hermes in order and not twice; what a
  tool answers is so, and what it recalls has ended;
- Hermes client: what a caller concludes from an answer, or from none, is so,
  and no timer or listener outlives the request;
- adapters: one response at a time, a voice turn gets its own, a tool call is
  told once, a response that was cut off says nothing more;
- monitor: a watched host is polled for ever; a mismatched pane is never
  followed again; one session speaks an update;
- server: a start that failed holds nothing; while a session works its
  supervisor is open; a vanished client's place is freed;
- clients: one socket at a time, no page stranded, nothing played after a cut,
  no microphone left open, and what is shown is what is;
- failover, bridge, service manager: file, service and journal end up agreeing;
  messages pass in order; no command leaves a process nobody manages.

## Modules

| module | models |
| --- | --- |
| `TaskRecords` | the durable record and the functions that rewrite it (`domain/tasks/task-transition.ts` and the updaters in the supervisor) |
| `TaskSupervisor` | the supervisor: one process, its timers, subscriptions and operations, the store, Hermes, crashes and restarts |
| `WorkExecution` | the promise: what background work may do, without any mechanism |
| `QueueSupervision` | the place and the blockers an owner is told of, over the same records |
| `TaskDocuments`, `FileTaskStore` | the documents as values; the task store of two processes with crashes and power loss |
| `TaskJournal` | the retained events of a record, their eviction and the store's comparison; the turns in which the supervisor writes one record: retries, and buffered notes of a run's activity that are written first |
| `AgentWatches` | the durable watch over an agent on another host and the functions that rewrite it (`domain/external-work/agent-watch.ts`), and what the watch store accepts |
| `AgentWatchFile` | the watch store's registry and file |
| `ExternalAgentMonitor` | poll loops, owners, sessions that announce, crashes and restarts |
| `Delegations` | calls that launch agents, the host, the watches and the linked task |
| `SessionInput` | client frames against provider tool calls |
| `SessionSpeech` | announcements, notices, deferred answers and progress on one latch |
| `SessionLifecycle` | starts and ends of an owner's sessions |
| `SessionTools` | what the tools of a session and the page's acknowledgements do to tasks, what they answer, and the index that recalls finished tasks |
| `SpeechOutput`, `SpeechDetection` | mux and filler; speech gate and engine |
| `Conversations` | the Hermes threads of sessions, their turns and recalls |
| `HermesRequests` | one request to Hermes about a run, from its deadline to what its caller may conclude, and the repeated start |
| `LocalVoiceSession`, `OpenAIRealtimeSession`, `RivaRealtimeSession` | a session with the local runtime, with the OpenAI Realtime API, with separate speech services |
| `GatewayServer` | the process around the sessions |
| `HttpRoutes` | the HTTP routes, who is answered what, and the shared probe of the speech services |
| `BrainFailover` | the failover controller of the voice service |
| `BrowserConnection`, `BrowserTasks`, `BrowserAudio` | the page's connection, its knowledge of a task, its sound |
| `TerminalConsole` | the text console, over the record and the session of `BrowserTasks` |
| `VoicePresence`, `TaskNarration` | what the voice page shows; its narrated task log |
| `DashboardRelay`, `ServiceManager` | the dashboard's bridge; the commands on the installed service |
| `MCTaskSupervisor`, `MCExternalAgentMonitor`, `MCLiveSession`, `MCStore`, `MCEdges` | instances for TLC |
| `TaskSupervisionProofs` | lemmas about the updaters of a record; slots, reservations, stop intents; the mapping to `WorkExecution`, one run per task and the refinement; following, settling, the queue and its view |
| `ExternalAgentMonitorProofs`, `StoreProofs` | the monitor; the task store and the watch file |
| `GatewayProofs`, `LiveSessionProofs` | server, delegations and conversations; input, tool calls, announcements and lifecycle of sessions, the local runtime |
| `ProviderProofs` | the OpenAI adapter, the separate speech services, the request to Hermes, the failover |
| `BrowserProofs` | the page's connection, sound, view of a task and face; the task log, the bridge and the service |
| `EdgeProofs` | the routes, the tools, and everything at the edges as `MCEdges` composes it |

One reading rule holds for all of them: JavaScript runs until it awaits, so the
code between two awaits is one step, whatever it calls; an await is a point at
which every other handler may run; and what a handler read before an await stays
what it was. A component's fields are the fields of one record, or variables of
their own where they are many. "External" in a module's comments is what lives
in another program; it is modelled from how this code uses it, and does anything
the code has a branch for.

### The supervisor: state and actions

The supervisor sends every record write through one promise chain
(`serialized`), so a write, with the reads inside the same callback, is one
atomic step. Everything awaited *outside* the chain is a place where other
operations run, and ends the step. `op[t][r]` is the operation in role `r`
(`dispatch`, `poll`, `watch`, `stop`, `boot`) on task `t`: the point it waits
at, the upstream status it carries and the status it last read. So a poll that
read `running`, was overtaken by `markDelegated` and then writes `completed` is
a behaviour of the model, as it is of the code.

| variables | code |
| --- | --- |
| `task`, `order` | the store's records; creation order (`createdAt` is made strictly increasing) |
| `phase`, `booting` | not initialized, ready, closing, down; the loop of `initializeOnce` |
| `owners` | `sessionKeys` |
| `drain`, `again` | `drainPromise` / `drainScheduled`, `drainRequested` |
| `backoff`, `poll`, `suppressed`, `watching` | retry timers, poll timers, `pollSuppressed`, `runWatchers` |
| `confirmed`, `sending`, `denying` | `confirmedStopRequests`, `stopRequests`, operations inside `containUncorrelatedApproval` |
| `run`, `wire`, `runs` | Hermes: state of a task's run, requests in flight, runs started |

Hermes is external: a start request is accepted at most once and may be accepted
after the gateway gave up on its answer; a run moves between running and waiting
for approval, ends, and may be forgotten (404).

Abstractions. Time is left out: a timer may fire whenever it is armed. Text,
timestamps, usage and progress activity are left out; the event log and the
announcements have modules of their own. One poll and one subscription handler
per task run at a time. The stream is consumed in order; a second poll can start
while the first awaits Hermes when the stream ends or a watcher starts meanwhile
(`task-supervisor.ts:1027, 1080`). `restarts` and `streams` with a second poll
(2.8 and 7 million states) passed every property. Store writes fail only where a failure has its own control
flow in the code: at admission, and at shutdown's last attempt to write a run
id. `submit`'s idempotency for a repeated task id and the two capacity errors
leave no state behind and are not steps. The operator contains a task only while
the gateway is down, as its lock makes sure.

`WorkExecution` knows a piece of work as new, waiting, claimed, fenced, tracked,
handed over, over or written off, how often it was started, and what may follow
what. `TaskSupervisor` ends with the mapping: the record of a task stands for one
of these states (`WorkState`) and its runs at Hermes for the starts;
`KeepsPromise` says that every behaviour of the supervisor is one of
`WorkExecution`.

`QueueSupervision` has no state: it reads the records of `TaskSupervisor`, with
the code's own order of comparisons, and is checked against admission.

### The monitor: state and actions

Each host's poll, each owner and each voice session is an actor with a point
(`pc`), a current watch (`cur`) and, inside `updateWatch`, the attempt it is at.
The watch store serializes its operations, so one of them is one step, and
`updateWatch` is up to four: the write against the revision the caller read, its
failure, the reload, the second write. `fresh` says for whom the revision it
read is still the latest, which stands for the numbers; the record keeps the
parity of its revision, because the store refuses a write that does not advance
it (so an updater that leaves a record alone makes the write fail).

| variables | code |
| --- | --- |
| `watch` | the records of the watch store |
| `timer`, `busy`, `ending` | `HostState.timer`; `inFlight` and who set it; a poll between `inFlight = false` and its `scheduleHost` |
| `todo`, `sighting` | the loop over a poll's watches and what the agent list says of the current one |
| `lease`, `open` | `announcementLeases`; the sessions that are not closed |
| `spoken` | how often the announcement of a watch was delivered (history, not in the code) |

An agent list says anything of a watched pane each time. A watch has one
announcement, and a session tries to claim it whenever it is idle: which event
becomes which announcement, the batching of up to five, and the bounded number
of attempts are left out, as are excerpts, the event log and the length of the
back-off. The store's writes do not fail for want of a disk here; what happens
when they do is in `AgentWatchFile`.

### Stores

`FileTaskStore` gives two processes (`gw`: memory, flags) an operation each
(`op`: its kind, its point, the documents it is about to write). A document's
replacement is three steps, temp file, rename and directory sync; `docs` is what
a reader sees, `durable` the set of pairs of documents a power loss may leave.
Writes and syncs fail (`StoreFaults`), a process dies between any two steps, an
operator unlocks what a dead one left. `lock` has the moment between `mkdir` and
`owner.json`. `TaskDocuments` abstracts a document to each task's stage (queued,
active, closed and unread, contained, read) and its weight in units: one per
record and one more for a terminal one, against a limit, a migration allowance
and the reserves of admission. Pruning may drop what the code may drop, in its
order. Assumption: renames in one directory reach the disk in their order.

`TaskJournal` has a record's events with their numbers, kinds and eviction rule
at a bound of three (the code's is 128), and the store's comparison of an update
with the log it replaces. It writes such a log: `turn` is the update
whose turn it is and those behind it, `buffer` the notes of activity that wait
for a flush, `timers` what will flush them. Another writer that changes the
record in between, and a store that fails, are its mishaps. `AgentWatchFile` keeps the registry in memory and in
the file as revision numbers, and what callers were told.

### The voice session

The session's handlers fall into parts that share only flags; each part is a
module in which the other parts' influence is an input.

`SessionInput`: `queue` and `job` are the promise chain of client frames, `held`
the inputs held behind a tool call, `call`, `ledger` and `tombs` the provider's
tool calls by id, `sent` and `executed` history. Payloads are numbers in the
order of arrival.

`SessionSpeech`: every flush (`fl`) is a process through the awaits of
`flushAnnouncements`; `latch`, `micro`, `retry`, `dog` are the latch, the
scheduled microtask and the two timers; `answers`, `pend`, `ext`, `prog` the
four queues; `task` and `lease` the durable side. Another session of the owner
is an environment that claims, completes and acknowledges.

`SessionLifecycle`: `at[s]` is the await of `start()`; the other variables are
what a start acquires: `holder` (the voice arbiter), `follows`, `link`,
`speaks`. The task inbox is the number of its newest record.

`SessionTools`: `toolCall` is where each call is between its checks and its
answer, `works` the owner's tasks with what was ever heard of them, `index` the
documents of finished tasks beside the ids the service believes it has. Two
calls run at a time; the runs and the faults of the store are external.

`SpeechOutput`: `pump` and `muxQueue` of the mux with each utterance's promise,
`filler` with its timer, budget and clips. `SpeechDetection`: chunks are loud or
quiet, durations are counts; `under` are the frames whose scores are awaited.

`Conversations`: Hermes' sessions (`chats`) with what was done in them
(`turns`); `device` a live session's thread, `request` where each tool
call is. The promise chain `conversationOperation` is the set of operations a session
has accepted that have no result (`Chain`), in the order of their numbers. A request that failed here may have been
carried out there; a thread may be moved when Hermes compresses it.
`HermesRequests` is the other half of the client: `exchange` has a request's
point, deadline, listener and reader, `reply` what answers it (the class of the
status, a size, whether it is about the run that was asked for), `upstream` what
really happened.

`LocalVoiceSession` and `OpenAIRealtimeSession`: `adapter` holds the adapter's
fields, `upward` and `downward` the two ordered directions of the socket, the
provider is external. `RivaRealtimeSession`: `ears` are the transcription
sockets, `chain` the promise chain of what is to be said, `turn` its running
task, `dialogue` the brain's history and open tool calls.

`GatewayServer`: `server.at` is the point of `startServer` or `close()`, `holds`
what the process has acquired, `peer` and `session` each client's socket and the
session behind it. `Delegations`: `ask` is where each call is, `inflight` the
shared launches by key, `agents` what the host runs, `watches` and `linkedTask`
what is stored. Its constant `Lagging` says whether the host's list of agents
may lack one that was just started; the runs assume it does not. `HttpRoutes`:
`visit` is each request with what the probe it waits for has seen, `cached` the
probe's shared result, `effects` what requests set off.

### The edges

`BrowserConnection`: one record of the client's and the supervisor's fields and
the state of each socket ever opened; a *generation* is the number of a socket's
attempt. `BrowserTasks`: the record is its event log, a copy of it a length, and
a message names the length it was made from; `feed` is the hydration of the
gateway session, `client` the page's merge. It assumes that events of a task are
a millisecond apart and differ in their summaries. `BrowserAudio`: the playback
queue with its epoch, and every capture from its start to the end of its stream.

`TerminalConsole` extends `BrowserTasks` with the console's own merge and up to
two requests (`orders`) that the session takes in turn, stops excepted. What a
task does after the owner left is not followed.

`VoicePresence` has the page's variables (`face`), the transcript row (`line`)
and what is outside (`world`); springs are the flags they settle to and the
flash of `toolActivity` is left out. `TaskNarration` follows one task through
its revisions. `DashboardRelay` has a task for each direction; a message is its
number, an invalid one is 0. `ServiceManager` is a command as the list of its
remaining steps over a definition that is on disk, loaded and running in
versions; `overlooked` says that the last bootout failed on a loaded service and
was ignored because `launchctl print` failed as well. `BrainFailover` is a handler as the list of its remaining steps over
the environment file, the state file and the running voice service.

## Runs

`CHECK_DEADLOCK FALSE` stands in every configuration but `Monitor.cfg`: bounded
work that has settled, a session that has closed and a service that is
uninstalled rightly stop. The monitor never does, and its run checks that.

| run | instance | checks |
| --- | --- | --- |
| `restarts` | one task, all fault kinds, two faults, two crashes or shutdowns, stops, a forgotten run | `TypeOK`, `UntrackedRunFenced`, `StopIntentKept`, `KeepsPromise` |
| `streams` | one task with events, approvals, a forgotten run, stops, one restart, one mismatched answer | `Followed`, `SettledRunIsOver`, `ClosedIsFinal` |
| `admission` | three tasks with work modes, two slots, a busy Hermes | `SlotsBounded`, `NoStalledQueue` |
| `sharing` | two trusted readers on two keys, a writer of both, a reader handed to an external agent, runs that last | `ReservationsExclusive`, `QueueTold` |
| `settles` | one task under fairness, one fault, one restart | `EverySubmissionSettles`, `CompletedRunCloses` |
| `monitor` | one watch on a host that fails and that somebody also lists, an agent that is gone or replaced, two sessions, a stop, a crash | `FailuresCounted`, `AnnouncementsSound`, `ReleasedIsFinal` |
| `live_session` | the nine parts of a session and its gateway, each by itself | `InputKept`, `ExecutedOnce`, `CancelledIsSilent`, `AnnouncementsKept`, `LifecycleKept`, `OutputKept`, `DetectionKept`, `ConversationKept`, `LocalKept`, `ServerKept`, `DelegationKept` |
| `session_settles` | speech, detection and server under fairness | `NoticeSettles`, `SpeechEnds`, `VanishedIsFreed` |
| `store` | two gateways on two tasks, one fault, one crash or power loss; an event log of three through eight events; one record with three notes, an update and two mishaps; the watch file with a fault and a crash | `AckedIsKept`, `StoreKept`, `AnsweredIsFiled`, `RecordsKept` |
| `edges` | the adapters, one request to Hermes, failover, the routes and their probe, the tools of a session, page, console, dashboard and service manager, each by itself | `ProvidersKept`, `CutOffIsSilent`, `ReconnectKept`, `AudioKept`, `ClientsKept`, `NeverBack` |
| `forgotten_utterance` | the mux and the filler | `NothingForgotten`, violated |
| `restore_lost` | the store, with sync failures of a restore | `AckedIsKept`, violated |

The composed invariants are conjunctions of named parts:

- `FailuresCounted`: the types, and `OfflineAfterThree`; `AnnouncementsSound`:
  `OneSpeaker`, `LeasesAreUsed`, `AnnouncedWasSpoken`.
- `QueueTold`: a task that is said to wait for another one does wait
  (`BlockedIsBlocked`), and no two have one place (`PlacesDiffer`).
- `InputKept`: what the user said reaches the provider in the order it was said
  (`SaidInOrder`) and is not left held without a tool call (`HeldIsReleased`).
  `ExecutedOnce` and `CancelledIsSilent` are about the ledger of tool calls.
- `AnnouncementsKept`: what is recorded as announced was heard to the end
  (`HeardBeforeRecorded`), and every claim has a flush that settles it
  (`ClaimsWorkedOff`).
- `LifecycleKept`: one session of an owner speaks, a closed one has released
  everything, and the client of a ready one knows the newest record.
- `OutputKept`: utterances start once and in order, a waiting filler goes on,
  within its budget. `DetectionKept`: frames in order and once, the onset of
  speech included, and the session knows of it.
- `ConversationKept`: turns in the order of their calls, never of the virtual
  model, and a call is asked at most twice. `LocalKept`: what is queued has
  something that will let it out, and a call is told once.
- `ServerKept`: a gateway that ended holds nothing, one whose session works has
  its supervisor, and whoever is attached is counted. `DelegationKept`: one
  agent for a key, delegated tasks are watched, joiners have a launch.
- `StoreKept`: one holder of the lock, and the end of admitted work fits.
- `RecordsKept`: the store takes every log the supervisor makes of the one before
  (`StoreAgrees`), a closed record takes no more, and every note of a run's
  activity is in the record in its order, waits with a flush due, or was let go
  for a reason (`JournalKept`).
- `ProvidersKept`: for OpenAI one request at a time and each voice turn on its
  own; for Riva the gate released, utterances settled once, responses ended,
  audio inside them, the queue counted; for the failover `FileFollows` and
  `ToldInOrder`; for a request to Hermes `ConclusionsHold` (a caller that
  concludes that nothing was started, or that a run is gone, is right) and
  `NothingIsLeft`. `CutOffIsSilent`: a response that was cut off calls no tool.
- `ReconnectKept`: one socket, and a page that is not connected is on its way to
  be, but for a forced reconnect that missed the end of the old socket.
- `AudioKept`: nothing plays after the cut, a notice is reported once, no
  microphone is left open.
- `ClientsKept`: page, console, presence, narration, relay and service each as
  their module states it; for the routes `EffectsAreEarned`, `ProbeIsRecent` and
  `StrangersStayOut`; for the tools `AnswersAreTrue`, `OnlyFinishedLeave` (the
  inbox), `RecallIsRight` and `OfferedIsServed`. `NeverBack`: what a page shows of a task never goes
  back, except to hydrate again.

### Bounds, and why they are enough

One task is enough where the hazards are between operations on one task:
operations on different tasks share only the drain loop, the slots and the
process. Two faults and two restarts let a fault hit the recovery from another.
Three tasks are enough for admission because every rule relates a candidate to
one holder or one older candidate. `admission` takes the three tasks up to
permutation: no constant tells them apart.

For the monitor, hosts share nothing but the store; two sessions contend for a
lease, one crash interrupts a delivery. `MaxFailures` is 3 where the schema says
1000: what matters is that the third failure can be written and one after it
cannot.

The runs `live_session`, `session_settles`, `store` and `edges` put together
what has no variable in common: a behaviour is about one part and the others
rest in an initial state, so the states add up and do not multiply. In `edges`
playback is checked without microphone calls and the microphone with little
playback (they meet in disposal only), the screen without transcript lines and
the transcript without an active microphone; a provider session has two gateway
calls and voice turns together, and one with separate speech services is told to
speak or to stop; the console has two requests only while the task has at most
two events. The routes take one request of any kind before the first tick, the
probe takes requests for the status only, two at a time against a cache of one
tick; the tools that change a task run two at a time on two tasks, of which one
is in the inbox at first, every tool by itself. In `store` the journal buffers
one note where three arrive, and an update is tried twice where two writes may
be lost. Wherever a queue or a table has a limit in the code (held input, the
ledger, queued requests, the waiting frames, the event log), its bound is
smaller than what the instance can produce, so that the limit is reached. Two or
three of the things that contend (calls, flushes, clients, sockets, keys) is the
number at which the code's comparisons can go wrong; one fault of each kind
meets each step, because a fault may strike anywhere.

Larger instances of single modules were checked once and passed: `Conversations`
with two faults (391 thousand states) and with two devices (21 million),
`LocalVoiceSession` with two asks (1.6 million), `OpenAIRealtimeSession` with
two gateway calls and two turns (423 thousand), `RivaRealtimeSession` with more
frames and calls (3.9 million), `TerminalConsole` with more steps (10 million),
`VoicePresence` with four events (5 million), `DashboardRelay` with status and
relay interleaved (3.8 million), `ServiceManager` with four commands,
`TaskNarration` with four paints.

### Fairness

Each assumption is weak fairness of one operation's steps.

- `FairSpec` (supervisor): promises settle, timers fire, the drain loop
  proceeds; the service manager restarts a gateway that is down and its owner
  comes back; Hermes answers requests and its runs end. The last is an
  assumption on the agent, without which no task of the real system settles
  either. Faults, crashes, stops and the owner's other calls are never fair.
- `SpeechFair`: the event loop runs the flushes, its timers and the deadline
  watch; the client plays what it was sent; a claim of another session ends.
  Users need not be silent.
- `DetectionFair`: scores arrive and the expiry timer fires.
- `ServerFair`: the keepalive pings, a closed socket ends, a session's close
  settles. Nobody has to connect, leave or shut down. `VanishedIsFreed` needs a
  keepalive (`keepaliveMs > 0`; 0 switches it off).

## Where the code disagrees with what is said of it

Two runs expect a violation.

- `forgotten_utterance`: `SpeechMux.pump` remembers the front of the queue,
  awaits its gate and then takes *the* front off. When `abort()` emptied the
  queue and `speak()` filled it again in between, the aborted utterance is
  spoken and the new one is dropped; its promise never settles.
- `restore_lost`: `restore()` replaces the live document, then the archive, and
  takes the result into memory last. When the archive's rename lands and the
  sync behind it fails, memory lacks the task that both files have moved, and
  its next write removes it from the only document that has it. `AckedIsKept`
  holds in `store`, where writes fail, syncs of the live document, and syncs of
  the archive outside a restore.

### Demonstrations

The following definitions are stated in the modules and checked by no run,
because the code does not keep them. To see a counterexample, put the definition
into the configuration named (alone, as INVARIANT, or as PROPERTY without
SYMMETRY where it is an action or temporal formula), with the change in
brackets.

| configuration | definition | what happens |
| --- | --- | --- |
| `Streams` [`Delegable = {a}`] | `LaunchRunNeverCompletesDelegated` | `moveToStatus` checks for delegated work before its serialized write; `markDelegated` in between is overwritten and the launch run completes the task |
| `Streams` [`Delegable = {a}`, `Outcomes` with `"cancelled"`] | `MonitoringNeverCancelsDelegated` | a cancelled launch run cancels delegated work, which the transition table's comment excludes |
| `Admission` [`Delegable = {a}`] | `NoStalledQueue` | `markDelegated` frees a slot and wakes nothing |
| `Admission` [`WorkMode = {a, c}`, `Stoppable = {b}`] | `NoStalledQueue` | `stop()` of a queued task never reaches its `scheduleDrain`: tasks behind a stopped barrier wait for an unrelated event |
| `Settles` [`Approving = {a}`] | `CompletedRunCloses` | a run that completes while its record waits for approval is never projected after a restart: the table has no such move and no event comes any more |
| `Admission` [`WorkMode = {a}`] | `ExclusiveRunsAlone` | a task with a work mode runs beside exclusive work, against `docs/background-tasks.md` |
| `Monitor` | `PollsGoOn` | a poll timer that fires while somebody lists the agents of the host finds it busy and is not armed again (`external-agent-monitor.ts:279`) |
| `Monitor` | `GatewayStaysUp` | a watch stopped during a failed poll cannot be written by `recordHostFailure`, whose error leaves `pollHost` through its catch; nobody handles the rejection and the gateway exits |
| `Monitor` | `ThreeFailuresShow` | a watch never observed does not go offline: there is no observation to flip |
| `Monitor` [`MaxSpoken = 2`] | `SpokenOnce` | `completeAnnouncement` gives up the lease before its durable write, and a second session repeats the update |
| `Monitor` [two watches, one session, `Failing = {}`, `Browsing = {}`, no crash] | `SuccessRecovers` | a watch stopped during a successful poll charges a host failure to the others |
| `LiveSession` | `TurnsWaitForTools`, `HeldIsAlwaysReleased` | a frame taken before a tool call arrived is sent while its output is outstanding; audio that is scored while a tool runs is held after its result, and only the next call drains it |
| `LiveSession` | `OneVoice`, `MutedIsSilent`, `NeverOverTheUser` | the single-flight latch is released while another flush awaits its claim; a flush under way when its session is demoted, or when the user begins to speak, goes on |
| `LiveSession` [`MaxEvents = 3`] | `NoticesSpeakAlone` | between a flush's checks and its notice lies the claim, in which another may speak |
| `SessionSettles` | `ExternalSettles` | the deadline watch looks at notices only; an external update may wait for ever behind a busy conversation |
| `LiveSession` | `ClosedIsQuiet`, `NewestSpeaks`, `OneThread` | a start that goes on after a close arms its subscription; a silenced session stays silent when it claims again (`voice-arbiter.ts:2-3` says the newest wins); two devices create one thread each |
| `LiveSession` | `DroppedStaysSilent`, `OneSidecarVoice` | an aborted utterance is spoken when its gate opens; mux and filler do not look at each other |
| `LiveSession` | `AlwaysScoredOnce`, `ForwardedAlwaysInOrder`, `ActiveIsAlwaysTold` | frames scored concurrently (the held ones) share the engine's residual and are decided in any order; a stream that passes through stops without its gate |
| `LiveSession` | `TurnsFollowTheThread`, `NoTurnWhileRunning`, `AnswerIsOneTurn`, `VoiceThreadStays` | a queued turn goes to the thread as it was; a broken stream is asked again while Hermes does the first, and its tail joins two answers; a list that failed makes a second voice thread |
| `LiveSession` | `ResponsesAreWatched`, `RequestsAreServed`, `TurnsAreTaken`, `ReceiptsAreHarmless`, `NoticesAreThemselves` | local runtime: a turn stops the deadline of a pending request; two requests meet; a transcript is left when the user spoke again; a spoken receipt ends the session; a turn's response is taken for the notice |
| `LiveSession` | `FailedLeavesNothing`, `AllAreAwaited` | a start that fails after the monitor's leaves it polling; an upgrade under way at a shutdown becomes a session nobody waits for |
| `LiveSession` | `WatchedOnce`, `WatchedKnowsItsWork` | overlapping calls register an agent twice; an agent whose prompt failed is found by the retry and counts as told |
| `LiveSession` [`Linked = {k1, k2}`] | `OneAgentPerTask` | two keys for one task launch an agent each |
| `LiveSession` [`Lagging = TRUE`] | `OneAgentPerKey` | with a host whose list lags, a retry launches a second agent, against `herdr-external-launch.adapter.ts:16-18` |
| `Store` [three tasks, no faults] | `ArchiveStaysReadable` | the archive is written without a bound and refused when read past the limit; from then on nothing is archived or restored |
| `Store` | `NoNoteIsLost`, `NoTaskIsStuck` | what is noted while a flush is written goes with the buffer it came into; notes the log does not take refuse every later update of the task (`task-supervisor.ts:1436-1454`) |
| `Store` | `ActivityLogged`, `RefusedIsUndone` | a log full of lifecycle events takes no progress; a watch whose write was refused is served from memory and rides on the next write |
| `Edges` | `NeverHalfSwitched` | a controller that dies between writing the environment file and restarting the service leaves the old brain running, against `docs/brain-failover.md:165` |
| `Edges` | `NeverStranded` | a forced reconnect that misses the end of the old socket leaves the page "connected" to nothing after the next loss |
| `Edges` | `AnswersAgree`, `ReplaysAccepted`, `AcksAreMatched` | `task.get` at an equal sequence projects a task by other rules than its events and closes page and console, against `docs/client-protocol.md:292`; an acknowledgement is answered with whatever notice is current |
| `Edges` | `NewestIsShared` | a probe that began earlier and ended later replaces the shared result of a younger one |
| `Edges` | `CancelledNeverRan`, `FailedDoesNothing` | a task that ran is told to be cancelled like one that never started; a watch whose task could not be handed over goes on though the call failed |
| `Edges` | `SweptWasHeard` | an acknowledgement marks the notice that is current when its turn comes, and the sweep takes the unheard outcome for read, against `file-task-store.ts:437-439` |
| `Edges` | `RecallSurvives` | a deletion before the first synchronisation empties the index |
| `Edges` | `LastStopWins`, `DeliveredWasHeard` | a start that waits for a stop is not withdrawn by the next stop; a frame given up for a closed audio context is not counted as lost |
| `Edges` | `RequestsAreSettled`, `IdleIsKnown`; `ResultsAreRead` [`MaxRivaCalls = 2`] | separate services: a turn reaches the brain with an unanswered call; a dropped echo leaves the gateway thinking the provider busy; results beside one with words of its own are not read |

Read from the code while modelling, without a definition of their own: an
eligible queued task with free capacity shows no blocker (`QueueSupervision`); a
late probe restarts the microphone of a muted or demoted page
(`voice.js:262-268`, against `docs/client-protocol.md:361`), and the agent line
keeps a longer draft after a shorter final; a dashboard bridge whose browser
side ends first loses the gateway's last message and reports 1013; uninstalling
under systemd ignores a failed `disable` and reports success with the process
running; under launchd a failed `bootout` is ignored when `print` fails too, for
any reason (`service-manager.ts:347-352`), so `uninstall` removes the definition
of a service that runs and `stop` reports success: `NoOrphanService` and
`CommandsDeliver` except exactly that (`overlooked`), and claim that `install`
and `restart` never report success there; the messages of the task records pushed while a session starts are kept
one deep (`pendingTaskRecords`); the delegation route answers `task_status:
"delegated"` also when `markDelegated` threw (`server.ts:941-963`).

## Proofs

`TaskSupervisionProofs` proves, for every set of tasks, every lineage and
resource assignment, every bound, and every number of faults and restarts:

- `TypeCorrect`: `Spec => []TypeOK`;
- `SupervisorSound`: the inductive invariant `Sound`, which is `TypeOK` and
  `RecordsOK` (a missing-run mark only on a record whose status is unknown, a
  containment mark only on an indeterminate one);
- `SlotsAlwaysBounded`: at most `MaxConcurrent` tasks hold a slot;
- `ReservationsAlwaysExclusive`: holders never share a lineage or an explicit
  resource;
- `ClosedStaysFinal` and `StopIntentAlwaysKept`: the action properties.

The argument is one observation made precise in lemmas about `TaskRecords`: call a
rewriting of a record *calm* if it takes no slot and no reservation, does not
touch a closed record except to contain it, and keeps a stop intent. Each
updater of the code is calm from any well-shaped record, whatever its caller
believed, and only admission's move to dispatching is not. So every step of
every operation except `Admit` leaves `ActiveTasks` and `Holders` no larger, and
`Admit` checks slots and reservations in the serialized callback that writes.
`RecordsOK` is needed because a record with a missing-run mark is closed to
every updater although its status is active: without knowing that such a record
is `unknown`, a move out of it could take a slot.

The proofs rest on `SupervisorAssumption` (finitely many tasks, a lineage
function, positive limits), which TLC evaluates in every run of the supervisor.

`ExternalAgentMonitorProofs` does the same for the monitor, for every set of
hosts, watches and sessions, every bound and any number of crashes, from
`MonitorAssumption` (hosts, sessions and owners are told apart, sightings are
known ones) and `WatchAssumption` (the schema admits at least three failures):

- `MonitorTypeCorrect`: `Spec => []MonitorTypeOK`. It holds only with
  `PointsOK`, which says at which points a host, an owner and a session can be
  and that each of them then works on a watch: what an update writes depends on
  the point it was reached from;
- `MonitorSound`: the inductive invariant `Watched`, which adds `RegisteredOK`
  (whoever works on a watch works on one that was written; one being registered
  was not) and the offline rule. `RegisteredOK` is needed because an observation
  of an unwritten watch, or a second registration, would reset what the rule
  counts;
- `OfflineExactlyAfterThree` and `ReleasedStaysFinal`: every write of a watch is
  one of four updaters or a creation (`StepRewrites`), and each of these keeps
  the rule and leaves a released watch as it was seen last, whatever its caller
  had read. `FailuresAlwaysCounted` is types and offline rule together, as the
  run checks them;
- `SpeechSound`: the inductive invariant `Spoken`. "No two open sessions speak
  together" is not inductive; it follows from leases: an open session that
  speaks holds the lease, a lease is held by a session that delivers, and
  whoever is about to record an announcement delivered it. From it
  `OneSpeakerAtATime`, `LeasesAlwaysUsed` and `AnnouncedAlwaysSpoken`, and
  `AnnouncementsAlwaysSound`, the three together.

`TaskSupervisionProofs` goes on to prove, for the same constants, that a task is
started at most once and that the supervisor implements
`WorkExecution`:

- `StartedAtMostOnce`, `UntrackedAlwaysFenced`: neither is inductive alone. The
  invariant `Accounted` says of each task how far its dispatch got and what
  Hermes can know of it by then (`DispatchAccounted`: before the request is sent
  there is no run and none on the wire), that a record without a run id is
  doubtful or untouched (`RecordAccounted`), and that whatever follows or stops a
  run has its id from the record (`FollowersAccounted`). Every action but the
  dispatch and the arrival of a request *continues* a task in this sense
  (`Continues`), which is proved once;
- `PromiseKept`: `Spec => KeepsPromise`. Each action of `Next` is one move of
  `WorkExecution` or a stutter under the mapping. `Accounted` is needed where the
  supervisor takes work back to "waiting": it may do so only because nothing was
  started.

It adds what the gateway follows, settles and tells:

- `AlwaysFollowed`: the invariant `AllFollowed` names who keeps an eye on a run at
  each moment: a timer, a subscription, a suppression, a poll or a recovery under
  way (`Kept`), or for a run just accepted the dispatch or the stop request it
  sends (`Handled`). A confirmed stop must already be kept, and an operation that
  waits for a stop request must find it in `sending`; without these two a stop
  that ends between the two could drop the run;
- `SettledTruthfully`: `Truth` carries the fact through operations: whoever is
  about to write a terminal status holds a snapshot of a run that is over, and
  runs do not come back;
- `QueueToldTruly`: `Ordered` (the creation order lists each record once) and the
  comparison of the view's rules with those of admission;
- `QueueNeverStalls`: `Spec => []NoStalledQueue`, if `Delegable = {}`,
  `Stoppable = {}` and no write of admission fails. The three hypotheses are
  exactly the three steps that free capacity, or drop a blocker, and wake
  nothing: `markDelegated`, `stop()` of a queued task, and the admission whose
  write failed; the first two have their counterexamples above, and without them every
  other order of answers, polls, retries, lost requests and restarts is covered. The
  invariant `Awake` says that when the drain loop rests, or is about to, no queued
  task could be admitted, unless a poll that closed its record has yet to wake it.

`StoreProofs` is about the task store and the watch file, from
`DocumentsAssumption` (finitely many tasks, positive limits), `StoreAssumption`
(the names of no process are none of a process) and `FileAssumption`:

- `StoreTyped`, `OneWriter`: `LockKept` relates a process's belief, its name in
  the lock and the operation that signs it; a process that believes itself the
  writer always has its name there. So the code's branches for a lost lock fire
  only for causes outside the model (somebody editing the directory);
- `StoreAlwaysKept`: `StoreInv` adds what each plan may contain (`Planned`), that
  archives hold ended tasks only, and `RoomKept`: what an automatic store has in
  memory, and what it has already renamed, leaves room for the end of every task
  at work under either limit;
- `WhatIsToldIsKept`: told records are in each pair of documents a power loss may
  leave. The invariant `AllSafe` follows a record between the two documents
  (`Restoring`, `Leaving`), because in the middle of a move memory and files
  disagree on purpose. Its hypothesis, `"restore" \notin StoreFaults`, is exactly
  the failure that `restore_lost` shows;
- `AnsweredStaysFiled`: memory is never behind what was answered, and a write
  takes all of memory along (`MemoryAhead`).

`GatewayProofs`, from `ServerAssumption`, `DelegationAssumption` and
`ConversationAssumption` (finite sets, positive limits, any host):

- `ServerAlwaysKept`: `HoldsAt` says what the process has acquired at each point of
  start and shutdown, `PeerOK` that nobody is attached outside the time in which
  the server serves;
- `DelegationAlwaysKept`: a call that starts an agent is the only launch of its key
  (`LaunchesApart`), and has seen that no agent has it (`AskOK`), which on a host
  whose list is complete (`HostOK`) stays true until it starts one;
- `ConversationsAlwaysKept`: `RequestOK` says what a tool call has at each point of
  its way, a thread on a real model above all; only the first of a session's chain
  works (`ChainInv`), and the turns so far were accepted before whatever still waits
  (`OrderInv`): order among the turns alone is not inductive. `CountInv` bounds
  the turns of a call by the tries it has used.

`LiveSessionProofs`, from `LifeAssumption`, `InputAssumption`, `SpeechAssumption`,
`OutputAssumption` and `LocalAssumption` (finitely many sessions, natural bounds, at least one
delivery attempt, one retry at the gate and one clip to a sequence):

- `LifecycleAlwaysKept`: a session has what its point in `start()` says
  (`SessionOK`), and a record that arrives while it starts is in the list it has
  read or in what was queued for it (`KnowsOK`);
- `InputAlwaysKept`: `Ordered` puts what was sent, what the running job still has,
  what is held and what is queued in one sequence; audio that a gate scores is
  the exception, since nobody awaits its verdict. `ToolsInv` ties the ledger to
  the operations that wait or run, and gives also
- `AlwaysExecutedOnce` (an id not seen before was never asked, `Unasked`; one that
  waits to execute was never executed, `Fit`) and the action property
  `CancelledAlwaysSilent`;
- `AnnouncementsAlwaysKept`: `Good` says of each flush under way what it was given and
  whether it was heard by the time it records; `Worked` that a claim belongs to a
  flush of notices: `ClaimsWorkedOff` without the kind of the flush is not
  inductive, since the ends of other flushes give back no claim;
- `OutputAlwaysKept`: `MuxOK` puts what was begun, the utterance that waits at the
  gate and the rest of the queue in one order, also when the one that waits was
  aborted and has left the queue: its pump still begins it. `FillerInv` bounds what
  a sequence spent by what it played;
- `LocalAlwaysKept`: every step of the adapter leaves it as `WorksOn` says or closed;
  that something lets the queue out follows because a response that begins has an
  id of its own, which is why what is on its way is typed (`Downward`).

`ProviderProofs`, from `RealtimeAssumption`, `BytesAssumption`, `BrainAssumption`
and `RivaAssumption` (bounds that are natural numbers):

- `CutOffIsAlwaysSilent` and, through `RealtimeInv`, the invariant of the OpenAI
  adapter. What the adapter believes and what the provider does are tied together
  by what is on its way: one request at most is unanswered, and its answer is in
  the socket or still to come (`AskIsUp`, `StartIsDown`); whatever the adapter does
  not know yet of the past is downward (`PastIsPast`, `CutOffKnown`); the turns of
  the user add up over both directions and both ends (`TurnsAdd`). None of these
  is inductive without the others;
- `RequestsAlwaysKept`: `RequestInv` (`TakenOK`: what of the answer was read,
  `EndOK`: what is left at the end);
- `FailoverAlwaysKept`: `BrainInv`. The handler is a list of remaining steps, and
  the invariant says of each list what the files, the service and the diary of
  what was told are (`ControllerFollows`, `SwitchPends`, `DiaryFollows`);
- `RivaAlwaysKept`: `RivaInv` for the transcription sockets (`EarInv`), the turn
  (`TurnInv`) and the chain of what is to be said, whose length is counted
  (`ChainInv`).

`BrowserProofs`, from the assumptions of the modules it extends (natural bounds,
and what their modules name):

- `ReconnectAlwaysKept`: `PageInv`, which relates the supervisor's state to its
  timer and its attempt (`AttemptOK`), a live socket to the page's (`LiveOK`), and
  a forced reconnect to the socket it waits for (`ForceOK`), together with the
  exact exception (`StrandedByForce`);
- `AudioAlwaysKept`: `SoundInv` for the playback's chain and its reports, `MicOK`
  for the starts and stops of the microphone that overlap;
- `ViewNeverGoesBack`: what a page shows is true of a copy of the record that the
  session has read (`ViewTrue`), and whatever is on its way was made from one;
- `PresenceAlwaysKept`: `FaceOK`, `RowOK`, and that work and preparation are shown
  when they are under way; `NarrationAlwaysKept`: a narration asked for again was
  forgotten first (`ForgottenFirst`); `RelayAlwaysKept`: what a side was given is
  a beginning of what was taken from the other; `ServiceAlwaysKept`: what the
  remaining steps of a command will make of the service (`OnPlan`, `Delivered`),
  for every command, failure and ignored bootout.

`EdgeProofs` proves the routes (`RoutesAlwaysKept`: a request that works was
entitled to, and a probe's results are no older than its bound, also those shared)
and the tools (`ToolsAlwaysKept`: a call between its checks and its answer still
knows what it checked, though the works move on, `LaterWork`), and puts the parts together for the
behaviours TLC explores: `ProvidersAlwaysKept`, `ConnectionsAlwaysKept`,
`ClientsAlwaysKept` and `EdgesGoOn` are theorems of `EdgeSpec`.

Some definitions changed because a proof could not use them, without a change of
their meaning: CASE and IF arms that overlapped or whose precedence was not what
their layout said, one conversion of a status to the promise's word with arms
that were not disjoint, and parameters whose numbers no assumption had named. The chain of a session's
operations was a sequence from which an operation was filtered as it ended; a
filter is recursive, so the model now has the set that the sequence listed. Both
have the same reachable states in `live_session`.

### Only model-checked

Of the session `DetectionKept` (its gate folds the scores of a frame, which is
induction over data); of the stores `RecordsKept`; of `ClientsKept` the parts
about the page's tasks and the console (`ClientsAlwaysKept` leaves them out by its
hypothesis; of the page's tasks `NeverBack` is proved). What is not within the
prover's reach stays with TLC for good: liveness under fairness, `ENABLED`,
induction over data, and what recursive operators compute.

## Not modelled

- The shadow mood classifier (it observes and decides nothing), the search and
  ranking of the knowledge index, configuration and protocol schemas (parsing),
  sidecars, scripts and assets (programs of their own).
- The remaining providers' adapters, which repeat the turn state of the modelled
  ones; the contents of metrics and headers of HTTP answers; setup, doctor and the files they edit; rendering, sound cues and wording; the numbers
  of voice-activity inference and audio formats.
- Of modelled parts, what their notes in `PROJECT.json` list: above all usage
  and text of records, the four-task limit of a queue's blockers, the milliseconds
  of held audio and the audio end that half-duplex drops, the eviction of
  deferred answers and their deltas, several tool calls in one OpenAI response
  and its session's age limit, the index's 500 tasks (`RecallIsRight` holds up to
  them), the store's old formats, the choice of an announcement's event, excerpts and back-off
  lengths, and the failover's two direct commands.
