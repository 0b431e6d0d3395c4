# A formal model of ratchet

This directory is a TLA+ development of `ratchet`, the command-line agent and its
daemon (the Go code under `src/`). It says which parts of the program are
modelled, what TLC checks about them on small instances, and what is proved
about them for all instances with TLAPS.

All paths below are relative to `src/internal/` unless they start with `docs/`.

## Inventory

The daemon (`daemon/`) serves one gRPC API to terminal and web clients. It owns a
SQLite database, a secret store, and a set of long-running managers. The ACP
client (`acpclient/`) is a second program in the same binary: it drives external
agents and keeps its sessions in files that several processes share.

| Component | State | Operations | Interacts with | Hard because |
|---|---|---|---|---|
| Provider saves (`daemon/provider_operations.go`) | journal `provider_operations`, rows `llm_providers`, flights, alias gates | Start, Commit, Get, runFlight, finalize, Stop | secret store, redactor, registry, cleanup, RPCs | two-phase save over two stores, crash at each step, replay by id, late finalizers, panics |
| Secret cleanup (`daemon/provider_cleanup.go`) | queue `provider_secret_cleanup`, worker slots | dispatch, check, delete, drop, retry | provider saves, secret store | check-then-delete outside every lock |
| Engine (`daemon/engine.go`, `secret_redactor.go`) | database, registry, redactor, runtime parts | start, migrations, close | everything | one database connection, start order |
| Daemon service (`daemon/service.go`) | managers, RPC handlers | some sixty RPCs, Close | all managers | shutdown order |
| ACP session queue (`acpclient/store.go`, `drain.go`, `watch.go`, `eventlog.go`) | session file, cancellation side file, owner lease, event log | append, drain, cancel, recover, watch | background drains, agents | several processes, crash between files, cancellation racing a launch |
| ACP background drains (`acpclient/background.go`, `background_audit.go`) | policy journal, audit log, supervisor leases | start, stop, resume, recover, shutdown | session queue | four files per transition, process death |
| Cron (`daemon/cron.go`) | `cron_jobs`, entries, goroutines | create, pause, resume, stop, close | database, chat | database and memory updated in separate steps |
| Gates (`daemon/chat.go`, `approval_gate.go`, `human_gate.go`) | pending requests | request, wait, respond | chat, clients | answers racing timeouts and registration |
| Chat and compaction (`daemon/chat.go`, `compression.go`) | message history, archive | turn, compact, reset | provider, sessions | slow provider call between reading and deleting history |
| Fleet and jobs (`daemon/fleet.go`, `jobs.go`) | fleets, workers, status | start, kill, purge, list | mesh, providers | read-write lock taken twice, panics |
| Teams (`daemon/teams.go`) | team, agents, observers, event channel | start, observe, message, kill, purge | mesh, router | bounded channels, close against send |
| Mesh (`mesh/`) | blackboard, inboxes, watchers | write, watch, bridge, send | teams, fleets | order of notifications, dropped messages |
| Daemon lifecycle (`daemon/daemon.go`, `pidfile.go`, `checkpoint.go`) | lock, pid file, socket, checkpoint | start, reload, stop | service | signals racing the end of Serve |
| Sessions (`daemon/sessions.go`, `session_broadcaster.go`) | session rows, subscribers | create, kill, fan-out | chat | best-effort channels |
| Plans, trust, actors, hooks | small maps under one mutex | | chat | low |
| ACP flows, profiles, archive | files | | | sequential |
| Plugins, MCP, ACP server | external processes | | | process management |
| Setup wizard (`tui/pages/onboarding.go`, `tui/app.go`) | step, flow, operation, commands under way | enter, answer, save, test, retry, go back, quit | provider saves | answers that come late, twice or never; a save whose fate is unknown |
| Terminal interface, commands | view state | | daemon | presentation |

What makes a component correct:

* **Provider saves** A save is executed at most once per id. It ends committed or
  failed, a failed save has no effect on the provider, a committed one keeps its
  credential readable and redacted. One save or removal at a time owns an alias.
  At most one provider is the default. The registry does not serve an outdated
  provider for longer than a save is unfinished. Callers of a save are answered;
  Stop returns.
* **Secret cleanup** No secret in use is deleted; every secret out of use is
  deleted in the end.
* **ACP session queue** One drain per session, also across crashes. An
  acknowledged cancellation is permanent and no agent starts after it. A finished
  prompt never runs again. The event log and the session agree.
* **ACP background drains** One worker per session. Nothing runs unattended that
  the log, the policy and the journal do not show; a recovery takes up exactly what
  was on record. Shutdown returns.
* **Cron** A job called active has a goroutine; a stopped job is never active again,
  and nothing starts after Close.
* **Gates** A tool runs only when it is allowed; a response that was accepted decides.
* **Compaction** Every message a compaction has read is in the history, or in its
  summary and in an archive.
* **Fleet and jobs** A fleet completes when all its workers did, and a canceled one
  ends; calls return.
* **Teams, mesh** A team ends and its stream tells how; an accepted message arrives;
  no broadcast meets a closed observer.
* **Daemon lifecycle** One daemon per home directory; a reload is written from an open
  service; a stop that reports success is true.
* **Setup wizard** A save carries what was entered for it, none is left unseen, and
  what is shown as configured is.

## Plan

Each module is parameterised by CONSTANTS with a named assumption, has one action per
operation, and declares no recursion, so that it can be proved about as well as checked.

1. `ProviderOperations`, `ProviderSave`, `ProviderLocks`: the only durable protocol of
   the daemon that spans two stores.
2. `SessionQueue`, `PromptQueue`: the file-based queue of the ACP client and its promise.
3. `BackgroundManager`: the policy journal of background drains.
4. `CronScheduler`, `Chat` (permission gate and compaction), `Fleet`, `Teams`: the
   managers that keep goroutines.
5. `DaemonLifecycle`: lock, PID file, socket, reload and restart around them.
6. `Onboarding`: the wizard, a client of the promise that `ProviderSave` makes.

All of these are written and checked, and the safety properties of each are proved. Left
are components that are not modelled: plans, trust, actors, hooks, ACP flows and plugins.

## Modules

### ProviderOperations

Durable state: `op` is the table `provider_operations`, `row` is `llm_providers`,
`queue` is `provider_secret_cleanup`, `store` the set of names the secret store holds a
value for. `used` is a history variable: the versioned names ever drawn, which never
repeat because they contain a UUID. Volatile state of one process: `flight` (the
`runFlight` goroutines), `flights` (`m.flights`), `gate` (`m.aliases`), `rowsMu`
(`engine.ProviderRowsMu`), `caller` (RPC handlers), `batch` and `cleaning` (the
dispatcher's loop variable and `m.cleaning`), `redacted`, `stale` (aliases whose row
changed since the registry last dropped them). `Crash` loses all of it, between any
two steps.

A step is one database transaction, one call of the secret store, or one section under
a mutex. `ProviderRowsMu` is held from `FlightApply` to the end of the finalization, as
in `applyAndFinalize`, and steps of others that need it are disabled meanwhile; a
section that begins and ends within one step only requires it free.

| Code | Actions |
|---|---|
| `newEngineContext`, `initDB` | `Boot` |
| `reconcileStartup` | `Recover`, `Sweep`, `Serve` |
| `Commit` | `CommitKnown`, `CommitBusy`, `CommitNew`, `CommitRejected`, `Reread` |
| `waitForFlight`, returns | `FlightDone`, `CallReturns` |
| `runFlight`, `applyAndFinalize`, `failOperation` | `Flight...` |
| `Get`, `finalizeOperation` | `Get`, `Query...` |
| `RemoveProvider` | `RemoveProvider`, `RemoveRow` |
| `SetDefaultProvider`, `UpdateProviderModel` | the same names |
| `dispatchCleanup`, `cleanupSecret` | `DispatchQuery`, `DispatchStart`, `Clean...` |
| `Stop`, `Close` | `Stop`, `Exit` |

Abstracted: the failure class and message of a failed operation, model, settings and
base URL of a provider, the value of a secret (a name has one or has none), back-off
times (any subset of the queue may be due), contexts (a waiting caller may return at any
time), and the 24 hours after which a terminal operation is pruned (any subset may be
expired). A failing statement has no effect, a failing call of the secret store may
have taken effect. `AddProvider` is `Commit` with an id of its own.

### ProviderSave

The abstract specification: a save is submitted, then takes effect as a whole or not
at all; a credential that an alias or an applied save uses is never discarded.
`ProviderOperations` instantiates it as `Promise` with `saves <- op`,
`binding <- [a \in Aliases |-> row[a].secret]`, `readable <- store`.

### ProviderInvariant

The parts of the inductive invariant of `ProviderOperations`, each with the reason it
holds: `IInv`, and `SharingInv` on top of it. `MCProviderOperations` extends it for TLC,
`ProviderOperationsProofs` for TLAPS.

### ProviderLocks

The same code at the level of its locks only: `m.mu`, gates, `ProviderRowsMu` and the
single connection of the pool (`SetMaxOpenConns(1)`), with every point at which a
handler or a flight waits. It is finer than `ProviderOperations`, which takes `m.mu`
as atomic. `aliasMu` is left out (it is never held while waiting), and so are the
reference counts of gates (they only decide when an entry leaves the map). `WaitsFor` is
whom a thread waits for. What is `None` elsewhere is `Nobody` here, and `Init`, `Next` and
`Spec` are `LocksInit`, `LocksNext` and `LocksSpec`: its theorems share a module with those
of `Onboarding`, as those of `Fleet` do with those of `CronScheduler`.

### SessionQueue

One session of the ACP client and the processes that use it: the commands of
`cmd/ratchet/cmd_acp_client.go` and the workers of the background manager. Files:
`status`, `queue` and `pending` are the `Status`, `PromptQueue` and `PendingPrompt` of the
`SessionRecord`, `log` the set of prompts with events in the event log, `sidecar` the
cancel-request file. Lock files: `lease` (`owner.lock` with its record), `claim`,
`admission`, `storeLock`. A transaction of the store is one step, except the two that
write a second file after the first: the save of a turn (event log, then session) and
the cancellation of an owner (session, then cancel-request file); `storeLock` is held
between their steps, and every other step on the session needs it free (`Reads`).
`Crash` ends a process at any point and frees its locks. `Legacy` says that the session
was written by a version before queues, or imported from its archive, and has a
`PendingPrompt` of its own, which loading puts into the queue.

| Code | Actions |
|---|---|
| `ReconcileCancellationRequests`, `AcquireOwnerLease`, `Release` | `Begin`, `Acquire`, `Release` |
| `drainQueueOwned` | `Recover`, `Check`, `NextPrompt`, `Claim`, `Admit`, `Launch`, `CancelPending` |
| `WatchQueue`, `finalizeWatchCancellation` | `WatchCycle`, `WatchWork`, `Done`, `Finalize` |
| `SessionRunner.Prompt` with its cancel watcher | `Prompt`, `PromptEnds` |
| `MarkQueueFailed`, `MarkQueueCompletedWithEvents`, `transitionSession` | `MarkFailed`, `WriteEvents`, `Save`, `SaveFails` |
| exec: `MarkSessionStarted`; export | `Start`, `Read` |
| cancel: `RequestCancelActiveExecution`, `CancelPendingQueue`, `MarkPendingCanceled` | `BeginCancel`, `CancelLatch`, `CancelSidecar`, `CancelUnowned`, `CancelQueue`, `CancelPrompt` |
| `recoverCanceledSession`, `RecoverStaleQueue` | `BeginStale`, `StaleOwner`, `StaleRecover` |
| `AppendQueuedPrompt` | `Enqueue` |

A read or write that fails, and a context that ends, is `Fail` for an owner and
`CancelFails` for the cancel command. Abstracted: ids, texts, options, times and errors
of prompts, the number of prompts a drain is limited to (it may end after each one), the
contents of events, agents that run outside a queue.

### PromptQueue

What the queue promises, as `ProviderSave` does for saves: a sequence of prompts, the prompt
each process works on, and the latch. A prompt is taken when nobody works and no earlier one
waits; it is finished by who took it; it is put back only while nobody works; an
accepted cancellation overrules what comes later. There are no files, locks, leases or crashes:
a process that dies has dropped its work. `SessionQueue!ImplementsQueue` maps
`Task`, what each process works on between its claim and the outcome, to `work`.

### SessionQueueInvariant

The parts of the inductive invariant `Inv` of `SessionQueue`, with their reasons, for
`MCSessionQueue` and `SessionQueueProofs`.

### CronScheduler

`stored` is the column `cron_jobs.status`; `entries` and `entry` are `cs.entries` and the
`cronEntry` of a job (a handler keeps its pointer after the key is deleted), whose
`cancel` is the goroutine it ends; `loop` is the goroutines of `run`, `mu` is `cs.mu`.
`phase` follows `NewService` (`starting`), `Service.Close` (`canceled`, `closed`) and the
end of the process. `cs.mu` is held over several steps by `Resume` only, every other
section under it is one step.

| Code | Actions |
|---|---|
| `Start`, `startEntry` | `Boot`, `StartEntry`, `Serve` |
| `Create` | `Create` |
| `Pause` | `Pause`, `PauseEntry`, `PauseStore` |
| `Resume`, `restartEntryLocked` | `Resume`, `ResumeStore`, `ResumeFails`, `Restart` |
| `Stop` | `Stop`, `StopCancel`, `StopStore` |
| `run` | `Tick`, `Callback`, `Quit` |
| `Service.Close`, `CronScheduler.Close` | `CancelAll`, `Close`, `Exit` |

The updates of `Pause` and `Stop` come after the mutexes are released, and the model shows
what follows: a late `PauseStore` marks a job paused that runs, a `Pause` between
`ResumeStore` and `Restart` cancels the old goroutine only and the next `Resume` gives the
job a second one, a canceled goroutine may tick once more, and a failing `StopStore` leaves
a job that runs again after a restart. No property forbids these, the code does not keep
one. Abstracted: schedules, times, run counts, and what `onTick` starts (`Callback` hands it
to a goroutine of the service and returns).

### BackgroundManager

The background drains of one session (`acpclient/background.go`,
`background_audit.go`). Files: `journal` (the transition under way), `policy`, `audit`
and `latched` (the cancellation of the session). Locks: `lease` (its owner lease) and
the admission of launches. Memory of a daemon: `transition` (`m.transitions`, who
reserved the session), `active`, `stopping` and `handoff` (the Stop that owns the end of
the worker and what its channel holds), `guard` (`m.terminal`). `proc` says where
each caller, worker and the start of the daemon is, `run` what a worker ended with and
heard, `joins` which worker a Stop waits for. `unlaunched` is a history variable: the last
Start left its policy on record and launched nothing.

| Code | Actions |
|---|---|
| `persistBeforeLaunch`, `persistTerminal` and what they write | `PutTransition`, `Upsert`, `AppendAudit`, `UpsertFinal`, `RemoveTransition`, `UpsertDegraded` |
| `launchPersistedPolicy` | `LaunchPersisted`, `LaunchUnadmitted` |
| `Start` | `Start`, `Reserve`, `StartRefused` |
| `Stop`, `releaseStopTransition` | `Stop`, `StopReads`, `StopUnread`, `StopFailed`, `StopRecorded`, `StopDone`, `Join` |
| `watchWorker`, `workerDone` | `Ends`, `Heard`, `Admit`, `WorkerRecorded`, `Unlease`, `Leave` |
| `Resume`, `reconcileTerminalAudit` | `Resume`, `Settle`, `Reconcile`, `ResumePolicy`, `ResumeRecorded`, `ResumeFails`, `Serve` |
| `Shutdown`, the end of the process, `RequestCancel` | `Shutdown`, `Exit`, `Crash`, `Cancel` |

A write that fails may have reached the disk all the same. `MaxCalls`, `MaxBoots` and
`MaxFaults` bound the calls, the starts of a daemon and the failing writes. Abstracted:
why a policy ended, permission policies, times, and what the worker drains, which is
`SessionQueue`. `BackgroundInvariant` holds the parts of the inductive invariant `IInv`.

### Chat

The turns of one session (`daemon/chat.go`, with the compression of its history): chats,
manual compactions and reviews that clients send at the same time. `rows` is the history
in the database, each row with the messages it stands for; `archives` what compactions
archived; `channel` the channel of a pending permission request, with room for one
answer.

| Code | Actions |
|---|---|
| `handleChat`, `handleCompact`, `handleReview` | `Begin`, `SaveUser`, `Stream`, `Execute`, `SaveAssistant` |
| `permissionGate.Wait` | `Register`, `Receive`, `Timeout`, `Unregister` |
| `permissionGate.Respond` | `Respond`, `Send` |
| `ListMessages`, `Compress`, `compactHistoryWithArchive` | `LoadHistory`, `ListMessages`, `Compact` |
| the client goes away | `Leave` |

`Compact` replaces the history by one summary and the last `Preserve` messages, and is one
transaction; the read before it is not part of it. Abstracted: texts, tokens, tools, and
events of the stream other than its end, its failure and a tool call. `ChatInvariant` holds
the parts of the inductive invariant.

### Fleet

One fleet (`daemon/fleet.go`), and the kill that reaches it through the registry of jobs
(`daemon/jobs.go`). `worker` has the place and the status of each goroutine, `cancelFns`
the registered cancel functions, `events` the bounded channel to the client, `main` the
place of `runFleet`, `purging` that a writer waits for `fm.mu`. Go's `RWMutex` lets no
new reader in while a writer waits, and only `KillJob` reads twice, so the readers that
matter are the callers between its two read locks.

| Code | Actions |
|---|---|
| `StartFleet`, `runFleet` | `StartFleet`, `Insert`, `Launch`, `Wait`, `Finish`, `Send`, `CloseEvents` |
| the goroutine of a worker, `executeWorker` | `BeginWorker`, `WorkerSends`, `Execute`, `End`, `Leave` |
| `KillJob`, `KillWorker` | `Call`, `Search`, `Find`, `LookUp`, `Cancel` |
| `cleanupLoop`, `purgeCompleted` | `PurgeTick`, `Purge` |
| the client | `ClientReads`, `ClientLeaves` |

### Teams

One team (`daemon/teams.go`) of either kind: run by a goroutine of its own, or a mesh team
whose events a goroutine forwards. `events` is the bounded channel to the client, `mesh`
that of the nodes, which drop what does not fit; `inbox` what agents were sent; `observer`
the streams that observe the team.

| Code | Actions |
|---|---|
| `StartTeam`, `run`, `routeMessage` | `StartTeam`, `Insert`, `Announce`, `CheckContext`, `Find`, `Execute`, `Panic`, `RouteSend`, `RouteBroadcast`, `NextAgent`, `Judge`, `Complete`, `MarkDone`, `Close` |
| `StartMeshTeam`, its nodes and its forwarder | `StartMeshTeam`, `NodeMessage`, `NodeEnds`, `Receive`, `Forward`, `Result`, `Errors`, `GiveUp` |
| `DirectMessage` | `DirectMessage`, `MessageSend`, `MessageAppend`, `MessageBroadcast` |
| `KillAgent`, `KillJob`, removal of an agent, purge | `KillTeam`, `KillJob`, `RemoveAgent`, `Purge` |
| `AttachTeam`, the goroutine that ends an observer | `AttachTeam`, `DetachTeam`, `ObserverEnds` |
| the client | `ClientReads`, `ClientLeaves` |

`MaxCalls` bounds the calls of operators. `Cap` and `MeshCap` are the capacities of the
channels.

### DaemonLifecycle

Daemons and the commands that start, stop, restart and reload them (`daemon/daemon.go`,
`pidfile.go`, `lock_unix.go`, `cmd/ratchet/cmd_daemon.go`, `client/client.go`). Shared are
the lock file, the PID file, the socket and the table of processes: a process that ended
stays in it until its parent, which does not wait for it, has ended.

| Code | Actions |
|---|---|
| the main function of a daemon, and its deferred calls | `Launch`, `AcquireLock`, `CheckRunning`, `CreatePID`, `WritePID`, `Listen`, `NewDaemonService`, `ServeFails`, `BeginDrain`, `Drained`, `CloseService`, `CleanupSocket`, `CleanupPID`, `Unlock`, `Exit` |
| the goroutines that wait for the end and for reloads | `BeginShutdown`, `GracefulStop`, `Stopped`, `BeginReload`, `FinishReload`, `CancelAfterReload`, `ReloadEnds`, `CallEnds` |
| signals, the reload RPC, process death | `ReloadSignal`, `RequestReload`, `Interrupt`, `Crash` |
| `EnsureDaemon`, `StartBackground`, `waitForDaemonReady` | `Begin`, `Ensure`, `StartBackground`, `Ready`, `Quit` |
| `stopContextWithOps`, `waitForDaemonExit`, `reconcileDaemonOwnership` | `Capture`, `CheckCaptured`, `ShutdownRPC`, `WaitGrace`, `TerminateDaemon`, `WaitFallback`, `Reconcile` |
| `ReloadDaemon` | `BeginReloadDaemon`, `TriggerReload`, `AwaitVanished`, `SpawnReplacement`, `AwaitSocket` |

Process ids are not used again, and a waiting time may be over at any moment: a stop
whose last one is over reports an error. `DaemonInvariant` holds the inductive
invariant.

### Onboarding

The setup wizard (`tui/pages/onboarding.go`) with the part of `tui/app.go` that opens and
leaves it, and a daemon of which it knows what `ProviderSave` promises (`Daemon`, an
instance of that module). The interface handles one message at a time, a key, the answer of a
command, or a message that asks for another page or the end: each action is the handling of
one message. `calls` is the set of commands under
way with the wizard and the flow they were started in, `mail` the messages under way that
change the page (a handler only returns a command that sends one, and other messages
may be handled first), `known` what the program shows as
configured, `request` what became of a save on its way to the daemon. Two history variables:
`late`, the saves that a key sent with such a message under way, and `hurried`, how many keys
were handled then.

| Code | Actions |
|---|---|
| keys of the steps before a save | `SelectProvider`, `ChooseAuth`, `RetryAuth`, `EnterAPIKey`, `ChooseOllama`, `EnterSettings`, `EnterBaseURL`, `StartPull`, `SelectModel`, `EnterModel`, `Back`, `BackFromCommand` |
| answers of their commands | `Answer`, `Ignored` |
| `startTest`, the save and its query, the test | `StartTest`, `RetryOperation`, `RetryTest`, `CancelAfterAdd`, `BackFromTest`, `SaveAnswer`, `TestAnswer` |
| keys that ask for another page or the end | `Cancel`, `Done`, `RequestQuit`, `Reconfigure` |
| the messages they and `SaveAnswer` send | `NavigateToOnboarding`, `OnboardingDone`, `OnboardingCancelled`, `OnboardingQuit`, `Over` |
| the daemon | `Receive`, `Flight`, `Restart` |

`MaxFlow` and `MaxWizards` bound the flows and the wizards of a program, and each key handled
with such a message under way counts against both. A new wizard
counts its flows from 0 again, so that a late answer to an earlier one may be taken for its
own: `foreign` marks the behaviours in which that happened, and the properties exempt them. `OnboardingInvariant`
holds the inductive invariant.

## Checks

| Run | Instance | Shows |
|---|---|---|
| `provider_one` | 2 operations, 1 alias, 2 names, 1 handler, the alias saved by an older daemon | `CredentialAvailable`: no credential in use is deleted. `SecretsStayTracked`: a daemon that serves loses sight of no secret it stores. `KeepsPromise`: every step is a step of `ProviderSave` |
| `provider_callers` | 1 operation, 2 aliases, 1 name, 2 handlers, every kind of save | `SavesAreExclusive`: one save or removal owns an alias, one provider is the default. `MemoryFollowsTables`: redactor and registry know the tables |
| `provider_live` | 1 operation, 1 alias, 1 name, 1 handler | `WorkEnds`: flights land and Stop returns. `QueuedNameSettles`: a queued secret leaves the queue |
| `provider_locks` | 1 alias, 2 handlers | `NoDeadlock`: nobody waits in a circle for the four locks. `AllReturn`: handlers and Stop return |
| `queue` | 2 processes, 2 prompts, a legacy prompt | `WorkIsMarked`: the prompt in work is marked, and its owner has the lease. `FilesAgree`: event log, cancel-request file and session agree. `ImplementsQueue`: every step is a step of `PromptQueue`. `CancellationHolds`: cancellations stick and no agent starts after one. `CancelWorks`: the cancel command returns, and the owner gives the session up |
| `cron` | 1 job, 2 handlers, 3 goroutines | `ActiveRuns`, `EndsAreFinal`, `CloseReturns` |
| `background` | 2 callers, 2 workers, 3 calls, 2 starts, 1 failing write | `OneWorker`, `PolicyMatchesWorker`, `RecoveryIsExact`, `LaunchIsOnRecord`, `ShutdownReturns` |
| `teams` | 2 agents, 1 handler, 1 observer, channels of 1 and 2 | `AcceptedArrives`, `StreamTellsVerdict`, `ObserverIsOpen`, `TeamEnds` |
| `fleet` | 3 workers, 2 at a time, a channel of 1, 1 caller | `EndIsTrue`, `CanceledEnds`, `CallsReturn` |
| `chat` | 2 turns, 2 answers, 1 old message, 1 message preserved | `ConsentDecides`, `CompactionKeeps`, `TurnsReturn` |
| `daemon` | 2 daemons, 1 command | `OneDaemon`, `ReloadMeetsService`, `StopsAreTrue`, `DaemonEnds` |
| `onboarding` | 4 providers, one for each kind of credential, 1 value, 2 saves, 3 flows, 2 wizards | `ReportIsTrue`, `SavesOwnSetup`, `NothingAbandoned`, `WaitEnds` |

Each property is stated in words where it is defined. The type invariants are
theorems (below) and are not run as well.

Bounds. Operations, names, aliases and handlers of the provider runs are finite sets, and
a name is never drawn twice, so `Versions` also bounds how many saves with a credential
happen between prunings. Two operations with two names on one alias let one save replace
another, with its cleanup, a removal, a crash and a replay in between; two handlers and
two aliases give attached callers, id conflicts, busy aliases and competing defaults.
With two names and the older one, a dispatch finds more candidates than it has free slots
(`CleanupBatch`). Gates of different aliases meet only in `m.mu`, the row mutex and the connection, which
two handlers of one alias already contend for. Permutations of operations, names and
handlers are symmetric in the two runs of `Spec`; no run with fairness uses symmetry. In `queue`,
two processes are an owner and a command that acts against it, or takes over after it
died; the second prompt tells the prompt in work from the others. In `cron`, three
goroutines are the one that was canceled and two that race to replace it. In
`background`, three calls are a Start, a Stop and one that meets both, two workers let one
leave while the next runs, and one failing write can hit any of the writes; the second
start of a daemon recovers from every state of the first. In `teams`, channels of one and
two places fill up at once. In `fleet`, the third worker waits for a slot. In `chat`, the
second turn saves, compacts or answers while the first does. In `daemon`, the second
daemon is the replacement of the first, or its rival. In `onboarding`, the second save is the one after
a failed one, the second wizard the one that may take answers of the first, and one key is handled
between a quit and the end of the program. What is proved
holds without these bounds.

Deadlock is checked for the provider runs, the queue and cron. The other systems may
really stop: calls, starts, processes and saves are used up, the daemon has ended, the
program was left, or, in `fleet`, a `KillJob` has stopped the manager for good.

Fairness. Nothing makes a client call, a user press a key, a daemon stop or a dead daemon
boot, and nothing forces a failure, a panic or a crash.

* `LiveSpec` of `ProviderOperations` and `LocksFairSpec` of `ProviderLocks` are strong fairness of each
  goroutine: Go's scheduler runs a runnable goroutine, `sync.Mutex` hands a starving
  waiter the lock, and the connection pool queues its requests. `CleanupFairness` also
  assumes that a secret store that is retried for ever answers: it stands for the order of
  `ORDER BY next_attempt_at` in `dispatchCleanup` and for a store that is not broken
  for good.
* `SessionQueue`: strong fairness of the steps of each process: `flock` queues those that
  wait, agents answer or run into `RunOptions.Timeout`, and a sleeping watch wakes.
* `CronScheduler`: goroutines run, a waiting `Close` gets `cs.mu`, and `select` takes a
  done context in the end, as its uniform choice does.
* `BackgroundManager`: weak fairness of the handlers, the workers and the exit: goroutines
  run, locks are handed over, and a watcher returns once its context is done.
* `Teams`: goroutines run, agents end (an executor stops after a bounded number of
  iterations), and a client that is connected reads.
* `Fleet`: goroutines run; a worker ends only once it is canceled, as only its context
  makes it; the read lock of a kill is strongly fair, because readers that wait when a
  writer leaves enter before the next writer.
* `Chat`: the provider ends its stream and the timer of a request fires.
* `DaemonLifecycle`: goroutines run, the service closes and clients hang up.
* `Onboarding`: the save and its query give up after a time, and a test runs under a
  timeout; a message that ends the program is handled (`OnboardingQuit`, `Over`), because
  Bubble Tea runs every command and takes messages one by one. Nothing is assumed of the
  user, the daemon or other commands.

Mutants. For each property `PROJECT.json` names a mutated operator: a plausible bug of
the code (a dropped check, a lock kept on an error path, a reference count that forgets
the journal, a channel without room) under which TLC finds the property violated.

What the models reach and no property forbids, because the code does not promise
otherwise, or where a document says more than the code does:

* When the finalization of an applied operation failed, the operation has left
  `m.flights` but still holds the unique index of its alias: another id is answered
  `Internal` (`daemon/provider_operations.go:279`) until somebody queries the first. The plan
  (`docs/plans/2026-07-10-ratchet-cli-provider-drain-managed-hooks.md:379-380`) has it
  answered `AliasBusy`.
* Two steps lose sight of a secret before the sweep of the next start finds it
  (`SecretsStayTracked` names them `DropsUsed` and `FinalizesRemoved`). A worker that found
  the name in use drops the queue row (`daemon/provider_cleanup.go:159`) after the use has
  ended and a removal or replacement has queued the name again, which inserts nothing
  because the row is still there. And a provider removed while its save is applied queues its
  secret, the worker sees the reference of the applied operation and drops the row, and then
  the finalization ends that reference.
* `MarkPendingCanceled` (`acpclient/store.go:455`), the cancellation of a legacy prompt,
  takes no admission lock and rewrites the item whatever its status (`:471`): an agent that was
  admitted starts on a canceled session, and a completed prompt becomes a canceled one.
  `CancellationHolds` exempts sessions with a canceled legacy prompt, and `PromptQueue` has
  an action for it (`CancelEarly`).
* A background worker whose Stop failed keeps its own record; when it ends after another
  Stop failed, its clean end hides the degraded record (`acpclient/background.go:1091-1108`).
  It takes two failing writes, so `PolicyMatchesWorker` speaks of at most one.
* A Start that has recorded its policy and then fails to get the launch admission, to read the
  session or to give back the lease of the profile (`acpclient/background.go:951-955`,
  `:1167-1182`) returns the error, but the policy stays enabled and running with no worker,
  until another Start or the next daemon. One failure is enough; `EnabledHasWorker` exempts it
  (`unlaunched`).
* "OnboardingQuitMsg signals that any durable save is resolved and the app may quit"
  (`tui/pages/onboarding.go:41`). A key that is handled between that message and the one that
  ends the program can send a new save, and neither handler (`tui/app.go:232-234`) looks
  again: the program ends with that save under way. The same goes for the messages of
  `Done` and `Cancel`. `NothingAbandoned` exempts these saves (`late`).
* Messages saved while a compaction summarizes are dropped with those it has read
  (`daemon/chat.go:608`), and are in no archive: `CompactionKeeps` speaks of what was read.
* A permission request is on the stream before it is registered (`daemon/chat.go:331`): an
  early answer is refused and the request times out, which denies the tool.
* `KillJob` reads twice (`daemon/jobs.go:186`): a writer in between stops the manager for
  every caller. `CallsReturn` says that nothing else does.
* A fleet or team whose worker or run panicked goes on being reported as running, and a
  direct message may meet the closed channel of its team and end the daemon
  (`daemon/teams.go:610`).
* `Pause` and `Stop` of a cron job update the database after they released the mutexes: the
  table may differ from what runs (above, `CronScheduler`).
* A failing `WritePID` leaves an empty PID file. A termination signal during
  `GracefulStop` is swallowed, and a daemon whose client never hangs up does not end.

## Proofs

Each proof module holds for every value of the constants that its model's assumption
allows (`NamesAssumption` and the like: ids are distinct, sizes are natural numbers,
`None` is nobody), for the specification without fairness. An invariant `IInv`, the type
invariant among its parts, is shown to hold initially and to be kept by every step, with one
lemma per action or per part; the properties follow from it. `PROJECT.json` lists the
theorems.

### Provider saves

`ProviderOperationsProofs`: `Invariance`, `TypeCorrect`, `CredentialsSurvive`,
`FailureHasNoEffect`, `DeletionsAreSafe`, `OperationsGoForward`, `PromiseKept` (the daemon
implements `ProviderSave`), `SavesExclude`, `MemoryFollows`, `SecretsAreTracked`.

The argument. `CredentialAvailable` is not inductive: a cleanup worker decides on a
reference count that it took outside every lock. What makes it safe is that a name
without references never gets one again. A name comes into use in two ways. It is
drawn: then it was never used before (`FreshNamesUnused`), so it is in no queue and no
worker has it. Or an operation that reserves it is applied: then the reservation was a
reference all along, because only pending operations are applied (`FlightAgrees`) and
each name belongs to one operation (`Reservations`). So a worker past its check sees a
name that stays unreferenced (`DeletionsUnreferenced`), and the delete cannot hit a
row. `FinalizerHoldsRows` and `Quiet` say that the operation a finalizer commits is
still applied: all finalizers hold the row mutex, and a restart finds none of them.
`FailedSaveHasNoEffect` follows from `UnappliedUnused`, the same argument for saves
that are not applied yet. There is one lemma per conjunct of `IInv`, with one step per
family of actions.

`SharingInv` gives the properties of `provider_callers`. Saves exclude each other because an
alias has one unfinished operation (the unique index) and what removes or changes rows holds the row mutex;
memory follows the tables because who is about to commit has told the redactor and the
registry (`FinalizersAreReady`), and a process that does not serve yet has no registry to
be behind (`NothingStale`).

`SecretsStayTracked` follows from both. A stored secret was reserved by a pending operation
(`StoreGains`). A row that gives it up queues it in the same transaction
(`RowsQueueTheirSecret`), as a failing flight does. A flight that commits leaves it to the row, which
`FlightFinalizesItsRow` says is still the one it saved; only a late finalizer may find the row
gone (`ReservationsEnd`). And only a cleanup worker takes names from the queue (`QueueShrinks`).

### Session queue

`SessionQueueProofs`: `Invariant`, `TypeCorrect`, `WorkStaysMarked`, `FilesStayInStep`,
`CancellationIsHeld`, `QueueIsImplemented` (the refinement of `PromptQueue`), `PromptsEndOnce`,
`LaunchesAreLive`, for sessions of both formats.

The argument. `Locks` ties each lock file to the places of its holder (`LockMoves` says
how any step moves a lock). `WorkIsMarked` then holds because what others may do to a
running prompt is limited (`ItemMoves`): a recovery that puts it back belongs to the
owner itself, or comes after the latch was seen (`ActorsSawLatch`), and then cancels the
prompt together with the session. `AdmittedIsLive` is the heart of `CancellationHolds`:
an owner between admission and launch holds the admission lock, so that no cancellation
of an owner commits, and works on a running prompt, so that the cancellation of an unowned
queue, decided before the lease was taken, does not latch the session (`Latching`).
`FilesAgree` needs that the events are logged first (`LoggedFirst`) and that whoever takes
events out again works on a prompt that is not complete, which is `WorkIsMarked` again.

The refinement goes through the actions of `PromptQueue`, with one lemma for those of each
(`ClaimTakes`, `SettleFinishes`, `RecoveryPutsBack` and so on). A claim takes the first
prompt that waits because nobody puts one back while the claimer has the lease (`InOrder`);
it and a recovery find nobody at work because who works has the lease (`OwnerAtRest`); and an
outcome is written without a look at the prompt, but `WorkIsMarked` says what the look would
have shown. All steps that leave the session alone only drop work (`DropsWork`).

### Background drains

`BackgroundProofs`: `Invariance`, `TypeCorrect`, `OneWorkerDrains`, `PolicyAgrees`,
`RecoveryExact`, `LaunchesOnRecord`.

The argument. Four files change one after the other, and any of the writes may fail, so
nothing follows from a single write. What holds them together is who may write: a
goroutine that starts a worker has the lease and the reservation and is alone
(`StarterAlone`, from `LeaseInv`); who records an end is either such a starter, or the
Stop that owns the end of the worker, or the worker itself, with the lease (`Writers`). So
what a launch has written stays as it is until it launches (`StartInv`), and
`LaunchIsOnRecord` is its last line. Only a launch enables a policy (`Enabling`): an end
that is on record therefore stays disabled (`EndInv`), and a daemon that settles what
the log ended resumes only what was launched on record (`BootInv`, `RecoveryIsExact`). Who
owns the end of a worker is settled by the handoff of a Stop (`StopInv`, `HandoffInv`): a
worker that waits is the one that Stop joins. `PolicyMatchesWorker` is about workers that
outlive a failed Stop; `FaultInv` counts the failing writes that each such state takes,
and shows that the worst of them, a degraded record that is overwritten, takes two. A
launch that is not admitted is the one way to an enabled policy without a worker, and it is
remembered until the next Start that records one (`unlaunched`).

### The managers

* `ManagerProofs` on `CronScheduler` (`TypeCorrect`, `ActiveJobsRun`, `EndsStay`): a job in the table of entries
  is paused, or held by a resume that has the mutex, or has a goroutine that is not
  canceled (`RunInv`); no two entries share a goroutine (`LoopInv`), so that canceling one
  leaves the others; a stop takes its entry out before all else (`HandlerInv`).
* `ChatProofs` (`TypeCorrect`, `ConsentIsDecisive`, `CompactionsKeep`): each place of a
  request says which answers were accepted (`AnswerInv`), and before it is registered there
  are none (`UnaskedInv`). A turn compacts what it read a while ago, so the third theorem
  needs what is true of every history that somebody has read (`HistoryInv`): a message
  behind a summary is archived or gone, and once gone it does not come back (`SummaryInv`), because the
  ids that a compaction leaves are those of messages it archives (`CompactedIds`) or,
  where an id does not name its message, of one that was archived when it was taken
  (`IdsInv`). The attempt also showed that the ids of the history in the database say
  nothing about the next compaction: with three turns, one that read ids which do not name
  their messages can put them back after another has replaced them. `CompactionKeeps`
  therefore speaks of the ids that were read.
* `ManagerProofs` on `Fleet` (`FleetTypeCorrect`, `FleetsEndTruly`): the place of a worker decides its status
  (`WorkerInv`), the count of the table is the number of those that ended and the cancel
  functions are those of the others that began (`TableInv`); a sequence never has a status
  behind the completed one.
* `TeamsProofs` (`TypeCorrect`, `AcceptedMessagesArrive`, `StreamsTellVerdicts`,
  `ObserversStayOpen`): what was put on the stream stays on it or was read
  (`Told`), so that each place of the run (`VerdictInv`) and of a handler (`HandlerInv`)
  says what the client was told.

### Daemon lifecycle

`DaemonProofs`: `TypeCorrect`, `OneDaemonServes`, `ReloadsMeetService`, `StopsTellTruth`.

The argument. The lock is held exactly at the stages between taking it and giving it
back (`LockAgrees`). Only its holder touches the PID file, and the file names who is there or
died without removing it (`PIDAgrees`); the same goes for the socket until the server
stops (`SocketAgrees`). Who passed the drain has the reload barrier down (`BarrierHolds`).
A command leaves the waiting part of its path only when the process it captured is gone
for good, which no later daemon changes because a process id is not used again
(`StopAgrees`).

### Setup wizard

`ProviderSetupProofs` on `Onboarding`: `OnboardingInductive`, `OnboardingTypeCorrect`, `ReportedIsTrue`,
`SavesAreOwn`, `NothingIsAbandoned`, `WizardRestsOnPromise`.

The argument. `ReportIsTrue` is inductive once the wizard knows that what it takes for saved
is on record in the daemon (`SavedOnRecord`), and a committed record stays (the pruning of
records after a day is left out of this model). The other two are about
answers that come late. What keeps them apart is the number of the flow: a wizard that
goes on to another step, or back, counts a new one, so of all commands under way at most one belongs to the
present attempt, and the step the wizard is at waits for just that one (`OneAnswer`). An
answer that is used is therefore about the provider, credential and address on the
screen, and what the wizard has gathered belongs together at each step (`Gathered`) on the
way that its kind of provider takes (`OnItsWay`). From there `SendsOwnSetup`: what
`startTest` sends was gathered for its provider. `NothingUnseen` says that a save that is
not settled is the one the wizard waits for or shows as unresolved, and both keep the
user where he is, so that asking to leave, or another save, finds all of them settled, and so
does the message that the wizard then sends when it is handled later (`AllSettled`, kept by
each action in `Carries`), unless a key has sent a save in between (`late`).
A new wizard counts its flows from 0 again, so all of this holds only until an answer to an
earlier wizard is taken for one of the present (`foreign`), and the invariant says so;
`StateOK`, with the types and the bounds, holds in any case.

`WizardRestsOnPromise` ties the wizard to the daemon: it takes nothing of its daemon that
`ProviderSave` does not allow, and `PromiseKept` says that `ProviderOperations` stays within the same.

### Locks of provider operations

`ProviderSetupProofs` on `ProviderLocks`: `LocksInvariant`, `LocksNeverDeadlock`.

The argument. Each lock is held exactly at the points between taking it and giving it
back (`HoldersOK`, `GatesOK`). `LocksAreOrdered` goes through a set of threads of which none can go
on and none waits for one outside, and empties it: a transaction waits for nothing; who
needs the connection waits for a transaction; who needs the row mutex, for one of these;
the gate of a removal and `m.mu` come next. There is one exception to the order, because a save waits
for a gate under `m.mu` while a flight that has a gate needs `m.mu`: `CallersOK` says that
the flight whose gate a save waits for under `m.mu` has left `m.flights` already, since
no flight starts without `m.mu`.

### Only model-checked

The liveness properties (`WorkEnds`, `QueuedNameSettles`, `AllReturn`, `CancelWorks`,
`CloseReturns`, `ShutdownReturns`, `TeamEnds`, `CanceledEnds`, `CallsReturn`, `TurnsReturn`,
`DaemonEnds`, `WaitEnds`): fairness is out of the prover's reach. Every other property of the
runs is a theorem.

## Not modelled

* Of the modelled components: errors that break SQLite's own atomicity; the contents of
  providers beyond secret, default mark and keyless type; the tool registry, hook runtime and
  plugin reload of the engine; several sessions at a time (each transaction writes one
  record of their common file), and archives of sessions beyond the lease that an export
  takes; blackboard, router and remote nodes of the mesh; the content of the reload
  checkpoint, Windows, and process ids that are used again; job providers other than fleets and
  teams.
* Approval and human gates (`daemon/approval_gate.go`, `human_gate.go`): they are built,
  and nothing in the daemon waits on them.
* Plans, trust, actors, hooks, sessions beyond their messages: maps under one mutex,
  single statements or wrappers, where every operation is one critical section.
* ACP flows, profiles and the archive format; plugins, MCP and agents; the pages of the
  terminal interface other than the wizard: sequential interpreters, file formats,
  process management and presentation.

Hazards that no property covers are listed in `PROJECT.json` with the reason.
