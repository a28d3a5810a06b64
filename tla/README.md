# wemixvisor: specification and proofs

TLA+ models of wemixvisor, the supervisor of a WEMIX node: it starts and stops
the node, notices scheduled upgrades and installs them. The modules follow the
Go code under `src/`, the configurations model-check them with TLC, and the
`...Proofs` modules hold theorems checked by TLAPS. `PROJECT.json` maps every
definition to the lines it models.

    tlc -workers 2 -config NodeConcurrent.cfg MCNodeManager     # one run
    tlapm NodeManagerProofs.tla                                 # its proofs

Contents: [parts](#the-parts-of-the-system), [modules](#the-modules),
[runs](#the-runs), [where code and documentation
disagree](#where-the-code-and-its-documentation-disagree),
[proofs](#the-proofs), [left out](#what-is-left-out),
[what could come next](#what-could-come-next).

## The parts of the system

Two ways of running a node exist side by side. `cmd/wemixvisor` builds
`internal/cli`, whose `CommandHandler` uses the **node manager**; its `api`
command adds the governance monitor, metrics and the API server.
`internal/commands/run.go` is the cosmovisor-like way: the **process manager**
with the **file watcher**, backups and hooks. The **orchestrator** and the
**height monitor** are a library with tests, meant to join the node manager with
the watcher; `main` does not wire them yet.

| part | state | operations | hard behaviour | correct when |
|---|---|---|---|---|
| node manager `internal/node` | state, process, `doneCh`, restart count, context | Start, Stop, Restart, Close, GetStatus; goroutines per process: monitor, auto-restart, reaper | methods race crashes, 5 s auto-restarts and the grace period; fields read unlocked; nested read locks | at most one node, none forgotten, no double close, Stop returns, crashes handled, at rest for good after Close |
| height monitor `internal/height` | last height, subscribers' channels | Start, Stop, Subscribe, polling loop | sends to bounded channels that are being read; Stop in mid-poll | heights in order, losses reported, quiet after Stop |
| file watcher `internal/upgrade`, `pkg/types` | last plan, update flag, modification time | Start, Stop, poll, NeedsUpdate/Get/Clear, WaitForUpgrade | another process writes the file in two steps, the poll reads it in two steps | a plan that stays is noticed, handed out once, no double close |
| schedule/cancel commands `internal/cli/upgrade.go` | the file | write, remove | crash between truncation and write | (with the watcher) |
| orchestrator `internal/orchestrator` | pending upgrade, upgrading flag | Start, Stop, ScheduleUpgrade; two goroutines: watch, heights | snapshot used after unlock, buffered heights, node manager's own restarts, failing Start | node stopped at the plan's height only, down only in an upgrade, tried once, ends, Stop is final |
| process manager `internal/process` | current process; on disk: link, data, backup | Run: cycle, stop, upgrade | crash between disk steps, stubborn node, failing hook or disk | data fits the binary, upgrade while nothing runs, upgrade ends |
| current link `internal/config/paths.go` | a symbolic link | to genesis, to an upgrade | two steps | (with the process manager) |
| backup `internal/backup`, hook `internal/hooks` | archives; the data directory | create, restore, clean; execute script with retries | fail half way | (with the process manager) |
| downloader `internal/download` | the binary and the `.tmp` beside it | ensure: download, rename, chmod, verify, retry without checksum | any step fails or is the last before a crash; what is there is not looked at again | what is ensured was verified, what is installed stays |
| governance monitor, tracker, scheduler `internal/governance` | proposals (active, completed), upgrades (scheduled, completed, current) | poll proposals, poll votes, process queue, schedule, cancel, clean | objects shared between goroutines without the lock, Stop holding a lock | each passed upgrade scheduled once, one at a time, queues partition the upgrades |
| notifier `internal/governance` | handlers, notifications kept | notify, mark as read, remove handler, clean up | making, storing and handling are three steps | dropped by age and number only |
| WBFT coordinator `internal/wbft` | the plan, the file `upgrade-info.json` | follow the chain, prepare, trigger | a polling goroutine hands states over on an unbuffered channel | the upgrade that is due is announced, none early |
| batch `internal/batch` | plan files, active plan | create, validate, execute, status, prepare binaries | the order of heights, through memory and file | what is next is next |
| worker pool, connection pool, cache `internal/performance` | queues, counters, LRU map | Submit/Stop, Get/Put/Stop, Get/Set/clean | check then act across an unlock, send on closed channel, queue full | bounds kept, nothing lost, map and list agree |
| health checker `internal/monitor` | last status, channel | Start, Stop, loop | one checker for all runs of the node: two loops share a channel, close races send | no send on a closed channel, a state that lasts is reported |
| metrics `internal/metrics`, alerting `internal/alerting` | snapshot, counters; rules, active alerts | collect; evaluate, resolve, notify | Start replaces the context that loops look at; unlocked map reads; a goroutine per notification | no end of an alert announced twice, a metric beyond its limit is alerted while it is |
| API server, WebSocket hub `internal/api` | clients, subscriptions | connect, subscribe, broadcast, disconnect | send races the close of a client's channel, two locks in two orders | only subscribers get a message, no send on closed, lost clients removed |
| configuration manager `internal/config` | the file, two stored structs, the merged config, listeners | update, template, migrate, reload, Stop | failure half way, the file's watcher, Stop against a send | what is in force is what the file says |
| CLI, logger, exporter, profiler, examples | none | parsing, output | | |

They interact by direct calls (orchestrator to node manager, process manager to
watcher, backup and hook), by channels (height monitor to orchestrator), by the
file `upgrade-info.json` (schedule, cancel and governance to the watcher), and
by the disk (link, data, backups).

`PROJECT.json` lists every component with its status and every hazard with the
properties that cover it.

## The modules

    NodeService (abstract)     HeightFeed (abstract)      UpgradeWatcher
       ^ implemented by   \       / ^ implemented by      /
    NodeManager            UpgradeSystem             (whole)
                           HeightMonitor
    ProcessManager                          (run, link, data, backup)
    HeightMonitor, UpgradeWatcher, ConfigManager              in MCFeeds
    GovernanceMonitor, UpgradeScheduler, Notifier,
      UpgradeCoordinator, BinaryDownload                      in MCGovernance
    WorkerPool, ConnectionPool, Cache, WebSocketHub           in MCPerformance
    NodeMonitoring, AlertManager (extends MetricsCollector)   in MCMonitoring
    NodeManagerProofs, SystemProofs, ProcessProofs, HubProofs   about one module
    FeedProofs          HeightMonitor, UpgradeWatcher, ConfigManager
    GovernanceProofs    GovernanceMonitor, UpgradeScheduler, Notifier,
                          UpgradeCoordinator, BinaryDownload
    MonitoringProofs    NodeMonitoring, AlertManager
    PoolProofs          WorkerPool, ConnectionPool, Cache

* **NodeManager** models `internal/node/manager.go` for any set of callers. One
  critical section of `stateMutex` is one action; every step between two of
  them, and every unlocked read, is an action of its own (`StartLog` reads
  `m.process`, `WaitForShutdown` reads `m.doneCh`, `CountRestart` increments
  without a lock). `pc[t]` is where a thread is in its method; a thread is a
  caller, or a process number, which stands for the auto-restart goroutine of
  that process's crash. `mon[p]` is the monitor goroutine of process `p`,
  `os[p]` what the kernel knows of it: running, killed, zombie, gone. StateStarting
  is never visible outside one critical section and is not a value of `state`.
* **NodeService** is what other parts may rely on: how the state that GetState
  returns may change. NodeManager implements it (`IsNodeService`, checked and
  proved).
* **HeightMonitor** models `internal/height/monitor.go`; a message is the number
  of the change it announces. **HeightFeed** is the abstract lossy, ordered,
  bounded channel each subscriber sees (`IsHeightFeed`).
* **UpgradeWatcher** models `internal/upgrade/watcher.go` together with the
  commands of `internal/cli/upgrade.go`: `ScheduleTruncate` and `ScheduleWrite`
  are the two halves of `os.WriteFile`, `CheckStat` and `CheckForUpdate` the two
  halves of `checkFile`. A plan is a model value with a name and a height; two
  plans may differ in nothing but their metadata.
* **UpgradeSystem** models `internal/orchestrator/orchestrator.go` and composes
  it with UpgradeWatcher (whole, by INSTANCE), HeightFeed and NodeService, which
  constrain its steps. `exits`, `StartMayFail`, `RestartResets`, `RestartStarts`
  are the node's crashes and the node manager's auto-restart seen from outside.
* **ProcessManager** models `internal/process/manager.go` with
  `internal/config/paths.go` and the effects of hook and backup. Link, data and
  backup survive a crash of wemixvisor, as does the node, which is in a process
  group of its own. Data and link are named by the version they are made for;
  `dirty` is data a hook left half changed. A restore extracts the archive over the
  directory: `data` is what was saved, the plan file too (`savedFile`), and what a
  hook has added stays (`made`).
* **GovernanceMonitor** models the monitor's three goroutines with the proposal
  tracker (`internal/governance/monitor.go`, `proposals.go`). A fetched list is
  remembered by its fetcher between the node's answer and the critical section
  that applies it, so that an answer may be applied late. **UpgradeScheduler**
  models the scheduler and the goroutine that works its queue; the queue is a
  sequence of upgrade objects, whose status the goroutine changes without the
  scheduler's lock.
* **WorkerPool**, **ConnectionPool** and **Cache** model
  `internal/performance/worker.go`, `pool.go` and `cache.go`. The worker pool has
  the queue, the workers' channels and the closing of each; a connection is in
  the channel, with a client, or in the hands of the clean-up. Tasks and connections
  come without end, for the name of one that has ended is used again (`NewTask`,
  `GetDial`); the cache has the
  ring of `container/list` with its `next` and `prev` pointers, and Get in its
  three critical sections. What the cache should hold is the ghost `recent`, the
  order in which its items were last used; `ListIsRecent` says of each element
  that its pointers lead to its neighbours in that order.
* **NodeMonitoring** models `internal/monitor/health.go` and `checks.go` with the
  node manager's side of it and its `GetStatus`. One checker serves all the runs
  of the node: every Start leaves a loop and a reader, which share `statusCh` and
  `stopped`. `stateMutex` is a lock here, with readers and a waiting writer, for
  GetStatus takes it twice.
* **MetricsCollector** models `internal/metrics/collector.go`: loops that look at
  `c.ctx`, which Start replaces, each time they wait, and one counter. On top of
  it **AlertManager** models `internal/alerting`: evaluating, the unlocked look-up
  (`EvaluateRule`), the map change under the lock (`Fire`, `Resolve`) and what is
  announced after it (`Announce`) are steps of their own, of as many loops as there
  were Starts; every notification is a goroutine. A metric in `failing` cannot be
  measured and counts as zero.
* **ConfigManager** models `internal/config/manager.go` with `validator.go`,
  `templates.go` and `migrator.go`. The settings are in three copies (`confFile`,
  `stored`, `live`), with one field for each way that the code merges them.
* **Notifier** models `internal/governance/notifier.go`: making, storing and
  handling a notification are three steps.
* **UpgradeCoordinator** models `internal/batch/batch.go` and the coordinator and
  client of `internal/wbft`: plans are sequences, saved and loaded as such, the
  polling goroutine and the coordinator meet on an unbuffered channel.
* **BinaryDownload** models `internal/download/downloader.go` for its one caller
  at a time: what the file and the `.tmp` beside it are good for after each
  step, over a server that may answer anything.
* **WebSocketHub** models the hub in `internal/api/server.go`: the reader and the
  writer of each client, the broadcaster, `wsClientsMu` and `client.mu`.
* **MC...** modules define constants and symmetry sets for the runs. MCFeeds,
  MCGovernance, MCPerformance and MCMonitoring hold modules that share no state:
  a variable chosen initially says which one a behaviour explores, and the
  fairness, which applies to that module's actions only, is stated there.
  (The governance monitor never hands the scheduler anything, governance_passed,
  so that the two need not be multiplied.)

Definitions named `X_Y` after a comment "Mutant" are wrong variants of `X`, kept
to show that the properties can tell the difference; no specification uses them.
Properties whose comment says that they do not hold, or quotes a line that they
refute, are the subject of [the section on
disagreements](#where-the-code-and-its-documentation-disagree).

### Assumptions

* `TimersSlow` (NodeManager): TRUE says that a timer of the manager (100 ms up
  to 30 s) outlasts every goroutine that is ready to run and every process sent
  SIGKILL. node_foreground checks with it what callers of Start, Stop and Close
  may rely on, and the theorem NoNodeIsLost states it; node_concurrent and all
  other theorems do without.
* `Troubles` (ProcessManager): the combinations of a crash of wemixvisor, a
  failing disk and a stubborn node (one that outlives the grace period) a
  behaviour may meet. The run takes none, each of the last two alone, and all
  three; a property that holds only without some of them says so in its
  hypothesis. A failing hook, a signal, a cancelled context and an exiting node
  are always possible.
* Two changes of `upgrade-info.json` have different modification times, and
  commands run one at a time.
* The node has no children of its own (its process group is empty once it is
  reaped). A panic ends wemixvisor.
* `UnsafeSkipBackup` is off and `ShutdownGrace` positive (the defaults);
  each upgrade's binary has been placed, or not, beforehand (BinaryDownload models
  how).
* `Faults` (BinaryDownload): what besides the server may fail: wemixvisor
  crashes, chmod fails, an operator installs by hand. The run takes all three;
  what is promised without crash and chmod says so in `DownloadInv`.
* The file of the configuration is edited by others at will, between any two
  steps; a migration may be asked for from any version of `Versions`.
* The chain never takes back the final outcome of a proposal; requests to the
  node fail at will.

### Fairness

Weak fairness of goroutines that can run (Go's scheduler), of timers and tickers
(they fire), and of the kernel killing a process sent SIGKILL. Strong fairness
only of the branch of a `select` that may also be offered others (ticks, tasks):
Go picks among ready cases at random, so a branch that stays ready is taken;
and of one request among those that may fail (`GetProposal`): a node asked again
and again answers some time. A caller, an operator, the chain, a client that
holds a connection, a healthy node, a server and a WebSocket client owe nothing.

## The runs

Nine runs must find nothing, three (the first of the disagreements below) must
find a violation.

| run | checks | bounds |
|---|---|---|
| node_concurrent | NodeInv (types; StateHasProcess, DoneChOpen, NewestProcess), IsNodeService | 2 callers, 3 calls of any method, 2 processes, 1 restart, no timing assumption |
| node_foreground | OneKnownNode (AtMostOneNode, NoOrphan, FoundToLog), StopReturns, ExitIsHandled, ClosedComesToRest (AtRest) | 2 callers, 3 calls of Start/Stop/Close, 3 processes, 1 auto-restart |
| feeds, heights | HeightInv (InOrder, Accounted), IsHeightFeed, StopsAreFinal | 2 subscribers, 2 stoppers, buffer 2, 3 changes of 2 heights |
| feeds, watcher | WatcherInv (HandedOnce), PlanIsNoticed, StopsAreFinal | 2 plans, 1 waiter, 2 stoppers, 5 writes, 1 Start |
| feeds, configuration | ConfigInv (QuietAgrees, ToldInForce, MigrationComplete), ConfigFollowsFile | 2 calls, 1 edit, 1 bind, 3 of them together, versions 0.1 and 0.5, `updateCh` of 1 |
| system_safety | SystemInv (TriedOnce), StopsAtHeight, DownOnlyInUpgrade, StopIsFinal | 2 plans one block apart, 1 by the file, 1 by ScheduleUpgrade, 2 changes of 3 heights, 1 exit |
| system_live | UpgradeProgress (UpgradeEnds, ReachedIsHandled) | 1 plan, 2 changes of 2 heights, 1 exit, Starts that fail |
| process | ProcessInv (DataFitsBinary), DataIsExclusive (AtMostOneNode, UpgradeQuiesced), UpgradeEnds | 2 upgrades, 2 processes, 1 crash, four sets of troubles |
| governance, monitor | TrackerInv (Categorised, AnnouncedOnce), Settles, StopIsFinal | 1 proposal, 2 outcomes, 1 ForceSync |
| governance, scheduler | SchedulerInv (QueueInOrder, ScheduledIsQueued, CurrentInProgress, TriggeredOnce), DueIsTriggered | 3 upgrades of 2 names, 2 heights, 2 cancellations |
| governance, notifier | NothingLost | 2 handlers, 2 notifications, 1 kept |
| governance, coordinator | CoordInv (NextIsDue, NotEarly), UpgradesPrepared | a plan of 2 upgrades out of order, 5 blocks, at most 2 at a time, window 2, 1 coordination |
| governance, download | DownloadInv (EnsuredIsVerified, NoDebris), UpgradesPrepared | 2 binaries, 2 attempts, 2 calls, all faults |
| performance, workers | PoolInv (InOnePlace), PoolsProgress (HandedIsTaken, RunsDry, PoolStopReturns) | 3 tasks at a time, without end, 2 workers, queue of 2; a Stop or a WaitForCompletion, which only reads |
| performance, connections | ConnInv (ConnOnce, ActiveExact), PoolsProgress (PutReturns, GetReturns, CleanupEnds) | 2 clients, 2 cleaners, pool of 1, 2 connections at a time, without end |
| performance, cache | CacheInv (ListIsRecent, ItemsAreOwned) | 3 keys (the first item is of one of them, they are alike), 1 reader, cache of 2, 3 insertions |
| performance, hub | HubInv (NoSendOnClosed, OpenWhileRegistered, WelcomeFirst, ConfirmedFirst), HubProgress | 2 clients, 1 topic, 1 request, 1 broadcast, send buffer 2, broadcast buffer 1 |
| monitoring, health and status | MonitoringInv (NoHealthPanic), HealthReported | 2 runs of the node, 2 answers, 1 writer of `stateMutex` at a time; 1 run, 2 writers and 1 query |
| monitoring, metrics and alerts | AlertInv (EndsOnce), AlertsFollowMetrics | 1 rule, 1 channel, 2 changes; 2 collecting loops; or 1 with 1 evaluating loop; or 1 that is not stopped with 2 evaluating loops, a rule that stays and at most 1 notification under way |

Rows "feeds, ..." and the like are parts of one run: each behaviour explores one
part (`Feeds`, `Parts`, `Watches`).

Why the bounds suffice: every race found in the manager needs at most three
processes (the old, the user's and the auto-restart's) and three calls; a buffer
of two and three changes overflow, drain and refill a channel; two writers'
steps in one read need two writes; two upgrades are enough to lose or confuse
one. The tracker treats each proposal by itself, so that one, fetched by three
goroutines, shows every overlap. An upgrade is put back under the name of one
that was cancelled or forgotten with three upgrades of two names. While
the dispatcher holds one task, two others fill the workers and then the queue, so
that it is sent round, overtaken or dropped; a task that has ended gives its name
to a new one, a connection that was closed or lost its number, so that load has no
end. A pool of one connection with two exceeds, fills and empties it; three keys
in a cache of two evict.
One refused call, one edit behind the manager's back and one more call reach
every disagreement of the three copies of the configuration. Two notifications
with one kept overtake each other; steps of two blocks in a window of two jump
into and over it. A third connection's goroutines would meet the hub's locks as
the second's do. Two runs of the node are two loops on one channel, two Starts of the alert
manager two loops on one map.
The bounded counters (MaxProcs, MaxCalls, MaxEdits, MaxBinds, MaxInputs,
MaxChanges, MaxWrites, MaxStarts, MaxDirect, MaxExits, MaxCrashes, MaxSyncs,
MaxUpgrades, MaxCancels, MaxNotifies, MaxBlock, MaxStep, MaxCoordinations,
MaxPrepares, MaxConns, MaxPushes, MaxBroadcasts, MaxRequests, MaxRuns,
MaxCollectorStarts, MaxAlertStarts) only stop the environment; CHECK_DEADLOCK is
FALSE because a stopped component, or an environment at its bounds, is a legal
end.

What they show, beyond the names:

* The manager's own fields are consistent in every interleaving, but *which node
  lives* is not: AtMostOneNode and NoOrphan hold for Start, Stop and Close,
  whoever calls them, as long as timers are slow, and fail as soon as a user's
  Restart meets the delay of an auto-restart (node_orphan).
* Every subscriber of the height monitor has an ordered feed with losses, which
  is all the orchestrator's safety needs (system_safety uses only HeightFeed).
* `PlanIsNoticed` survives the race between the two-step write and the two-step
  read: the time stamp remembered is that of the stat, never that of the read.
* With a node that exits in time, two nodes never share the data directory.
  Data and binary match at each start, in spite of a failing hook and of a
  stubborn node; `DataFitsBinary` needs the restore after a failed hook, and
  does not survive a failing disk or a crash of wemixvisor between hook and link.
  It says what the files of the backup are; what a hook added lies beside them
  (ProcLeftovers), and the restored plan file may be an older one (ProcPlanLost).
* Close, whenever it is called, brings the manager to rest (`ClosedComesToRest`):
  the context kills what a race with it has just started, and
  an auto-restart that was waiting fails.
* A late answer may bring an ended proposal back into the active set, but it is
  announced once, and with votes asked for again it settles (`Settles`).
* Changing an upgrade's status without the scheduler's lock breaks neither the
  queue's order nor `CurrentInProgress`; it does undo a cancellation
  (GovernanceCancelled).
* The worker pool neither loses nor repeats a task, but promises an end only once
  the load ends (`RunsDry`): the dispatcher puts a task that no worker takes behind all
  others (PerformanceStarve). Likewise Get starts over with each invalid connection it
  receives, and a clean-up drains for as long as there is something to drain: both end
  once no more connections are made (PerformanceGet, PerformanceDrain).
* The connection pool's count stays exact although it is checked and raised in
  two steps, and although the limit is not kept. The cache's map and ring agree
  except after a Clear overtakes a Get: the properties exclude exactly that
  overlap, and PerformanceRing shows what it leads to.
* The file wins over the configuration in memory as soon as its events are
  handled, also when a save failed in between; what is in force meanwhile may be
  what was refused (ConfigReload).
* The hub's broadcaster waits for `client.mu` while it holds `wsClientsMu`. Nobody
  who holds the former takes the latter or waits for room in a channel, so that
  every round ends and a lost client is removed (`HubProgress`).
* Two health loops on one channel close it never, for only Stop ends them and it
  sets `stopped` first: no panic, but no end of the channel either (HealthClosed).
* Two loops of the alert manager fire an alert twice, and one may announce its end
  before the other has announced it (AlertTwice, AlertEndFirst); but no end is announced
  more often than a firing was or will be, for `Resolve` deletes under the lock (`EndsOnce`).
* Only a crash or a failed chmod between rename and verification makes the
  downloader accept a file it has not verified.

## Where the code and its documentation disagree

In each of these TLC finds a counterexample. The property is what the quoted
line says, or, where the row quotes none, what a caller would take for granted;
its definition says which.

The first three are runs of the project. Of the others, those in bold have a
configuration of the same name (`tlc -config NodeWait.cfg MCNodeManager`); the
rest are the configuration named, with the constants given and the one property.
A property is in the module of its part; "safety" says that no fairness is
needed (`SPECIFICATION Spec`).

| run | property | what happens |
|---|---|---|
| node_orphan | StoppedIsNotRunning | auto-restart resets a Stop in progress and starts a node that is then marked stopped (`node/state.go:14`) |
| system_skipped | ReachedIsUpgraded | a skipped block drops the upgrade (`orchestrator.go:27`) |
| governance_passed | PassedIsScheduled | the status of the replaced copy is tested: no passed proposal is ever scheduled (`docs/governance.md:58`) |

| name | property | what happens | configuration |
|---|---|---|---|
| NodeGraceful | GracefulExitSeen | the monitor never tells Stop of the exit: each Stop lasts the whole grace period (`node/manager.go:274`) | NodeConcurrent: `Callers = {c1}; Methods = {"start", "stop"}; TimersSlow = TRUE` |
| **NodeStuck** | StoppingEnds | a node reaped before the signal leaves the state at Stopping (`node/manager.go:233`) | |
| **NodeWait** | WaitObservesExit | after Stop and Start, Wait returns a nil channel (`node/manager.go:424`) | |
| **StatusDeadlock** | NoLockCycle | a writer that waits between the two read locks of GetStatus stops both, and the manager, for good (`node/manager.go:394`) | |
| **HealthRestart** | HealthyAfterRestart | after Stop and Start nothing checks the node: the context of the checker stays cancelled (`monitor/health.go:116`) | |
| HealthClosed | StopClosesChannel | Stop leaves the status channel open: the goroutine that reads it lasts until Close (`monitor/health.go:140`) | Monitoring: `Watches = {"health"}` |
| MetricsCounter | CounterIsTotal | each round adds the total of the host to "Total network bytes received" (`metrics/collector.go:129`) | Monitoring: `Watches = {"metrics"}` |
| AlertSyncing | NotSyncingIsTrue | "The node has stopped syncing" is alerted of a node that is in sync (`alerting/manager.go:486`) | Monitoring: `Sections = {"system", "application"}; MaxCollectorStarts = 1; RuleIds = {"sync"}; Watches = {"alerts"}` |
| AlertOrphan | ActiveHasRule | the alert of a removed rule stays active (`alerting/manager.go:168`) | Monitoring: `Watches = {"alerts"}` |
| AlertEnd | ToldTheEnd | the goroutines of two notifications overtake each other, or one fails: a channel last heard of an alert that is over (`alerting/manager.go:339`) | Monitoring: `Watches = {"alerts"}` |
| AlertTwice | FiredOnce | started twice, both loops find no alert and fire it (`alerting/manager.go:234`) | Monitoring: `Watches = {"loops"}` |
| AlertEndFirst | EndAfterFiring | started twice, one loop announces the end of an alert that the other has stored and not yet announced (`alerting/manager.go:262`) | Monitoring: `Watches = {"loops"}` |
| HeightDrop | NewestKept | the newest update is dropped, not the oldest (`height/monitor.go:127`) | Feeds: `Feeds = {"height"}; Subscribers = {s1}; HeightStoppers = {}; BufferSize = 1` |
| WatcherChecksum | ChangeIsNoticed | a plan changed in its metadata only is not noticed (`upgrade/watcher.go:16`) | Feeds: `Feeds = {"watcher"}; Name <- OneName; Waiters = {}; Stoppers = {}; MaxWrites = 3` |
| WatcherRestart | StartMonitors | Start after Stop panics (`upgrade/watcher.go:43`) | Feeds: `Feeds = {"watcher"}; Stoppers = {t1}; MaxWrites = 1; MaxStarts = 2` |
| **ConfigReload** | InForceIsValid | "failed to reload config", and yet the refused settings are in force (`config/manager.go:467`) | |
| ConfigRefused | RefusedIsForgotten | "Rollback on validation failure" restores the merged copy only: the next update saves the refused rest (`config/manager.go:205`) | Feeds: `Feeds = {"config"}` |
| ConfigAddress | AcceptedIsLoadable | an update without a port keeps the old address and is accepted; loading what it saved is refused (`config/manager.go:204`) | Feeds: `Feeds = {"config"}` |
| ConfigMigration | MigrationStays | the watcher reloads what Migrate has saved, and the version it set, which the file does not hold, is lost (`config/manager_test.go:122`) | Feeds: `Feeds = {"config"}` |
| ConfigUnlisted | MigrationFromAny | from a version that its table does not list, Migrate goes to the target at once, past the migrations between ("Apply migrations in sequence", `config/migrator.go:66`) | Feeds: `Versions = {10, 21, 50}; Feeds = {"config"}` |
| ConfigClosed | ConfigNoPanic | Stop closes the channel that an update is then sent on (`config/manager.go:622`) | Feeds: `Feeds = {"config"}` |
| **SystemRollback** | RollbackRecovers | a failed Start leaves Error, from which the rollback cannot start (`orchestrator.go:315`) | |
| **SystemLost** | NotLost | an upgrade scheduled during another is cleared with it (`orchestrator.go:161`) | |
| SystemStale | FreshHeight | a buffered height is validated (`orchestrator.go:355`) | SystemLive: `MaxWrites = 0; Heights = {1, 2, 3}; MaxChanges = 3; MaxDirect = 1; MaxExits = 0; safety` |
| SystemUpdate | DetectedIsScheduled | an update between Get and Clear loses its flag (`orchestrator.go:179`) | SystemSafety: `MaxWrites = 4; MaxChanges = 0; MaxDirect = 0; MaxExits = 0; StartMayFail = FALSE; SPECIFICATION FairSpec` |
| SystemReload | FileIsScheduled | a plan older than wemixvisor is not scheduled (`cli/upgrade.go:45`) | SystemLive: `MaxWrites = 0; Heights = {1, 2, 3}; MaxChanges = 0; MaxExits = 0` |
| SystemCancel | CancelTakesEffect | removing the file cancels nothing that was detected (`cli/upgrade.go:203`) | SystemLive: `MaxWrites = 2; Heights = {1, 2, 3}; MaxChanges = 0; MaxExits = 0` |
| ProcDetected | DetectedIsInstalled | a detected upgrade restarts the old binary over and over (`README.md:11`) | ProcessManager: `Plans = {v1}; Installed = {v1}; MaxProcs = 3; MaxCrashes = 0; Troubles = {{}}` |
| ProcOverlap | StopsBeforeRestart | a killed node is not waited for (`README.md:213`) | ProcessManager: `Plans = {v1}; Installed = {v1}; MaxCrashes = 0; Troubles = {{"stubborn"}}; safety` |
| **ProcRollback** | RollbackToPrevious | a failed symlink leads to genesis (`README.md:214`) | |
| ProcLeftovers | LeftoversGone | a restore extracts the backup over the directory: what a failed hook has added stays (`README.md:15`, `backup.go:149`) | ProcessManager: `MaxCrashes = 0; Troubles = {{}}` |
| ProcPlanLost | ScheduledStays | the plan file is part of the backup: a plan scheduled during a failing upgrade is overwritten by the restore (`cli/upgrade.go:45`, `backup.go:169`) | ProcessManager: `MaxCrashes = 0; Troubles = {{}}` |
| ProcSignal | SignalIsHandled | a signal waits for the node's own end (`README.md:18`) | ProcessManager: `Plans = {v1}; Installed = {v1}; MaxCrashes = 0; Troubles = {{}}` |
| DownloadUnverified | AlwaysVerified | the file takes its place before it is verified: after a crash or a failed chmod the next call finds it there and is content (`download/downloader.go:320`) | Governance: `Faults = {"crash"}; Parts = {"download"}` |
| DownloadReplaced | InstalledAlwaysStays | what an operator installs during a download is replaced, or removed (`download/downloader.go:56`) | Governance: `Faults = {"operator"}; Parts = {"download"}` |
| CoordTriggered | UpgradeIsTriggered | the next upgrade is the first above the height, and is triggered if the height has reached it: never (`wbft/coordinator.go:123`) | Governance: `Parts = {"coordinator"}` |
| **CoordMissed** | NoneMissed | a chain that makes more blocks between two polls than the window has: the upgrade is never announced (`wbft/coordinator.go:114`) | |
| CoordReplaced | ReadBeforeReplaced | the file of one upgrade is overwritten with the next one's before the watcher has read it (`wbft/coordinator.go:240`) | Governance: `Parts = {"coordinator"}` |
| CoordPolling | PollingEnds | when the plan is worked off, the polling goroutine waits for a receiver for ever (`wbft/client.go:222`) | Governance: `Parts = {"coordinator"}` |
| CoordCreated | CreatedIsLoadable | CreatePlan saves plans that LoadPlan refuses: without upgrades, or with a name twice (`batch/batch.go:47`) | Governance: `Requests <- OddPlans; Parts = {"coordinator"}` |
| GovernanceCancelled | CancelledStays | a cancellation is overwritten by the queue's goroutine (`governance/scheduler.go:219`) | Governance: `Parts = {"scheduler"}` |
| GovernanceOneAtATime | OneAtATime | a second upgrade is triggered during the first (`governance/scheduler.go:43`) | Governance: `Parts = {"scheduler"}` |
| NotifierRemoved | RemovedIsQuiet | a handler is called after it has been removed (`governance/notifier.go:490`) | Governance: `Parts = {"notifier"}` |
| NotifierCleaned | HandledIsStored | a notification is handled after its clean-up (`governance/notifier.go:389`) | Governance: `Parts = {"notifier"}` |
| **PerformancePanic** | ConnNoPanic | Put and clean-up send to the pool's channel that Stop has closed (`performance/pool.go:168`) | |
| PerformanceSpin | CleanupReturns | after Stop the clean-up receives nil connections for ever (`performance/pool.go:224`) | Performance: `Parts = {"connections"}` |
| PerformanceRing | EvictsAnItem | after a Clear between two steps of a Get, the eviction meets an empty ring (`performance/cache.go:150`) | Performance: `MaxPushes = 5; Parts = {"cache"}` |
| PerformanceFresh | FreshStays | Get deletes by key the item it found expired, and with it one set since (`performance/cache.go:80`) | Performance: `Parts = {"cache"}` |
| PerformanceWait | WaitMeansDone | WaitForCompletion returns while a task is on its way to a worker (`performance/worker.go:313`) | Performance: `Parts = {"workers"}` |
| PerformanceStarve | AcceptedEnds | a task put back is overtaken for ever by those submitted after it (`performance/worker.go:213`) | Performance: `Parts = {"workers"}` |
| PerformanceGet | GetReturns | Get starts over, with a new timer, for each invalid connection it receives: as long as such are made it need not return (`performance/pool.go:159`) | Performance: `Parts = {"connections"}` |
| PerformanceDrain | CleanupEnds | the clean-up drains the channel while others put into it: it need not end (`performance/pool.go:233`; in the code what is put meanwhile is kept and others are made in its place, in the model, whose connections are few, some of it has expired) | Performance: `Parts = {"connections"}` |
| HubStop | StopEndsUpdates | after "Stop stops the API server" updates are still sent to clients (`api/server.go:185`) | Performance: `WSClients = {c1}; BroadcastSize = 2; MaxBroadcasts = 2; MaxRequests = 2; Parts = {"hub"}` |
| HubUnsubscribed | UnsubscribedIsQuiet | an update passed the check before the unsubscription arrives after its confirmation (`api/server.go:676`) | Performance: `WSClients = {c1}; SendSize = 3; BroadcastSize = 2; MaxBroadcasts = 2; MaxRequests = 2; Parts = {"hub"}` |

Seen while modelling, and without a line that says otherwise: a Get that waits
and receives an unusable connection drops it without closing it (`pool.go:156`);
two Gets may both pass the check of `maxSize` (`pool.go:130`); the dispatcher
drops a task that neither a worker nor the queue takes (`worker.go:216`); Submit
panics when Stop closes the queue after its check (`worker.go:163`); a
confirmation is dropped when the client's buffer is full (`server.go:707`).

## The proofs

Eight modules hold 35 theorems. Each is about a component's own specification
(`HubSpec`, `HeightSpec`, ...) for every value of its constants; the run's
specification is that one next to others it shares nothing with. The only
assumptions are the modules' `...Assumption`s: types and signs of the constants,
model values that differ from numbers or names, and, where something is counted,
that there are finitely many clients, workers or tasks. Two theorems have
hypotheses of their own. `WatcherInvariant` is about one goroutine that calls
WaitForUpgrade, as the orchestrator does; with two, an upgrade may be handed out
to both. `NoNodeIsLost` is about slow timers and callers that do not call Restart:
neither the foreground process nor the orchestrator does, only the restart command
(`cli/commands.go:123`) and the auto-restart, which is in the theorem; node_orphan
shows what a caller's Restart leads to.

| module | theorem | statement |
|---|---|---|
| NodeManagerProofs | NodeInvariant | `Spec => []NodeInv` |
| | TypeCorrect, ManagerConsistent, ProcessWhileRunning, NoDoubleClose, LatestNode | its parts: `TypeOK`, `ManagerInv`, `StateHasProcess`, `DoneChOpen`, `NewestProcess` |
| | ManagerIsService | `Spec => IsNodeService` |
| | NoNodeIsLost | `Spec => []OneKnownNode`, for slow timers and no Restart by a caller |
| FeedProofs | HeightInvariant | `HeightSpec => []HeightInv` |
| | QuietFromStop | `HeightSpec => QuietAfterStop` |
| | MonitorIsFeed | `HeightSpec => IsHeightFeed` |
| | WatcherInvariant | `Spec => []WatcherInv`, for one waiter |
| | WatcherStopIsFinal | `Spec => StopEndsDetection`, the safety half of StopsAreFinal |
| | ConfigInvariant | `ConfSpec => []ConfigInv` |
| SystemProofs | SystemInvariant | `Spec => []SystemInv` |
| | StoppedAtHeight | `Spec => []StopsAtHeight` |
| | LeftRunning | `Spec => []DownOnlyInUpgrade` |
| | StoppedForGood | `Spec => StopIsFinal` |
| ProcessProofs | ProcessInvariant | `Spec => []ProcessInv` |
| | OneUserAtATime | `Spec => []DataIsExclusive` |
| HubProofs | HubInvariant, NoPanicOnSend | `HubSpec => []HubInv`, `[]NoSendOnClosed` |
| GovernanceProofs | TrackerInvariant | `GovSpec => []TrackerInv` |
| | TrackerIsQuiet | `GovSpec => QuietAfterStop`, the safety half of StopIsFinal |
| | SchedulerInvariant | `SchedulerSpec => []SchedulerInv` |
| | NotifierLosesNothing | `NotifierSpec => NothingLost` |
| | CoordInvariant | `CoordSpec => []CoordInv` |
| | AnnouncedUpgradeStays | `CoordSpec => AnnouncedStays`, a conjunct of UpgradesPrepared |
| | DownloadInvariant, InstalledIsKept | `DownloadSpec => []DownloadInv`, `InstalledStays` |
| MonitoringProofs | MonitoringInvariant | `MonitoringSpec => []MonitoringInv` |
| | AlertInvariant | `AlertSpec => []AlertInv` |
| PoolProofs | PoolInvariant | `WorkerSpec => []PoolInv` |
| | ConnInvariant | `ConnSpec => []ConnInv` |
| | CacheInvariant | `CacheSpec => []CacheInv` |

The argument is the same in each: an inductive invariant that implies the
property, one lemma per group of actions that it is kept, and one temporal step.
What the inductive invariants add, and why:

* **NodeManager**: `ManagerInv` is inductive once TypeOK is known. TypeOK is
  needed because `DoneChOpen` is preserved only if a new channel's number
  (`chans + 1`) is not among the closed ones, and if a nil `doneCh` (0) never is:
  both follow from `closedCh \subseteq 1..chans`. `ManagerIsService` goes action
  by action and needs no invariant, since each abstract step's guard is the
  concrete one's. `OneKnownNode` needs one that says where the one live process is
  at each step (`OneIInv`): a live process is the manager's (`Known`) and has its
  monitor or is about to (`Watching`); what an auto-restart and a Stop know of the
  process they hold (`Restarts`, `Stops`). That a timer fires only when nothing
  else is ready is used at the end of a Stop, where nobody may be dying any more,
  and for the delay of an auto-restart, before which the Start that made the
  process has logged it (`Logs`).
* **HeightMonitor** (`HeightIInv`): while a change is on its way to a
  subscriber, all that was sent to it is older; and what the loop and a Stop
  know of each other. With it, receiving is the head of the abstract channel and
  publishing is its append or its drop.
* **UpgradeWatcher** (`WatcherIInv`, `FlagInv`): Start and the checks of several
  monitors exclude each other by the lock (`LockInv`); a flag that is set, or that
  the waiter has read and not yet cleared, stands for a detection that was not
  handed out. Only this waiter clears the flag: the check is free to set it between
  its reading and its clearing, which loses an upgrade but never invents one.
* **ConfigManager** (`ConfIInv`): the events of the file carry its latest content
  or one is still to come (`Quiet`), so that a watcher with nothing left to read
  has what the file holds in force. That a migration leaves no registered version
  out needs the path that Migrate looks up, of at most eight steps: `PathFacts` says
  what a step of it is, and `PathFills` that it passes every registered version
  between its ends.
* **UpgradeSystem** (`SystemIInv`): `LoopKnows`, that the height and the plan the
  loop has copied stay a received height and a plan whose height it is, whatever
  becomes of what they were copied from; `NodeKnown`, that a node which is not
  running has a step of the loop, an exit or a failed Start to explain it;
  `Counted`, that what may still be tried has not been counted; `Lifecycle`, that
  Stop has waited for both goroutines. The feed, the watcher and the node service
  are used through their own actions.
* **ProcessManager** (`ProcessIInv`): `DiskFits` says for each step of Run what
  link, data and backup are to each other, from the hook to the end of a restore, `OneUser` which process may be alive;
  both under the troubles that the property excludes or admits.
* **WebSocketHub** (`HubIInv`): `Served`, that a channel is only closed by its
  own reader at its end; `RoundHolds` and `Confirmations`, that whom the
  broadcaster is sending to has been confirmed, unless its buffer was full.
* **BinaryDownload** (`DownloadIInv`): a file that is not verified is at the
  final place only between rename and verification, and a call that has ensured
  a binary looks at it no more.
* **GovernanceMonitor** (`TrackerIInv`): what is tracked, still to be fetched, on
  its way as an answer or in the hands of a vote is on the chain (`Heard`), where
  proposals stay; announced means tracked, and a tracked proposal is never new.
* **UpgradeScheduler** (`SchedulerIInv`): a name stands for one upgrade, and what
  waits, or was copied by the worker, is what its name stands for (`ByName`,
  `QueuedKnown`, `CopiedKnown`); an upgrade leaves "scheduled" for good and is
  triggered before it is "in_progress" (`TriggeredStatus`). `Fewer` and `More` say
  of each change of the queue where the other entries went, in place of an induction
  over it.
* **Notifier** (`NotifierIInv`, types): the clean-up removes the oldest of what is
  stored, so what goes has as many above it as are kept (`AboveFacts`).
* **UpgradeCoordinator** (`CoordIInv`): plans are in the order of their heights
  whether created, saved or loaded (`PlansInOrder`), so the first upgrade above a
  height is the least of them; what was polled is not ahead of the chain, and the
  file holds what was next at a height the coordinator has been told (`Announced`).
* **WorkerPool** (`WorkerIInv`), **ConnectionPool** (`ConnIInv`): both count. The
  invariant is an equation for each task and each connection, the sum over its
  places being one (`PlaceSum`, `ConnSum`); lemmas say how an update of a function,
  an append or a tail changes `Occurs`. A name that is used again is at no place then
  (`NewTaskSteps`, `RedialStep`), so that the equations hold without a bound on load. The connection pool's count is exact until
  Stop, afterwards never too small (`ConnCounts`); and with those who may still
  count themselves it is at most the number of clients.
* **Cache** (`CacheIInv`): the list is a ring in the order of last use
  (`ListHolds`): taking an item out makes its neighbours neighbours (`UnlinkLinks`,
  from `Between`), putting one in front makes it the latest (`LinkFrontLinks`). When
  the ring may be broken, after a Get that overlaps a Clear, what remains true is
  that elements the list owns are at most those that were counted.
* **NodeMonitoring** (`MonitoringIInv`): the channel is never closed, since only
  Stop cancels the context and it sets `stopped` before.
* **AlertManager** (`AlertIInv`): the map changes in one step of a loop and the
  announcement follows in another, so that `EndsOnce` counts the announcements that
  are still to come (`Announcing`) into the balance of a name. Storing raises the
  balance by one and the map by at most one, deleting lowers both, announcing moves a
  unit from one side of the balance to the other. `LoopOrder`: a loop that is to store
  or announce has the rule at hand; and a single loop stores nothing that is there,
  without which the equality would not be kept.

For the proofs two definitions of the model say the same of the code in another
way: `recent` of Cache was a sequence and is an order; the sorted plan of the
coordinator is any permutation in the order of the heights (`SortedByHeight`), which
is all that `sort.Slice` promises. And one type was too narrow: removals that follow
a Clear take the `len` of the cache's list below zero once each, as often as items
have been made, not as the cache has room for.

Induction is not available as a rule, for its theorem takes an operator as a
parameter. `LeastNumber` (`Least`) replaces it for the loop of the cache's clean-up,
and for the heights along a plan: a non-empty set of naturals has a least member, by
`WFMin`, so that what fails for some number fails for a first one.

Only model-checked:

* everything about liveness, fairness and ENABLED being outside TLAPS's reach:
  StopReturns, ExitIsHandled, PlanIsNoticed, ConfigFollowsFile, UpgradeProgress,
  UpgradeEnds, Settles, DueIsTriggered, PoolsProgress, HubProgress, HealthReported,
  AlertsFollowMetrics, ClosedComesToRest, and of StopsAreFinal, StopIsFinal (of the tracker) and
  UpgradesPrepared what is not listed above;
* `OneKnownNode` with a Restart by a single caller and no auto-restart, where it
  holds as well (NodeForeground with `Callers = {c1}`, `"restart"` among the
  methods and `RestartOnFailure = FALSE`);
* what the runs that expect a violation refute.

Every invariant that a passing run checks is the property of a theorem.

## What is left out

* In the modelled parts: arguments and environment of the node, log files; the
  contents of backups and archives; the output of commands; statistics.
* `switchBinary` of the orchestrator is a placeholder in the code and does
  nothing in the model.
* Crashes of wemixvisor between hook and link (data for the new binary, link to
  the old) and a node that survives wemixvisor are in the model and the run of
  ProcessManager, but only its liveness covers them: no document promises more,
  and nothing more holds.
* A panic of the worker pool, the connection pool or the configuration manager is
  a state the model stops in (`poolPanic`, `connPanic`, `confPanic`); liveness is
  claimed for behaviours without one. Two loops of the alert manager may meet in the
  map, one reading and one writing; where Go's check notices, the program ends, which
  the model leaves out.
* Configuration: custom templates and rules, and the pointer that GetConfig hands
  out; of each kind of field there is one.
* Backup: `CleanOldBackups` and `ListBackups`. Hook: its script's environment;
  its retries are one outcome.
* Governance: the HTTP client, `CleanupOld` of the tracker (nothing calls it),
  SetEnabled, validation of binaries. The notifier's texts, priorities and
  disabled handlers.
* WBFT: `WaitForHeight`, `WaitForUpgradeHeight`, `ValidateUpgradeSchedule` and
  `waitForConsensusParticipation`, which wait or report only. Batch: what only
  reads. A WebSocket request names one topic.
* Worker pool: a second Start; the priority queue, which nothing uses.
* Without a module: the optimizer and profiler (settings of the Go runtime,
  profile files), the governance client, the HTTP handlers and middleware, the
  exporter, other commands (parsing, wiring, output), the logger, the examples.
  They keep no state that a protocol depends on; `PROJECT.json` lists them.

## What could come next

* The composition of NodeMonitoring with NodeManager, which each model their
  side of `stateMutex`.
* An abstract pool that WorkerPool and ConnectionPool both implement.
