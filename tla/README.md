# A TLA+ verification of ReCefore (cefore-emu-sslab)

ReCefore runs Cefore content-centric networking experiments on Mininet: it builds
a topology, starts the Cefore daemons on every host, executes timed events and
content operations while hosts and links fail, records what happened and restores
the machine. It is Python with a handful of threads; most of its difficulty is in
what happens when a step fails, hangs or is interrupted while another thread is
half way through its own. Around it stand the
validation of what it is given, the judgment of what it measured, and a campaign
runner that repeats it overnight.

This directory holds

- TLA+ modules translated from `src/src/**`, `src/tools/**` and the scripts beside them (every definition that models code is
  mapped to its lines in `PROJECT.json`, "map"),
- TLC configurations that check them on small instances,
- eight modules of theorems checked by TLAPS for every value of the constants,
- `PROJECT.json`: components, runs, mutants, hazards and theorems.

Paths below are relative to `src/src/` unless they begin with `tools/` or name a
document of the repository's root.

## 1. Inventory

### 1.1 Components, their state and operations

| Component | State | Operations | Module |
|---|---|---|---|
| `HostAppFleet` (`runtime/host_apps.py`) | `_launches`, `_lock`, `_stopping`, reserved log paths | `start_all`, `restart_host`, `stop_all` | `HostApps`, `HostAppContract` |
| `EventScheduler` (`runtime/scheduler.py`, `core/events.py`) | heap of `(time, priority, seq, event)`, stop event, thread | construction, `_run`, `_handle_repeat`, `wait_all`, `stop` | `EventScheduler` |
| `ContentOperationRunner` (`runtime/content_ops.py`) | queue with its unfinished count, `_pending_subs`, `_cancel_event`, worker | `submit`, one handler per operation type, `wait_all`, `stop` | `ContentRunner` |
| `FailureManager` (`runtime/failure_manager.py`, `core/flap_state.py`, `runtime/links.py`) | set of hosts that are down, timers, stop event | `periodic_host_flap`, cycle mode, `host_down`, `host_up`, `set_link_state` | `HostFlap` |
| `BaseScenario.execute` (`scenarios/base.py`, `runtime/cleanup.py`) | primary exception, cleanup failures, network | the stages of the run and of staged cleanup | `ScenarioLifecycle` |
| `DaemonFleet`, scenario setup, `provision_node_dirs` (`runtime/daemon_fleet.py`, `scenario_setup.py`, `template.py`) | `started_csmgrd`, generated directories | `start_all`, `wait_ready`, `stop_all`, provision, rollback | `ScenarioLifecycle` |
| `BridgeManager` (`runtime/bridge_root.py`) | LIFO ledger of cleanup actions | routes, flows, resolv.conf, sysctls, NAT, proxy ARP, `cleanup` | `BridgeRoot` |
| `DisasterScenario`, `ConnectScenario`, `run_event_batch`, `Monitor`, `ResultsSink` (`scenarios/disaster.py`, `connect.py`, `runtime/event_batch.py`, `monitoring.py`, `results_sink.py`) | the handles of what is running, probe records, results | phases, batches, monitoring, shutdown, `write_results` | `Experiment` |
| External bridge attachment (`runtime/bridge_external.py`) | `_created_bridges`: one record of flags per host; rollback actions | attach, roll back, `cleanup_external_bridges` | `ExternalBridge` |
| Configuration (`core/config/`, `core/events.py`, `cli/bootstrap.py`) | the merged namespace | merge flags and file, validate each block, the gate before a scenario | `ConfigRules` |
| Topologies, roles, addressing (`runtime/topo.py`, `core/topology.py`, `roles.py`, `addressing.py`) | degree budgets, switches, links, addresses | random mesh, explicit and linear topologies | `Network` |
| FIB, graph, cache placement, forwarding (`core/fib.py`, `graph.py`, `runtime/cache_*.py`, `forwarding.py`) | none; the node configuration they write | shortest paths, k paths, next hops, k-centers | `Routing`, `Network` |
| Link and bandwidth events (`runtime/links.py`, `bandwidth.py`) | interface state | `link_down`, `link_up`, `bw_set` | `Network` (what they touch), `HostFlap` (races) |
| Verdicts (`core/verdict.py`, `ccninfo_parse.py`, `log/parser.py`, `runtime/result_detect.py`) | none | judge exit codes, logs, outputs, `ccninfo` text | `Verdict` |
| `CommandRunner`, content commands, compute client (`runtime/command_runner.py`, `cefore.py`, `compute_client.py`) | processes, logs, output files | start, wait with exit, deadline and cancel, judge, publish | `Judgment`; start and stop also where they are used |
| `ResultsSink`, `DashboardState`, CSV summary, analysis (`runtime/results_sink.py`, `webui/state.py`, `log/summarizer.py`, `tools/autotest/analyze.py`) | records under a lock, bounded lists | append, notify, join with logs, count | `Judgment` |
| Campaign tools (`tools/workshop/supervise.sh`, `campaign.py`, `tools/autotest/run.py`, the journal readers of `plots.py` and `report.py`) | `campaign_state.jsonl`, `results.json` per job, job processes | supervise, resume, retry, clean up, time out, report | `Campaign` |
| Figures, HTML, argv text, Flask routes, Tee | none that outlives a call | | not modelled |

### 1.2 How they interact

The main thread walks through `execute()`. Inside `run_experiment` it starts the
host applications, then batches of events. Each batch is an `EventScheduler`
thread and, if it has content events, a `ContentOperationRunner` worker. The
scheduler's handlers change links and routes (shared with the flap threads), call
`HostAppFleet.restart_host` (shared with the main thread's `stop_all` through a
lock) or submit to the worker's queue. The worker and the handlers write to the
`ResultsSink`; the main thread writes it to `results.json` at the end. A monitor
thread probes and keeps its own records. Flap workers arm `threading.Timer`
threads. Only stop events, a cancel event, two locks and a queue connect them.

What a run leaves behind connects it to the next stage: the log and the output
place of an operation are named after its host and a label of its URI, so two
operations may share their evidence; the CSV summary joins logs with records by
that name. A campaign knows of an earlier life only what the journal, the results
files, the processes that survived it and the kernel still hold.

### 1.3 What is hard, and what makes each part correct

`PROJECT.json`, "hazards", lists each at its line. In groups:

- *Shutdown races.* `stop_all` against a restart in its downtime; `stop` against
  an event already chosen; cancellation against an operation already taken;
  joins that give up on a thread which then records after the results file.
  Correct means: nothing is started or recorded afterwards that nobody accounts
  for, and the shutdown still ends.
- *Partial failure.* One of several stops, starts, copies, sysctls or iptables
  rules fails, and the rollback may fail as well. Correct means: what was not
  undone is still known to somebody, and the failure is reported.
- *Order.* Events of one instant, repetitions and restores in a shared heap;
  subscription before publication; seed, warmup, failure, evaluation.
- *Ownership.* A subscription waited for by a publication, by `wait_all` or by
  `stop`; a host to be brought back by exactly one timer.
- *Restarts of the program.* A killed run leaves directories and the next one
  must tell its own from the user's. A killed campaign leaves a job running, and a
  crashed machine half a journal line; resuming must neither repeat what is done
  nor believe what is not.
- *Evidence.* Success is read back from files that another operation may have
  written. Correct means: a success was a delivery, a delivery is a success, and
  record, dashboard, CSV and analysis agree on it.
- *Numbers at their limits.* Subnets, host indices, degrees and switch capacities;
  an accepted configuration must build, or fail for the reason it gives.

## 2. Modules

| Module | What it is |
|---|---|
| `HostAppContract` | abstract: a process is launched only while its application has none, never after closing |
| `HostApps` | the fleet with threads, lock, failures and log files; implements the contract |
| `EventScheduler` | the heap and the thread, with a clock |
| `ContentRunner` | queue, worker, pending subscriptions, `wait_all`, `stop` |
| `HostFlap` | both flap modes next to link and route events |
| `ScenarioLifecycle` | one `execute()` after another, with directories and daemons |
| `BridgeRoot` | changes to the operator's machine and their ledger |
| `Experiment` | composition of batches, monitor, applications and flaps under the main thread |
| `ExternalBridge` | an operator's NIC on a bridge: attach, roll back, clean up |
| `ConfigRules` | from flags and file to an accepted or refused scenario |
| `Routing` | graph searches, k paths, next hops and cache selection as functions |
| `Network` | from parameters to a built, addressed, routed network, and its link events |
| `Verdict` | the judgment of an operation from its evidence, as functions |
| `Judgment` | the processes and threads that produce, share, read and count the evidence |
| `Campaign` | supervisor, campaign, jobs and readers through kills and crashes |
| `*Proofs` | theorems and proofs of the module of that name; four of them have a second part: `ScenarioLifecycleProofs` about `ExternalBridge`, `EventSchedulerProofs` about `ConfigRules`, `ExperimentProofs` about `Network`, `CampaignProofs` about `Judgment` |
| `MC*` | values of the constants for TLC |

In each module a definition whose name has an underscore and a suffix
(`PutBack_Proceeds`) is a mutant: the definition after it with a plausible
bug. No specification uses it; "mutants" in `PROJECT.json` says which property it
must break. `ExternalBridge`, `ConfigRules`, `Network` and `Judgment` name their
specifications `ExtSpec`, `BootSpec`, `NetSpec` and `JudgeSpec`, because a proof
module extends two components at once.

### HostApps

Processes are `[app, life]` records. `launches` is `_launches`, `running` what
the operating system has, `opened`/`truncated` the log files. `restart_host` is
`RestartHost`, `Select`, one `RestartStop` per launch, `PutBack` of those whose
stop raised, `DowntimeEnds`, `ReplayBegins` (which takes the lock again and looks
at `_stopping` again), one `RestartStart` per launch and `RestartReturns`; every
stop and start may raise. `stop_all` is `StopAllBegins`, one `SweepStop` per
launch, `StopAllReturns`. A log path is a sequence of numbers, and life k of base
`p` logs to `Append(p, k)`, so a life's file can be another entry's base file, as
in the code. `truncated` remembers whose start opened whose file. The contract is
stated of processes, `up <- running`: a second life beside a live one is no step of
it. Placeholder expansion is left out.

### EventScheduler

`heap` is a set of entries with the key `(at, priority, seq)` of the code. `Check`
is the head of the loop, `WaitEnds` the wait for the head's time or for `stop`,
`Fire` the pop, `HandlerEnds` the handler's return or failure with its record and
`_handle_repeat`, `HandlerDies` an exception that is no `Exception` and ends the
thread. A handler takes any number of ticks, so events may be late. `Batches`
names the sets of events a scheduler may be made for (the experiment filters its
list per phase).

### ContentRunner

The scheduler submits a `Script` in order. The worker's `wpc` follows each handler:
`put`, `get` and `ccninfo` start a command and wait; a subscription is started,
watched for `StartupGrace` and registered in `pending`; a publication takes the
subscriptions of its URI (`mine`), runs, then settles them one by one. The main
thread's `wait_all` and `stop` are step by step, with the deadline as a step that
may happen at any time. Commands end when they like or never, unless the code
gives them a deadline (`HasDeadline`).

### HostFlap

A link is two Mininet links, set one after another, because the code does so and
the event scheduler may come in between. `active` is the set of hosts marked
down, `timers` the timer threads. The worker's steps are `Loop`, `Stagger`,
`Mark`, `LinkDown`, `Downed`, `ArmHost`, `RoundEnds`; a timer's are `Fire`,
`UpBegins`, `LinkUp`, `Upped`, `Release`, `ShowUp`. A change of links may raise
half way. Choices of hosts are nondeterministic where the code uses a random
generator and ordered where it sorts.

### ScenarioLifecycle

`pc` is the stage and `i` the host of a loop. Every stage may raise an error,
`SystemExit` or `KeyboardInterrupt`, before or after its effect; a process may be
killed anywhere and `Rerun` begins the next execution with the directories it
finds. `dirs[h]` tells the user's directory, a half made one and a finished one
apart, which is what the stamp file does in the code. When the topology cannot be
built, or in the final cleanup, the removal of directories may itself raise part way.
`bridge` holds what setup left on the machine: state whose undo is mandatory, routes
whose removal is best effort (a failure is a warning), and bridges to external
interfaces, which teardown removes only for a scenario with
`cleanup_external_bridges` (`external`; disaster has it, connect has not).

### BridgeRoot

What the program changes outside Mininet: *cells* (captured, overwritten, put
back), *items* (routes and flows, there or not), *rules* (iptables rules, a
multiset). A route is overwritten by `ip route replace`, in a host, and refused by
`ip route add`, in the root namespace, when the operator has an equal one.
`CallsOf(e)` is the sequence of calls `setup_bridges` makes for an
entry; each call is one or more actions, split where a failure or an interrupt
makes a difference (between a write and the registration of its restore).
`cleanup()` runs the ledger backwards and keeps what failed.

### Experiment

`EventScheduler` and `ContentRunner` appear as what `run_experiment` sees of
them: threads that are built, started, told to stop, joined with a timeout.
`pc` follows `run_experiment`, `run_event_batch` (synchronous with policy "raise"
in the disaster scenario and "warn" in the connect scenario, or deferred) and
`shutdown_runtime_resources`. A `KeyboardInterrupt` may come at each blocking
call. The flap threads are seen from outside too: the thread that takes hosts down
and the timers that bring them up look at `stop_event` (`FlapChecks`), change links
and record into the same sink (`FlapRecords`); `StopFlap` sets the event and joins
nobody, and `midway` remembers who was in a link change then. The web UI's stop, one
more guarded stage, is left out.

### ExternalBridge

`Steps(q, prior_up)` is the list of commands of one attachment, each named after
the flag of the record it sets. `StepSucceeds`, `StepFails` and
`AttachInterrupted` are the outcomes of a command (the interrupt before it, or
between it and its flag); `RollbackStep` undoes in reverse and clears only the
flags of what it undid; `CleanStep` walks the gates of `cleanup_external_bridges`
for a record, whose failure keeps the flag and the record. `nics` and `objects`
are the operator's interfaces and the kernel's bridges and veth pairs. An interface
that has an address (link-local ones do not count) or a master is refused before
the first command.

### ConfigRules

A configuration value is a pair of YAML type and content. `OptionSpecs` is the
table of options with type, minimum and scenarios; each structured block has one
operator (`CacheConfigOK`, `LinksOK`, `HostAppOK`, ...), and an event its required
fields, its per-type rules and its repeat and restore rules. The behaviour is
`bootstrap_scenario`: validate the file, merge, validate the merged values, and
start or exit. The properties compare what was accepted with what the handlers of
the scheduler read.

### Routing and Network

`Routing` has the loops of `graph.py`, `fib.py` and `cache_manager.py` as recursive
functions over a count of iterations, with the tie-breaking of `heapq` and `sort`.
`Network` follows a scenario: `AssignRoles`, `DrawDegrees`, `JoinTree` host by host,
`Spread`, `CheckLimit`, `Extra`, `Emit` (addresses), `Place` (caches and
strategies), `ComputeFib`, then `LinkDown`, `LinkUp`, `BwSet` or a demonstration.
What the random generator draws is a choice; every `raise` is `Fail` with its
reason. The references the runs compare with are declarative: walks of a length,
all simple paths, the best set of k centers.

### Verdict and Judgment

`Verdict` has the `from_*` judgments, the `ccninfo` parser over classified lines,
the log parser and the classification of the analysis. `Judgment` makes their
arguments: an operation starts a process with a log and an output place; the
process receives, writes, prints and exits; `CommandRunner.wait` ends by exit,
deadline or cancel and may see an exit that came first; the worker, the main
thread and the scheduler judge, append to the sink under its lock and notify the
dashboard outside it. The worker takes an operation (`Take`) and starts it in two
steps, since a cancellation may come between. A subscription empties its directory
(`SubClears`), is spawned (`SubSpawns`) and is entered as pending (`SubPends`), and a
`cefsubfile` of the same host and label may write in between. An operation belongs
to the warmup or to the evaluation; the analysis skips the first. `pending`, and the subscriptions a
thread has still to settle, are sets: the code's lists are in the order of dispatch,
which the numbers of the operations give (`Following`). CSV rows and totals are
functions of the state.

### Campaign

`sup` is the loop of `supervise.sh`, `camp` two campaign processes, the supervisor's
child and one started by hand, each with its job, attempt and
loaded `completed` set, `journal` the lines of `campaign_state.jsonl`, `live` the
job processes, `mn` the attempts whose Mininet state is still in the kernel. Each
attempt has a serial number, so that a results file or a leftover network has an
author. `LaunchByHand` starts or resumes a campaign at any time, with or without
`--clean-between`: nothing is cleaned first and nobody looks for another campaign,
so it may run beside the supervisor's child (`overlap`), or be overtaken between the
supervisor's look for live campaigns and its launch. One campaign by hand at a
time is modelled. `KillCampaign` leaves the running job alive, since it owns its
session; `CrashMachine` clears processes and kernel and may tear the line that was
being appended, of an attempt or of a skipped job;
`Timeout` kills the process group of a job, which misses a linear scenario.

## 3. Runs

| Run | Shows |
|---|---|
| `host_apps` | `Ownership`: every live process is tracked, and after `stop_all` only reported survivors live; `NoTruncation` of a log in use, unless two entries are configured with one file; refinement of `HostAppContract` (`ContractHolds`); `stop_all` and `restart_host` return (`ShutdownCompletes`) |
| `scheduler` | `Bookkeeping`: no ties, cadence without drift, one record per firing, at most one event after `stop`; `FiringOrder`: order of time, priority and insertion, restores before the next repetition; `Progress`: every event fires, `stop` ends the thread |
| `content_runner` | `RecordsSound`: no record twice or lost, exact queue accounts, what `wait_all` returning True means, subscriptions settled; `StartsOrdered`: one start after cancellation, publication after subscriptions; shutdown ends although commands hang |
| `host_flap` | `RoundsOwned`: downs and ups of a host alternate, one owner per down host; `LinksFollow` the marks; every outage ends (`DownEnds`) |
| `scenario_lifecycle` | `EndsClean`: a run that reports nothing leaves nothing but routes given up with a warning and, without the opt-in, bridges to external interfaces; no stop skipped because of another host; `ForeignIntact`: the user's directories |
| `bridge_root` | whatever fails, each setting has its old value or a ledger entry that restores it (`Recoverable`); rules balance; the operator's routes survive, his default route included (`ItemsOwned`) |
| `experiment` | `RunSound`: phase order, every stage told after the sweep, the monitor's file complete; `NoLateRecord`: who may record after `results.json` was written, flap threads included; `ExperimentEnds` |
| `external_bridge` | `Restored`: an interface no record names is as the operator left it; `Untouched`: one with an address or on another bridge is never changed; `NothingLeft`: a failed attachment leaves nothing, and a cleanup without failures finishes what earlier ones left |
| `config_rules` | `OptionsSound`: no inadmissible option accepted and none lost in the merge, a flag overridden only when it repeats its default; `EventsRun`: every event that can fire, made-up restores included, has what its handler reads; `LinksUsable` |
| `network` | `MeshSound`: connected, within capacity and degree, and a tree fails only if none exists; `RoutesLead` to the host of each prefix; `CachesServe`: modes agree, greedy centers within twice the optimum; `LinkEventsExact`; `PathsOptimal` against all simple paths |
| `judgment` | `SuccessIffDelivery`: a success rests on content that arrived since the operation began, and a delivery is a success; `CsvFollows` the record and never invents a delivery; `CcninfoSound` against a reading by paragraphs; `CountsAgree`: dashboard and analysis differ by the prefetches only |
| `campaign` | `ReportTrue`: report and resume agree, an ok job has the results of its ok attempt; `StartsSound`: which processes and networks a job may meet when it is started, and that it is not done already; `SupervisorEnds` |

### Bounds

Bounds are named constants and appear in guards only.

- `host_apps`: four applications on two hosts, two restarts (`MaxRestarts`). The
  second application's log is the file of the first one's life 3, reached by the
  second restart; the fourth has the first one's log. Two applications on one host are needed for partial failure;
  restarts are serial, since only the scheduler thread makes them.
- `scheduler`: `Horizon = 7` ticks. The finite batch has a twice repeated outage
  whose restore is due with the next outage, a publication configured before the
  subscription of the same instant, and a change without restore; the endless
  batch an outage restored only after the next began. Every coincidence of times
  that the code distinguishes occurs before tick 7.
- `content_runner`: two subscriptions, their publication, a download, a query: two
  are needed for a failure between subscriptions; the download is the command
  without deadline.
- `host_flap`: two hosts with endless rounds, and three hosts with three cycles,
  one target list naming a host twice, with a link event that overlaps;
  `MaxTimers = 3` lets two timers be pending and a third be armed.
- `scenario_lifecycle`: two hosts, one with a cache, with and without
  `cleanup_external_bridges`; `Runs = 2`, so that a run
  meets what a killed one left. The readiness policy is "raise"; "warn", under
  which the experiment may begin with a daemon missing, is covered by the theorems,
  which hold for both.
- `bridge_root`: four configurations of two or three entries that share a
  setting, a route or a rule, on a machine whose operator has a default route and an
  equal NAT rule; `MaxCleanups = 2`, although the program calls
  `cleanup()` once (`scenario_setup.py:232`).
- `experiment`: one operation of each kind, six configurations, `MaxInterrupts =
  1`, `MaxProbes = 1`: each late thread needs one late operation. `MaxFlaps = 2`
  records of each kind of flap thread: one before the shutdown and one after.
- `external_bridge`: two lists of requests on two interfaces (the same NIC for
  two hosts and an unknown host among them), `MaxCleanups = 2`, so that a second
  cleanup meets what the first left.
- `config_rules`: files with one option at each boundary value and type, one event
  of every type with each field missing or wrong, explicit topologies of up to
  four links, every structured block; `MaxLinkSubnetId = MaxHostIndex = 3` put the
  limits of the address space within reach. The rules are per field or per pair of
  fields, which these files cover.
- `network`: random meshes of three and four hosts (degree 0 and an empty range of
  degrees among them), all connected explicit
  topologies of three hosts and those of four links on four, cache plans of every
  strategy, lines; `MaxLinkSubnetId = 5`, `MaxHostIndex = 3`, so that addresses run
  out in some plans.
- `judgment`: scripts of up to three operations that share or do not share a name,
  one of them with a prefetch
  (two subscriptions taken by one publication are left to the theorems),
  `ccninfo` texts of up to three lines and whole replies around any two lines,
  `MAX_OPERATIONS = MAX_HISTORY = 2`, so that three records overflow the windows.
- `campaign`: six cases of a manifest with a bound on faults (kills, crashes,
  timeouts) and one on campaigns by hand: a disaster and a linear job with two
  faults, a fault in the recovery from a fault; the other order and a duplicate id
  with one; a single job of each kind, and a malformed last entry, with one fault and
  one campaign by hand. A campaign by hand beside the child of the supervisor, before
  it and after it all occur with one job.

`CHECK_DEADLOCK FALSE` stands in the configurations of programs that simply end;
that they end in the right place is what the liveness properties say. `campaign`
has an explicit final step and is checked for deadlock.

### Fairness

- `EventScheduler`: time passes and the thread runs; handlers end (all that are
  not content have timeouts or are local commands). No fairness of `wait_all` or
  `stop`.
- `ContentRunner`: worker and main thread run, timeouts expire. No fairness of
  process exits: `cefputfile` and `cefgetfile` have no deadline and may hang.
- `HostApps`: main thread and restart run; stops have a grace period followed by
  a kill, downtime is a bounded wait.
- `HostFlap`: worker and timers run; none for events and `stop`.
- `Experiment`: main thread and schedulers run, joins and waits time out. None
  for content processes, the monitor, or the user leaving the CLI.
- `Campaign`: supervisor and campaign run, and an attempt the campaign waits for
  ends, by itself or by the hard timeout. None for orphaned jobs or faults.
- `ScenarioLifecycle`, `BridgeRoot`, `ExternalBridge`, `ConfigRules`, `Network` and
  `Judgment` have safety properties only.

Weak fairness is enough everywhere: the threads hold no lock another thread can
take away again and again.

## 4. Theorems

All are proved for every value of the constants from the named assumptions of the
modules. `PROJECT.json`, "theorems", lists them. The shape is the same
everywhere: `Init => IInv`, `IInv /\ [Next]_vars => IInv'` by one step or lemma per
action, and `IInv` implies the property. A property of a run that has parts is
proved as a whole (`OwnershipTheorem`, `BookkeepingTheorem`, `FiringOrderTheorem`,
`RecordsTheorem`, `StartsTheorem`, `EndsCleanTheorem`) from a theorem per part.
The type invariants are theorems too (`TypeCorrect`).

- **HostAppsProofs** (`HostAppsAssumption`; log files may be shared as the
  configuration likes). `NoOrphan`
  is not inductive: that nothing starts after the sweep needs that the sweep began
  with the lock free (`PhaseInv`), that the restart's critical sections coincide
  with holding it (`LockInv`), and that every live process is tracked. For
  `NoTruncation` the invariant says that a later life opens no file that is reserved
  for a first life, and that of an application only lives up to the present one
  have opened one (`FreshLogs`); so two starts share a file only if both are first
  lives whose entries do. `ImplementsContract` is the refinement, process by process.
- **EventSchedulerProofs** (`SchedulerAssumption`: restores only on events that are
  not content, as the validator enforces). The key is that everything queued is
  later than everything popped (`QueueInv`), which a push preserves because its
  time is not earlier and its sequence number is new. `RestoreInv` orders a queued
  restore before the next repetition; it rests on the code pushing the restore
  first and on both having the default priority (`PriorityInv`).
- **ContentRunnerProofs** (`RunnerAssumption`). The queue is in submission order
  after everything touched (`QueueInv`), a held subscription has one holder, a
  process and no record (`HeldInv`), everything started is held, in hand, lost,
  or recorded (`StartedInv`), and what `wait_all` has still to do when it will
  return True (`DoneInv`).
- **EventSchedulerProofs, ConfigRules** (`ValuesAssumption`: what a YAML integer or
  list holds; nothing is assumed of the files). `BootInv` says where each value of
  the merged namespace comes from (`Origin`), what the file has said is still there
  unless a flag or an allowed null replaced it (`Kept`), that a flag gives way only
  where it repeats its default (`FlagWins`), and that what runs was
  accepted. `LinksUsable` needs what the breadth-first rounds of the validator
  reach: a set closed under links, by the least round that would refute it. For
  `EventsRun` the rules of each event type are compared with what its handler and
  the restore made from it read. That a
  content event has no restore, which `SchedulerAssumption` above assumes, is one of
  those rules.
- **ScenarioLifecycleProofs** (`LifecycleAssumption`). `DirInv` keeps the user's
  directories out of every registered set, `LoopInv` what loops over hosts have
  done, `DaemonInv` the order in which things cease to exist, for any number of
  hosts and runs.
- **ScenarioLifecycleProofs, ExternalBridge** (`ExternalAssumption`: requests are
  sequences; a host is not called "none" or "operator", the names that stand for no
  master and a foreign one). `ExtInv` says that a host and an interface have one
  record (`Distinct`), that undoing a flag restores what the operator had
  (`FlagsSound`), that an interface without a record is as it was (`NicsSound`), that
  every object is flagged or was cut off by an interrupt (`ObjectsSound`), that the
  undo list covers the flags of the record in hand (`HandSound`, `StepSound`), and
  that what cleanup has still to do covers what is left (`CleanSound`).
- **BridgeRootProofs** (`BridgeAssumption`). `Recoverable` speaks of what cleanup
  will write last to a setting; it is not inductive, because cleanup takes actions
  off the ledger one by one and puts failed ones back. The invariant says that a
  setting without an action in the ledger is as it was found (`UntouchedInv`,
  `CaptureInv`), that the first action registered for it, which cleanup tries
  last, holds the value it was found with (`FirstInv`), and that during cleanup
  that action is still to be tried, or is retained, or has been done (`CellInv`,
  `RetainInv`). Rules are counted: what there was before, plus those being added,
  plus the deletions the ledger has (`RulesInv`); routes and flows are owned by one
  action each (`ItemsInv`).
- **HostFlapProofs** (`FlapAssumption`). That records alternate follows from
  ownership: a host with an owner, the worker or one timer, is marked down and has
  no other owner, and until stop every marked host has one (`OwnerInv`); a round
  never holds a host that is marked (`RoundInv`). `RecordInv` says for each place
  of a host whether its last record is a down or an up, `LinksInv` which of its
  links may be down there. For target lists and cycles the sequence of chosen
  hosts has no type in the invariant, because `SelectSeq` and `SortSeq` are
  defined by recursion; nothing in the proof needs one.
- **ExperimentProofs** (`ExperimentAssumption`). `DoneInv`, that puts and
  prefetches have ended when autotest goes on, needs how far the operations of the
  batch in hand are (`BatchInv`), that nobody stops or cancels a batch before it
  was waited for (`CalmInv`), that an event in a handler keeps its scheduler busy
  (`HandlerInv`), and that nothing of the last batch moves before it is entered
  (`MainInv`). `ToldInv` accumulates what the shutdown has told along its stages,
  interrupts included. A thread that is alive after its join is one whose join
  gave up (`OutliveInv`, `MonitorInv`), and a flap thread in a link change after
  `stop_event` was set was in it then (`FlapInv`), from which the action property
  `NoLateRecord` follows.
- **ExperimentProofs, Network** (`PlansAssumption`: types, and of an explicit
  topology what `BootLinks` shows that the validator guarantees). `BuildInv`: every
  division of the hosts that joined the tree is crossed by a switch, hosts that wait
  have their whole degree, the budget that was spent pays two interfaces per joined
  host (`TreeInv`), and switches, degrees and limit are kept (`MeshInv`). That the
  tree gives up only when none exists compares sums over the hosts; they are proved
  for any number of hosts by the least host at which a partial sum would be wrong.
  `EventInv` matches links, routes and faults pair by pair on explicit topologies.
- **CampaignProofs** (`CampaignBounds`: what a manifest and its bounds consist of).
  The supervisor waits for its child and a job in hand is of a valid manifest
  (`PlaceInv`); without `overlap` one campaign runs at a time (`SoloInv`).
  Report and resume agree because an ok line is the last of its job, which holds
  because a lone campaign has only jobs open that had no ok line when it read
  the journal (`OpenInv`, `LastInv`). Attempts have one number each (`SerialInv`), every
  live process is the attempt a campaign waits for or an orphan (`LiveInv`), the
  results of an attempt that is no orphan stay (`ResultsInv`), and a network that is
  left over is that of a job given up, of an orphan, or of the attempt in hand, after
  which it is cleaned (`NetworkInv`).
- **CampaignProofs, Judgment** (`ScriptsAssumption`: a script is a finite sequence of
  operations of the six kinds; `BoundsAssumption`). An operation is pending, in hand
  of one thread or recorded, never two of these (`OwnInv`, `KindInv`), a process
  that runs is waited for by the thread that has it or is a subscriber (`ProcInv`),
  and the worker runs the latest operation dispatched (`OrderInv`). So a log belongs
  to the operation that opened it last and its marker to that one (`LogInv`), an
  artifact was seen by every subscription that emptied its directory, whether it has
  been spawned yet or not (`ArtInv`), an answer is
  that of the call in hand (`RespInv`), and a record is true of its operation
  (`RecInv`: `Earned`, `Honoured`), which is `SuccessIffDelivery`. For `CsvFollows` the
  records of a log and URI must be in the order of dispatch, although worker and main
  thread both settle subscriptions (`QueueInv`): what is pending comes after what
  the main thread has, a publication takes all of its URI, and each thread settles
  those of a URI first to last. `CountsAgree` (`BoundsAssumption`: the bounds of the
  dashboard are not 0) needs how many records the subscribers were called with: the
  records less the calls under way (`DashInv`). What the dashboard holds are that many
  of them, each once, in whatever order the threads called; a failed record has a
  reason because a get or subscription that is judged had a process. The sums of the
  analysis over URIs are the size of a union of disjoint sets: that is a solution of
  the equation of the fold, and the only one, by a least set where another differs.

The theorems hold without the bounds: `MaxRestarts`, `Horizon`, `Runs`,
`MaxCleanups`, `MaxTimers`, `MaxInterrupts`, `MaxProbes`, `MaxFlaps` and the bounds in
`Cases` are
arbitrary naturals in them, and `Files`, `Flags`, `Plans`, `Requests`, `Cases`,
`Scripts` and `Texts` arbitrary sets of what the assumptions describe. TLC has checked the inductive
invariants on the instances of the runs, with quantifiers over every value
restricted to the hosts. `Experiment` and `HostFlap` are checked with fairness; the
safety theorems need none.

## 5. What is only model-checked

- Liveness, in every module: the prover does not do fairness or `ENABLED`.
- Of `Network`: `RoutesLead`, `CachesServe` and `PathsOptimal`. They compare what the
  loops of `Routing` compute (shortest paths, k paths, k centers) with all walks, all
  simple paths or the best set of centers; for every graph that is an induction over
  the iterations of each loop, which the prover cannot do.
- Of `Judgment`: `CcninfoSound`, a fold over the lines of a text against a reading by
  paragraphs.
- All assumptions are evaluated by TLC on the instances. They are what the code
  before the modelled part guarantees (interfaces are numbered by Mininet, links
  are pairs of different hosts, an event has one type, autotest has no CLI).

## 6. Observations

None of these is a run of its own; each is a place where a reader of the code may expect
something else, or an exception that a property names.

Against a document or a comment of the repository:

- after a restart in which one of several stops or starts raised, later restarts
  of that host return True without its dropped applications (`README.md:403`;
  `runtime/host_apps.py:388`);
- a `cefpubfile` that cannot be started loses the subscriptions it has already
  taken (`runtime/content_ops.py:348`, `:360`);
- the directory being copied when provisioning fails is neither stamped nor
  removed, and blocks the next run (`runtime/template.py:115`);
- when setup raises after csmgrd was started, teardown's fallback fleet does not
  stop it; the final `pkill` does (`runtime/scenario_setup.py:223`);
- an interrupt while the host applications are being stopped skips every other
  stage of the shutdown hook (`scenarios/disaster.py:510`);
- the merge lets the file override an explicit flag that equals its default
  (`core/config/loader.py:157`, docstring `:142`: "config values must never override
  explicit CLI flags"); `FlagsKept` says of which flags this is true;
- a killed campaign's job survives it, and the relaunched campaign drives Mininet
  beside it, although `tools/workshop/supervise.sh:17` wants to wait rather than
  double-drive and `:4` calls the relaunch safe after SIGKILL; `mn -c` before the
  relaunch removes the network under the surviving job. `StartsSound` says exactly
  which processes and networks a job may meet. The survivor's late `results.json` may replace that of the ok attempt
  (`OkHasResults` excepts exactly this);
- failed and skipped jobs end the supervisor, although
  `tools/workshop/campaign.py:288` says that they are re-attempted.

Threads, shutdown and cleanup:

- a repeated `pubsub_sub` clears the output directory of the one still pending
  (`runtime/content_ops.py:291`, judged in `result_detect.py:48`), and what the
  earlier `cefsubfile` writes afterwards, even before the new one is spawned or
  pending, is counted as the new one's too;
- teardown removes bridges to external interfaces only for a scenario that opts in,
  and connect, which attaches them with `--ext`, does not (`scenarios/connect.py:129`);
- the flap threads and timers are told to stop and not joined: the record of a host
  that was on its way down or up may miss `results.json` (`scenarios/disaster.py:542`);
- `host_up` also brings up a link an event took down for good
  (`runtime/links.py:35`; `LinksFollow` is one-sided for this reason), and its FIB
  restore re-adds routes `fib_del` removed and drops those `fib_add` added;
- a second `cleanup()` after a partly failed one may write a later capture last
  (`runtime/bridge_root.py:779`);
- the rollback of NAT rules is skipped when the runner raises instead of
  returning an error, and a rule whose rollback failed is not registered;
- an interrupt between an undo command of an external bridge and its flag makes
  the record stale: no later cleanup can clear it (`NothingLeft` excepts it);
- `wait_all` may return True while a publication submitted after the call still
  holds subscriptions (`CompletedMeansSettled` asks that it was called after the
  last submission, as `run_event_batch` does);
- an interrupt between the start of a deferred batch and the assignment of its
  handles leaves its threads to nobody (`runtime/event_batch.py:138`);
- an endless repetition without `--duration` makes the experiment wait for ever
  (`scenarios/disaster.py:491`; `ExperimentEnds` excludes it).

Configuration and network:

- `at`, `repeat.interval` and `repeat.duration` accept infinity and nan; ids in
  `warmup_gets`, `cache_config`, flap targets and `publisher_host` are not compared
  with the number of hosts; a random mesh may have more hosts than addresses;
  `host_degree_max < host_degree_min` fails only when the mesh is drawn;
- `host_apps` with a host named twice, or two entries, can share a log file, and the
  second start truncates it (`NoTruncation` excepts exactly this);
- two hosts that share two switches: a link event acts on the first link, the FIB
  uses the last (`LinkEventsExact` is about explicit topologies, which refuse it);
- `k_shortest_paths`, which no production code calls, may return fewer than k
  paths although there are k.

Evidence:

- `safe_uri_label` maps different URIs to one label, so operations of different
  names may share a log and an output, and one may be credited with the other's
  delivery (the join part of `CsvFollows` is restricted to logs of one URI);
- a subscription killed before its output was flushed has an empty log: False in
  the CSV, True in `results.json`; a get that prints a failure sentence and still
  completes is True at run time, False in the CSV; a put that prints its fields
  and exits with an error is True in the CSV, False in the record;
- a `cefpubfile` that exits with 0 while it is being cancelled is a failure;
- a spawn that fails has already truncated the previous log;
- the dashboard counts the prefetches of the warmup, the analysis does not
  (`tools/autotest/analyze.py:78`).

What a property leaves to the reader because the code does not provide it: the
subscriptions a failed publication loses (`lost` in `RecordsSound`), rollback
deletions that failed (`gap` in `RulesBalanced`), link halves that events touched
(`LinksFollow`), the stages skipped by an interrupt during the sweep (`escaped` in
`RunSound`), a change to a NIC cut off before its flag (`gap` in `Restored`), two links
between the same hosts (`RoutesLead` and `LinkEventsExact` do not compare them), and
endless timeouts or a torn journal (`SupervisorEnds`). Each is what the property
would say if the code did more; as they stand, the properties show that nothing else
goes wrong.

Campaign:

- after a second failed attempt the next job starts without `mn -c`, and a resume by
  hand (`campaign.py:25`) runs none at all, so its first job meets the network of the
  attempt that was killed (`StartsSound` names both);
- nothing keeps a campaign by hand from running beside the supervisor's; then report
  and resume may disagree, and only the processes and the manifest are claimed;
- `timeout` is not a final status for the supervisor: a job that always times out
  is relaunched for ever; so is a malformed manifest, or a journal with a torn
  line, which neither script can parse;
- duplicate job ids are not refused, and `completed` is not extended while a
  campaign runs;
- `timeout(1)` puts a linear scenario in a process group of its own, which the
  campaign's `killpg` need not reach; its exit status 124 is journaled as failed.

## 7. Not modelled

- Drawing: figures, HTML reports, topology pictures, fingerprints of topologies,
  and the statistics computed for them. They read what `Judgment` and `Campaign`
  have as functions of the state, and keep nothing.
- The generation of campaign configurations, and the scripts under `.agents`, which
  run the test suite.
- Flask routes (they read one snapshot under the lock), Tee, argv texts, timestamps
  and wording.
- tc, sysctl and daemon configuration texts; their failure is an outcome of a stage.
- Third-party code: the Mininet examples.

The modules are composed by hand, not by `INSTANCE`: `Experiment` restates the
scheduler and the runner at the level of their threads, because the product of
the detailed modules is far beyond TLC.

## 8. Status

Every component of section 1 that keeps state has a module, at the grain its section
in 2 describes; what is left out is said there and in section 7, and what the
properties except in section 6. Not modelled at a finer grain are the handlers of the
scheduler inside `Experiment`, several campaigns started by hand at the same time, and
the writes of a file that a crash may cut, apart from the journal. Every safety
invariant and action property of the runs is a theorem, except the four section 5
names; the liveness properties are model-checked. What a later extension would take up
first is that `next hops` of `Routing` decrease the distance, which is the step that
`RoutesLead` would need for every graph.
