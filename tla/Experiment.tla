----------------------------- MODULE Experiment -----------------------------
(***************************************************************************)
(* One disaster experiment: DisasterScenario.run_experiment and            *)
(* shutdown_runtime_resources (src/src/scenarios/disaster.py), the batches *)
(* of events they run (src/src/runtime/event_batch.py), the monitor        *)
(* (src/src/runtime/monitoring.py) and the results file.                   *)
(*                                                                         *)
(* The main thread walks through the phases while the threads it started   *)
(* go on: a scheduler and a content worker per batch, the monitor, and the *)
(* flap threads.  EventScheduler and ContentRunner model the first two in  *)
(* detail; here they are what run_experiment sees of them.  An operation   *)
(* stands for its process and the subscriptions it waits for.              *)
(*                                                                         *)
(* Autotest runs the put events as the batch "seed", then the cache        *)
(* prefetch as "warmup", both to their end, then the rest as "main".       *)
(* Otherwise all events are the batch "main".  ConnectScenario             *)
(* (src/src/scenarios/connect.py) runs the puts as "seed" and nothing else,*)
(* and is content with a warning when they take too long.                  *)
(***************************************************************************)
EXTENDS Integers, FiniteSets

CONSTANTS
  Puts,           \* put events
  Gets,           \* the gets of the warmup
  Contents,       \* the other content events
  Plain,          \* events that are not content: host_app_restart
  Configs,        \* the configurations to start from
  MaxInterrupts,  \* bound: KeyboardInterrupts in a behaviour
  MaxProbes,      \* bound: monitor records in a behaviour
  MaxFlaps        \* bound: records of each kind of flap thread

Ops == Puts \cup Gets \cup Contents \cup Plain
Batches == {"seed", "warmup", "main"}

\* The thread that takes hosts down, and the timers that bring them up again.
FlapThreads == {"down", "up"}

\* duration: --duration is positive; endless: the plain events repeat without
\* a count; cli: the user gets the Mininet CLI.
Config == [autotest : BOOLEAN, apps : BOOLEAN, flaps : BOOLEAN,
           monitoring : BOOLEAN, duration : BOOLEAN, endless : BOOLEAN,
           cli : BOOLEAN, connect : BOOLEAN]

\* Autotest is --no-cli with a results file.
ASSUME ExperimentAssumption ==
  /\ Puts \cap Gets = {} /\ Plain \cap (Puts \cup Gets) = {}
  /\ Contents \cap (Puts \cup Gets \cup Plain) = {}
  /\ Configs \subseteq {c \in Config :
                           /\ c.autotest => ~c.cli
                           /\ c.connect => c = [f \in DOMAIN c |->
                                                  f \in {"connect", "cli"}]}
  /\ MaxInterrupts \in Nat /\ MaxProbes \in Nat /\ MaxFlaps \in Nat

VARIABLES
  cfg,        \* the configuration
  pc,         \* the main thread
  batch,      \* the batch it works on
  ok,         \* scheduler_completed and runner_completed
  raised,     \* an exception waits for the end of its finally block
  interrupts, \* KeyboardInterrupts so far
  held,       \* what the scenario object has a reference to
  op,         \* where each operation is
  sched,      \* the scheduler thread of each batch
  stopping,   \* batches whose scheduler has its _stop_event set
  worker,     \* the content worker of each batch
  cancel,     \* batches whose runner has its _cancel_event set
  ending,     \* batches whose runner has the None of stop() in its queue
  apps,       \* the host applications: none, up, swept
  flap,       \* the flap threads: none, running, told to stop
  flapping,   \* those past their check of stop_event, in a link change
  flaps,      \* the records each kind has made into the ResultsSink
  mon,        \* the monitor thread
  mstop,      \* its _stop_event
  probes,     \* its records
  mfile,      \* records in its output file, -1 before it is written
  written,    \* results.json is written
  midway,     \* history: flap threads in a link change when told to stop
  gaveUp,     \* history: threads whose join ended before they did
  escaped     \* history: an interrupt left shutdown_runtime_resources

mainVars == <<pc, batch, ok, raised, held>>
threadVars == <<op, sched, stopping, worker, cancel, ending>>
monVars == <<mon, mstop, probes, mfile>>
flapVars == <<flap, flapping, flaps, midway>>
vars == <<cfg, mainVars, interrupts, threadVars, apps, flapVars, monVars, written,
          gaveUp, escaped>>

BatchOf(o) ==
  IF o \in Gets THEN "warmup"
  ELSE IF (cfg.autotest \/ cfg.connect) /\ o \in Puts THEN "seed" ELSE "main"

OpsOf(b) == {o \in Ops : BatchOf(o) = b}
HasContent(b) == OpsOf(b) \ Plain # {}
Unfinished(b) == {o \in OpsOf(b) : op[o] \in {"queued", "running"}}

Init ==
  /\ cfg \in Configs
  /\ pc = "apps" /\ batch = "seed" /\ ok = TRUE /\ raised = FALSE
  /\ interrupts = 0 /\ held = {}
  /\ op = [o \in Ops |-> "new"]
  /\ sched = [b \in Batches |-> "none"] /\ stopping = {}
  /\ worker = [b \in Batches |-> "none"] /\ cancel = {} /\ ending = {}
  /\ apps = "none" /\ flap = "none"
  /\ flapping = {} /\ flaps = [t \in FlapThreads |-> 0] /\ midway = {}
  /\ mon = "none" /\ mstop = FALSE /\ probes = 0 /\ mfile = -1
  /\ written = FALSE /\ gaveUp = {} /\ escaped = FALSE

-----------------------------------------------------------------------------
(* The scheduler threads: EventScheduler seen from outside *)

schedKeeps == <<cfg, mainVars, interrupts, stopping, worker, cancel, ending,
                apps, flapVars, monVars, written, gaveUp, escaped>>

Heap(b) == {o \in OpsOf(b) : op[o] = "heap"}

\* The loop's condition; "ready" is past it.
SchedCheck(b) ==
  /\ sched[b] = "loop"
  /\ sched' = [sched EXCEPT ![b] =
                 IF Heap(b) = {} \/ b \in stopping THEN "dead" ELSE "ready"]
  /\ UNCHANGED <<schedKeeps, op>>

\* The wait for the event's time ends at once when stop() was called.
SchedWakes(b) ==
  /\ sched[b] = "ready" /\ b \in stopping
  /\ sched' = [sched EXCEPT ![b] = "dead"]
  /\ UNCHANGED <<schedKeeps, op>>

SchedFires(b) ==
  /\ sched[b] = "ready"
  /\ \E o \in Heap(b) : op' = [op EXCEPT ![o] = "handler"]
  /\ sched' = [sched EXCEPT ![b] = "busy"]
  /\ UNCHANGED schedKeeps

InHandler(b) == {o \in OpsOf(b) : op[o] = "handler"}

\* A content event's handler submits it; any other leaves a record and may be
\* queued again.
SchedHandled(b) ==
  /\ sched[b] = "busy"
  /\ \E o \in InHandler(b) :
       op' = [op EXCEPT ![o] = IF o \notin Plain THEN "queued"
                               ELSE IF cfg.endless THEN "heap" ELSE "done"]
  /\ sched' = [sched EXCEPT ![b] = "loop"]
  /\ UNCHANGED schedKeeps

\* SystemExit and the like from such a handler end the thread without a record.
SchedDies(b) ==
  /\ sched[b] = "busy"
  /\ \E o \in InHandler(b) \cap Plain : op' = [op EXCEPT ![o] = "dropped"]
  /\ sched' = [sched EXCEPT ![b] = "dead"]
  /\ UNCHANGED schedKeeps

SchedStep(b) == \/ SchedCheck(b) \/ SchedWakes(b) \/ SchedFires(b)
                \/ SchedHandled(b) \/ SchedDies(b)

-----------------------------------------------------------------------------
(* The content workers: ContentRunner seen from outside *)

workerKeeps == <<cfg, mainVars, interrupts, sched, stopping, cancel, ending,
                 apps, flapVars, monVars, written, gaveUp, escaped>>

WorkerTakes(b) ==
  /\ worker[b] = "idle"
  /\ \E o \in OpsOf(b) :
       /\ op[o] = "queued"
       /\ IF b \in cancel
          THEN op' = [op EXCEPT ![o] = "dropped"] /\ UNCHANGED worker
          ELSE /\ op' = [op EXCEPT ![o] = "running"]
               /\ worker' = [worker EXCEPT ![b] = "busy"]
  /\ UNCHANGED workerKeeps

\* The process ended, in its own time or by cancellation, and is recorded; or
\* the handler raised.
WorkerDone(b) ==
  /\ worker[b] = "busy"
  /\ \E o \in OpsOf(b) :
       /\ op[o] = "running"
       /\ op' = [op EXCEPT ![o] = "done"]
  /\ worker' = [worker EXCEPT ![b] = "idle"]
  /\ UNCHANGED workerKeeps

WorkerQuits(b) ==
  /\ worker[b] = "idle" /\ b \in ending
  /\ worker' = [worker EXCEPT ![b] = "dead"]
  /\ UNCHANGED <<workerKeeps, op>>

-----------------------------------------------------------------------------
(* The monitor thread *)

monKeeps == <<cfg, mainVars, interrupts, threadVars, apps, flapVars, mstop, mfile,
              written, gaveUp, escaped>>

\* _collect_once looks at _stop_event before each host, _run before each cycle.
Probe ==
  /\ mon = "idle" /\ ~mstop /\ probes < MaxProbes
  /\ mon' = "probing"
  /\ UNCHANGED <<monKeeps, probes>>

Probed ==
  /\ mon = "probing"
  /\ probes' = probes + 1
  /\ mon' = "idle"
  /\ UNCHANGED monKeeps

MonQuits ==
  /\ mon = "idle" /\ mstop
  /\ mon' = "dead"
  /\ UNCHANGED <<monKeeps, probes>>

MonStep == Probe \/ Probed \/ MonQuits

-----------------------------------------------------------------------------
(* The flap threads: HostFlap seen from outside *)

flapKeeps == <<cfg, mainVars, interrupts, threadVars, apps, flap, monVars,
               written, midway, gaveUp, escaped>>

\* stop_event.wait before a host goes down, is_set as a timer fires.
FlapChecks(t) ==
  /\ flap = "running" /\ t \notin flapping /\ flaps[t] < MaxFlaps
  /\ t = "up" => flaps["down"] > 0
  /\ flapping' = flapping \cup {t}
  /\ UNCHANGED <<flapKeeps, flaps>>

\* set_node_links_state has returned or raised, and _record_flap follows
\* whatever became of stop_event meanwhile.  A timer goes on to the next host
\* of its cycle without another look; several may be under way.
FlapRecords(t) ==
  /\ t \in flapping
  /\ flaps' = [flaps EXCEPT ![t] = @ + 1]
  /\ \/ flapping' = flapping \ {t}
     \/ t = "up" /\ flaps[t] + 1 < MaxFlaps /\ UNCHANGED flapping
  /\ UNCHANGED flapKeeps

-----------------------------------------------------------------------------
(* The main thread: run_experiment *)

\* What no step of run_experiment touches.
keeps == <<cfg, interrupts, monVars, written, escaped>>
still == <<threadVars, apps, flapVars, gaveUp>>

\* An exception leaves the try block of execute(); its finally block begins.
\* What kind of exception it is, ScenarioLifecycle tells apart.
Leave == pc' = "sweep" /\ ok' = TRUE /\ raised' = FALSE /\ UNCHANGED batch

Enter(b) ==
  pc' = "build" /\ batch' = b /\ ok' = TRUE /\ raised' = FALSE

Goto(p) == pc' = p /\ UNCHANGED <<batch, ok, raised>>

\* The reference is stored before start_all, which may raise half way.
StartApps ==
  /\ pc = "apps"
  /\ IF cfg.apps
     THEN /\ held' = held \cup {"apps"} /\ apps' = "up"
          /\ Goto("phases") \/ Leave
     ELSE Goto("phases") /\ UNCHANGED <<held, apps>>
  /\ UNCHANGED <<keeps, threadVars, flapVars, gaveUp>>

\* What comes after the batch "seed".
AfterSeed == IF cfg.connect THEN "idle" ELSE "warmup"

\* _run_autotest_experiment, _run_normal_experiment or ConnectScenario.
Phases ==
  /\ \/ pc = "phases" /\ IF ~cfg.autotest /\ ~cfg.connect THEN Goto("flaps")
                         ELSE IF OpsOf("seed") = {} THEN Goto(AfterSeed)
                         ELSE Enter("seed")
     \/ pc = "warmup" /\ IF Gets = {} THEN Goto("choose") ELSE Enter("warmup")
     \/ pc = "choose" /\ IF OpsOf("main") = {} /\ ~cfg.duration
                         THEN Goto("monitor") ELSE Goto("flaps")
  /\ UNCHANGED <<keeps, still, held>>

StartFlaps ==
  /\ pc = "flaps"
  /\ IF cfg.flaps
     THEN \/ /\ pc' = "hold_flap" /\ batch' = "main" /\ ok' = TRUE
             /\ raised' = FALSE /\ flap' = "running"
          \/ Leave /\ UNCHANGED flap
     ELSE Enter("main") /\ UNCHANGED flap
  /\ UNCHANGED <<keeps, held, threadVars, apps, flapping, flaps, midway, gaveUp>>

\* self.stop_event.
HoldFlap ==
  /\ pc = "hold_flap"
  /\ Goto("build")
  /\ held' = held \cup {"flap"}
  /\ UNCHANGED <<keeps, still>>

-----------------------------------------------------------------------------
(* run_event_batch, and _run_warmup, which has no scheduler *)

\* Both objects are constructed before either thread starts.  The scheduler's
\* constructor raises for a malformed event.
Build ==
  LET b == batch IN
  /\ pc = "build"
  /\ worker' = [worker EXCEPT ![b] = IF HasContent(b) THEN "built" ELSE "none"]
  /\ \/ /\ b # "warmup" /\ OpsOf(b) # {} /\ Leave
        /\ UNCHANGED <<op, sched>>
     \/ /\ Goto("start_worker")
        /\ sched' = [sched EXCEPT ![b] =
                       IF b = "warmup" \/ OpsOf(b) = {} THEN "none" ELSE "built"]
        /\ op' = [o \in Ops |-> IF o \in OpsOf(b) THEN "heap" ELSE op[o]]
  /\ UNCHANGED <<keeps, held, stopping, cancel, ending, apps, flapVars, gaveUp>>

StartWorker ==
  /\ pc = "start_worker"
  /\ Goto(IF batch = "warmup" THEN "submit" ELSE "start_sched")
  /\ worker' = [worker EXCEPT ![batch] = IF @ = "built" THEN "idle" ELSE @]
  /\ UNCHANGED <<keeps, held, op, sched, stopping, cancel, ending, apps,
                 flapVars, gaveUp>>

\* The batch "main" is deferred: nobody waits for it here.
StartSched ==
  /\ pc = "start_sched"
  /\ Goto(IF batch = "main" THEN "assign" ELSE "wait_sched")
  /\ sched' = [sched EXCEPT ![batch] = IF @ = "built" THEN "loop" ELSE @]
  /\ UNCHANGED <<keeps, held, op, stopping, worker, cancel, ending, apps,
                 flapVars, gaveUp>>

\* self.content_runner and self.event_scheduler.
Assign ==
  /\ pc = "assign"
  /\ Goto("monitor")
  /\ held' = held \cup {"main"}
  /\ UNCHANGED <<keeps, still>>

Submit ==
  /\ pc = "submit"
  /\ IF Heap("warmup") = {}
     THEN Goto("wait_worker") /\ UNCHANGED op
     ELSE \E o \in Heap("warmup") : op' = [op EXCEPT ![o] = "queued"]
                                    /\ UNCHANGED mainVars
  /\ UNCHANGED <<keeps, held, sched, stopping, worker, cancel, ending,
                 apps, flapVars, gaveUp>>

\* deadline_policy "raise": after a timeout the runner is not waited for.
AfterWaitSched == IF ok' \/ cfg.connect THEN "wait_worker" ELSE "stop_sched"

\* wait_all(timeout=300): the thread has ended, or the time is over.
WaitSched ==
  /\ pc = "wait_sched"
  /\ ok' = (sched[batch] \in {"none", "dead"})
  /\ pc' = AfterWaitSched
  /\ UNCHANGED <<keeps, still, held, batch, raised>>

\* Operations that have not started are discarded.
Discarded(b) ==
  [o \in Ops |-> IF o \in OpsOf(b) /\ op[o] = "queued" THEN "dropped" ELSE op[o]]

WaitAll_NoDeadline(b, result) ==
  result /\ Unfinished(b) = {} /\ UNCHANGED <<op, cancel>>

\* ContentOperationRunner.wait_all: TRUE when nothing is unfinished, and after
\* the deadline FALSE and cancellation.
WaitAll(b, result) ==
  \/ result /\ Unfinished(b) = {} /\ UNCHANGED <<op, cancel>>
  \/ /\ ~result /\ Unfinished(b) # {}
     /\ cancel' = cancel \cup {b} /\ op' = Discarded(b)

WaitWorker ==
  /\ pc = "wait_worker"
  /\ \E result \in BOOLEAN : WaitAll(batch, result) /\ ok' = (ok /\ result)
  /\ pc' = "stop_sched"
  /\ UNCHANGED <<keeps, held, batch, raised, sched, stopping, worker,
                 ending, apps, flapVars, gaveUp>>

\* stop() of the two, up to the join and the join itself, for a batch of
\* run_event_batch and for the shutdown.
StopSched(b, to) ==
  /\ stopping' = IF sched[b] = "none" THEN stopping ELSE stopping \cup {b}
  /\ Goto(to)
  /\ UNCHANGED <<keeps, held, op, sched, worker, cancel, ending, apps,
                 flapVars, gaveUp>>

StopWorker(b, to) ==
  /\ IF worker[b] = "none" THEN UNCHANGED <<op, cancel, ending>>
     ELSE /\ cancel' = cancel \cup {b} /\ ending' = ending \cup {b}
          /\ op' = Discarded(b)
  /\ Goto(to)
  /\ UNCHANGED <<keeps, held, sched, stopping, worker, apps, flapVars, gaveUp>>

Alive(thread) == thread \notin {"none", "built", "dead"}

\* A join with a timeout gives up on a thread that is still alive.
Abandoned(who, thread) == IF Alive(thread) THEN gaveUp \cup {who} ELSE gaveUp

Join(who, thread, to) ==
  /\ gaveUp' = Abandoned(who, thread)
  /\ Goto(to)
  /\ UNCHANGED <<keeps, held, threadVars, apps, flapVars>>

StopBatch ==
  \/ pc = "stop_sched" /\ StopSched(batch, "join_sched")
  \/ pc = "join_sched" /\ Join(<<"sched", batch>>, sched[batch], "stop_worker")
  \/ pc = "stop_worker" /\ StopWorker(batch, "join_worker")
  \/ pc = "join_worker" /\ Join(<<"worker", batch>>, worker[batch], "batch_end")

\* The finally block is over: a pending exception, a missed deadline and a
\* failure of a stop are raised.
BatchEnd ==
  /\ pc = "batch_end"
  /\ IF raised \/ (~ok /\ ~cfg.connect) THEN Leave
     ELSE Goto(IF batch = "seed" THEN AfterSeed ELSE "choose")
  /\ UNCHANGED <<keeps, still, held>>

-----------------------------------------------------------------------------
(* _start_monitoring and the end of run_experiment *)

StartMonitor ==
  /\ pc = "monitor"
  /\ IF cfg.monitoring
     THEN \/ Goto("idle") /\ mon' = "idle" /\ held' = held \cup {"monitor"}
          \/ Leave /\ UNCHANGED <<mon, held>>
     ELSE Goto("idle") /\ UNCHANGED <<mon, held>>
  /\ UNCHANGED <<cfg, interrupts, mstop, probes, mfile, written, escaped, still>>

\* time.sleep(duration), or wait_all() without a timeout.
Idle ==
  /\ pc = "idle" /\ ~cfg.cli
  /\ cfg.duration \/ "main" \notin held \/ sched["main"] \in {"none", "dead"}
  /\ Goto("sweep")
  /\ UNCHANGED <<keeps, still, held>>

UserQuits ==
  /\ pc = "idle" /\ cfg.cli
  /\ Goto("sweep")
  /\ UNCHANGED <<keeps, still, held>>

-----------------------------------------------------------------------------
(* shutdown_runtime_resources, and what execute() does after it *)

Sweep ==
  /\ pc = "sweep"
  /\ apps' = IF "apps" \in held THEN "swept" ELSE apps
  /\ Goto("stop_monitor")
  /\ UNCHANGED <<keeps, held, threadVars, flapVars, gaveUp>>

\* Monitor.stop: the event, the join, the snapshot; the write may fail.
StopMonitor ==
  /\ \/ /\ pc = "stop_monitor"
        /\ IF "monitor" \in held THEN mstop' = TRUE /\ Goto("join_monitor")
           ELSE UNCHANGED mstop /\ Goto("s_stop_sched")
        /\ UNCHANGED <<gaveUp, mfile>>
     \/ /\ pc = "join_monitor"
        /\ gaveUp' = Abandoned(<<"monitor", "main">>, mon)
        /\ Goto("write_monitor")
        /\ UNCHANGED <<mstop, mfile>>
     \/ /\ pc = "write_monitor"
        /\ mfile' \in {mfile, probes}
        /\ Goto("s_stop_sched")
        /\ UNCHANGED <<mstop, gaveUp>>
  /\ UNCHANGED <<cfg, interrupts, held, threadVars, apps, flapVars, mon, probes,
                 written, escaped>>

ShutdownWait(b) ==
  /\ \E result \in BOOLEAN : WaitAll(b, result)
  /\ Goto("s_stop_worker")
  /\ UNCHANGED <<keeps, held, sched, stopping, worker, ending, apps, flapVars,
                 gaveUp>>

StopMain_NoJoin ==
  IF "main" \in held
  THEN \/ pc = "s_stop_sched" /\ StopSched("main", "s_wait")
       \/ pc = "s_wait" /\ ShutdownWait("main")
       \/ pc = "s_stop_worker" /\ StopWorker("main", "s_flap")
  ELSE pc = "s_stop_sched" /\ Goto("s_flap") /\ UNCHANGED <<keeps, still, held>>

\* event_scheduler.stop, content_runner.wait_all(60) and content_runner.stop,
\* for the batch the scenario has the handles of.
StopMain ==
  IF "main" \in held
  THEN \/ pc = "s_stop_sched" /\ StopSched("main", "s_join_sched")
       \/ pc = "s_join_sched" /\ Join(<<"sched", "main">>, sched["main"], "s_wait")
       \/ pc = "s_wait" /\ ShutdownWait("main")
       \/ pc = "s_stop_worker" /\ StopWorker("main", "s_join_worker")
       \/ pc = "s_join_worker" /\ Join(<<"worker", "main">>, worker["main"], "s_flap")
  ELSE pc = "s_stop_sched" /\ Goto("s_flap") /\ UNCHANGED <<keeps, still, held>>

\* stop_event is set; nobody joins the thread or the timers.
StopFlap ==
  /\ pc = "s_flap"
  /\ IF "flap" \in held THEN flap' = "told" /\ midway' = flapping
                       ELSE UNCHANGED <<flap, midway>>
  /\ Goto("teardown")
  /\ UNCHANGED <<keeps, held, threadVars, apps, flapping, flaps, gaveUp>>

\* The stages of ScenarioLifecycle, then write_results.
Teardown == pc = "teardown" /\ Goto("results") /\ UNCHANGED <<keeps, still, held>>

WriteResults ==
  /\ pc = "results"
  /\ written' = TRUE
  /\ Goto("done")
  /\ UNCHANGED <<cfg, interrupts, monVars, escaped, still, held>>

-----------------------------------------------------------------------------
(* KeyboardInterrupt in the main thread *)

Blocks(p, batches) == pc = p /\ batch \in batches

\* In run_experiment and the parts of it without a finally block.
InterruptRun ==
  /\ \/ pc \in {"apps", "phases", "warmup", "choose", "flaps", "hold_flap",
                "assign", "monitor", "idle", "build"}
     \/ Blocks("start_worker", {"warmup", "main"})
     \/ Blocks("start_sched", {"main"})
  /\ Leave
  /\ UNCHANGED <<gaveUp, escaped>>

\* In the try block of run_event_batch and of _run_warmup.
InterruptBatch ==
  /\ \/ Blocks("start_worker", {"seed"})
     \/ Blocks("start_sched", {"seed"})
     \/ pc \in {"submit", "wait_sched", "wait_worker"}
  /\ pc' = "stop_sched" /\ raised' = TRUE
  /\ UNCHANGED <<batch, ok, gaveUp, escaped>>

\* In a join: run_event_batch keeps it as a failure, _run_warmup raises it,
\* and the other stop is still called.
InterruptJoin ==
  /\ \/ /\ pc = "join_sched" /\ pc' = "stop_worker"
        /\ gaveUp' = Abandoned(<<"sched", batch>>, sched[batch])
     \/ /\ pc = "join_worker" /\ pc' = "batch_end"
        /\ gaveUp' = Abandoned(<<"worker", batch>>, worker[batch])
  /\ raised' = TRUE
  /\ UNCHANGED <<batch, ok, escaped>>

AfterFailure_Aborts == "teardown"

\* Where shutdown_runtime_resources goes on when a stage raises.
AfterFailure ==
  CASE pc = "join_monitor"  -> "s_stop_sched"
    [] pc = "s_join_sched"  -> "s_wait"
    [] pc = "s_wait"        -> "s_stop_worker"
    [] pc = "s_join_worker" -> "s_flap"

InterruptShutdown ==
  /\ pc \in {"join_monitor", "s_join_sched", "s_wait", "s_join_worker"}
  /\ Goto(AfterFailure)
  /\ gaveUp' = CASE pc = "join_monitor"  -> Abandoned(<<"monitor", "main">>, mon)
                 [] pc = "s_join_sched"  -> Abandoned(<<"sched", "main">>, sched["main"])
                 [] pc = "s_wait"        -> gaveUp
                 [] pc = "s_join_worker" -> Abandoned(<<"worker", "main">>, worker["main"])
  /\ UNCHANGED escaped

\* HostAppFleet.stop_all waits for the lock a restart holds; this one stage has
\* no handler of its own, so the interrupt leaves the whole hook.
InterruptSweep ==
  /\ pc = "sweep" /\ "apps" \in held
  /\ \E b \in Batches : InHandler(b) \cap Plain # {}
  /\ Goto("teardown")
  /\ escaped' = TRUE
  /\ UNCHANGED gaveUp

Interrupt ==
  /\ interrupts < MaxInterrupts
  /\ interrupts' = interrupts + 1
  /\ \/ InterruptRun \/ InterruptBatch \/ InterruptJoin \/ InterruptShutdown
     \/ InterruptSweep
  /\ UNCHANGED <<cfg, held, threadVars, apps, flapVars, monVars, written>>

-----------------------------------------------------------------------------
MainStep ==
  \/ StartApps \/ Phases \/ StartFlaps \/ HoldFlap \/ Build \/ StartWorker
  \/ StartSched \/ Assign \/ Submit \/ WaitSched \/ WaitWorker \/ StopBatch
  \/ BatchEnd \/ StartMonitor \/ Idle \/ Sweep \/ StopMonitor \/ StopMain
  \/ StopFlap \/ Teardown \/ WriteResults

Next ==
  \/ MainStep \/ UserQuits \/ Interrupt \/ MonStep
  \/ \E b \in Batches : \/ SchedStep(b)
                        \/ WorkerTakes(b) \/ WorkerDone(b) \/ WorkerQuits(b)
  \/ \E t \in FlapThreads : FlapChecks(t) \/ FlapRecords(t)

Spec == Init /\ [][Next]_vars

\* The main thread and the schedulers run, timeouts expire and handlers end.
\* A content process may hang for ever, and the user may never leave the CLI.
FairSpec ==
  Spec /\ WF_vars(MainStep) /\ \A b \in Batches : WF_vars(SchedStep(b))

-----------------------------------------------------------------------------
(* Properties *)

\* Autotest's phases come in order (_run_autotest_experiment: "Run seed, warmup,
\* failure and evaluation phases in order"): no host fails and no event of the
\* evaluation fires before every put and every prefetch has ended.
PhasesInOrder ==
  cfg.autotest /\ (flap # "none" \/ \E o \in OpsOf("main") : op[o] \notin {"new", "heap"})
    => \A o \in Puts \cup Gets : op[o] = "done"

AfterShutdown == pc \in {"teardown", "results", "done"}

\* Every resource the scenario refers to has been told to stop.
AllTold ==
  /\ "apps" \in held => apps = "swept"
  /\ "monitor" \in held => mstop
  /\ "flap" \in held => flap = "told"
  /\ "main" \in held => /\ sched["main"] # "none" => "main" \in stopping
                        /\ worker["main"] # "none" => "main" \in ending

\* What does hold: only an interrupt in stop_all of the host applications
\* skips the stages after it.
StagesAfterSweep == AfterShutdown /\ ~escaped => AllTold

\* The threads that may outlive the shutdown: those whose join gave up, and
\* those of a main batch whose handles never reached the scenario or whose stop
\* was skipped.
MayOutlive(kind, b) ==
  <<kind, b>> \in gaveUp \/ (b = "main" /\ (escaped \/ "main" \notin held))

\* The record of an operation is made as its handler in the scheduler or in
\* the content worker ends.
Records(o) ==
  op'[o] # op[o] /\ op[o] = IF o \in Plain THEN "handler" ELSE "running"

\* Flap threads are told to stop and never joined: those in a link change at
\* that moment may outlive the shutdown, and all of them when the telling was
\* skipped or the scenario never got hold of their stop_event.
MayFlapOn(t) == t \in midway \/ escaped \/ "flap" \notin held

\* Nothing is recorded after results.json was written, except by such threads:
\* the file misses the record of a host that was on its way down or up as the
\* shutdown passed, and of no host that started on its way afterwards.
NoLateRecord ==
  [][written =>
       /\ \A o \in Ops : Records(o) =>
            MayOutlive(IF o \in Plain THEN "sched" ELSE "worker", BatchOf(o))
       /\ \A t \in FlapThreads : flaps'[t] # flaps[t] => MayFlapOn(t)]_vars

\* The monitor's file holds every record, unless its thread outlived the join.
MonitorFileComplete == mfile # -1 /\ <<"monitor", "main">> \notin gaveUp => mfile = probes

\* Without a CLI the experiment comes to its end whatever hangs, fails or is
\* interrupted, unless it waits for events that repeat without end; with a CLI
\* it does once the user has left.
ExperimentEnds ==
  /\ ~cfg.cli /\ (cfg.duration \/ ~cfg.endless) => <>(pc = "done")
  /\ pc = "sweep" ~> pc = "done"

\* A run keeps its phases in order, its shutdown reaches every resource it holds
\* and its monitor file is whole.
RunSound == PhasesInOrder /\ StagesAfterSweep /\ MonitorFileComplete
=============================================================================
