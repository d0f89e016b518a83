-------------------------- MODULE ExperimentProofs --------------------------
(***************************************************************************)
(* Proofs about Experiment, what the main thread has done when it is at a  *)
(* stage while the threads it started go on, and about Network, the        *)
(* network that the experiment runs on, for any parameters and any random  *)
(* choice.                                                                 *)
(***************************************************************************)
EXTENDS Experiment, Network, WellFoundedInduction, FiniteSetTheorems, SequenceTheorems, TLAPS

-----------------------------------------------------------------------------
(* The inductive invariant. *)

\* The stages of the shutdown, each set with those after it.
AfterFlap == {"teardown", "results", "done"}
AfterStopWorker == {"s_join_worker", "s_flap"} \cup AfterFlap
AfterStopSched == {"s_join_sched", "s_wait", "s_stop_worker"} \cup AfterStopWorker
AfterStopMonitor == {"join_monitor", "write_monitor", "s_stop_sched"} \cup AfterStopSched
AfterSweep == {"stop_monitor"} \cup AfterStopMonitor

\* The stages of a batch that is waited for, in their order.
Begun == {"start_worker", "start_sched", "submit", "wait_sched"}
Ended == {"stop_sched", "join_sched", "stop_worker", "join_worker", "batch_end"}

\* The main thread.
MainType ==
  /\ cfg \in Configs
  /\ pc \in {"apps", "phases", "warmup", "choose", "flaps", "hold_flap", "build", "assign",
             "monitor", "idle", "sweep", "wait_worker"} \cup Begun \cup Ended \cup AfterSweep
  /\ batch \in Batches
  /\ ok \in BOOLEAN /\ raised \in BOOLEAN
  /\ interrupts \in 0..MaxInterrupts
  /\ held \subseteq {"apps", "flap", "main", "monitor"}

\* The threads of the batches.
ThreadType ==
  /\ op \in [Ops -> {"new", "heap", "handler", "queued", "running", "done", "dropped"}]
  /\ sched \in [Batches -> {"none", "built", "loop", "ready", "busy", "dead"}]
  /\ worker \in [Batches -> {"none", "built", "idle", "busy", "dead"}]
  /\ stopping \subseteq Batches /\ cancel \subseteq Batches /\ ending \subseteq Batches

\* What else there is.
OtherType ==
  /\ apps \in {"none", "up", "swept"}
  /\ flap \in {"none", "running", "told"}
  /\ mon \in {"none", "idle", "probing", "dead"}
  /\ mstop \in BOOLEAN /\ written \in BOOLEAN /\ escaped \in BOOLEAN
  /\ probes \in 0..MaxProbes /\ mfile \in -1..MaxProbes
  /\ gaveUp \subseteq {"sched", "worker", "monitor"} \X Batches

TypeOK == MainType /\ ThreadType /\ OtherType

\* Which batch the main thread may be at.
ControlInv ==
  /\ pc \in {"apps", "phases", "warmup"} => batch = "seed"
  /\ pc \in {"choose", "flaps", "submit", "wait_sched", "wait_worker"} \cup Ended =>
       batch # "main"
  /\ pc \in {"start_sched", "wait_sched"} => batch # "warmup"
  /\ pc = "submit" => batch = "warmup"
  /\ pc = "hold_flap" => batch = "main"
  /\ written => pc = "done"

\* What the shutdown has told to stop when it is at a stage.
ToldInv ==
  ~escaped =>
    /\ pc \in AfterSweep /\ "apps" \in held => apps = "swept"
    /\ pc \in AfterStopMonitor /\ "monitor" \in held => mstop
    /\ pc \in AfterStopSched /\ "main" \in held /\ sched["main"] # "none" => "main" \in stopping
    /\ pc \in AfterStopWorker /\ "main" \in held /\ worker["main"] # "none" => "main" \in ending
    /\ pc \in AfterFlap /\ "flap" \in held => flap = "told"

\* After its join the monitor thread makes no record, or the join gave up.
MonitorInv ==
  /\ mon = "probing" => probes < MaxProbes
  /\ mfile # -1 => pc \in {"s_stop_sched"} \cup AfterStopSched
  /\ (mfile # -1 \/ pc = "write_monitor") /\ <<"monitor", "main">> \notin gaveUp =>
       mon \in {"none", "dead"} /\ (mfile # -1 => mfile = probes)

\* A thread that is alive when its join is past is one whose join gave up.
OutliveInv ==
  /\ \A b \in {"seed", "warmup"} :
       /\ Alive(sched[b]) =>
            \/ <<"sched", b>> \in gaveUp
            \/ batch = b /\ pc \in {"wait_sched", "wait_worker", "stop_sched", "join_sched"}
       /\ Alive(worker[b]) =>
            \/ <<"worker", b>> \in gaveUp
            \/ /\ batch = b
               /\ pc \in {"start_sched", "submit", "wait_sched", "wait_worker", "stop_sched",
                          "join_sched", "stop_worker", "join_worker"}
  /\ "main" \in held /\ ~escaped =>
       /\ Alive(sched["main"]) /\ pc \in {"s_wait", "s_stop_worker"} \cup AfterStopWorker =>
            <<"sched", "main">> \in gaveUp
       /\ Alive(worker["main"]) /\ pc \in {"s_flap"} \cup AfterFlap =>
            <<"worker", "main">> \in gaveUp

\* Nothing of the last batch moves before it is entered.
MainInv ==
  batch # "main" =>
    /\ flap = "none" /\ "flap" \notin held
    /\ sched["main"] = "none" /\ worker["main"] = "none"
    /\ \A o \in OpsOf("main") : op[o] \in {"new", "heap"}

\* An event is in a handler only while its scheduler is busy with it.
HandlerInv ==
  /\ \A o \in Ops : op[o] = "handler" => sched[BatchOf(o)] = "busy"
  /\ \A o, q \in Ops : op[o] = "handler" /\ op[q] = "handler" /\ BatchOf(o) = BatchOf(q) => o = q
  /\ sched["warmup"] = "none"

\* Until the main thread has waited for a batch, nobody stops or cancels it.
CalmInv ==
  /\ pc \in {"apps", "phases"} => stopping = {} /\ cancel = {}
  /\ batch = "seed" => "warmup" \notin stopping \cup cancel
  /\ batch # "main" /\ pc \in {"build", "wait_worker"} \cup Begun =>
       batch \notin stopping \cup cancel

AllDone(S) == \A o \in S : op[o] = "done"

\* How far the operations of the batch are that the main thread is at.
BatchInv ==
  batch # "main" =>
    /\ pc \in {"build"} \cup Begun => ok
    /\ pc \in Begun => \A o \in OpsOf(batch) : op[o] \notin {"new", "dropped"}
    /\ pc \in Begun /\ batch = "seed" =>
         /\ sched[batch] = "none" => OpsOf(batch) = {}
         /\ sched[batch] = "dead" => Heap(batch) = {}
    /\ pc = "wait_worker" => ok /\ \A o \in OpsOf(batch) : op[o] \in {"queued", "running", "done"}
    /\ pc \in Ended /\ ok /\ ~raised => AllDone(OpsOf(batch))

\* What has ended in autotest before the main thread goes on to a phase.
DoneInv ==
  /\ batch \in {"warmup", "main"} \/ pc \in {"warmup", "choose", "flaps"} => AllDone(Puts)
  /\ batch = "main" \/ pc \in {"choose", "flaps"} => AllDone(Gets)

\* The flap threads.
FlapType ==
  /\ flapping \subseteq FlapThreads /\ midway \subseteq FlapThreads
  /\ flaps \in [FlapThreads -> 0..MaxFlaps]

\* After stop_event was set, a flap thread in a link change was in it already.
\* A conjunct apart: the other threads and it do not concern each other.
FlapInv ==
  /\ FlapType
  /\ \A t \in flapping : flaps[t] < MaxFlaps
  /\ pc \in AfterFlap /\ "flap" \in held /\ ~escaped => flapping \subseteq midway

\* The inductive invariant, with FlapInv.
IInv ==
  /\ TypeOK
  /\ ControlInv
  /\ ToldInv
  /\ MonitorInv
  /\ OutliveInv
  /\ MainInv
  /\ HandlerInv
  /\ CalmInv
  /\ cfg.autotest => BatchInv /\ DoneInv

-----------------------------------------------------------------------------
(* What the steps have in common. *)

\* The names of the stages only abbreviate.
USE DEF AfterFlap, AfterStopWorker, AfterStopSched, AfterStopMonitor, AfterSweep, Begun, Ended,
        flapVars

\* Which operations a batch has.
LEMMA Classes ==
  ASSUME cfg \in Configs
  PROVE  /\ OpsOf("warmup") = Gets /\ OpsOf("main") \cap Gets = {}
         /\ \A o \in Plain : BatchOf(o) = "main"
         /\ \A o : BatchOf(o) \in Batches
         /\ cfg.autotest => /\ OpsOf("seed") = Puts /\ OpsOf("main") = Contents \cup Plain
                            /\ ~cfg.connect
<1>1. cfg.autotest => ~cfg.connect
  BY ExperimentAssumption DEF Config
<1>2. \A o : BatchOf(o) \in Batches
  BY DEF BatchOf, Batches
<1>3. OpsOf("warmup") = Gets /\ OpsOf("main") \cap Gets = {}
  BY DEF OpsOf, BatchOf, Ops
<1>4. \A o \in Plain : BatchOf(o) = "main"
  BY ExperimentAssumption DEF BatchOf
<1>5. cfg.autotest => OpsOf("seed") = Puts /\ OpsOf("main") = Contents \cup Plain
  BY ExperimentAssumption DEF OpsOf, BatchOf, Ops
<1>. QED
  BY <1>1, <1>2, <1>3, <1>4, <1>5

\* The configuration stays, and with it the batches.
LEMMA SameCfg ==
  ASSUME cfg' = cfg
  PROVE  /\ \A o : BatchOf(o)' = BatchOf(o)
         /\ \A b : OpsOf(b)' = OpsOf(b)
  BY DEF BatchOf, OpsOf

\* What a step keeps that leaves the threads of the batches alone.
LEMMA ThreadsStay ==
  ASSUME IInv, UNCHANGED <<cfg, threadVars>>
  PROVE  ThreadType' /\ HandlerInv'
  BY SameCfg DEF IInv, TypeOK, ThreadType, HandlerInv, threadVars

\* What a step keeps that leaves the other threads and the results alone.
LEMMA OthersStay ==
  ASSUME IInv, UNCHANGED <<apps, flapVars, monVars, written, gaveUp, escaped>>
  PROVE  OtherType'
  BY DEF IInv, TypeOK, OtherType, monVars

\* What a step of another thread keeps.
LEMMA MainStays ==
  ASSUME IInv, UNCHANGED <<cfg, mainVars, interrupts, written>>
  PROVE  MainType' /\ ControlInv'
  BY DEF IInv, TypeOK, MainType, ControlInv, mainVars

\* What a step keeps that leaves the monitor and its file alone.
LEMMA MonitorStays ==
  ASSUME IInv, UNCHANGED <<pc, monVars, gaveUp>>
  PROVE  MonitorInv'
  BY DEF IInv, MonitorInv, monVars

\* What a step keeps that stops and cancels nothing.
LEMMA CalmStays ==
  ASSUME IInv, UNCHANGED <<pc, batch, stopping, cancel>>
  PROVE  CalmInv'
  BY DEF IInv, CalmInv

\* What every interrupt of the main thread has in common.
InterruptFrame ==
  /\ interrupts < MaxInterrupts /\ interrupts' = interrupts + 1
  /\ UNCHANGED <<cfg, held, threadVars, apps, flapVars, monVars, written>>

-----------------------------------------------------------------------------
(* The steps of the main thread and of the threads it started. *)

\* StartApps: the host applications are started.
LEMMA StartAppsStep ==
  ASSUME IInv, StartApps
  PROVE  IInv'
<1>0. cfg' = cfg /\ (\A o : BatchOf(o)' = BatchOf(o)) /\ \A x : OpsOf(x)' = OpsOf(x)
  BY SameCfg DEF StartApps, keeps, threadVars, monVars, Goto, Leave
<1>1. TypeOK'
  <2>1. MainType'
    BY <1>0 DEF IInv, TypeOK, MainType, StartApps, keeps, Goto, Leave
  <2>2. ThreadType'
    BY ThreadsStay DEF StartApps, keeps
  <2>3. OtherType'
    BY DEF IInv, TypeOK, OtherType, StartApps, keeps, threadVars, monVars, Goto, Leave
  <2>. QED
    BY <2>1, <2>2, <2>3 DEF TypeOK
<1>2. ControlInv'
  BY DEF IInv, ControlInv, StartApps, keeps, Goto, Leave
<1>3. ToldInv'
  BY DEF IInv, ToldInv, StartApps, keeps, threadVars, monVars, Goto, Leave
<1>4. MonitorInv'
  BY DEF IInv, MonitorInv, StartApps, keeps, monVars, Goto, Leave
<1>5. OutliveInv'
  BY DEF IInv, OutliveInv, StartApps, keeps, threadVars, monVars, Goto, Leave
<1>6. MainInv'
  BY <1>0 DEF IInv, ControlInv, MainInv, StartApps, keeps, threadVars, Goto, Leave
<1>7. HandlerInv'
  BY ThreadsStay DEF StartApps, keeps
<1>8. CalmInv'
  BY DEF IInv, CalmInv, StartApps, keeps, threadVars, Goto, Leave
<1>9. ASSUME cfg.autotest
      PROVE  BatchInv' /\ DoneInv'
  <2>0. BatchInv /\ DoneInv /\ ~cfg.connect
    BY <1>9, Classes DEF IInv, TypeOK, MainType
  <2>1. BatchInv'
    BY <1>0, <2>0 DEF IInv, ControlInv, BatchInv, AllDone, Heap, StartApps, keeps, threadVars,
       Goto, Leave
  <2>2. DoneInv'
    BY <1>0, <2>0 DEF DoneInv, AllDone, StartApps, keeps, threadVars, Goto, Leave
  <2>. QED
    BY <2>1, <2>2
<1>. QED
  BY <1>0, <1>1, <1>2, <1>3, <1>4, <1>5, <1>6, <1>7, <1>8, <1>9 DEF IInv

\* Phases: the next phase.
LEMMA PhasesStep ==
  ASSUME IInv, Phases
  PROVE  IInv'
<1>0. cfg' = cfg /\ (\A o : BatchOf(o)' = BatchOf(o)) /\ \A x : OpsOf(x)' = OpsOf(x)
  BY SameCfg DEF Phases, AfterSeed, keeps, still, threadVars, monVars, Goto, Enter
<1>1. TypeOK'
  <2>1. MainType'
    BY <1>0 DEF IInv, TypeOK, MainType, Batches, Phases, AfterSeed, keeps, still, threadVars,
       monVars, Goto, Enter
  <2>2. ThreadType'
    BY ThreadsStay DEF Phases, keeps, still
  <2>3. OtherType'
    BY OthersStay DEF Phases, keeps, still
  <2>. QED
    BY <2>1, <2>2, <2>3 DEF TypeOK
<1>2. ControlInv'
  BY DEF IInv, ControlInv, Phases, AfterSeed, keeps, Goto, Enter
<1>3. ToldInv'
  BY DEF IInv, ToldInv, Phases, AfterSeed, keeps, still, threadVars, monVars, Goto, Enter
<1>4. MonitorInv'
  BY DEF IInv, MonitorInv, Phases, AfterSeed, keeps, monVars, Goto, Enter
<1>5. OutliveInv'
  BY DEF IInv, OutliveInv, Phases, AfterSeed, keeps, still, threadVars, monVars, Goto, Enter
<1>6. MainInv'
  BY <1>0 DEF IInv, ControlInv, MainInv, Phases, AfterSeed, keeps, still, threadVars, Goto,
     Enter
<1>7. HandlerInv'
  BY ThreadsStay DEF Phases, keeps, still
<1>8. CalmInv'
  BY <1>0 DEF IInv, TypeOK, MainType, ThreadType, ControlInv, CalmInv, Phases, AfterSeed, keeps,
     still, threadVars, monVars, Goto, Enter
<1>9. ASSUME cfg.autotest
      PROVE  BatchInv' /\ DoneInv'
  <2>0. BatchInv /\ DoneInv /\ ~cfg.connect
    BY <1>9, Classes DEF IInv, TypeOK, MainType
  <2>1. BatchInv'
    BY <1>0, <2>0 DEF IInv, ControlInv, BatchInv, AllDone, Heap, Phases, AfterSeed, keeps,
       still, threadVars, Goto, Enter
  <2>2. DoneInv'
    BY <1>0, <2>0, <1>9, Classes DEF IInv, TypeOK, MainType, ThreadType, ControlInv, CalmInv,
       BatchInv, DoneInv, AllDone, Phases, AfterSeed, keeps, still, threadVars, monVars, Goto,
       Enter
  <2>. QED
    BY <2>1, <2>2
<1>. QED
  BY <1>0, <1>1, <1>2, <1>3, <1>4, <1>5, <1>6, <1>7, <1>8, <1>9 DEF IInv

\* StartFlaps: the flap threads are started.
LEMMA StartFlapsStep ==
  ASSUME IInv, StartFlaps
  PROVE  IInv'
<1>0. cfg' = cfg /\ (\A o : BatchOf(o)' = BatchOf(o)) /\ \A x : OpsOf(x)' = OpsOf(x)
  BY SameCfg DEF StartFlaps, keeps, threadVars, monVars, Enter, Leave
<1>1. TypeOK'
  <2>1. MainType'
    BY <1>0 DEF IInv, TypeOK, MainType, Batches, StartFlaps, keeps, threadVars, monVars, Enter,
       Leave
  <2>2. ThreadType'
    BY ThreadsStay DEF StartFlaps, keeps
  <2>3. OtherType'
    BY DEF IInv, TypeOK, OtherType, StartFlaps, keeps, threadVars, monVars, Enter, Leave
  <2>. QED
    BY <2>1, <2>2, <2>3 DEF TypeOK
<1>2. ControlInv'
  BY DEF IInv, ControlInv, StartFlaps, keeps, Enter, Leave
<1>3. ToldInv'
  BY DEF IInv, ToldInv, StartFlaps, keeps, threadVars, monVars, Enter, Leave
<1>4. MonitorInv'
  BY DEF IInv, MonitorInv, StartFlaps, keeps, monVars, Enter, Leave
<1>5. OutliveInv'
  BY DEF IInv, OutliveInv, StartFlaps, keeps, threadVars, monVars, Enter, Leave
<1>6. MainInv'
  BY <1>0 DEF IInv, ControlInv, MainInv, StartFlaps, keeps, threadVars, Enter, Leave
<1>7. HandlerInv'
  BY ThreadsStay DEF StartFlaps, keeps
<1>8. CalmInv'
  BY DEF IInv, CalmInv, StartFlaps, keeps, threadVars, Enter, Leave
<1>9. ASSUME cfg.autotest
      PROVE  BatchInv' /\ DoneInv'
  <2>0. BatchInv /\ DoneInv /\ ~cfg.connect
    BY <1>9, Classes DEF IInv, TypeOK, MainType
  <2>1. BatchInv'
    BY <1>0, <2>0 DEF IInv, ControlInv, BatchInv, AllDone, Heap, StartFlaps, keeps, threadVars,
       Enter, Leave
  <2>2. DoneInv'
    BY <1>0, <2>0 DEF DoneInv, AllDone, StartFlaps, keeps, threadVars, Enter, Leave
  <2>. QED
    BY <2>1, <2>2
<1>. QED
  BY <1>0, <1>1, <1>2, <1>3, <1>4, <1>5, <1>6, <1>7, <1>8, <1>9 DEF IInv

\* HoldFlap: the scenario gets hold of stop_event.
LEMMA HoldFlapStep ==
  ASSUME IInv, HoldFlap
  PROVE  IInv'
<1>0. cfg' = cfg /\ (\A o : BatchOf(o)' = BatchOf(o)) /\ \A x : OpsOf(x)' = OpsOf(x)
  BY SameCfg DEF HoldFlap, keeps, still, threadVars, monVars, Goto
<1>1. TypeOK'
  <2>1. MainType'
    BY <1>0 DEF IInv, TypeOK, MainType, HoldFlap, keeps, Goto
  <2>2. ThreadType'
    BY ThreadsStay DEF HoldFlap, keeps, still
  <2>3. OtherType'
    BY OthersStay DEF HoldFlap, keeps, still
  <2>. QED
    BY <2>1, <2>2, <2>3 DEF TypeOK
<1>2. ControlInv'
  BY DEF IInv, ControlInv, HoldFlap, keeps, Goto
<1>3. ToldInv'
  BY DEF IInv, ToldInv, HoldFlap, keeps, still, threadVars, monVars, Goto
<1>4. MonitorInv'
  BY DEF IInv, MonitorInv, HoldFlap, keeps, monVars, Goto
<1>5. OutliveInv'
  BY DEF IInv, OutliveInv, HoldFlap, keeps, still, threadVars, monVars, Goto
<1>6. MainInv'
  BY <1>0 DEF IInv, ControlInv, MainInv, HoldFlap, keeps, still, threadVars, Goto
<1>7. HandlerInv'
  BY ThreadsStay DEF HoldFlap, keeps, still
<1>8. CalmInv'
  BY DEF IInv, ControlInv, CalmInv, HoldFlap, keeps, still, threadVars, Goto
<1>9. ASSUME cfg.autotest
      PROVE  BatchInv' /\ DoneInv'
  <2>0. BatchInv /\ DoneInv /\ ~cfg.connect
    BY <1>9, Classes DEF IInv, TypeOK, MainType
  <2>1. BatchInv'
    BY <1>0, <2>0 DEF IInv, ControlInv, BatchInv, AllDone, Heap, HoldFlap, keeps, still,
       threadVars, Goto
  <2>2. DoneInv'
    BY <1>0, <2>0 DEF IInv, ControlInv, DoneInv, AllDone, HoldFlap, keeps, still, threadVars, Goto
  <2>. QED
    BY <2>1, <2>2
<1>. QED
  BY <1>0, <1>1, <1>2, <1>3, <1>4, <1>5, <1>6, <1>7, <1>8, <1>9 DEF IInv

\* Build: the scheduler and the runner of a batch.
LEMMA BuildStep ==
  ASSUME IInv, Build
  PROVE  IInv'
<1>0. cfg' = cfg /\ (\A o : BatchOf(o)' = BatchOf(o)) /\ \A x : OpsOf(x)' = OpsOf(x)
  BY SameCfg DEF Build, keeps, monVars, Goto, Leave
<1>a. /\ pc = "build" /\ batch' = batch /\ flap' = flap /\ held' = held
      /\ \/ pc' = "sweep" /\ op' = op /\ sched' = sched
         \/ /\ pc' = "start_worker" /\ ok' = ok
            /\ sched' = [sched EXCEPT ![batch] =
                           IF batch = "warmup" \/ OpsOf(batch) = {} THEN "none" ELSE "built"]
            /\ \A o \in Ops : op'[o] = IF BatchOf(o) = batch THEN "heap" ELSE op[o]
      /\ worker' = [worker EXCEPT ![batch] = IF HasContent(batch) THEN "built" ELSE "none"]
  BY <1>0 DEF Build, OpsOf, mainVars, keeps, Goto, Leave, Enter
<1>b. \A x \in Batches : x # batch => sched'[x] = sched[x] /\ worker'[x] = worker[x]
  BY <1>a DEF IInv, TypeOK, MainType, ThreadType
<1>1. TypeOK'
  <2>1. MainType'
    BY <1>0 DEF IInv, TypeOK, MainType, Build, keeps, Goto, Leave
  <2>2. ThreadType'
    BY <1>0 DEF IInv, TypeOK, MainType, ThreadType, Build, keeps, Goto, Leave
  <2>3. OtherType'
    BY OthersStay DEF Build, keeps
  <2>. QED
    BY <2>1, <2>2, <2>3 DEF TypeOK
<1>2. ControlInv'
  BY DEF IInv, ControlInv, Build, keeps, Goto, Leave
<1>3. ToldInv'
  BY DEF IInv, ToldInv, Build, keeps, monVars, Goto, Leave
<1>4. MonitorInv'
  BY DEF IInv, MonitorInv, Build, keeps, monVars, Goto, Leave
<1>5. OutliveInv'
  BY <1>0 DEF IInv, TypeOK, MainType, ThreadType, ControlInv, OutliveInv, Alive, Batches, Build,
     keeps, monVars, Goto, Leave
<1>6. MainInv'
  BY <1>0, <1>a, <1>b DEF IInv, TypeOK, MainType, MainInv, OpsOf, Batches
<1>7. HandlerInv'
  <2>1. sched'["warmup"] = "none"
    BY <1>a, <1>b DEF IInv, TypeOK, MainType, ThreadType, HandlerInv, Batches
  <2>2. \A o \in Ops : op'[o] = "handler" => op[o] = "handler" /\ sched'[BatchOf(o)] = "busy"
    BY <1>a, <1>b, Classes DEF IInv, TypeOK, MainType, HandlerInv
  <2>. QED
    BY <1>0, <2>1, <2>2 DEF IInv, HandlerInv
<1>8. CalmInv'
  BY DEF IInv, CalmInv, Build, keeps, Goto, Leave
<1>9. ASSUME cfg.autotest
      PROVE  BatchInv' /\ DoneInv'
  <2>0. BatchInv /\ DoneInv /\ ~cfg.connect
    BY <1>9, Classes DEF IInv, TypeOK, MainType
  <2>1. BatchInv'
    <3>1. ASSUME pc' = "start_worker"
          PROVE  /\ \A o \in OpsOf(batch) : op'[o] = "heap"
                 /\ batch = "seed" => sched'[batch] = IF OpsOf(batch) = {} THEN "none" ELSE "built"
      BY <1>a, <3>1 DEF IInv, TypeOK, MainType, ThreadType, OpsOf
    <3>. QED
      BY <1>0, <1>a, <2>0, <3>1 DEF BatchInv
  <2>2. DoneInv'
    <3>1. \A o \in Ops : BatchOf(o) # batch => op'[o] = op[o]
      BY <1>a
    <3>2. Puts = OpsOf("seed") /\ Gets = OpsOf("warmup")
      BY <1>9, Classes DEF IInv, TypeOK, MainType
    <3>. QED
      BY <1>0, <1>a, <2>0, <3>1, <3>2 DEF DoneInv, AllDone, OpsOf
  <2>. QED
    BY <2>1, <2>2
<1>. QED
  BY <1>0, <1>1, <1>2, <1>3, <1>4, <1>5, <1>6, <1>7, <1>8, <1>9 DEF IInv

\* StartWorker: the content worker starts.
LEMMA StartWorkerStep ==
  ASSUME IInv, StartWorker
  PROVE  IInv'
<1>0. cfg' = cfg /\ (\A o : BatchOf(o)' = BatchOf(o)) /\ \A x : OpsOf(x)' = OpsOf(x)
  BY SameCfg DEF StartWorker, keeps, monVars, Goto
<1>1. TypeOK'
  <2>1. MainType'
    BY <1>0 DEF IInv, TypeOK, MainType, StartWorker, keeps, Goto
  <2>2. ThreadType'
    BY <1>0 DEF IInv, TypeOK, MainType, ThreadType, StartWorker, keeps, Goto
  <2>3. OtherType'
    BY OthersStay DEF StartWorker, keeps
  <2>. QED
    BY <2>1, <2>2, <2>3 DEF TypeOK
<1>2. ControlInv'
  BY DEF IInv, ControlInv, StartWorker, keeps, Goto
<1>3. ToldInv'
  BY DEF IInv, ToldInv, StartWorker, keeps, monVars, Goto
<1>4. MonitorInv'
  BY DEF IInv, MonitorInv, StartWorker, keeps, monVars, Goto
<1>5. OutliveInv'
  BY DEF IInv, OutliveInv, StartWorker, keeps, monVars, Goto
<1>6. MainInv'
  BY <1>0 DEF IInv, ControlInv, MainInv, StartWorker, keeps, Goto
<1>7. HandlerInv'
  BY <1>0 DEF IInv, HandlerInv, StartWorker, keeps, Goto
<1>8. CalmInv'
  BY DEF IInv, CalmInv, StartWorker, keeps, Goto
<1>9. ASSUME cfg.autotest
      PROVE  BatchInv' /\ DoneInv'
  <2>0. BatchInv /\ DoneInv /\ ~cfg.connect
    BY <1>9, Classes DEF IInv, TypeOK, MainType
  <2>1. BatchInv'
    BY <1>0, <2>0 DEF IInv, ControlInv, BatchInv, AllDone, Heap, StartWorker, keeps, Goto
  <2>2. DoneInv'
    BY <1>0, <2>0 DEF DoneInv, AllDone, StartWorker, keeps, Goto
  <2>. QED
    BY <2>1, <2>2
<1>. QED
  BY <1>0, <1>1, <1>2, <1>3, <1>4, <1>5, <1>6, <1>7, <1>8, <1>9 DEF IInv

\* StartSched: the scheduler thread starts.
LEMMA StartSchedStep ==
  ASSUME IInv, StartSched
  PROVE  IInv'
<1>0. cfg' = cfg /\ (\A o : BatchOf(o)' = BatchOf(o)) /\ \A x : OpsOf(x)' = OpsOf(x)
  BY SameCfg DEF StartSched, keeps, monVars, Goto
<1>1. TypeOK'
  <2>1. MainType'
    BY <1>0 DEF IInv, TypeOK, MainType, StartSched, keeps, Goto
  <2>2. ThreadType'
    BY <1>0 DEF IInv, TypeOK, MainType, ThreadType, StartSched, keeps, Goto
  <2>3. OtherType'
    BY OthersStay DEF StartSched, keeps
  <2>. QED
    BY <2>1, <2>2, <2>3 DEF TypeOK
<1>2. ControlInv'
  BY DEF IInv, ControlInv, StartSched, keeps, Goto
<1>3. ToldInv'
  BY DEF IInv, ToldInv, StartSched, keeps, monVars, Goto
<1>4. MonitorInv'
  BY DEF IInv, MonitorInv, StartSched, keeps, monVars, Goto
<1>5. OutliveInv'
  BY DEF IInv, OutliveInv, StartSched, keeps, monVars, Goto
<1>6. MainInv'
  BY <1>0 DEF IInv, ControlInv, MainInv, StartSched, keeps, Goto
<1>7. HandlerInv'
  BY <1>0 DEF IInv, HandlerInv, StartSched, keeps, Goto
<1>8. CalmInv'
  BY DEF IInv, CalmInv, StartSched, keeps, Goto
<1>9. ASSUME cfg.autotest
      PROVE  BatchInv' /\ DoneInv'
  <2>0. BatchInv /\ DoneInv /\ ~cfg.connect
    BY <1>9, Classes DEF IInv, TypeOK, MainType
  <2>1. BatchInv'
    BY <1>0, <2>0 DEF IInv, ControlInv, BatchInv, AllDone, Heap, StartSched, keeps, Goto
  <2>2. DoneInv'
    BY <1>0, <2>0 DEF DoneInv, AllDone, StartSched, keeps, Goto
  <2>. QED
    BY <2>1, <2>2
<1>. QED
  BY <1>0, <1>1, <1>2, <1>3, <1>4, <1>5, <1>6, <1>7, <1>8, <1>9 DEF IInv

\* Assign: the scenario gets the handles.
LEMMA AssignStep ==
  ASSUME IInv, Assign
  PROVE  IInv'
<1>0. cfg' = cfg /\ (\A o : BatchOf(o)' = BatchOf(o)) /\ \A x : OpsOf(x)' = OpsOf(x)
  BY SameCfg DEF Assign, keeps, still, threadVars, monVars, Goto
<1>1. TypeOK'
  <2>1. MainType'
    BY <1>0 DEF IInv, TypeOK, MainType, Assign, keeps, Goto
  <2>2. ThreadType'
    BY ThreadsStay DEF Assign, keeps, still
  <2>3. OtherType'
    BY OthersStay DEF Assign, keeps, still
  <2>. QED
    BY <2>1, <2>2, <2>3 DEF TypeOK
<1>2. ControlInv'
  BY DEF IInv, ControlInv, Assign, keeps, Goto
<1>3. ToldInv'
  BY DEF IInv, ToldInv, Assign, keeps, still, threadVars, monVars, Goto
<1>4. MonitorInv'
  BY DEF IInv, MonitorInv, Assign, keeps, monVars, Goto
<1>5. OutliveInv'
  BY DEF IInv, OutliveInv, Assign, keeps, still, threadVars, monVars, Goto
<1>6. MainInv'
  BY <1>0 DEF IInv, ControlInv, MainInv, Assign, keeps, still, threadVars, Goto
<1>7. HandlerInv'
  BY ThreadsStay DEF Assign, keeps, still
<1>8. CalmInv'
  BY DEF IInv, CalmInv, Assign, keeps, still, threadVars, Goto
<1>9. ASSUME cfg.autotest
      PROVE  BatchInv' /\ DoneInv'
  <2>0. BatchInv /\ DoneInv /\ ~cfg.connect
    BY <1>9, Classes DEF IInv, TypeOK, MainType
  <2>1. BatchInv'
    BY <1>0, <2>0 DEF IInv, ControlInv, BatchInv, AllDone, Heap, Assign, keeps, still,
       threadVars, Goto
  <2>2. DoneInv'
    BY <1>0, <2>0 DEF DoneInv, AllDone, Assign, keeps, still, threadVars, Goto
  <2>. QED
    BY <2>1, <2>2
<1>. QED
  BY <1>0, <1>1, <1>2, <1>3, <1>4, <1>5, <1>6, <1>7, <1>8, <1>9 DEF IInv

\* Submit: the prefetch is submitted.
LEMMA SubmitStep ==
  ASSUME IInv, Submit
  PROVE  IInv'
<1>0. cfg' = cfg /\ (\A o : BatchOf(o)' = BatchOf(o)) /\ \A x : OpsOf(x)' = OpsOf(x)
  BY SameCfg DEF Submit, keeps, mainVars, monVars, Goto
<1>a. /\ pc = "submit" /\ batch' = batch /\ flap' = flap /\ held' = held
      /\ sched' = sched /\ worker' = worker /\ ok' = ok
      /\ \/ Heap("warmup") = {} /\ pc' = "wait_worker" /\ op' = op
         \/ /\ pc' = pc
            /\ \E q \in Heap("warmup") : op' = [op EXCEPT ![q] = "queued"]
  BY <1>0 DEF Submit, mainVars, keeps, Goto, Leave, Enter
<1>b. \A o \in Ops : \/ op'[o] = op[o]
                     \/ BatchOf(o) = "warmup" /\ op[o] = "heap" /\ op'[o] = "queued"
  <2>1. CASE op' = op
    BY <2>1
  <2>2. ASSUME NEW q \in Heap("warmup"), op' = [op EXCEPT ![q] = "queued"]
        PROVE  \A o \in Ops : \/ op'[o] = op[o]
                              \/ BatchOf(o) = "warmup" /\ op[o] = "heap" /\ op'[o] = "queued"
    BY <2>2 DEF IInv, TypeOK, ThreadType, Heap, OpsOf
  <2>. QED
    BY <1>a, <2>1, <2>2
<1>1. TypeOK'
  <2>1. MainType'
    BY <1>0 DEF IInv, TypeOK, MainType, Submit, keeps, mainVars, Goto
  <2>2. ThreadType'
    BY <1>0 DEF IInv, TypeOK, MainType, ThreadType, Submit, keeps, mainVars, Goto
  <2>3. OtherType'
    BY OthersStay DEF Submit, keeps
  <2>. QED
    BY <2>1, <2>2, <2>3 DEF TypeOK
<1>2. ControlInv'
  BY DEF IInv, ControlInv, Submit, keeps, mainVars, Goto
<1>3. ToldInv'
  BY DEF IInv, ToldInv, Submit, keeps, mainVars, monVars, Goto
<1>4. MonitorInv'
  BY DEF IInv, MonitorInv, Submit, keeps, mainVars, monVars, Goto
<1>5. OutliveInv'
  BY DEF IInv, OutliveInv, Submit, keeps, mainVars, monVars, Goto
<1>6. MainInv'
  BY <1>0, <1>a, <1>b DEF IInv, MainInv, OpsOf
<1>7. HandlerInv'
  BY <1>0 DEF IInv, TypeOK, MainType, ThreadType, ControlInv, HandlerInv, OpsOf, Submit, keeps,
     mainVars, monVars, Goto
<1>8. CalmInv'
  BY DEF IInv, CalmInv, Submit, keeps, mainVars, Goto
<1>9. ASSUME cfg.autotest
      PROVE  BatchInv' /\ DoneInv'
  <2>0. BatchInv /\ DoneInv /\ ~cfg.connect
    BY <1>9, Classes DEF IInv, TypeOK, MainType
  <2>1. BatchInv'
    <3>1. /\ batch = "warmup" /\ ok
          /\ \A o \in OpsOf("warmup") : op[o] \notin {"new", "dropped", "handler"}
      BY <1>a, <2>0 DEF IInv, ControlInv, HandlerInv, BatchInv, OpsOf
    <3>2. pc' = "wait_worker" => \A o \in OpsOf(batch) : op'[o] \in {"queued", "running", "done"}
      BY <1>a, <3>1 DEF IInv, TypeOK, ThreadType, Heap, OpsOf
    <3>3. \A o \in OpsOf(batch) : op'[o] \notin {"new", "dropped"}
      BY <1>b, <3>1 DEF OpsOf
    <3>. QED
      BY <1>0, <1>a, <3>1, <3>2, <3>3 DEF BatchInv
  <2>2. DoneInv'
    <3>1. \A o \in Ops : op[o] = "done" => op'[o] = "done"
      BY <1>b
    <3>. QED
      BY <1>0, <1>a, <2>0, <3>1 DEF IInv, ControlInv, DoneInv, AllDone, Ops
  <2>. QED
    BY <2>1, <2>2
<1>. QED
  BY <1>0, <1>1, <1>2, <1>3, <1>4, <1>5, <1>6, <1>7, <1>8, <1>9 DEF IInv

\* WaitSched: the wait for the scheduler ends.
LEMMA WaitSchedStep ==
  ASSUME IInv, WaitSched
  PROVE  IInv'
<1>0. cfg' = cfg /\ (\A o : BatchOf(o)' = BatchOf(o)) /\ \A x : OpsOf(x)' = OpsOf(x)
  BY SameCfg DEF WaitSched, AfterWaitSched, keeps, still, threadVars, monVars
<1>1. TypeOK'
  <2>1. MainType'
    BY <1>0 DEF IInv, TypeOK, MainType, WaitSched, AfterWaitSched, keeps
  <2>2. ThreadType'
    BY ThreadsStay DEF WaitSched, keeps, still
  <2>3. OtherType'
    BY OthersStay DEF WaitSched, keeps, still
  <2>. QED
    BY <2>1, <2>2, <2>3 DEF TypeOK
<1>2. ControlInv'
  BY DEF IInv, ControlInv, WaitSched, AfterWaitSched, keeps
<1>3. ToldInv'
  BY DEF IInv, ToldInv, WaitSched, AfterWaitSched, keeps, still, threadVars, monVars
<1>4. MonitorInv'
  BY DEF IInv, MonitorInv, WaitSched, AfterWaitSched, keeps, monVars
<1>5. OutliveInv'
  BY DEF IInv, OutliveInv, WaitSched, AfterWaitSched, keeps, still, threadVars, monVars
<1>6. MainInv'
  BY <1>0 DEF IInv, ControlInv, MainInv, WaitSched, AfterWaitSched, keeps, still, threadVars
<1>7. HandlerInv'
  BY ThreadsStay DEF WaitSched, keeps, still
<1>8. CalmInv'
  BY DEF IInv, CalmInv, WaitSched, AfterWaitSched, keeps, still, threadVars
<1>9. ASSUME cfg.autotest
      PROVE  BatchInv' /\ DoneInv'
  <2>0. BatchInv /\ DoneInv /\ ~cfg.connect
    BY <1>9, Classes DEF IInv, TypeOK, MainType
  <2>1. BatchInv'
    <3>1. /\ pc = "wait_sched" /\ batch' = batch /\ op' = op /\ batch = "seed"
          /\ ok' <=> sched[batch] \in {"none", "dead"}
          /\ pc' = IF ok' THEN "wait_worker" ELSE "stop_sched"
      BY <1>0, <2>0 DEF IInv, TypeOK, MainType, ControlInv, Batches, WaitSched, AfterWaitSched,
                        keeps, still, threadVars
    <3>2. ASSUME ok'
          PROVE  \A o \in OpsOf(batch) : op[o] \in {"queued", "running", "done"}
      <4>1. /\ \A o \in OpsOf(batch) : op[o] \notin {"new", "dropped"}
            /\ OpsOf(batch) = {} \/ (sched[batch] = "dead" /\ Heap(batch) = {})
        BY <2>0, <3>1, <3>2 DEF BatchInv
      <4>2. \A o \in OpsOf(batch) : op[o] = "handler" => sched[batch] = "busy"
        BY DEF IInv, HandlerInv, OpsOf
      <4>. QED
        BY <4>1, <4>2 DEF IInv, TypeOK, ThreadType, Heap, OpsOf
    <3>. QED
      BY <1>0, <3>1, <3>2 DEF BatchInv
  <2>2. DoneInv'
    BY <1>0, <2>0 DEF DoneInv, AllDone, WaitSched, AfterWaitSched, keeps, still, threadVars
  <2>. QED
    BY <2>1, <2>2
<1>. QED
  BY <1>0, <1>1, <1>2, <1>3, <1>4, <1>5, <1>6, <1>7, <1>8, <1>9 DEF IInv

\* WaitWorker: the wait for the operations ends.
LEMMA WaitWorkerStep ==
  ASSUME IInv, WaitWorker
  PROVE  IInv'
<1>0. cfg' = cfg /\ (\A o : BatchOf(o)' = BatchOf(o)) /\ \A x : OpsOf(x)' = OpsOf(x)
  BY SameCfg DEF WaitWorker, WaitAll, Discarded, keeps, monVars
<1>a. \A o \in Ops : \/ op'[o] = op[o]
                     \/ BatchOf(o) = batch /\ op[o] = "queued" /\ op'[o] = "dropped"
  <2>1. op' = op \/ op' = Discarded(batch)
    BY <1>0 DEF WaitWorker, WaitAll, mainVars, keeps, Goto, Leave, Enter
  <2>. QED
    BY <2>1 DEF Discarded, OpsOf
<1>1. TypeOK'
  <2>1. MainType'
    BY <1>0 DEF IInv, TypeOK, MainType, WaitWorker, WaitAll, Discarded, keeps
  <2>2. ThreadType'
    BY <1>0 DEF IInv, TypeOK, MainType, ThreadType, WaitWorker, WaitAll, Discarded, keeps
  <2>3. OtherType'
    BY OthersStay DEF WaitWorker, keeps
  <2>. QED
    BY <2>1, <2>2, <2>3 DEF TypeOK
<1>2. ControlInv'
  BY DEF IInv, ControlInv, WaitWorker, WaitAll, Discarded, keeps
<1>3. ToldInv'
  BY DEF IInv, ToldInv, WaitWorker, WaitAll, Discarded, keeps, monVars
<1>4. MonitorInv'
  BY DEF IInv, MonitorInv, WaitWorker, WaitAll, Discarded, keeps, monVars
<1>5. OutliveInv'
  BY DEF IInv, OutliveInv, WaitWorker, WaitAll, Discarded, keeps, monVars
<1>6. MainInv'
  BY <1>0 DEF IInv, TypeOK, MainType, ThreadType, ControlInv, MainInv, OpsOf, WaitWorker,
     WaitAll, Discarded, keeps, monVars
<1>7. HandlerInv'
  BY <1>0 DEF IInv, HandlerInv, WaitWorker, WaitAll, Discarded, keeps
<1>8. CalmInv'
  BY DEF IInv, CalmInv, WaitWorker, WaitAll, Discarded, keeps
<1>9. ASSUME cfg.autotest
      PROVE  BatchInv' /\ DoneInv'
  <2>0. BatchInv /\ DoneInv /\ ~cfg.connect
    BY <1>9, Classes DEF IInv, TypeOK, MainType
  <2>1. BatchInv'
    <3>1. PICK result \in BOOLEAN : WaitAll(batch, result) /\ ok' = (ok /\ result)
      BY DEF WaitWorker
    <3>2. batch' = batch /\ raised' = raised /\ pc = "wait_worker" /\ pc' = "stop_sched"
      BY DEF WaitWorker
    <3>3. ok /\ \A o \in OpsOf(batch) : op[o] \in {"queued", "running", "done"}
      BY <2>0, <3>2 DEF IInv, ControlInv, BatchInv
    <3>4. ASSUME result
          PROVE  \A o \in OpsOf(batch) : op'[o] = "done"
      BY <3>1, <3>3, <3>4 DEF WaitAll, Unfinished
    <3>. QED
      BY <1>0, <3>1, <3>2, <3>4 DEF BatchInv, AllDone
  <2>2. DoneInv'
    <3>1. \A o \in Ops : op[o] = "done" => op'[o] = "done"
      BY <1>a
    <3>. QED
      BY <1>0, <2>0, <3>1 DEF DoneInv, AllDone, Ops, WaitWorker, WaitAll, Discarded, mainVars,
       keeps, Goto, Leave, Enter
  <2>. QED
    BY <2>1, <2>2
<1>. QED
  BY <1>0, <1>1, <1>2, <1>3, <1>4, <1>5, <1>6, <1>7, <1>8, <1>9 DEF IInv

\* BatchStop: the scheduler of a batch is stopped.
LEMMA BatchStopStep ==
  ASSUME IInv, pc = "stop_sched", StopSched(batch, "join_sched")
  PROVE  IInv'
<1>0. cfg' = cfg /\ (\A o : BatchOf(o)' = BatchOf(o)) /\ \A x : OpsOf(x)' = OpsOf(x)
  BY SameCfg DEF StopSched, keeps, monVars, Goto
<1>1. TypeOK'
  <2>1. MainType'
    BY <1>0 DEF IInv, TypeOK, MainType, StopSched, keeps, Goto
  <2>2. ThreadType'
    BY <1>0 DEF IInv, TypeOK, MainType, ThreadType, StopSched, keeps, Goto
  <2>3. OtherType'
    BY OthersStay DEF StopSched, keeps
  <2>. QED
    BY <2>1, <2>2, <2>3 DEF TypeOK
<1>2. ControlInv'
  BY DEF IInv, ControlInv, StopSched, keeps, Goto
<1>3. ToldInv'
  BY DEF IInv, ToldInv, StopSched, keeps, monVars, Goto
<1>4. MonitorInv'
  BY DEF IInv, MonitorInv, StopSched, keeps, monVars, Goto
<1>5. OutliveInv'
  BY DEF IInv, OutliveInv, StopSched, keeps, monVars, Goto
<1>6. MainInv'
  BY <1>0 DEF IInv, ControlInv, MainInv, StopSched, keeps, Goto
<1>7. HandlerInv'
  BY <1>0 DEF IInv, HandlerInv, StopSched, keeps, Goto
<1>8. CalmInv'
  BY DEF IInv, CalmInv, StopSched, keeps, Goto
<1>9. ASSUME cfg.autotest
      PROVE  BatchInv' /\ DoneInv'
  <2>0. BatchInv /\ DoneInv /\ ~cfg.connect
    BY <1>9, Classes DEF IInv, TypeOK, MainType
  <2>1. BatchInv'
    BY <1>0, <2>0 DEF IInv, ControlInv, BatchInv, AllDone, Heap, StopSched, keeps, Goto
  <2>2. DoneInv'
    BY <1>0, <2>0 DEF DoneInv, AllDone, StopSched, keeps, Goto
  <2>. QED
    BY <2>1, <2>2
<1>. QED
  BY <1>0, <1>1, <1>2, <1>3, <1>4, <1>5, <1>6, <1>7, <1>8, <1>9 DEF IInv

\* BatchJoin: its thread is joined.
LEMMA BatchJoinStep ==
  ASSUME IInv, pc = "join_sched", Join(<<"sched", batch>>, sched[batch], "stop_worker")
  PROVE  IInv'
<1>0. cfg' = cfg /\ (\A o : BatchOf(o)' = BatchOf(o)) /\ \A x : OpsOf(x)' = OpsOf(x)
  BY SameCfg DEF Join, Abandoned, keeps, threadVars, monVars, Goto
<1>1. TypeOK'
  <2>1. MainType'
    BY <1>0 DEF IInv, TypeOK, MainType, Join, Abandoned, keeps, Goto
  <2>2. ThreadType'
    BY ThreadsStay DEF Join, keeps
  <2>3. OtherType'
    BY <1>0, ExperimentAssumption DEF IInv, TypeOK, MainType, OtherType, Batches, Join,
       Abandoned, keeps, threadVars, monVars, Goto
  <2>. QED
    BY <2>1, <2>2, <2>3 DEF TypeOK
<1>2. ControlInv'
  BY DEF IInv, ControlInv, Join, Abandoned, keeps, Goto
<1>3. ToldInv'
  BY DEF IInv, ToldInv, Join, Abandoned, keeps, threadVars, monVars, Goto
<1>4. MonitorInv'
  BY DEF IInv, MonitorInv, Join, Abandoned, keeps, monVars, Goto
<1>5. OutliveInv'
  BY DEF IInv, OutliveInv, Join, Abandoned, keeps, threadVars, monVars, Goto
<1>6. MainInv'
  BY <1>0 DEF IInv, ControlInv, MainInv, Join, Abandoned, keeps, threadVars, Goto
<1>7. HandlerInv'
  BY ThreadsStay DEF Join, keeps
<1>8. CalmInv'
  BY DEF IInv, CalmInv, Join, Abandoned, keeps, threadVars, Goto
<1>9. ASSUME cfg.autotest
      PROVE  BatchInv' /\ DoneInv'
  <2>0. BatchInv /\ DoneInv /\ ~cfg.connect
    BY <1>9, Classes DEF IInv, TypeOK, MainType
  <2>1. BatchInv'
    BY <1>0, <2>0 DEF IInv, ControlInv, BatchInv, AllDone, Heap, Join, Abandoned, keeps,
       threadVars, Goto
  <2>2. DoneInv'
    BY <1>0, <2>0 DEF DoneInv, AllDone, Join, Abandoned, keeps, threadVars, Goto
  <2>. QED
    BY <2>1, <2>2
<1>. QED
  BY <1>0, <1>1, <1>2, <1>3, <1>4, <1>5, <1>6, <1>7, <1>8, <1>9 DEF IInv

\* BatchStopWorker: the runner of a batch is stopped.
LEMMA BatchStopWorkerStep ==
  ASSUME IInv, pc = "stop_worker", StopWorker(batch, "join_worker")
  PROVE  IInv'
<1>0. cfg' = cfg /\ (\A o : BatchOf(o)' = BatchOf(o)) /\ \A x : OpsOf(x)' = OpsOf(x)
  BY SameCfg DEF StopWorker, Discarded, keeps, monVars, Goto
<1>a. \A o \in Ops : \/ op'[o] = op[o]
                     \/ BatchOf(o) = batch /\ op[o] = "queued" /\ op'[o] = "dropped"
  <2>1. op' = op \/ op' = Discarded(batch)
    BY <1>0 DEF StopWorker, threadVars, mainVars, keeps, Goto, Leave, Enter
  <2>. QED
    BY <2>1 DEF Discarded, OpsOf
<1>1. TypeOK'
  <2>1. MainType'
    BY <1>0 DEF IInv, TypeOK, MainType, StopWorker, Discarded, keeps, Goto
  <2>2. ThreadType'
    BY <1>0 DEF IInv, TypeOK, MainType, ThreadType, StopWorker, Discarded, keeps, Goto
  <2>3. OtherType'
    BY OthersStay DEF StopWorker, keeps
  <2>. QED
    BY <2>1, <2>2, <2>3 DEF TypeOK
<1>2. ControlInv'
  BY DEF IInv, ControlInv, StopWorker, Discarded, keeps, Goto
<1>3. ToldInv'
  BY DEF IInv, ToldInv, StopWorker, Discarded, keeps, monVars, Goto
<1>4. MonitorInv'
  BY DEF IInv, MonitorInv, StopWorker, Discarded, keeps, monVars, Goto
<1>5. OutliveInv'
  BY DEF IInv, OutliveInv, StopWorker, Discarded, keeps, monVars, Goto
<1>6. MainInv'
  BY <1>0 DEF IInv, TypeOK, MainType, ThreadType, ControlInv, MainInv, OpsOf, StopWorker,
     Discarded, keeps, monVars, Goto
<1>7. HandlerInv'
  BY <1>0 DEF IInv, HandlerInv, StopWorker, Discarded, keeps, Goto
<1>8. CalmInv'
  BY DEF IInv, CalmInv, StopWorker, Discarded, keeps, Goto
<1>9. ASSUME cfg.autotest
      PROVE  BatchInv' /\ DoneInv'
  <2>0. BatchInv /\ DoneInv /\ ~cfg.connect
    BY <1>9, Classes DEF IInv, TypeOK, MainType
  <2>1. BatchInv'
    BY <1>0, <2>0, <1>9, Classes DEF IInv, TypeOK, MainType, ThreadType, ControlInv, CalmInv,
       HandlerInv, BatchInv, AllDone, Heap, StopWorker, Discarded, keeps, monVars, Goto
  <2>2. DoneInv'
    <3>1. \A o \in Ops : op[o] = "done" => op'[o] = "done"
      BY <1>a
    <3>. QED
      BY <1>0, <2>0, <3>1 DEF DoneInv, AllDone, Ops, StopWorker, Discarded, threadVars, mainVars,
       keeps, Goto, Leave, Enter
  <2>. QED
    BY <2>1, <2>2
<1>. QED
  BY <1>0, <1>1, <1>2, <1>3, <1>4, <1>5, <1>6, <1>7, <1>8, <1>9 DEF IInv

\* BatchJoinWorker: its thread is joined.
LEMMA BatchJoinWorkerStep ==
  ASSUME IInv, pc = "join_worker", Join(<<"worker", batch>>, worker[batch], "batch_end")
  PROVE  IInv'
<1>0. cfg' = cfg /\ (\A o : BatchOf(o)' = BatchOf(o)) /\ \A x : OpsOf(x)' = OpsOf(x)
  BY SameCfg DEF Join, Abandoned, keeps, threadVars, monVars, Goto
<1>1. TypeOK'
  <2>1. MainType'
    BY <1>0 DEF IInv, TypeOK, MainType, Join, Abandoned, keeps, Goto
  <2>2. ThreadType'
    BY ThreadsStay DEF Join, keeps
  <2>3. OtherType'
    BY <1>0, ExperimentAssumption DEF IInv, TypeOK, MainType, OtherType, Batches, Join,
       Abandoned, keeps, threadVars, monVars, Goto
  <2>. QED
    BY <2>1, <2>2, <2>3 DEF TypeOK
<1>2. ControlInv'
  BY DEF IInv, ControlInv, Join, Abandoned, keeps, Goto
<1>3. ToldInv'
  BY DEF IInv, ToldInv, Join, Abandoned, keeps, threadVars, monVars, Goto
<1>4. MonitorInv'
  BY DEF IInv, MonitorInv, Join, Abandoned, keeps, monVars, Goto
<1>5. OutliveInv'
  BY DEF IInv, OutliveInv, Join, Abandoned, keeps, threadVars, monVars, Goto
<1>6. MainInv'
  BY <1>0 DEF IInv, ControlInv, MainInv, Join, Abandoned, keeps, threadVars, Goto
<1>7. HandlerInv'
  BY ThreadsStay DEF Join, keeps
<1>8. CalmInv'
  BY DEF IInv, CalmInv, Join, Abandoned, keeps, threadVars, Goto
<1>9. ASSUME cfg.autotest
      PROVE  BatchInv' /\ DoneInv'
  <2>0. BatchInv /\ DoneInv /\ ~cfg.connect
    BY <1>9, Classes DEF IInv, TypeOK, MainType
  <2>1. BatchInv'
    BY <1>0, <2>0 DEF IInv, ControlInv, BatchInv, AllDone, Heap, Join, Abandoned, keeps,
       threadVars, Goto
  <2>2. DoneInv'
    BY <1>0, <2>0 DEF DoneInv, AllDone, Join, Abandoned, keeps, threadVars, Goto
  <2>. QED
    BY <2>1, <2>2
<1>. QED
  BY <1>0, <1>1, <1>2, <1>3, <1>4, <1>5, <1>6, <1>7, <1>8, <1>9 DEF IInv

\* BatchEnd: the finally block of a batch is over.
LEMMA BatchEndStep ==
  ASSUME IInv, BatchEnd
  PROVE  IInv'
<1>0. cfg' = cfg /\ (\A o : BatchOf(o)' = BatchOf(o)) /\ \A x : OpsOf(x)' = OpsOf(x)
  BY SameCfg DEF BatchEnd, AfterSeed, keeps, still, threadVars, monVars, Goto, Leave
<1>1. TypeOK'
  <2>1. MainType'
    BY <1>0 DEF IInv, TypeOK, MainType, BatchEnd, AfterSeed, keeps, Goto, Leave
  <2>2. ThreadType'
    BY ThreadsStay DEF BatchEnd, keeps, still
  <2>3. OtherType'
    BY OthersStay DEF BatchEnd, keeps, still
  <2>. QED
    BY <2>1, <2>2, <2>3 DEF TypeOK
<1>2. ControlInv'
  BY DEF IInv, ControlInv, BatchEnd, AfterSeed, keeps, Goto, Leave
<1>3. ToldInv'
  BY DEF IInv, ToldInv, BatchEnd, AfterSeed, keeps, still, threadVars, monVars, Goto, Leave
<1>4. MonitorInv'
  BY DEF IInv, MonitorInv, BatchEnd, AfterSeed, keeps, monVars, Goto, Leave
<1>5. OutliveInv'
  BY DEF IInv, OutliveInv, BatchEnd, AfterSeed, keeps, still, threadVars, monVars, Goto, Leave
<1>6. MainInv'
  BY <1>0 DEF IInv, ControlInv, MainInv, BatchEnd, AfterSeed, keeps, still, threadVars, Goto,
     Leave
<1>7. HandlerInv'
  BY ThreadsStay DEF BatchEnd, keeps, still
<1>8. CalmInv'
  BY DEF IInv, CalmInv, BatchEnd, AfterSeed, keeps, still, threadVars, Goto, Leave
<1>9. ASSUME cfg.autotest
      PROVE  BatchInv' /\ DoneInv'
  <2>0. BatchInv /\ DoneInv /\ ~cfg.connect
    BY <1>9, Classes DEF IInv, TypeOK, MainType
  <2>1. BatchInv'
    BY <1>0, <2>0 DEF IInv, ControlInv, BatchInv, AllDone, Heap, BatchEnd, AfterSeed, keeps,
       still, threadVars, Goto, Leave
  <2>2. DoneInv'
    <3>1. /\ pc = "batch_end" /\ batch' = batch /\ op' = op /\ batch \in {"seed", "warmup"}
          /\ \/ pc' = "sweep"
             \/ ok /\ ~raised /\ pc' = IF batch = "seed" THEN "warmup" ELSE "choose"
      BY <1>0, <2>0 DEF IInv, TypeOK, MainType, ControlInv, Batches, BatchEnd, AfterSeed,
                        keeps, still, threadVars, mainVars, Goto, Leave
    <3>2. pc' # "sweep" => AllDone(OpsOf(batch))
      BY <2>0, <3>1 DEF BatchInv
    <3>3. OpsOf("seed") = Puts /\ OpsOf("warmup") = Gets
      BY <1>9, Classes DEF IInv, TypeOK, MainType
    <3>. QED
      BY <1>0, <2>0, <3>1, <3>2, <3>3 DEF DoneInv, AllDone
  <2>. QED
    BY <2>1, <2>2
<1>. QED
  BY <1>0, <1>1, <1>2, <1>3, <1>4, <1>5, <1>6, <1>7, <1>8, <1>9 DEF IInv

\* StartMonitor: the monitor thread is started.
LEMMA StartMonitorStep ==
  ASSUME IInv, StartMonitor
  PROVE  IInv'
<1>0. cfg' = cfg /\ (\A o : BatchOf(o)' = BatchOf(o)) /\ \A x : OpsOf(x)' = OpsOf(x)
  BY SameCfg DEF StartMonitor, still, threadVars, Goto, Leave
<1>1. TypeOK'
  <2>1. MainType'
    BY <1>0 DEF IInv, TypeOK, MainType, StartMonitor, Goto, Leave
  <2>2. ThreadType'
    BY ThreadsStay DEF StartMonitor, still
  <2>3. OtherType'
    BY DEF IInv, TypeOK, OtherType, StartMonitor, still, threadVars, Goto, Leave
  <2>. QED
    BY <2>1, <2>2, <2>3 DEF TypeOK
<1>2. ControlInv'
  BY DEF IInv, ControlInv, StartMonitor, Goto, Leave
<1>3. ToldInv'
  BY DEF IInv, ToldInv, StartMonitor, still, threadVars, Goto, Leave
<1>4. MonitorInv'
  BY DEF IInv, MonitorInv, StartMonitor, Goto, Leave
<1>5. OutliveInv'
  BY DEF IInv, OutliveInv, StartMonitor, still, threadVars, Goto, Leave
<1>6. MainInv'
  BY <1>0 DEF IInv, ControlInv, MainInv, StartMonitor, still, threadVars, Goto, Leave
<1>7. HandlerInv'
  BY ThreadsStay DEF StartMonitor, still
<1>8. CalmInv'
  BY DEF IInv, CalmInv, StartMonitor, still, threadVars, Goto, Leave
<1>9. ASSUME cfg.autotest
      PROVE  BatchInv' /\ DoneInv'
  <2>0. BatchInv /\ DoneInv /\ ~cfg.connect
    BY <1>9, Classes DEF IInv, TypeOK, MainType
  <2>1. BatchInv'
    BY <1>0, <2>0 DEF IInv, ControlInv, BatchInv, AllDone, Heap, StartMonitor, still,
       threadVars, Goto, Leave
  <2>2. DoneInv'
    BY <1>0, <2>0 DEF DoneInv, AllDone, StartMonitor, still, threadVars, Goto, Leave
  <2>. QED
    BY <2>1, <2>2
<1>. QED
  BY <1>0, <1>1, <1>2, <1>3, <1>4, <1>5, <1>6, <1>7, <1>8, <1>9 DEF IInv

\* Idle: the experiment is over.
LEMMA IdleStep ==
  ASSUME IInv, Idle \/ UserQuits
  PROVE  IInv'
<1>0. cfg' = cfg /\ (\A o : BatchOf(o)' = BatchOf(o)) /\ \A x : OpsOf(x)' = OpsOf(x)
  BY SameCfg DEF Idle, UserQuits, keeps, still, threadVars, monVars, Goto
<1>1. TypeOK'
  <2>1. MainType'
    BY <1>0 DEF IInv, TypeOK, MainType, Idle, UserQuits, keeps, Goto
  <2>2. ThreadType'
    BY ThreadsStay DEF Idle, UserQuits, keeps, still
  <2>3. OtherType'
    BY OthersStay DEF Idle, UserQuits, keeps, still
  <2>. QED
    BY <2>1, <2>2, <2>3 DEF TypeOK
<1>2. ControlInv'
  BY DEF IInv, ControlInv, Idle, UserQuits, keeps, Goto
<1>3. ToldInv'
  BY DEF IInv, ToldInv, Idle, UserQuits, keeps, still, threadVars, monVars, Goto
<1>4. MonitorInv'
  BY DEF IInv, MonitorInv, Idle, UserQuits, keeps, monVars, Goto
<1>5. OutliveInv'
  BY DEF IInv, OutliveInv, Idle, UserQuits, keeps, still, threadVars, monVars, Goto
<1>6. MainInv'
  BY <1>0 DEF IInv, ControlInv, MainInv, Idle, UserQuits, keeps, still, threadVars, Goto
<1>7. HandlerInv'
  BY ThreadsStay DEF Idle, UserQuits, keeps, still
<1>8. CalmInv'
  BY DEF IInv, CalmInv, Idle, UserQuits, keeps, still, threadVars, Goto
<1>9. ASSUME cfg.autotest
      PROVE  BatchInv' /\ DoneInv'
  <2>0. BatchInv /\ DoneInv /\ ~cfg.connect
    BY <1>9, Classes DEF IInv, TypeOK, MainType
  <2>1. BatchInv'
    BY <1>0, <2>0 DEF IInv, ControlInv, BatchInv, AllDone, Heap, Idle, UserQuits, keeps, still,
       threadVars, Goto
  <2>2. DoneInv'
    BY <1>0, <2>0 DEF DoneInv, AllDone, Idle, UserQuits, keeps, still, threadVars, Goto
  <2>. QED
    BY <2>1, <2>2
<1>. QED
  BY <1>0, <1>1, <1>2, <1>3, <1>4, <1>5, <1>6, <1>7, <1>8, <1>9 DEF IInv

\* Sweep: the host applications are stopped.
LEMMA SweepStep ==
  ASSUME IInv, Sweep
  PROVE  IInv'
<1>0. cfg' = cfg /\ (\A o : BatchOf(o)' = BatchOf(o)) /\ \A x : OpsOf(x)' = OpsOf(x)
  BY SameCfg DEF Sweep, keeps, threadVars, monVars, Goto
<1>1. TypeOK'
  <2>1. MainType'
    BY <1>0 DEF IInv, TypeOK, MainType, Sweep, keeps, Goto
  <2>2. ThreadType'
    BY ThreadsStay DEF Sweep, keeps
  <2>3. OtherType'
    BY DEF IInv, TypeOK, OtherType, Sweep, keeps, threadVars, monVars, Goto
  <2>. QED
    BY <2>1, <2>2, <2>3 DEF TypeOK
<1>2. ControlInv'
  BY DEF IInv, ControlInv, Sweep, keeps, Goto
<1>3. ToldInv'
  BY DEF IInv, ToldInv, Sweep, keeps, threadVars, monVars, Goto
<1>4. MonitorInv'
  BY DEF IInv, MonitorInv, Sweep, keeps, monVars, Goto
<1>5. OutliveInv'
  BY DEF IInv, OutliveInv, Sweep, keeps, threadVars, monVars, Goto
<1>6. MainInv'
  BY <1>0 DEF IInv, ControlInv, MainInv, Sweep, keeps, threadVars, Goto
<1>7. HandlerInv'
  BY ThreadsStay DEF Sweep, keeps
<1>8. CalmInv'
  BY DEF IInv, CalmInv, Sweep, keeps, threadVars, Goto
<1>9. ASSUME cfg.autotest
      PROVE  BatchInv' /\ DoneInv'
  <2>0. BatchInv /\ DoneInv /\ ~cfg.connect
    BY <1>9, Classes DEF IInv, TypeOK, MainType
  <2>1. BatchInv'
    BY <1>0, <2>0 DEF IInv, ControlInv, BatchInv, AllDone, Heap, Sweep, keeps, threadVars, Goto
  <2>2. DoneInv'
    BY <1>0, <2>0 DEF DoneInv, AllDone, Sweep, keeps, threadVars, Goto
  <2>. QED
    BY <2>1, <2>2
<1>. QED
  BY <1>0, <1>1, <1>2, <1>3, <1>4, <1>5, <1>6, <1>7, <1>8, <1>9 DEF IInv

\* StopMonitor: the monitor is stopped.
LEMMA StopMonitorStep ==
  ASSUME IInv, StopMonitor
  PROVE  IInv'
<1>0. cfg' = cfg /\ (\A o : BatchOf(o)' = BatchOf(o)) /\ \A x : OpsOf(x)' = OpsOf(x)
  BY SameCfg DEF StopMonitor, Abandoned, threadVars, Goto
<1>1. TypeOK'
  <2>1. MainType'
    BY <1>0 DEF IInv, TypeOK, MainType, StopMonitor, Abandoned, Goto
  <2>2. ThreadType'
    BY ThreadsStay DEF StopMonitor
  <2>3. OtherType'
    <3>1. mfile' \in -1..MaxProbes
      BY ExperimentAssumption DEF IInv, TypeOK, OtherType, StopMonitor
    <3>2. mstop' \in BOOLEAN
      BY DEF IInv, TypeOK, OtherType, StopMonitor
    <3>3. gaveUp' \in {gaveUp, gaveUp \cup {<<"monitor", "main">>}}
      BY DEF StopMonitor, Abandoned
    <3>4. gaveUp' \subseteq {"sched", "worker", "monitor"} \X Batches
      BY <3>3 DEF IInv, TypeOK, OtherType, Batches
    <3>. QED
      BY <3>1, <3>2, <3>4 DEF IInv, TypeOK, OtherType, StopMonitor
  <2>. QED
    BY <2>1, <2>2, <2>3 DEF TypeOK
<1>2. ControlInv'
  BY DEF IInv, ControlInv, StopMonitor, Abandoned, Goto
<1>3. ToldInv'
  BY DEF IInv, ToldInv, StopMonitor, Abandoned, threadVars, Goto
<1>4. MonitorInv'
  BY <1>0 DEF IInv, TypeOK, OtherType, MonitorInv, Alive, StopMonitor, Abandoned, threadVars,
     Goto
<1>5. OutliveInv'
  BY DEF IInv, OutliveInv, StopMonitor, Abandoned, threadVars, Goto
<1>6. MainInv'
  BY <1>0 DEF IInv, ControlInv, MainInv, StopMonitor, Abandoned, threadVars, Goto
<1>7. HandlerInv'
  BY ThreadsStay DEF StopMonitor
<1>8. CalmInv'
  BY DEF IInv, CalmInv, StopMonitor, Abandoned, threadVars, Goto
<1>9. ASSUME cfg.autotest
      PROVE  BatchInv' /\ DoneInv'
  <2>0. BatchInv /\ DoneInv /\ ~cfg.connect
    BY <1>9, Classes DEF IInv, TypeOK, MainType
  <2>1. BatchInv'
    BY <1>0, <2>0 DEF IInv, ControlInv, BatchInv, AllDone, Heap, StopMonitor, Abandoned,
       threadVars, Goto
  <2>2. DoneInv'
    BY <1>0, <2>0 DEF DoneInv, AllDone, StopMonitor, Abandoned, threadVars, Goto
  <2>. QED
    BY <2>1, <2>2
<1>. QED
  BY <1>0, <1>1, <1>2, <1>3, <1>4, <1>5, <1>6, <1>7, <1>8, <1>9 DEF IInv

\* MainStop: the scheduler is stopped.
LEMMA MainStopStep ==
  ASSUME IInv, "main" \in held, pc = "s_stop_sched", StopSched("main", "s_join_sched")
  PROVE  IInv'
<1>0. cfg' = cfg /\ (\A o : BatchOf(o)' = BatchOf(o)) /\ \A x : OpsOf(x)' = OpsOf(x)
  BY SameCfg DEF StopSched, keeps, monVars, Goto
<1>1. TypeOK'
  <2>1. MainType'
    BY <1>0 DEF IInv, TypeOK, MainType, StopSched, keeps, Goto
  <2>2. ThreadType'
    BY <1>0 DEF IInv, TypeOK, MainType, ThreadType, Batches, OpsOf, StopSched, keeps, monVars,
       Goto
  <2>3. OtherType'
    BY OthersStay DEF StopSched, keeps
  <2>. QED
    BY <2>1, <2>2, <2>3 DEF TypeOK
<1>2. ControlInv'
  BY DEF IInv, ControlInv, StopSched, keeps, Goto
<1>3. ToldInv'
  BY DEF IInv, ToldInv, StopSched, keeps, monVars, Goto
<1>4. MonitorInv'
  BY DEF IInv, MonitorInv, StopSched, keeps, monVars, Goto
<1>5. OutliveInv'
  BY DEF IInv, OutliveInv, StopSched, keeps, monVars, Goto
<1>6. MainInv'
  BY <1>0 DEF IInv, ControlInv, MainInv, StopSched, keeps, Goto
<1>7. HandlerInv'
  BY <1>0 DEF IInv, HandlerInv, StopSched, keeps, Goto
<1>8. CalmInv'
  BY DEF IInv, CalmInv, StopSched, keeps, Goto
<1>9. ASSUME cfg.autotest
      PROVE  BatchInv' /\ DoneInv'
  <2>0. BatchInv /\ DoneInv /\ ~cfg.connect
    BY <1>9, Classes DEF IInv, TypeOK, MainType
  <2>1. BatchInv'
    BY <1>0, <2>0 DEF IInv, ControlInv, BatchInv, AllDone, Heap, StopSched, keeps, Goto
  <2>2. DoneInv'
    BY <1>0, <2>0 DEF DoneInv, AllDone, StopSched, keeps, Goto
  <2>. QED
    BY <2>1, <2>2
<1>. QED
  BY <1>0, <1>1, <1>2, <1>3, <1>4, <1>5, <1>6, <1>7, <1>8, <1>9 DEF IInv

\* MainJoin: the scheduler is joined.
LEMMA MainJoinStep ==
  ASSUME IInv, "main" \in held,
         pc = "s_join_sched",
         Join(<<"sched", "main">>, sched["main"], "s_wait")
  PROVE  IInv'
<1>0. cfg' = cfg /\ (\A o : BatchOf(o)' = BatchOf(o)) /\ \A x : OpsOf(x)' = OpsOf(x)
  BY SameCfg DEF Join, Abandoned, keeps, threadVars, monVars, Goto
<1>1. TypeOK'
  <2>1. MainType'
    BY <1>0 DEF IInv, TypeOK, MainType, Join, Abandoned, keeps, Goto
  <2>2. ThreadType'
    BY ThreadsStay DEF Join, keeps
  <2>3. OtherType'
    BY <1>0, ExperimentAssumption DEF IInv, TypeOK, MainType, OtherType, Batches, Join,
       Abandoned, keeps, threadVars, monVars, Goto
  <2>. QED
    BY <2>1, <2>2, <2>3 DEF TypeOK
<1>2. ControlInv'
  BY DEF IInv, ControlInv, Join, Abandoned, keeps, Goto
<1>3. ToldInv'
  BY DEF IInv, ToldInv, Join, Abandoned, keeps, threadVars, monVars, Goto
<1>4. MonitorInv'
  BY DEF IInv, MonitorInv, Join, Abandoned, keeps, monVars, Goto
<1>5. OutliveInv'
  BY DEF IInv, OutliveInv, Join, Abandoned, keeps, threadVars, monVars, Goto
<1>6. MainInv'
  BY <1>0 DEF IInv, ControlInv, MainInv, Join, Abandoned, keeps, threadVars, Goto
<1>7. HandlerInv'
  BY ThreadsStay DEF Join, keeps
<1>8. CalmInv'
  BY DEF IInv, CalmInv, Join, Abandoned, keeps, threadVars, Goto
<1>9. ASSUME cfg.autotest
      PROVE  BatchInv' /\ DoneInv'
  <2>0. BatchInv /\ DoneInv /\ ~cfg.connect
    BY <1>9, Classes DEF IInv, TypeOK, MainType
  <2>1. BatchInv'
    BY <1>0, <2>0 DEF IInv, ControlInv, BatchInv, AllDone, Heap, Join, Abandoned, keeps,
       threadVars, Goto
  <2>2. DoneInv'
    BY <1>0, <2>0 DEF DoneInv, AllDone, Join, Abandoned, keeps, threadVars, Goto
  <2>. QED
    BY <2>1, <2>2
<1>. QED
  BY <1>0, <1>1, <1>2, <1>3, <1>4, <1>5, <1>6, <1>7, <1>8, <1>9 DEF IInv

\* MainWait: the last wait for the operations.
LEMMA MainWaitStep ==
  ASSUME IInv, "main" \in held, pc = "s_wait", ShutdownWait("main")
  PROVE  IInv'
<1>0. cfg' = cfg /\ (\A o : BatchOf(o)' = BatchOf(o)) /\ \A x : OpsOf(x)' = OpsOf(x)
  BY SameCfg DEF ShutdownWait, WaitAll, Discarded, keeps, monVars, Goto
<1>a. \A o \in Ops : \/ op'[o] = op[o]
                     \/ BatchOf(o) = "main" /\ op[o] = "queued" /\ op'[o] = "dropped"
  <2>1. op' = op \/ op' = Discarded("main")
    BY <1>0 DEF ShutdownWait, WaitAll, mainVars, keeps, Goto, Leave, Enter
  <2>. QED
    BY <2>1 DEF Discarded, OpsOf
<1>1. TypeOK'
  <2>1. MainType'
    BY <1>0 DEF IInv, TypeOK, MainType, ShutdownWait, WaitAll, Discarded, keeps, Goto
  <2>2. ThreadType'
    BY <1>0 DEF IInv, TypeOK, MainType, ThreadType, Batches, OpsOf, ShutdownWait, WaitAll,
       Discarded, keeps, monVars, Goto
  <2>3. OtherType'
    BY OthersStay DEF ShutdownWait, keeps
  <2>. QED
    BY <2>1, <2>2, <2>3 DEF TypeOK
<1>2. ControlInv'
  BY DEF IInv, ControlInv, ShutdownWait, WaitAll, Discarded, keeps, Goto
<1>3. ToldInv'
  BY DEF IInv, ToldInv, ShutdownWait, WaitAll, Discarded, keeps, monVars, Goto
<1>4. MonitorInv'
  BY DEF IInv, MonitorInv, ShutdownWait, WaitAll, Discarded, keeps, monVars, Goto
<1>5. OutliveInv'
  BY DEF IInv, OutliveInv, ShutdownWait, WaitAll, Discarded, keeps, monVars, Goto
<1>6. MainInv'
  BY <1>0 DEF IInv, TypeOK, MainType, ThreadType, ControlInv, MainInv, OpsOf, ShutdownWait,
     WaitAll, Discarded, keeps, monVars, Goto
<1>7. HandlerInv'
  BY <1>0 DEF IInv, HandlerInv, ShutdownWait, WaitAll, Discarded, keeps, Goto
<1>8. CalmInv'
  BY DEF IInv, CalmInv, ShutdownWait, WaitAll, Discarded, keeps, Goto
<1>9. ASSUME cfg.autotest
      PROVE  BatchInv' /\ DoneInv'
  <2>0. BatchInv /\ DoneInv /\ ~cfg.connect
    BY <1>9, Classes DEF IInv, TypeOK, MainType
  <2>1. BatchInv'
    BY <1>0, <2>0 DEF IInv, ControlInv, BatchInv, AllDone, Heap, ShutdownWait, WaitAll,
       Discarded, keeps, Goto
  <2>2. DoneInv'
    <3>1. \A o \in Ops : op[o] = "done" => op'[o] = "done"
      BY <1>a
    <3>. QED
      BY <1>0, <2>0, <3>1 DEF DoneInv, AllDone, Ops, ShutdownWait, WaitAll, Discarded, mainVars,
       keeps, Goto, Leave, Enter
  <2>. QED
    BY <2>1, <2>2
<1>. QED
  BY <1>0, <1>1, <1>2, <1>3, <1>4, <1>5, <1>6, <1>7, <1>8, <1>9 DEF IInv

\* MainStopWorker: the runner is stopped.
LEMMA MainStopWorkerStep ==
  ASSUME IInv, "main" \in held, pc = "s_stop_worker", StopWorker("main", "s_join_worker")
  PROVE  IInv'
<1>0. cfg' = cfg /\ (\A o : BatchOf(o)' = BatchOf(o)) /\ \A x : OpsOf(x)' = OpsOf(x)
  BY SameCfg DEF StopWorker, Discarded, keeps, monVars, Goto
<1>a. \A o \in Ops : \/ op'[o] = op[o]
                     \/ BatchOf(o) = "main" /\ op[o] = "queued" /\ op'[o] = "dropped"
  <2>1. op' = op \/ op' = Discarded("main")
    BY <1>0 DEF StopWorker, mainVars, keeps, Goto, Leave, Enter
  <2>. QED
    BY <2>1 DEF Discarded, OpsOf
<1>1. TypeOK'
  <2>1. MainType'
    BY <1>0 DEF IInv, TypeOK, MainType, StopWorker, Discarded, keeps, Goto
  <2>2. ThreadType'
    BY ZenonT(40), <1>0 DEF IInv, TypeOK, MainType, ThreadType, Batches, OpsOf, StopWorker, Discarded,
       keeps, monVars, Goto
  <2>3. OtherType'
    BY OthersStay DEF StopWorker, keeps
  <2>. QED
    BY <2>1, <2>2, <2>3 DEF TypeOK
<1>2. ControlInv'
  BY DEF IInv, ControlInv, StopWorker, Discarded, keeps, Goto
<1>3. ToldInv'
  BY DEF IInv, ToldInv, StopWorker, Discarded, keeps, monVars, Goto
<1>4. MonitorInv'
  BY DEF IInv, MonitorInv, StopWorker, Discarded, keeps, monVars, Goto
<1>5. OutliveInv'
  BY DEF IInv, OutliveInv, StopWorker, Discarded, keeps, monVars, Goto
<1>6. MainInv'
  BY <1>0 DEF IInv, ControlInv, MainInv, StopWorker, Discarded, keeps, Goto
<1>7. HandlerInv'
  BY <1>0 DEF IInv, HandlerInv, StopWorker, Discarded, keeps, Goto
<1>8. CalmInv'
  BY DEF IInv, CalmInv, StopWorker, Discarded, keeps, Goto
<1>9. ASSUME cfg.autotest
      PROVE  BatchInv' /\ DoneInv'
  <2>0. BatchInv /\ DoneInv /\ ~cfg.connect
    BY <1>9, Classes DEF IInv, TypeOK, MainType
  <2>1. BatchInv'
    BY <1>0, <2>0 DEF IInv, ControlInv, BatchInv, AllDone, Heap, StopWorker, Discarded, keeps,
       Goto
  <2>2. DoneInv'
    <3>1. \A o \in Ops : op[o] = "done" => op'[o] = "done"
      BY <1>a
    <3>. QED
      BY <1>0, <2>0, <3>1 DEF DoneInv, AllDone, Ops, StopWorker, Discarded, mainVars, keeps, Goto,
       Leave, Enter
  <2>. QED
    BY <2>1, <2>2
<1>. QED
  BY <1>0, <1>1, <1>2, <1>3, <1>4, <1>5, <1>6, <1>7, <1>8, <1>9 DEF IInv

\* MainJoinWorker: the runner is joined.
LEMMA MainJoinWorkerStep ==
  ASSUME IInv, "main" \in held,
         pc = "s_join_worker",
         Join(<<"worker", "main">>, worker["main"], "s_flap")
  PROVE  IInv'
<1>0. cfg' = cfg /\ (\A o : BatchOf(o)' = BatchOf(o)) /\ \A x : OpsOf(x)' = OpsOf(x)
  BY SameCfg DEF Join, Abandoned, keeps, threadVars, monVars, Goto
<1>1. TypeOK'
  <2>1. MainType'
    BY <1>0 DEF IInv, TypeOK, MainType, Join, Abandoned, keeps, Goto
  <2>2. ThreadType'
    BY ThreadsStay DEF Join, keeps
  <2>3. OtherType'
    BY <1>0, ExperimentAssumption DEF IInv, TypeOK, MainType, OtherType, Batches, Join,
       Abandoned, keeps, threadVars, monVars, Goto
  <2>. QED
    BY <2>1, <2>2, <2>3 DEF TypeOK
<1>2. ControlInv'
  BY DEF IInv, ControlInv, Join, Abandoned, keeps, Goto
<1>3. ToldInv'
  BY DEF IInv, ToldInv, Join, Abandoned, keeps, threadVars, monVars, Goto
<1>4. MonitorInv'
  BY DEF IInv, MonitorInv, Join, Abandoned, keeps, monVars, Goto
<1>5. OutliveInv'
  BY DEF IInv, OutliveInv, Join, Abandoned, keeps, threadVars, monVars, Goto
<1>6. MainInv'
  BY <1>0 DEF IInv, ControlInv, MainInv, Join, Abandoned, keeps, threadVars, Goto
<1>7. HandlerInv'
  BY ThreadsStay DEF Join, keeps
<1>8. CalmInv'
  BY DEF IInv, CalmInv, Join, Abandoned, keeps, threadVars, Goto
<1>9. ASSUME cfg.autotest
      PROVE  BatchInv' /\ DoneInv'
  <2>0. BatchInv /\ DoneInv /\ ~cfg.connect
    BY <1>9, Classes DEF IInv, TypeOK, MainType
  <2>1. BatchInv'
    BY <1>0, <2>0 DEF IInv, ControlInv, BatchInv, AllDone, Heap, Join, Abandoned, keeps,
       threadVars, Goto
  <2>2. DoneInv'
    BY <1>0, <2>0 DEF DoneInv, AllDone, Join, Abandoned, keeps, threadVars, Goto
  <2>. QED
    BY <2>1, <2>2
<1>. QED
  BY <1>0, <1>1, <1>2, <1>3, <1>4, <1>5, <1>6, <1>7, <1>8, <1>9 DEF IInv

\* MainSkip: there is nothing to stop.
LEMMA MainSkipStep ==
  ASSUME IInv, "main" \notin held,
         pc = "s_stop_sched",
         Goto("s_flap"),
         UNCHANGED <<keeps, still, held>>
  PROVE  IInv'
<1>0. cfg' = cfg /\ (\A o : BatchOf(o)' = BatchOf(o)) /\ \A x : OpsOf(x)' = OpsOf(x)
  BY SameCfg DEF keeps, still, threadVars, monVars, Goto
<1>1. TypeOK'
  <2>1. MainType'
    BY <1>0 DEF IInv, TypeOK, MainType, keeps, Goto
  <2>2. ThreadType'
    BY ThreadsStay DEF keeps, still
  <2>3. OtherType'
    BY OthersStay DEF keeps, still
  <2>. QED
    BY <2>1, <2>2, <2>3 DEF TypeOK
<1>2. ControlInv'
  BY DEF IInv, ControlInv, keeps, Goto
<1>3. ToldInv'
  BY DEF IInv, ToldInv, keeps, still, threadVars, monVars, Goto
<1>4. MonitorInv'
  BY <1>0 DEF IInv, TypeOK, OtherType, MonitorInv, Alive, keeps, still, threadVars, monVars,
     Goto
<1>5. OutliveInv'
  BY DEF IInv, OutliveInv, keeps, still, threadVars, monVars, Goto
<1>6. MainInv'
  BY <1>0 DEF IInv, ControlInv, MainInv, keeps, still, threadVars, Goto
<1>7. HandlerInv'
  BY ThreadsStay DEF keeps, still
<1>8. CalmInv'
  BY DEF IInv, CalmInv, keeps, still, threadVars, Goto
<1>9. ASSUME cfg.autotest
      PROVE  BatchInv' /\ DoneInv'
  <2>0. BatchInv /\ DoneInv /\ ~cfg.connect
    BY <1>9, Classes DEF IInv, TypeOK, MainType
  <2>1. BatchInv'
    BY <1>0, <2>0 DEF IInv, ControlInv, BatchInv, AllDone, Heap, keeps, still, threadVars, Goto
  <2>2. DoneInv'
    BY <1>0, <2>0 DEF DoneInv, AllDone, keeps, still, threadVars, Goto
  <2>. QED
    BY <2>1, <2>2
<1>. QED
  BY <1>0, <1>1, <1>2, <1>3, <1>4, <1>5, <1>6, <1>7, <1>8, <1>9 DEF IInv

\* StopFlap: the flap threads are told.
LEMMA StopFlapStep ==
  ASSUME IInv, StopFlap
  PROVE  IInv'
<1>0. cfg' = cfg /\ (\A o : BatchOf(o)' = BatchOf(o)) /\ \A x : OpsOf(x)' = OpsOf(x)
  BY SameCfg DEF StopFlap, keeps, threadVars, monVars, Goto
<1>1. TypeOK'
  <2>1. MainType'
    BY <1>0 DEF IInv, TypeOK, MainType, StopFlap, keeps, Goto
  <2>2. ThreadType'
    BY ThreadsStay DEF StopFlap, keeps
  <2>3. OtherType'
    BY DEF IInv, TypeOK, OtherType, StopFlap, keeps, threadVars, monVars, Goto
  <2>. QED
    BY <2>1, <2>2, <2>3 DEF TypeOK
<1>2. ControlInv'
  BY DEF IInv, ControlInv, StopFlap, keeps, Goto
<1>3. ToldInv'
  BY DEF IInv, ToldInv, StopFlap, keeps, threadVars, monVars, Goto
<1>4. MonitorInv'
  BY DEF IInv, MonitorInv, StopFlap, keeps, monVars, Goto
<1>5. OutliveInv'
  BY DEF IInv, OutliveInv, StopFlap, keeps, threadVars, monVars, Goto
<1>6. MainInv'
  BY <1>0 DEF IInv, ControlInv, MainInv, StopFlap, keeps, threadVars, Goto
<1>7. HandlerInv'
  BY ThreadsStay DEF StopFlap, keeps
<1>8. CalmInv'
  BY DEF IInv, CalmInv, StopFlap, keeps, threadVars, Goto
<1>9. ASSUME cfg.autotest
      PROVE  BatchInv' /\ DoneInv'
  <2>0. BatchInv /\ DoneInv /\ ~cfg.connect
    BY <1>9, Classes DEF IInv, TypeOK, MainType
  <2>1. BatchInv'
    BY <1>0, <2>0 DEF IInv, ControlInv, BatchInv, AllDone, Heap, StopFlap, keeps, threadVars,
       Goto
  <2>2. DoneInv'
    BY <1>0, <2>0 DEF DoneInv, AllDone, StopFlap, keeps, threadVars, Goto
  <2>. QED
    BY <2>1, <2>2
<1>. QED
  BY <1>0, <1>1, <1>2, <1>3, <1>4, <1>5, <1>6, <1>7, <1>8, <1>9 DEF IInv

\* Finish: the teardown and the results file.
LEMMA FinishStep ==
  ASSUME IInv, Teardown \/ WriteResults
  PROVE  IInv'
<1>0. cfg' = cfg /\ (\A o : BatchOf(o)' = BatchOf(o)) /\ \A x : OpsOf(x)' = OpsOf(x)
  BY SameCfg DEF Teardown, WriteResults, keeps, still, threadVars, monVars, Goto
<1>1. TypeOK'
  <2>1. MainType'
    BY <1>0 DEF IInv, TypeOK, MainType, Teardown, WriteResults, keeps, Goto
  <2>2. ThreadType'
    BY ThreadsStay DEF Teardown, WriteResults, keeps, still
  <2>3. OtherType'
    BY DEF IInv, TypeOK, OtherType, Teardown, WriteResults, keeps, still, threadVars, monVars,
       Goto
  <2>. QED
    BY <2>1, <2>2, <2>3 DEF TypeOK
<1>2. ControlInv'
  BY DEF IInv, ControlInv, Teardown, WriteResults, keeps, Goto
<1>3. ToldInv'
  BY DEF IInv, ToldInv, Teardown, WriteResults, keeps, still, threadVars, monVars, Goto
<1>4. MonitorInv'
  BY <1>0 DEF IInv, TypeOK, OtherType, MonitorInv, Alive, Teardown, WriteResults, keeps, still,
     threadVars, monVars, Goto
<1>5. OutliveInv'
  BY DEF IInv, OutliveInv, Teardown, WriteResults, keeps, still, threadVars, monVars, Goto
<1>6. MainInv'
  BY <1>0 DEF IInv, ControlInv, MainInv, Teardown, WriteResults, keeps, still, threadVars, Goto
<1>7. HandlerInv'
  BY ThreadsStay DEF Teardown, WriteResults, keeps, still
<1>8. CalmInv'
  BY DEF IInv, CalmInv, Teardown, WriteResults, keeps, still, threadVars, Goto
<1>9. ASSUME cfg.autotest
      PROVE  BatchInv' /\ DoneInv'
  <2>0. BatchInv /\ DoneInv /\ ~cfg.connect
    BY <1>9, Classes DEF IInv, TypeOK, MainType
  <2>1. BatchInv'
    BY <1>0, <2>0 DEF IInv, ControlInv, BatchInv, AllDone, Heap, Teardown, WriteResults, keeps,
       still, threadVars, Goto
  <2>2. DoneInv'
    BY <1>0, <2>0 DEF DoneInv, AllDone, Teardown, WriteResults, keeps, still, threadVars, Goto
  <2>. QED
    BY <2>1, <2>2
<1>. QED
  BY <1>0, <1>1, <1>2, <1>3, <1>4, <1>5, <1>6, <1>7, <1>8, <1>9 DEF IInv

\* InterruptRun: an interrupt without a finally block.
LEMMA InterruptRunStep ==
  ASSUME IInv, InterruptRun, InterruptFrame
  PROVE  IInv'
<1>0. cfg' = cfg /\ (\A o : BatchOf(o)' = BatchOf(o)) /\ \A x : OpsOf(x)' = OpsOf(x)
  BY SameCfg DEF InterruptRun, Blocks, InterruptFrame, threadVars, monVars, Leave
<1>1. TypeOK'
  <2>1. MainType'
    <3>1. interrupts' \in 0..MaxInterrupts
      BY ExperimentAssumption DEF IInv, TypeOK, MainType, InterruptFrame
    <3>. QED
      BY <1>0, <3>1 DEF IInv, TypeOK, MainType, InterruptRun, InterruptFrame, Leave
  <2>2. ThreadType'
    BY ThreadsStay DEF InterruptRun, InterruptFrame
  <2>3. OtherType'
    BY OthersStay DEF InterruptRun, InterruptFrame
  <2>. QED
    BY <2>1, <2>2, <2>3 DEF TypeOK
<1>2. ControlInv'
  <2>1. pc' = "sweep" /\ written' = written /\ pc # "done"
    BY DEF InterruptRun, Blocks, InterruptFrame, Leave
  <2>2. ~written
    BY <2>1 DEF IInv, ControlInv
  <2>. QED
    BY <2>1, <2>2 DEF ControlInv, Ended
<1>3. ToldInv'
  BY DEF IInv, ToldInv, InterruptRun, Blocks, InterruptFrame, threadVars, monVars, Leave
<1>4. MonitorInv'
  BY DEF IInv, MonitorInv, InterruptRun, Blocks, InterruptFrame, monVars, Leave
<1>5. OutliveInv'
  BY DEF IInv, OutliveInv, InterruptRun, Blocks, InterruptFrame, threadVars, monVars, Leave
<1>6. MainInv'
  BY <1>0 DEF IInv, ControlInv, MainInv, InterruptRun, Blocks, InterruptFrame, threadVars, Leave
<1>7. HandlerInv'
  BY ThreadsStay DEF InterruptRun, InterruptFrame
<1>8. CalmInv'
  BY DEF IInv, CalmInv, InterruptRun, Blocks, InterruptFrame, threadVars, Leave
<1>9. ASSUME cfg.autotest
      PROVE  BatchInv' /\ DoneInv'
  <2>0. BatchInv /\ DoneInv /\ ~cfg.connect
    BY <1>9, Classes DEF IInv, TypeOK, MainType
  <2>1. BatchInv'
    BY <1>0, <2>0 DEF IInv, ControlInv, BatchInv, AllDone, Heap, InterruptRun, Blocks,
       InterruptFrame, threadVars, Leave
  <2>2. DoneInv'
    BY <1>0, <2>0 DEF DoneInv, AllDone, InterruptRun, Blocks, InterruptFrame, threadVars, Leave
  <2>. QED
    BY <2>1, <2>2
<1>. QED
  BY <1>0, <1>1, <1>2, <1>3, <1>4, <1>5, <1>6, <1>7, <1>8, <1>9 DEF IInv

\* InterruptBatch: an interrupt in a try block.
LEMMA InterruptBatchStep ==
  ASSUME IInv, InterruptBatch, InterruptFrame
  PROVE  IInv'
<1>0. cfg' = cfg /\ (\A o : BatchOf(o)' = BatchOf(o)) /\ \A x : OpsOf(x)' = OpsOf(x)
  BY SameCfg DEF InterruptBatch, Blocks, InterruptFrame, threadVars, monVars
<1>1. TypeOK'
  <2>1. MainType'
    <3>1. interrupts' \in 0..MaxInterrupts
      BY ExperimentAssumption DEF IInv, TypeOK, MainType, InterruptFrame
    <3>. QED
      BY <1>0, <3>1 DEF IInv, TypeOK, MainType, InterruptBatch, InterruptFrame
  <2>2. ThreadType'
    BY ThreadsStay DEF InterruptBatch, InterruptFrame
  <2>3. OtherType'
    BY OthersStay DEF InterruptBatch, InterruptFrame
  <2>. QED
    BY <2>1, <2>2, <2>3 DEF TypeOK
<1>2. ControlInv'
  BY DEF IInv, ControlInv, InterruptBatch, Blocks, InterruptFrame
<1>3. ToldInv'
  BY DEF IInv, ToldInv, InterruptBatch, Blocks, InterruptFrame, threadVars, monVars
<1>4. MonitorInv'
  BY DEF IInv, MonitorInv, InterruptBatch, Blocks, InterruptFrame, monVars
<1>5. OutliveInv'
  BY DEF IInv, OutliveInv, InterruptBatch, Blocks, InterruptFrame, threadVars, monVars
<1>6. MainInv'
  BY <1>0 DEF IInv, ControlInv, MainInv, InterruptBatch, Blocks, InterruptFrame, threadVars
<1>7. HandlerInv'
  BY ThreadsStay DEF InterruptBatch, InterruptFrame
<1>8. CalmInv'
  BY DEF IInv, CalmInv, InterruptBatch, Blocks, InterruptFrame, threadVars
<1>9. ASSUME cfg.autotest
      PROVE  BatchInv' /\ DoneInv'
  <2>0. BatchInv /\ DoneInv /\ ~cfg.connect
    BY <1>9, Classes DEF IInv, TypeOK, MainType
  <2>1. BatchInv'
    BY <1>0, <2>0 DEF IInv, ControlInv, BatchInv, AllDone, Heap, InterruptBatch, Blocks,
       InterruptFrame, threadVars
  <2>2. DoneInv'
    BY <1>0, <2>0 DEF DoneInv, AllDone, InterruptBatch, Blocks, InterruptFrame, threadVars
  <2>. QED
    BY <2>1, <2>2
<1>. QED
  BY <1>0, <1>1, <1>2, <1>3, <1>4, <1>5, <1>6, <1>7, <1>8, <1>9 DEF IInv

\* InterruptJoin: an interrupt in a join.
LEMMA InterruptJoinStep ==
  ASSUME IInv, InterruptJoin, InterruptFrame
  PROVE  IInv'
<1>0. cfg' = cfg /\ (\A o : BatchOf(o)' = BatchOf(o)) /\ \A x : OpsOf(x)' = OpsOf(x)
  BY SameCfg DEF InterruptJoin, Abandoned, InterruptFrame, threadVars, monVars
<1>1. TypeOK'
  <2>1. MainType'
    <3>1. interrupts' \in 0..MaxInterrupts
      BY ExperimentAssumption DEF IInv, TypeOK, MainType, InterruptFrame
    <3>. QED
      BY <1>0, <3>1 DEF IInv, TypeOK, MainType, InterruptJoin, InterruptFrame
  <2>2. ThreadType'
    BY ThreadsStay DEF InterruptJoin, InterruptFrame
  <2>3. OtherType'
    BY <1>0, ExperimentAssumption DEF IInv, TypeOK, MainType, OtherType, Batches, InterruptJoin,
       Abandoned, InterruptFrame, threadVars, monVars
  <2>. QED
    BY <2>1, <2>2, <2>3 DEF TypeOK
<1>2. ControlInv'
  BY DEF IInv, ControlInv, InterruptJoin, Abandoned, InterruptFrame
<1>3. ToldInv'
  BY DEF IInv, ToldInv, InterruptJoin, Abandoned, InterruptFrame, threadVars, monVars
<1>4. MonitorInv'
  BY DEF IInv, MonitorInv, InterruptJoin, Abandoned, InterruptFrame, monVars
<1>5. OutliveInv'
  BY DEF IInv, OutliveInv, InterruptJoin, Abandoned, InterruptFrame, threadVars, monVars
<1>6. MainInv'
  BY <1>0 DEF IInv, ControlInv, MainInv, InterruptJoin, Abandoned, InterruptFrame, threadVars
<1>7. HandlerInv'
  BY ThreadsStay DEF InterruptJoin, InterruptFrame
<1>8. CalmInv'
  BY DEF IInv, CalmInv, InterruptJoin, Abandoned, InterruptFrame, threadVars
<1>9. ASSUME cfg.autotest
      PROVE  BatchInv' /\ DoneInv'
  <2>0. BatchInv /\ DoneInv /\ ~cfg.connect
    BY <1>9, Classes DEF IInv, TypeOK, MainType
  <2>1. BatchInv'
    BY <1>0, <2>0 DEF IInv, ControlInv, BatchInv, AllDone, Heap, InterruptJoin, Abandoned,
       InterruptFrame, threadVars
  <2>2. DoneInv'
    BY <1>0, <2>0 DEF DoneInv, AllDone, InterruptJoin, Abandoned, InterruptFrame, threadVars
  <2>. QED
    BY <2>1, <2>2
<1>. QED
  BY <1>0, <1>1, <1>2, <1>3, <1>4, <1>5, <1>6, <1>7, <1>8, <1>9 DEF IInv

\* InterruptShutdown: an interrupt in a stage of the shutdown.
LEMMA InterruptShutdownStep ==
  ASSUME IInv, InterruptShutdown, InterruptFrame
  PROVE  IInv'
<1>0. cfg' = cfg /\ (\A o : BatchOf(o)' = BatchOf(o)) /\ \A x : OpsOf(x)' = OpsOf(x)
  BY SameCfg DEF InterruptShutdown, Abandoned, AfterFailure, InterruptFrame, threadVars,
     monVars, Goto
<1>1. TypeOK'
  <2>1. MainType'
    <3>1. interrupts' \in 0..MaxInterrupts
      BY ExperimentAssumption DEF IInv, TypeOK, MainType, InterruptFrame
    <3>. QED
      BY <1>0, <3>1 DEF IInv, TypeOK, MainType, InterruptShutdown, AfterFailure, InterruptFrame,
         Goto
  <2>2. ThreadType'
    BY ThreadsStay DEF InterruptShutdown, InterruptFrame
  <2>3. OtherType'
    BY <1>0, ExperimentAssumption DEF IInv, TypeOK, MainType, OtherType, Batches,
       InterruptShutdown, Abandoned, AfterFailure, InterruptFrame, threadVars, monVars, Goto
  <2>. QED
    BY <2>1, <2>2, <2>3 DEF TypeOK
<1>2. ControlInv'
  BY DEF IInv, ControlInv, InterruptShutdown, Abandoned, AfterFailure, InterruptFrame, Goto
<1>3. ToldInv'
  BY DEF IInv, ToldInv, InterruptShutdown, Abandoned, AfterFailure, InterruptFrame, threadVars,
     monVars, Goto
<1>4. MonitorInv'
  BY DEF IInv, MonitorInv, InterruptShutdown, Abandoned, AfterFailure, InterruptFrame, monVars,
     Goto
<1>5. OutliveInv'
  BY DEF IInv, OutliveInv, InterruptShutdown, Abandoned, AfterFailure, InterruptFrame,
     threadVars, monVars, Goto
<1>6. MainInv'
  BY <1>0 DEF IInv, ControlInv, MainInv, InterruptShutdown, Abandoned, AfterFailure,
     InterruptFrame, threadVars, Goto
<1>7. HandlerInv'
  BY ThreadsStay DEF InterruptShutdown, InterruptFrame
<1>8. CalmInv'
  BY DEF IInv, CalmInv, InterruptShutdown, Abandoned, AfterFailure, InterruptFrame, threadVars,
     Goto
<1>9. ASSUME cfg.autotest
      PROVE  BatchInv' /\ DoneInv'
  <2>0. BatchInv /\ DoneInv /\ ~cfg.connect
    BY <1>9, Classes DEF IInv, TypeOK, MainType
  <2>1. BatchInv'
    BY <1>0, <2>0 DEF IInv, ControlInv, BatchInv, AllDone, Heap, InterruptShutdown, Abandoned,
       AfterFailure, InterruptFrame, threadVars, Goto
  <2>2. DoneInv'
    BY <1>0, <2>0 DEF DoneInv, AllDone, InterruptShutdown, Abandoned, AfterFailure,
       InterruptFrame, threadVars, Goto
  <2>. QED
    BY <2>1, <2>2
<1>. QED
  BY <1>0, <1>1, <1>2, <1>3, <1>4, <1>5, <1>6, <1>7, <1>8, <1>9 DEF IInv

\* InterruptSweep: an interrupt in stop_all.
LEMMA InterruptSweepStep ==
  ASSUME IInv, InterruptSweep, InterruptFrame
  PROVE  IInv'
<1>0. cfg' = cfg /\ (\A o : BatchOf(o)' = BatchOf(o)) /\ \A x : OpsOf(x)' = OpsOf(x)
  BY SameCfg DEF InterruptSweep, InterruptFrame, threadVars, monVars, Goto
<1>1. TypeOK'
  <2>1. MainType'
    <3>1. interrupts' \in 0..MaxInterrupts
      BY ExperimentAssumption DEF IInv, TypeOK, MainType, InterruptFrame
    <3>. QED
      BY <1>0, <3>1 DEF IInv, TypeOK, MainType, InterruptSweep, InterruptFrame, Goto
  <2>2. ThreadType'
    BY ThreadsStay DEF InterruptSweep, InterruptFrame
  <2>3. OtherType'
    BY DEF IInv, TypeOK, OtherType, InterruptSweep, InterruptFrame, threadVars, monVars, Goto
  <2>. QED
    BY <2>1, <2>2, <2>3 DEF TypeOK
<1>2. ControlInv'
  BY DEF IInv, ControlInv, InterruptSweep, InterruptFrame, Goto
<1>3. ToldInv'
  BY DEF IInv, ToldInv, InterruptSweep, InterruptFrame, threadVars, monVars, Goto
<1>4. MonitorInv'
  BY DEF IInv, MonitorInv, InterruptSweep, InterruptFrame, monVars, Goto
<1>5. OutliveInv'
  BY DEF IInv, OutliveInv, InterruptSweep, InterruptFrame, threadVars, monVars, Goto
<1>6. MainInv'
  BY <1>0 DEF IInv, ControlInv, MainInv, InterruptSweep, InterruptFrame, threadVars, Goto
<1>7. HandlerInv'
  BY ThreadsStay DEF InterruptSweep, InterruptFrame
<1>8. CalmInv'
  BY DEF IInv, CalmInv, InterruptSweep, InterruptFrame, threadVars, Goto
<1>9. ASSUME cfg.autotest
      PROVE  BatchInv' /\ DoneInv'
  <2>0. BatchInv /\ DoneInv /\ ~cfg.connect
    BY <1>9, Classes DEF IInv, TypeOK, MainType
  <2>1. BatchInv'
    BY <1>0, <2>0 DEF IInv, ControlInv, BatchInv, AllDone, Heap, InterruptSweep, InterruptFrame,
       threadVars, Goto
  <2>2. DoneInv'
    BY <1>0, <2>0 DEF DoneInv, AllDone, InterruptSweep, InterruptFrame, threadVars, Goto
  <2>. QED
    BY <2>1, <2>2
<1>. QED
  BY <1>0, <1>1, <1>2, <1>3, <1>4, <1>5, <1>6, <1>7, <1>8, <1>9 DEF IInv

\* Monitor: a step of the monitor.
LEMMA MonitorStep ==
  ASSUME IInv, MonStep
  PROVE  IInv'
<1>0. cfg' = cfg /\ (\A o : BatchOf(o)' = BatchOf(o)) /\ \A x : OpsOf(x)' = OpsOf(x)
  BY SameCfg DEF MonStep, Probe, Probed, MonQuits, monKeeps, mainVars, threadVars
<1>1. TypeOK'
  <2>1. MainType'
    BY MainStays DEF MonStep, Probe, Probed, MonQuits, monKeeps
  <2>2. ThreadType'
    BY ThreadsStay DEF MonStep, Probe, Probed, MonQuits, monKeeps
  <2>3. OtherType'
    <3>1. probes' \in 0..MaxProbes
      BY ExperimentAssumption DEF IInv, TypeOK, OtherType, MonitorInv, MonStep, Probe, Probed,
         MonQuits
    <3>. QED
      BY <3>1 DEF IInv, TypeOK, OtherType, MonStep, Probe, Probed, MonQuits, monKeeps
  <2>. QED
    BY <2>1, <2>2, <2>3 DEF TypeOK
<1>2. ControlInv'
  BY MainStays DEF MonStep, Probe, Probed, MonQuits, monKeeps
<1>3. ToldInv'
  BY DEF IInv, ToldInv, MonStep, Probe, Probed, MonQuits, monKeeps, mainVars, threadVars
<1>4. MonitorInv'
  BY DEF IInv, MonitorInv, MonStep, Probe, Probed, MonQuits, monKeeps, mainVars
<1>5. OutliveInv'
  BY DEF IInv, OutliveInv, MonStep, Probe, Probed, MonQuits, monKeeps, mainVars, threadVars
<1>6. MainInv'
  BY <1>0 DEF IInv, ControlInv, MainInv, MonStep, Probe, Probed, MonQuits, monKeeps, mainVars,
     threadVars
<1>7. HandlerInv'
  BY ThreadsStay DEF MonStep, Probe, Probed, MonQuits, monKeeps
<1>8. CalmInv'
  BY CalmStays DEF MonStep, Probe, Probed, MonQuits, monKeeps, mainVars, threadVars
<1>9. ASSUME cfg.autotest
      PROVE  BatchInv' /\ DoneInv'
  <2>0. BatchInv /\ DoneInv /\ ~cfg.connect
    BY <1>9, Classes DEF IInv, TypeOK, MainType
  <2>1. BatchInv'
    BY <1>0, <2>0 DEF IInv, ControlInv, BatchInv, AllDone, Heap, MonStep, Probe, Probed,
       MonQuits, monKeeps, mainVars, threadVars
  <2>2. DoneInv'
    BY <1>0, <2>0 DEF DoneInv, AllDone, MonStep, Probe, Probed, MonQuits, monKeeps, mainVars,
       threadVars
  <2>. QED
    BY <2>1, <2>2
<1>. QED
  BY <1>0, <1>1, <1>2, <1>3, <1>4, <1>5, <1>6, <1>7, <1>8, <1>9 DEF IInv

\* Flap: a step of a flap thread.
LEMMA FlapStep ==
  ASSUME IInv, NEW t \in FlapThreads, FlapChecks(t) \/ FlapRecords(t)
  PROVE  IInv'
<1>0. cfg' = cfg /\ (\A o : BatchOf(o)' = BatchOf(o)) /\ \A x : OpsOf(x)' = OpsOf(x)
  BY SameCfg DEF FlapChecks, FlapRecords, flapKeeps, mainVars, threadVars
<1>1. TypeOK'
  <2>1. MainType'
    BY MainStays DEF FlapChecks, FlapRecords, flapKeeps
  <2>2. ThreadType'
    BY ThreadsStay DEF FlapChecks, FlapRecords, flapKeeps
  <2>3. OtherType'
    BY DEF IInv, TypeOK, OtherType, monVars, FlapChecks, FlapRecords, flapKeeps
  <2>. QED
    BY <2>1, <2>2, <2>3 DEF TypeOK
<1>2. ControlInv'
  BY MainStays DEF FlapChecks, FlapRecords, flapKeeps
<1>3. ToldInv'
  BY DEF IInv, ToldInv, FlapChecks, FlapRecords, flapKeeps, mainVars, threadVars,
     monVars
<1>4. MonitorInv'
  BY DEF IInv, MonitorInv, FlapChecks, FlapRecords, flapKeeps, mainVars, monVars
<1>5. OutliveInv'
  BY DEF IInv, OutliveInv, FlapChecks, FlapRecords, flapKeeps, mainVars, threadVars
<1>6. MainInv'
  BY <1>0 DEF IInv, ControlInv, MainInv, FlapChecks, FlapRecords, flapKeeps, mainVars,
     threadVars
<1>7. HandlerInv'
  BY ThreadsStay DEF FlapChecks, FlapRecords, flapKeeps
<1>8. CalmInv'
  BY CalmStays DEF FlapChecks, FlapRecords, flapKeeps, mainVars, threadVars
<1>9. ASSUME cfg.autotest
      PROVE  BatchInv' /\ DoneInv'
  <2>0. BatchInv /\ DoneInv /\ ~cfg.connect
    BY <1>9, Classes DEF IInv, TypeOK, MainType
  <2>1. BatchInv'
    BY <1>0, <2>0 DEF IInv, ControlInv, BatchInv, AllDone, Heap, FlapChecks, FlapRecords, flapKeeps, mainVars, threadVars
  <2>2. DoneInv'
    BY <1>0, <2>0 DEF DoneInv, AllDone, FlapChecks, FlapRecords, flapKeeps, mainVars,
       threadVars
  <2>. QED
    BY <2>1, <2>2
<1>. QED
  BY <1>0, <1>1, <1>2, <1>3, <1>4, <1>5, <1>6, <1>7, <1>8, <1>9 DEF IInv

\* SchedCheck: the condition of the loop.
LEMMA SchedCheckStep ==
  ASSUME IInv, NEW b \in Batches, SchedCheck(b)
  PROVE  IInv'
<1>0. cfg' = cfg /\ (\A o : BatchOf(o)' = BatchOf(o)) /\ \A x : OpsOf(x)' = OpsOf(x)
  BY SameCfg DEF SchedCheck, schedKeeps, Heap, mainVars, monVars
<1>1. TypeOK'
  <2>1. MainType'
    BY MainStays DEF SchedCheck, schedKeeps
  <2>2. ThreadType'
    BY <1>0 DEF IInv, TypeOK, MainType, ThreadType, SchedCheck, schedKeeps, Heap, mainVars
  <2>3. OtherType'
    BY OthersStay DEF SchedCheck, schedKeeps
  <2>. QED
    BY <2>1, <2>2, <2>3 DEF TypeOK
<1>2. ControlInv'
  BY MainStays DEF SchedCheck, schedKeeps
<1>3. ToldInv'
  BY DEF IInv, ToldInv, SchedCheck, schedKeeps, Heap, mainVars, monVars
<1>4. MonitorInv'
  BY MonitorStays DEF SchedCheck, schedKeeps, mainVars
<1>5. OutliveInv'
  BY <1>0 DEF IInv, TypeOK, MainType, ThreadType, ControlInv, OutliveInv, Alive, Batches,
     SchedCheck, schedKeeps, Heap, mainVars, monVars
<1>6. MainInv'
  BY <1>0 DEF IInv, ControlInv, MainInv, SchedCheck, schedKeeps, Heap, mainVars
<1>7. HandlerInv'
  BY <1>0 DEF IInv, HandlerInv, SchedCheck, schedKeeps, Heap, mainVars
<1>8. CalmInv'
  BY CalmStays DEF SchedCheck, schedKeeps, mainVars, threadVars
<1>9. ASSUME cfg.autotest
      PROVE  BatchInv' /\ DoneInv'
  <2>0. BatchInv /\ DoneInv /\ ~cfg.connect
    BY <1>9, Classes DEF IInv, TypeOK, MainType
  <2>1. BatchInv'
    BY <1>0, <2>0, <1>9, Classes DEF IInv, TypeOK, MainType, ThreadType, ControlInv, CalmInv,
       HandlerInv, BatchInv, AllDone, Heap, SchedCheck, schedKeeps, mainVars, monVars
  <2>2. DoneInv'
    BY <1>0, <2>0 DEF DoneInv, AllDone, SchedCheck, schedKeeps, Heap, mainVars
  <2>. QED
    BY <2>1, <2>2
<1>. QED
  BY <1>0, <1>1, <1>2, <1>3, <1>4, <1>5, <1>6, <1>7, <1>8, <1>9 DEF IInv

\* SchedWakes: a scheduler is woken.
LEMMA SchedWakesStep ==
  ASSUME IInv, NEW b \in Batches, SchedWakes(b)
  PROVE  IInv'
<1>0. cfg' = cfg /\ (\A o : BatchOf(o)' = BatchOf(o)) /\ \A x : OpsOf(x)' = OpsOf(x)
  BY SameCfg DEF SchedWakes, schedKeeps, mainVars, monVars
<1>1. TypeOK'
  <2>1. MainType'
    BY MainStays DEF SchedWakes, schedKeeps
  <2>2. ThreadType'
    BY <1>0 DEF IInv, TypeOK, MainType, ThreadType, SchedWakes, schedKeeps, mainVars
  <2>3. OtherType'
    BY OthersStay DEF SchedWakes, schedKeeps
  <2>. QED
    BY <2>1, <2>2, <2>3 DEF TypeOK
<1>2. ControlInv'
  BY MainStays DEF SchedWakes, schedKeeps
<1>3. ToldInv'
  BY DEF IInv, ToldInv, SchedWakes, schedKeeps, mainVars, monVars
<1>4. MonitorInv'
  BY MonitorStays DEF SchedWakes, schedKeeps, mainVars
<1>5. OutliveInv'
  BY <1>0 DEF IInv, TypeOK, MainType, ThreadType, ControlInv, OutliveInv, Alive, Batches,
     SchedWakes, schedKeeps, mainVars, monVars
<1>6. MainInv'
  BY <1>0 DEF IInv, ControlInv, MainInv, SchedWakes, schedKeeps, mainVars
<1>7. HandlerInv'
  BY <1>0 DEF IInv, HandlerInv, SchedWakes, schedKeeps, mainVars
<1>8. CalmInv'
  BY CalmStays DEF SchedWakes, schedKeeps, mainVars, threadVars
<1>9. ASSUME cfg.autotest
      PROVE  BatchInv' /\ DoneInv'
  <2>0. BatchInv /\ DoneInv /\ ~cfg.connect
    BY <1>9, Classes DEF IInv, TypeOK, MainType
  <2>1. BatchInv'
    BY <1>0, <2>0, <1>9, Classes DEF IInv, TypeOK, MainType, ThreadType, ControlInv, CalmInv,
       HandlerInv, BatchInv, AllDone, Heap, SchedWakes, schedKeeps, mainVars, monVars
  <2>2. DoneInv'
    BY <1>0, <2>0 DEF DoneInv, AllDone, SchedWakes, schedKeeps, mainVars
  <2>. QED
    BY <2>1, <2>2
<1>. QED
  BY <1>0, <1>1, <1>2, <1>3, <1>4, <1>5, <1>6, <1>7, <1>8, <1>9 DEF IInv

\* SchedFires: an event is due.
LEMMA SchedFiresStep ==
  ASSUME IInv, NEW b \in Batches, SchedFires(b)
  PROVE  IInv'
<1>0. cfg' = cfg /\ (\A o : BatchOf(o)' = BatchOf(o)) /\ \A x : OpsOf(x)' = OpsOf(x)
  BY SameCfg DEF SchedFires, schedKeeps, Heap, mainVars, monVars
<1>1. TypeOK'
  <2>1. MainType'
    BY MainStays DEF SchedFires, schedKeeps
  <2>2. ThreadType'
    BY <1>0 DEF IInv, TypeOK, MainType, ThreadType, SchedFires, schedKeeps, Heap, mainVars
  <2>3. OtherType'
    BY OthersStay DEF SchedFires, schedKeeps
  <2>. QED
    BY <2>1, <2>2, <2>3 DEF TypeOK
<1>2. ControlInv'
  BY MainStays DEF SchedFires, schedKeeps
<1>3. ToldInv'
  BY DEF IInv, ToldInv, SchedFires, schedKeeps, Heap, mainVars, monVars
<1>4. MonitorInv'
  BY MonitorStays DEF SchedFires, schedKeeps, mainVars
<1>5. OutliveInv'
  BY <1>0 DEF IInv, TypeOK, MainType, ThreadType, ControlInv, OutliveInv, Alive, Batches,
     SchedFires, schedKeeps, Heap, mainVars, monVars
<1>6. MainInv'
  BY <1>0 DEF IInv, TypeOK, MainType, ThreadType, ControlInv, MainInv, OpsOf, SchedFires,
     schedKeeps, Heap, mainVars, monVars
<1>7. HandlerInv'
  BY <1>0 DEF IInv, TypeOK, MainType, ThreadType, ControlInv, HandlerInv, OpsOf, SchedFires,
     schedKeeps, Heap, mainVars, monVars
<1>8. CalmInv'
  BY CalmStays DEF SchedFires, schedKeeps, mainVars, threadVars
<1>9. ASSUME cfg.autotest
      PROVE  BatchInv' /\ DoneInv'
  <2>0. BatchInv /\ DoneInv /\ ~cfg.connect
    BY <1>9, Classes DEF IInv, TypeOK, MainType
  <2>1. BatchInv'
    BY <1>0, <2>0 DEF IInv, ControlInv, BatchInv, AllDone, Heap, SchedFires, schedKeeps,
       mainVars
  <2>2. DoneInv'
    BY <1>0, <2>0 DEF DoneInv, AllDone, SchedFires, schedKeeps, Heap, mainVars
  <2>. QED
    BY <2>1, <2>2
<1>. QED
  BY <1>0, <1>1, <1>2, <1>3, <1>4, <1>5, <1>6, <1>7, <1>8, <1>9 DEF IInv

\* SchedHandled: its handler ends.
LEMMA SchedHandledStep ==
  ASSUME IInv, NEW b \in Batches, SchedHandled(b)
  PROVE  IInv'
<1>0. cfg' = cfg /\ (\A o : BatchOf(o)' = BatchOf(o)) /\ \A x : OpsOf(x)' = OpsOf(x)
  BY SameCfg DEF SchedHandled, schedKeeps, InHandler, mainVars, monVars
<1>a. PICK q \in OpsOf(b) : /\ op[q] = "handler"
                          /\ op' = [op EXCEPT ![q] = IF q \notin Plain THEN "queued"
                                                    ELSE IF cfg.endless THEN "heap" ELSE "done"]
  BY DEF SchedHandled, InHandler
<1>1. TypeOK'
  <2>1. MainType'
    BY MainStays DEF SchedHandled, schedKeeps
  <2>2. ThreadType'
    BY <1>0 DEF IInv, TypeOK, MainType, ThreadType, SchedHandled, schedKeeps, InHandler,
       mainVars
  <2>3. OtherType'
    BY OthersStay DEF SchedHandled, schedKeeps
  <2>. QED
    BY <2>1, <2>2, <2>3 DEF TypeOK
<1>2. ControlInv'
  BY MainStays DEF SchedHandled, schedKeeps
<1>3. ToldInv'
  BY DEF IInv, ToldInv, SchedHandled, schedKeeps, InHandler, mainVars, monVars
<1>4. MonitorInv'
  BY MonitorStays DEF SchedHandled, schedKeeps, mainVars
<1>5. OutliveInv'
  BY <1>0 DEF IInv, TypeOK, MainType, ThreadType, ControlInv, OutliveInv, Alive, Batches,
     SchedHandled, schedKeeps, InHandler, mainVars, monVars
<1>6. MainInv'
  BY <1>0 DEF IInv, ControlInv, MainInv, SchedHandled, schedKeeps, InHandler, mainVars
<1>7. HandlerInv'
  BY <1>0 DEF IInv, TypeOK, MainType, ThreadType, ControlInv, HandlerInv, OpsOf, SchedHandled,
     schedKeeps, InHandler, mainVars, monVars
<1>8. CalmInv'
  BY CalmStays DEF SchedHandled, schedKeeps, mainVars, threadVars
<1>9. ASSUME cfg.autotest
      PROVE  BatchInv' /\ DoneInv'
  <2>0. BatchInv /\ DoneInv /\ ~cfg.connect
    BY <1>9, Classes DEF IInv, TypeOK, MainType
  <2>1. BatchInv'
    <3>1. /\ pc' = pc /\ batch' = batch /\ ok' = ok /\ raised' = raised
          /\ sched' = [sched EXCEPT ![b] = "loop"]
      BY DEF SchedHandled, schedKeeps, mainVars
    <3>2. CASE b # batch
      <4>1. \A o \in OpsOf(batch) : op'[o] = op[o]
        BY <1>a, <3>2 DEF IInv, TypeOK, ThreadType, OpsOf
      <4>2. sched'[batch] = sched[batch]
        BY <3>1, <3>2 DEF IInv, TypeOK, MainType, ThreadType
      <4>. QED
        BY <1>0, <2>0, <3>1, <4>1, <4>2 DEF BatchInv, AllDone, Heap
    <3>3. CASE b = batch /\ batch # "main"
      <4>1. q \notin Plain
        BY <1>a, <3>3, Classes DEF IInv, TypeOK, MainType, OpsOf
      <4>2. /\ op'[q] = "queued"
            /\ \A o \in OpsOf(batch) : o # q => op'[o] = op[o]
        BY <1>a, <4>1 DEF IInv, TypeOK, ThreadType, OpsOf
      <4>3. sched'[batch] = "loop"
        BY <3>1, <3>3 DEF IInv, TypeOK, ThreadType
      <4>. QED
        BY <1>0, <1>a, <2>0, <3>1, <3>3, <4>2, <4>3 DEF BatchInv, AllDone
    <3>. QED
      BY <1>0, <3>1, <3>2, <3>3 DEF BatchInv
  <2>2. DoneInv'
    BY <1>0, <2>0 DEF DoneInv, AllDone, SchedHandled, schedKeeps, InHandler, mainVars
  <2>. QED
    BY <2>1, <2>2
<1>. QED
  BY <1>0, <1>1, <1>2, <1>3, <1>4, <1>5, <1>6, <1>7, <1>8, <1>9 DEF IInv

\* SchedDies: its handler raises SystemExit.
LEMMA SchedDiesStep ==
  ASSUME IInv, NEW b \in Batches, SchedDies(b)
  PROVE  IInv'
<1>0. cfg' = cfg /\ (\A o : BatchOf(o)' = BatchOf(o)) /\ \A x : OpsOf(x)' = OpsOf(x)
  BY SameCfg DEF SchedDies, schedKeeps, InHandler, mainVars, monVars
<1>a. PICK q \in OpsOf(b) \cap Plain : op[q] = "handler" /\ op' = [op EXCEPT ![q] = "dropped"]
  BY DEF SchedDies, InHandler
<1>b. b = "main"
  BY <1>a, Classes DEF IInv, TypeOK, MainType, OpsOf
<1>1. TypeOK'
  <2>1. MainType'
    BY MainStays DEF SchedDies, schedKeeps
  <2>2. ThreadType'
    BY <1>0 DEF IInv, TypeOK, MainType, ThreadType, SchedDies, schedKeeps, InHandler, mainVars
  <2>3. OtherType'
    BY OthersStay DEF SchedDies, schedKeeps
  <2>. QED
    BY <2>1, <2>2, <2>3 DEF TypeOK
<1>2. ControlInv'
  BY MainStays DEF SchedDies, schedKeeps
<1>3. ToldInv'
  BY DEF IInv, ToldInv, SchedDies, schedKeeps, InHandler, mainVars, monVars
<1>4. MonitorInv'
  BY MonitorStays DEF SchedDies, schedKeeps, mainVars
<1>5. OutliveInv'
  BY <1>0 DEF IInv, TypeOK, MainType, ThreadType, ControlInv, OutliveInv, Alive, Batches,
     SchedDies, schedKeeps, InHandler, mainVars, monVars
<1>6. MainInv'
  BY <1>0 DEF IInv, ControlInv, MainInv, SchedDies, schedKeeps, InHandler, mainVars
<1>7. HandlerInv'
  BY <1>0 DEF IInv, TypeOK, MainType, ThreadType, ControlInv, HandlerInv, OpsOf, SchedDies,
     schedKeeps, InHandler, mainVars, monVars
<1>8. CalmInv'
  BY CalmStays DEF SchedDies, schedKeeps, mainVars, threadVars
<1>9. ASSUME cfg.autotest
      PROVE  BatchInv' /\ DoneInv'
  <2>0. BatchInv /\ DoneInv /\ ~cfg.connect
    BY <1>9, Classes DEF IInv, TypeOK, MainType
  <2>1. BatchInv'
    <3>1. /\ pc' = pc /\ batch' = batch /\ ok' = ok /\ raised' = raised
          /\ sched' = [sched EXCEPT !["main"] = "dead"]
      BY <1>b DEF SchedDies, schedKeeps, mainVars
    <3>2. CASE batch # "main"
      <4>1. \A o \in OpsOf(batch) : op'[o] = op[o]
        BY <1>a, <1>b, <3>2 DEF IInv, TypeOK, ThreadType, OpsOf
      <4>2. sched'[batch] = sched[batch]
        BY <3>1, <3>2 DEF IInv, TypeOK, MainType, ThreadType
      <4>. QED
        BY <1>0, <2>0, <3>1, <4>1, <4>2 DEF BatchInv, AllDone, Heap
    <3>. QED
      BY <1>0, <3>1, <3>2 DEF BatchInv
  <2>2. DoneInv'
    BY <1>0, <2>0 DEF DoneInv, AllDone, SchedDies, schedKeeps, InHandler, mainVars
  <2>. QED
    BY <2>1, <2>2
<1>. QED
  BY <1>0, <1>1, <1>2, <1>3, <1>4, <1>5, <1>6, <1>7, <1>8, <1>9 DEF IInv

\* WorkerTakes: a worker takes an operation.
LEMMA WorkerTakesStep ==
  ASSUME IInv, NEW b \in Batches, WorkerTakes(b)
  PROVE  IInv'
<1>0. cfg' = cfg /\ (\A o : BatchOf(o)' = BatchOf(o)) /\ \A x : OpsOf(x)' = OpsOf(x)
  BY SameCfg DEF WorkerTakes, workerKeeps, mainVars, monVars
<1>a. /\ pc' = pc /\ batch' = batch /\ ok' = ok /\ raised' = raised /\ held' = held
      /\ flap' = flap /\ sched' = sched /\ escaped' = escaped
      /\ worker[b] = "idle" /\ worker' \in {worker, [worker EXCEPT ![b] = "busy"]}
      /\ \E q \in OpsOf(b) :
           /\ op[q] = "queued"
           /\ \/ b \in cancel /\ op' = [op EXCEPT ![q] = "dropped"]
              \/ op' = [op EXCEPT ![q] = "running"]
  BY DEF WorkerTakes, workerKeeps, mainVars
<1>b. \A o \in Ops : \/ op'[o] = op[o]
                     \/ /\ BatchOf(o) = b /\ op[o] = "queued"
                        /\ op'[o] = "running" \/ (op'[o] = "dropped" /\ b \in cancel)
  BY <1>a DEF IInv, TypeOK, ThreadType, OpsOf
<1>c. \A x \in Batches : \/ worker'[x] = worker[x]
                         \/ (x = b /\ worker[x] = "idle" /\ worker'[x] = "busy")
  BY <1>a DEF IInv, TypeOK, ThreadType
<1>1. TypeOK'
  <2>1. MainType'
    BY MainStays DEF WorkerTakes, workerKeeps
  <2>2. ThreadType'
    BY <1>0 DEF IInv, TypeOK, MainType, ThreadType, WorkerTakes, workerKeeps, mainVars
  <2>3. OtherType'
    BY OthersStay DEF WorkerTakes, workerKeeps
  <2>. QED
    BY <2>1, <2>2, <2>3 DEF TypeOK
<1>2. ControlInv'
  BY MainStays DEF WorkerTakes, workerKeeps
<1>3. ToldInv'
  BY <1>a, <1>c DEF IInv, ToldInv, Batches, WorkerTakes, workerKeeps, monVars
<1>4. MonitorInv'
  BY MonitorStays DEF WorkerTakes, workerKeeps, mainVars
<1>5. OutliveInv'
  BY <1>0 DEF IInv, TypeOK, MainType, ThreadType, ControlInv, OutliveInv, Alive, Batches,
     WorkerTakes, workerKeeps, mainVars, monVars
<1>6. MainInv'
  BY <1>0, <1>a, <1>b, <1>c DEF IInv, MainInv, OpsOf, Batches
<1>7. HandlerInv'
  BY <1>0 DEF IInv, TypeOK, MainType, ThreadType, ControlInv, HandlerInv, OpsOf, WorkerTakes,
     workerKeeps, mainVars, monVars
<1>8. CalmInv'
  BY CalmStays DEF WorkerTakes, workerKeeps, mainVars, threadVars
<1>9. ASSUME cfg.autotest
      PROVE  BatchInv' /\ DoneInv'
  <2>0. BatchInv /\ DoneInv /\ ~cfg.connect
    BY <1>9, Classes DEF IInv, TypeOK, MainType
  <2>1. BatchInv'
    <3>1. \A o \in OpsOf(batch) : \/ op'[o] = op[o]
                                  \/ op[o] = "queued" /\ op'[o] \in {"running", "dropped"}
      BY <1>b DEF OpsOf
    <3>2. batch \notin cancel => \A o \in OpsOf(batch) : op[o] = "queued" => op'[o] # "dropped"
      BY <1>b DEF OpsOf
    <3>3. batch # "main" /\ pc \in {"wait_worker"} \cup Begun => batch \notin cancel
      BY DEF IInv, CalmInv
    <3>4. \A o \in OpsOf(batch) : op'[o] = "heap" => op[o] = "heap"
      BY <3>1
    <3>5. batch # "main" /\ pc \in Begun =>
            /\ \A o \in OpsOf(batch) : op'[o] \notin {"new", "dropped"}
            /\ batch = "seed" /\ sched[batch] = "none" => OpsOf(batch) = {}
            /\ batch = "seed" /\ sched[batch] = "dead" => Heap(batch)' = {}
      <4>1. Heap(batch) = {} => Heap(batch)' = {}
        BY <1>0, <1>a, <3>4 DEF Heap
      <4>. QED
        BY <2>0, <3>1, <3>2, <3>3, <4>1 DEF BatchInv
    <3>6. batch # "main" /\ pc = "wait_worker" =>
            ok /\ \A o \in OpsOf(batch) : op'[o] \in {"queued", "running", "done"}
      BY <2>0, <3>1, <3>2, <3>3 DEF BatchInv
    <3>7. batch # "main" /\ pc \in Ended /\ ok /\ ~raised => \A o \in OpsOf(batch) : op'[o] = "done"
      BY <2>0, <3>1 DEF BatchInv, AllDone
    <3>. QED
      BY <1>0, <1>a, <2>0, <3>5, <3>6, <3>7 DEF BatchInv, AllDone
  <2>2. DoneInv'
    <3>1. \A o \in Ops : op[o] = "done" => op'[o] = "done"
      BY <1>b
    <3>. QED
      BY <1>0, <1>a, <2>0, <3>1 DEF DoneInv, AllDone, Ops
  <2>. QED
    BY <2>1, <2>2
<1>. QED
  BY <1>0, <1>1, <1>2, <1>3, <1>4, <1>5, <1>6, <1>7, <1>8, <1>9 DEF IInv

\* WorkerDone: an operation ends.
LEMMA WorkerDoneStep ==
  ASSUME IInv, NEW b \in Batches, WorkerDone(b)
  PROVE  IInv'
<1>0. cfg' = cfg /\ (\A o : BatchOf(o)' = BatchOf(o)) /\ \A x : OpsOf(x)' = OpsOf(x)
  BY SameCfg DEF WorkerDone, workerKeeps, mainVars, monVars
<1>1. TypeOK'
  <2>1. MainType'
    BY MainStays DEF WorkerDone, workerKeeps
  <2>2. ThreadType'
    BY <1>0 DEF IInv, TypeOK, MainType, ThreadType, WorkerDone, workerKeeps, mainVars
  <2>3. OtherType'
    BY OthersStay DEF WorkerDone, workerKeeps
  <2>. QED
    BY <2>1, <2>2, <2>3 DEF TypeOK
<1>2. ControlInv'
  BY MainStays DEF WorkerDone, workerKeeps
<1>3. ToldInv'
  BY DEF IInv, ToldInv, WorkerDone, workerKeeps, mainVars, monVars
<1>4. MonitorInv'
  BY MonitorStays DEF WorkerDone, workerKeeps, mainVars
<1>5. OutliveInv'
  BY <1>0 DEF IInv, TypeOK, MainType, ThreadType, ControlInv, OutliveInv, Alive, Batches,
     WorkerDone, workerKeeps, mainVars, monVars
<1>6. MainInv'
  BY <1>0 DEF IInv, ControlInv, MainInv, WorkerDone, workerKeeps, mainVars
<1>7. HandlerInv'
  BY <1>0 DEF IInv, HandlerInv, WorkerDone, workerKeeps, mainVars
<1>8. CalmInv'
  BY CalmStays DEF WorkerDone, workerKeeps, mainVars, threadVars
<1>9. ASSUME cfg.autotest
      PROVE  BatchInv' /\ DoneInv'
  <2>0. BatchInv /\ DoneInv /\ ~cfg.connect
    BY <1>9, Classes DEF IInv, TypeOK, MainType
  <2>1. BatchInv'
    BY <1>0, <2>0 DEF IInv, ControlInv, BatchInv, AllDone, Heap, WorkerDone, workerKeeps,
       mainVars
  <2>2. DoneInv'
    BY <1>0, <2>0 DEF DoneInv, AllDone, WorkerDone, workerKeeps, mainVars
  <2>. QED
    BY <2>1, <2>2
<1>. QED
  BY <1>0, <1>1, <1>2, <1>3, <1>4, <1>5, <1>6, <1>7, <1>8, <1>9 DEF IInv

\* WorkerQuits: a worker ends.
LEMMA WorkerQuitsStep ==
  ASSUME IInv, NEW b \in Batches, WorkerQuits(b)
  PROVE  IInv'
<1>0. cfg' = cfg /\ (\A o : BatchOf(o)' = BatchOf(o)) /\ \A x : OpsOf(x)' = OpsOf(x)
  BY SameCfg DEF WorkerQuits, workerKeeps, mainVars, monVars
<1>1. TypeOK'
  <2>1. MainType'
    BY MainStays DEF WorkerQuits, workerKeeps
  <2>2. ThreadType'
    BY <1>0 DEF IInv, TypeOK, MainType, ThreadType, WorkerQuits, workerKeeps, mainVars
  <2>3. OtherType'
    BY OthersStay DEF WorkerQuits, workerKeeps
  <2>. QED
    BY <2>1, <2>2, <2>3 DEF TypeOK
<1>2. ControlInv'
  BY MainStays DEF WorkerQuits, workerKeeps
<1>3. ToldInv'
  BY DEF IInv, ToldInv, WorkerQuits, workerKeeps, mainVars, monVars
<1>4. MonitorInv'
  BY MonitorStays DEF WorkerQuits, workerKeeps, mainVars
<1>5. OutliveInv'
  BY <1>0 DEF IInv, TypeOK, MainType, ThreadType, ControlInv, OutliveInv, Alive, Batches,
     WorkerQuits, workerKeeps, mainVars, monVars
<1>6. MainInv'
  BY <1>0 DEF IInv, ControlInv, MainInv, WorkerQuits, workerKeeps, mainVars
<1>7. HandlerInv'
  BY <1>0 DEF IInv, HandlerInv, WorkerQuits, workerKeeps, mainVars
<1>8. CalmInv'
  BY CalmStays DEF WorkerQuits, workerKeeps, mainVars, threadVars
<1>9. ASSUME cfg.autotest
      PROVE  BatchInv' /\ DoneInv'
  <2>0. BatchInv /\ DoneInv /\ ~cfg.connect
    BY <1>9, Classes DEF IInv, TypeOK, MainType
  <2>1. BatchInv'
    BY <1>0, <2>0 DEF IInv, ControlInv, BatchInv, AllDone, Heap, WorkerQuits, workerKeeps,
       mainVars
  <2>2. DoneInv'
    BY <1>0, <2>0 DEF DoneInv, AllDone, WorkerQuits, workerKeeps, mainVars
  <2>. QED
    BY <2>1, <2>2
<1>. QED
  BY <1>0, <1>1, <1>2, <1>3, <1>4, <1>5, <1>6, <1>7, <1>8, <1>9 DEF IInv

-----------------------------------------------------------------------------
(* The theorems. *)

\* The invariant holds before the first step.
LEMMA InitHolds ==
  ASSUME Init
  PROVE  IInv
<1>1. TypeOK
  <2>1. MainType
    <3>1. 0 \in 0..MaxInterrupts
      BY ExperimentAssumption
    <3>. QED
      BY <3>1 DEF Init, MainType, Batches
  <2>2. ThreadType
    BY DEF Init, ThreadType
  <2>3. OtherType
    <3>1. 0 \in 0..MaxProbes /\ -1 \in -1..MaxProbes
      BY ExperimentAssumption
    <3>. QED
      BY <3>1 DEF Init, OtherType
  <2>. QED
    BY <2>1, <2>2, <2>3 DEF TypeOK
<1>2. ControlInv /\ ToldInv /\ MonitorInv
  BY DEF Init, ControlInv, ToldInv, MonitorInv
<1>3. OutliveInv
  BY DEF Init, OutliveInv, Alive, Batches
<1>4. MainInv /\ HandlerInv /\ CalmInv
  BY DEF Init, MainInv, HandlerInv, CalmInv, OpsOf, Batches
<1>5. BatchInv /\ DoneInv
  BY DEF Init, BatchInv, DoneInv
<1>. QED
  BY <1>1, <1>2, <1>3, <1>4, <1>5 DEF IInv

\* Every step of the main thread preserves the invariant.
LEMMA MainPreserves ==
  ASSUME IInv, MainStep \/ UserQuits
  PROVE  IInv'
<1>1. CASE StopBatch
  BY <1>1, BatchStopStep, BatchJoinStep, BatchStopWorkerStep, BatchJoinWorkerStep DEF StopBatch
<1>2. CASE StopMain
  BY <1>2, MainStopStep, MainJoinStep, MainWaitStep, MainStopWorkerStep, MainJoinWorkerStep,
     MainSkipStep DEF StopMain
<1>. QED
  BY <1>1, <1>2, StartAppsStep, PhasesStep, StartFlapsStep, HoldFlapStep, BuildStep,
     StartWorkerStep,
     StartSchedStep, AssignStep, SubmitStep, WaitSchedStep, WaitWorkerStep, BatchEndStep,
     StartMonitorStep, IdleStep, SweepStep, StopMonitorStep, StopFlapStep, FinishStep
     DEF MainStep

\* Every step of every thread preserves the invariant.
LEMMA NextPreserves ==
  ASSUME IInv, [Next]_vars
  PROVE  IInv'
<1>1. CASE Interrupt
  BY <1>1, InterruptRunStep, InterruptBatchStep, InterruptJoinStep, InterruptShutdownStep,
     InterruptSweepStep DEF Interrupt, InterruptFrame
<1>2. ASSUME NEW b \in Batches, SchedStep(b)
      PROVE  IInv'
  BY <1>2, SchedCheckStep, SchedWakesStep, SchedFiresStep, SchedHandledStep, SchedDiesStep
     DEF SchedStep
<1>3. CASE UNCHANGED vars
  <2>0. /\ cfg' = cfg /\ UNCHANGED <<mainVars, interrupts, threadVars, apps, flapVars, monVars>>
        /\ UNCHANGED <<written, gaveUp, escaped>>
    BY <1>3 DEF vars
  <2>1. (\A o : BatchOf(o)' = BatchOf(o)) /\ \A b : OpsOf(b)' = OpsOf(b)
    BY <2>0, SameCfg
  <2>2. TypeOK'
    BY <2>0 DEF IInv, TypeOK, MainType, ThreadType, OtherType, mainVars, threadVars, monVars
  <2>3. ControlInv' /\ ToldInv' /\ MonitorInv' /\ OutliveInv'
    BY <2>0 DEF IInv, ControlInv, ToldInv, MonitorInv, OutliveInv, mainVars, threadVars, monVars
  <2>4. MainInv' /\ HandlerInv' /\ CalmInv'
    BY <2>0, <2>1 DEF IInv, MainInv, HandlerInv, CalmInv, mainVars, threadVars
  <2>5. BatchInv /\ DoneInv => BatchInv' /\ DoneInv'
    BY <2>0, <2>1 DEF BatchInv, DoneInv, AllDone, Heap, mainVars, threadVars
  <2>. QED
    BY <2>0, <2>2, <2>3, <2>4, <2>5 DEF IInv
<1>. QED
  BY <1>1, <1>2, <1>3, MainPreserves, MonitorStep, FlapStep, WorkerTakesStep,
     WorkerDoneStep, WorkerQuitsStep
     DEF Next

\* Nothing flaps before the first step.
LEMMA FlapsBegin ==
  ASSUME Init
  PROVE  FlapInv
  BY ExperimentAssumption DEF Init, FlapInv, FlapType, FlapThreads

\* No flap thread passes its check once it was told to stop.
LEMMA FlapsPreserved ==
  ASSUME IInv, FlapInv, [Next]_vars
  PROVE  FlapInv'
<1>1. ASSUME NEW t \in FlapThreads, FlapChecks(t)
      PROVE  FlapInv'
  <2>1. UNCHANGED <<pc, held, escaped, flaps, midway>> /\ flap = "running"
    BY <1>1 DEF FlapChecks, flapKeeps, mainVars
  <2>2. ~(pc \in AfterFlap /\ "flap" \in held /\ ~escaped)
    BY <2>1 DEF IInv, ToldInv
  <2>3. flaps[t] < MaxFlaps /\ flapping' = flapping \cup {t}
    BY <1>1 DEF FlapChecks
  <2>. QED
    BY <1>1, <2>1, <2>2, <2>3 DEF FlapInv, FlapType
<1>2. ASSUME NEW t \in FlapThreads, FlapRecords(t)
      PROVE  FlapInv'
  <2>1. UNCHANGED <<pc, held, escaped, midway>> /\ flapping' \subseteq flapping
    BY <1>2 DEF FlapRecords, flapKeeps, mainVars
  <2>2. flaps[t] + 1 \in 0..MaxFlaps /\ flaps' = [flaps EXCEPT ![t] = flaps[t] + 1]
    BY <1>2, ExperimentAssumption DEF FlapRecords, FlapInv, FlapType
  <2>3. flaps' \in [FlapThreads -> 0..MaxFlaps]
    BY <2>2 DEF FlapInv, FlapType
  <2>4. \A u \in flapping' : flaps'[u] < MaxFlaps
    BY <1>2, <2>1, <2>2, ExperimentAssumption DEF FlapRecords, FlapInv, FlapType
  <2>. QED
    BY <2>1, <2>3, <2>4 DEF FlapInv, FlapType
<1>3. ASSUME UNCHANGED <<flapping, flaps, midway>>,
             pc' \in AfterFlap /\ "flap" \in held' /\ ~escaped' =>
               pc \in AfterFlap /\ "flap" \in held /\ ~escaped
      PROVE  FlapInv'
  BY <1>3 DEF FlapInv, FlapType
<1>4. CASE StopFlap
  BY <1>4 DEF StopFlap, FlapInv, FlapType, keeps, Goto
<1>5. CASE Interrupt
  <2>1. UNCHANGED <<flapping, flaps, midway, held>>
    BY <1>5 DEF Interrupt
  <2>2. pc' \notin AfterFlap \/ escaped'
    BY <1>5 DEF Interrupt, InterruptRun, InterruptBatch, InterruptJoin, InterruptShutdown,
       InterruptSweep, AfterFailure, Leave, Goto
  <2>. QED
    BY <1>3, <2>1, <2>2
<1>6. CASE Teardown \/ WriteResults \/ UNCHANGED vars
  <2>1. UNCHANGED <<flapping, flaps, midway, held, escaped>>
    BY <1>6 DEF Teardown, WriteResults, vars, mainVars, keeps, still
  <2>2. pc' = pc \/ pc \in AfterFlap
    BY <1>6 DEF Teardown, WriteResults, vars, mainVars
  <2>. QED
    BY <1>3, <2>1, <2>2
<1>7. CASE \/ MonStep
           \/ \E b \in Batches : SchedStep(b) \/ WorkerTakes(b) \/ WorkerDone(b) \/ WorkerQuits(b)
  <2>1. UNCHANGED <<flapping, flaps, midway, mainVars, escaped>>
    BY <1>7 DEF MonStep, Probe, Probed, MonQuits, monKeeps, SchedStep, SchedCheck, SchedWakes,
       SchedFires, SchedHandled, SchedDies, schedKeeps, WorkerTakes, WorkerDone, WorkerQuits,
       workerKeeps
  <2>. QED
    BY <1>3, <2>1 DEF mainVars
<1>8. CASE \/ StartApps \/ Phases \/ StartFlaps \/ HoldFlap \/ Build \/ StartWorker
           \/ StartSched \/ Assign \/ Submit \/ WaitSched \/ WaitWorker
  <2>1. UNCHANGED <<flapping, flaps, midway>>
    BY <1>8 DEF StartApps, Phases, StartFlaps, HoldFlap, Build, StartWorker, StartSched, Assign,
       Submit, WaitSched, WaitWorker, still
  <2>2. pc' \notin AfterFlap
    BY <1>8 DEF StartApps, Phases, AfterSeed, StartFlaps, HoldFlap, Build, StartWorker,
       StartSched, Assign, Submit, WaitSched, AfterWaitSched, WaitWorker, Goto, Enter, Leave,
       mainVars
  <2>. QED
    BY <1>3, <2>1, <2>2
<1>9. CASE \/ StopBatch \/ BatchEnd \/ StartMonitor \/ Idle \/ UserQuits \/ Sweep
           \/ StopMonitor \/ StopMain
  <2>1. UNCHANGED <<flapping, flaps, midway>>
    BY <1>9 DEF StopBatch, BatchEnd, StartMonitor, Idle, UserQuits, Sweep, StopMonitor, StopMain,
       StopSched, StopWorker, Join, ShutdownWait, still
  <2>2. pc' \notin AfterFlap
    BY <1>9 DEF StopBatch, BatchEnd, AfterSeed, StartMonitor, Idle, UserQuits, Sweep,
       StopMonitor, StopMain, StopSched, StopWorker, Join, ShutdownWait, Goto, Leave
  <2>. QED
    BY <1>3, <2>1, <2>2
<1>. QED
  BY <1>1, <1>2, <1>4, <1>5, <1>6, <1>7, <1>8, <1>9 DEF Next, MainStep

\* The inductive invariant holds in every reachable state, for any events in the
\* batches, any configuration and any number of interrupts and monitor records.
THEOREM InvariantHolds == Spec => [](IInv /\ FlapInv)
<1>1. Init => IInv /\ FlapInv
  BY InitHolds, FlapsBegin
<1>2. IInv /\ FlapInv /\ [Next]_vars => IInv' /\ FlapInv'
  BY NextPreserves, FlapsPreserved
<1>. QED
  BY <1>1, <1>2, PTL DEF Spec

\* The main thread, the threads it started and the histories keep their types.
THEOREM TypeCorrect == Spec => [](TypeOK /\ FlapType)
<1>1. IInv /\ FlapInv => TypeOK /\ FlapType
  BY DEF IInv, FlapInv
<1>. QED
  BY <1>1, InvariantHolds, PTL

\* run_experiment keeps the phases of autotest in order, whatever fails or is
\* interrupted; shutdown_runtime_resources tells every resource the scenario
\* refers to, unless an interrupt left stop_all; and the monitor's file is whole
\* unless the join of its thread gave up.
THEOREM RunTheorem == Spec => []RunSound
<1>1. ASSUME IInv, cfg.autotest,
             flap # "none" \/ \E o \in OpsOf("main") : op[o] \notin {"new", "heap"}
      PROVE  \A o \in Puts \cup Gets : op[o] = "done"
  <2>1. batch = "main"
    BY <1>1 DEF IInv, MainInv
  <2>. QED
    BY <1>1, <2>1 DEF IInv, DoneInv, AllDone
<1>2. IInv => PhasesInOrder
  BY <1>1 DEF PhasesInOrder
<1>3. IInv => StagesAfterSweep
  BY DEF IInv, ToldInv, StagesAfterSweep, AfterShutdown, AllTold
<1>4. IInv => MonitorFileComplete
  BY DEF IInv, MonitorInv, MonitorFileComplete
<1>5. IInv => RunSound
  BY <1>2, <1>3, <1>4 DEF RunSound
<1>. QED
  BY <1>5, InvariantHolds, PTL

\* After write_results only a thread whose join gave up records an operation, or
\* one of a last batch that the scenario had no handle of or did not come to stop;
\* and a flap thread, which nobody joins, only a link change it was in when
\* stop_event was set, unless nobody set it.
THEOREM RecordTheorem == Spec => NoLateRecord
<1>1. ASSUME IInv, [Next]_vars, written, NEW o \in Ops, Records(o)
      PROVE  MayOutlive(IF o \in Plain THEN "sched" ELSE "worker", BatchOf(o))
  <2>. DEFINE b == BatchOf(o)
  <2>1. pc = "done"
    BY <1>1 DEF IInv, ControlInv
  <2>2. b \in Batches /\ DOMAIN op = Ops /\ op = [q \in Ops |-> op[q]]
    BY <1>1, Classes DEF IInv, TypeOK, MainType, ThreadType
  <2>3. op' # op /\ op[o] \in {"handler", "running"} /\ op'[o] # op[o]
    BY <1>1 DEF Records
  <2>4. ~MainStep /\ ~UserQuits
    BY <2>1 DEF MainStep, UserQuits, StartApps, Phases, StartFlaps, HoldFlap, Build,
       StartWorker, StartSched,
       Assign, Submit, WaitSched, WaitWorker, StopBatch, BatchEnd, StartMonitor, Idle, Sweep,
       StopMonitor, StopMain, StopFlap, Teardown, WriteResults
  <2>5. ~Interrupt /\ ~MonStep /\ vars' # vars
    BY <2>3 DEF Interrupt, MonStep, Probe, Probed, MonQuits, monKeeps, threadVars, vars
  <2>a. \A t \in FlapThreads : ~FlapChecks(t) /\ ~FlapRecords(t)
    BY <2>3 DEF FlapChecks, FlapRecords, flapKeeps, threadVars
  <2>6. PICK c \in Batches : SchedStep(c) \/ WorkerTakes(c) \/ WorkerDone(c) \/ WorkerQuits(c)
    BY <1>1, <2>4, <2>5, <2>a DEF Next
  <2>7. CASE o \in Plain
    <3>1. op[o] = "handler"
      BY <1>1, <2>7 DEF Records
    <3>2. sched[b] = "busy"
      BY <1>1, <3>1 DEF IInv, HandlerInv
    <3>3. Alive(sched["main"]) /\ b = "main"
      BY <1>1, <2>7, <3>2, Classes DEF IInv, TypeOK, MainType, Alive
    <3>4. <<"sched", "main">> \in gaveUp \/ escaped \/ "main" \notin held
      BY <1>1, <2>1, <3>3 DEF IInv, OutliveInv
    <3>. QED
      BY <2>7, <3>3, <3>4 DEF MayOutlive
  <2>8. CASE o \notin Plain
    <3>1. op[o] = "running"
      BY <1>1, <2>8 DEF Records
    <3>2. c = b /\ worker[b] = "busy"
      BY <2>2, <2>3, <2>6, <3>1 DEF SchedStep, SchedCheck, SchedWakes, SchedFires, SchedHandled,
         SchedDies, WorkerTakes, WorkerDone, WorkerQuits, Heap, InHandler, OpsOf
    <3>3. Alive(worker[b])
      BY <3>2 DEF Alive
    <3>4. <<"worker", b>> \in gaveUp \/ (b = "main" /\ (escaped \/ "main" \notin held))
      BY <1>1, <2>1, <2>2, <3>3 DEF IInv, OutliveInv, Batches
    <3>. QED
      BY <2>8, <3>4 DEF MayOutlive
  <2>. QED
    BY <2>7, <2>8
<1>2. ASSUME IInv, FlapInv, [Next]_vars, written, NEW t \in FlapThreads, flaps'[t] # flaps[t]
      PROVE  MayFlapOn(t)
  <2>1. pc = "done"
    BY <1>2 DEF IInv, ControlInv
  <2>2. flaps' # flaps
    BY <1>2
  <2>3. ~MainStep /\ ~UserQuits
    BY <2>1 DEF MainStep, UserQuits, StartApps, Phases, StartFlaps, HoldFlap, Build,
       StartWorker, StartSched, Assign, Submit, WaitSched, WaitWorker, StopBatch, BatchEnd,
       StartMonitor, Idle, Sweep, StopMonitor, StopMain, StopFlap, Teardown, WriteResults
  <2>4. PICK u \in FlapThreads : FlapRecords(u)
    BY <1>2, <2>2, <2>3 DEF Next, Interrupt, MonStep, Probe, Probed, MonQuits, monKeeps,
       SchedStep, SchedCheck, SchedWakes, SchedFires, SchedHandled, SchedDies, schedKeeps,
       WorkerTakes, WorkerDone, WorkerQuits, workerKeeps, FlapChecks, vars
  <2>5. u = t /\ t \in flapping
    BY <1>2, <2>4 DEF FlapRecords, FlapInv, FlapType
  <2>. QED
    BY <1>2, <2>1, <2>5 DEF FlapInv, MayFlapOn
<1>3. IInv /\ FlapInv /\ [Next]_vars =>
        [written =>
           /\ \A o \in Ops : Records(o) =>
                MayOutlive(IF o \in Plain THEN "sched" ELSE "worker", BatchOf(o))
           /\ \A t \in FlapThreads : flaps'[t] # flaps[t] => MayFlapOn(t)]_vars
  BY <1>1, <1>2
<1>. QED
  BY <1>3, InvariantHolds, PTL DEF Spec, NoLateRecord

-----------------------------------------------------------------------------
(* Network: sums over the hosts. *)

\* The order of the naturals as a relation.
LessNat == {s \in Nat \X Nat : s[1] < s[2]}

\* Every set of naturals that is not empty has a least member.
LEMMA LeastNatural ==
  ASSUME NEW T, T \subseteq Nat, T # {}
  PROVE  \E x \in T : \A y \in T : x <= y
<1>1. IsWellFoundedOn(LessNat, Nat)
  BY NatLessThanWellFounded DEF OpToRel, LessNat
<1>2. PICK x \in T : \A y \in T : ~(<<y, x>> \in LessNat)
  BY <1>1, WFMin
<1>3. \A y, z \in Nat : y < z => <<y, z>> \in LessNat
  BY DEF LessNat
<1>4. ASSUME NEW y \in T PROVE x <= y
  <2>1. x \in Nat /\ y \in Nat /\ ~(y < x)
    BY <1>2, <1>3
  <2>. QED
    BY <2>1
<1>. QED
  BY <1>4

\* The partial sums of f: a recursive function that exists for every length.
Partial(s, f, m) == IF m = 0 THEN 0 ELSE s[m - 1] + f[m - 1]

LEMMA PartialExists ==
  ASSUME NEW f, NEW n \in Nat
  PROVE  \E s : s = [m \in 0..n |-> Partial(s, f, m)]
<1>. DEFINE E(l) == \E s : s = [m \in 0..l |-> Partial(s, f, m)]
            T == {l \in 0..n : ~E(l)}
<1>1. ASSUME T # {} PROVE FALSE
  <2>0. T \subseteq Nat
    OBVIOUS
  <2>1. PICK l \in T : \A y \in T : l <= y
    <3>. HIDE DEF T
    <3>. QED
      BY <1>1, <2>0, LeastNatural
  <2>2. l # 0
    <3>1. PICK s : s = [m \in 0..0 |-> 0]
      OBVIOUS
    <3>2. s = [m \in 0..0 |-> Partial(s, f, m)]
      BY <3>1 DEF Partial
    <3>. QED
      BY <2>1, <3>2
  <2>3. l - 1 \in 0..n /\ l - 1 \notin T
    BY <2>1, <2>2
  <2>4. PICK s : s = [m \in 0..(l - 1) |-> Partial(s, f, m)]
    BY <2>3
  <2>5. PICK g : g = [m \in 0..l |-> IF m < l THEN s[m] ELSE Partial(s, f, l)]
    OBVIOUS
  <2>6. ASSUME NEW m \in 0..l PROVE g[m] = Partial(g, f, m)
    <3>1. m = 0 \/ g[m - 1] = s[m - 1]
      BY <2>1, <2>5
    <3>2. Partial(g, f, m) = Partial(s, f, m)
      BY <3>1 DEF Partial
    <3>3. CASE m < l
      <4>1. m \in 0..(l - 1)
        BY <2>1, <3>3
      <4>. QED
        BY <2>4, <2>5, <3>2, <3>3, <4>1
    <3>4. CASE m = l
      BY <2>1, <2>5, <3>2, <3>4
    <3>. QED
      BY <2>1, <3>3, <3>4
  <2>7. g = [m \in 0..l |-> Partial(g, f, m)]
    BY <2>5, <2>6
  <2>. QED
    BY <2>1, <2>7
<1>. QED
  BY <1>1

\* Sum is the last of its partial sums, and they are integers.
LEMMA SumUnfolds ==
  ASSUME NEW n \in Nat, NEW f \in [0..(n - 1) -> Int]
  PROVE  \E s \in [0..n -> Int] : /\ Sum(n, f) = s[n] /\ s[0] = 0
                                  /\ \A m \in 1..n : s[m] = s[m - 1] + f[m - 1]
<1>. DEFINE F(s) == s = [m \in 0..n |-> IF m = 0 THEN 0 ELSE s[m - 1] + f[m - 1]]
<1>1. PICK s : F(s) /\ Sum(n, f) = s[n]
  <2>0. PICK s : s = [m \in 0..n |-> Partial(s, f, m)]
    BY PartialExists
  <2>1. F(s)
    BY <2>0 DEF Partial
  <2>2. \E g : F(g) /\ Sum(n, f) = g[n]
    BY <2>1 DEF Sum
  <2>. QED
    BY <2>2
<1>2. s[0] = 0 /\ \A m \in 1..n : s[m] = s[m - 1] + f[m - 1]
  BY <1>1
<1>. DEFINE T == {m \in 0..n : s[m] \notin Int}
<1>3. ASSUME T # {} PROVE FALSE
  <2>0. T \subseteq Nat
    OBVIOUS
  <2>1. PICK m \in T : \A y \in T : m <= y
    <3>. HIDE DEF T
    <3>. QED
      BY <1>3, <2>0, LeastNatural
  <2>2. m # 0
    BY <1>2, <2>1
  <2>3. m - 1 \in 0..n /\ s[m - 1] \in Int /\ m - 1 \in 0..(n - 1)
    BY <2>1, <2>2
  <2>4. f[m - 1] \in Int
    BY <2>3
  <2>. QED
    BY <1>2, <2>1, <2>2, <2>3, <2>4
<1>4. s \in [0..n -> Int]
  BY <1>1, <1>3
<1>. QED
  BY <1>1, <1>2, <1>4

\* A sum is an integer; sums add up, and keep an order that holds everywhere.
LEMMA SumInt ==
  ASSUME NEW n \in Nat, NEW f \in [0..(n - 1) -> Int]
  PROVE  Sum(n, f) \in Int
<1>1. PICK s \in [0..n -> Int] : Sum(n, f) = s[n]
  BY SumUnfolds
<1>. QED
  BY <1>1

LEMMA SumAdds ==
  ASSUME NEW n \in Nat, NEW f \in [0..(n - 1) -> Int], NEW g \in [0..(n - 1) -> Int],
         NEW h \in [0..(n - 1) -> Int], \A x \in 0..(n - 1) : h[x] = f[x] + g[x]
  PROVE  Sum(n, h) = Sum(n, f) + Sum(n, g)
<1>1. PICK s \in [0..n -> Int] : /\ Sum(n, f) = s[n] /\ s[0] = 0
                                 /\ \A m \in 1..n : s[m] = s[m - 1] + f[m - 1]
  BY SumUnfolds
<1>2. PICK t \in [0..n -> Int] : /\ Sum(n, g) = t[n] /\ t[0] = 0
                                 /\ \A m \in 1..n : t[m] = t[m - 1] + g[m - 1]
  BY SumUnfolds
<1>3. PICK u \in [0..n -> Int] : /\ Sum(n, h) = u[n] /\ u[0] = 0
                                 /\ \A m \in 1..n : u[m] = u[m - 1] + h[m - 1]
  BY SumUnfolds
<1>. DEFINE T == {m \in 0..n : u[m] # s[m] + t[m]}
<1>4. ASSUME T # {} PROVE FALSE
  <2>0. T \subseteq Nat
    OBVIOUS
  <2>1. PICK m \in T : \A y \in T : m <= y
    <3>. HIDE DEF T
    <3>. QED
      BY <1>4, <2>0, LeastNatural
  <2>2. m # 0
    BY <1>1, <1>2, <1>3, <2>1
  <2>3. m - 1 \in 0..n /\ u[m - 1] = s[m - 1] + t[m - 1] /\ m - 1 \in 0..(n - 1) /\ m \in 1..n
    BY <2>1, <2>2
  <2>4. /\ f[m - 1] \in Int /\ g[m - 1] \in Int /\ h[m - 1] = f[m - 1] + g[m - 1]
        /\ s[m - 1] \in Int /\ t[m - 1] \in Int
    BY <2>3
  <2>5. u[m] = s[m] + t[m]
    BY <1>1, <1>2, <1>3, <2>3, <2>4
  <2>. QED
    BY <2>1, <2>5
<1>5. n \in 0..n
  OBVIOUS
<1>6. n \notin T
  <2>. HIDE DEF T
  <2>. QED
    BY <1>4
<1>. QED
  BY <1>1, <1>2, <1>3, <1>5, <1>6

LEMMA SumKeepsOrder ==
  ASSUME NEW n \in Nat, NEW f \in [0..(n - 1) -> Int], NEW g \in [0..(n - 1) -> Int],
         \A x \in 0..(n - 1) : f[x] <= g[x]
  PROVE  Sum(n, f) <= Sum(n, g)
<1>1. PICK s \in [0..n -> Int] : /\ Sum(n, f) = s[n] /\ s[0] = 0
                                 /\ \A m \in 1..n : s[m] = s[m - 1] + f[m - 1]
  BY SumUnfolds
<1>2. PICK t \in [0..n -> Int] : /\ Sum(n, g) = t[n] /\ t[0] = 0
                                 /\ \A m \in 1..n : t[m] = t[m - 1] + g[m - 1]
  BY SumUnfolds
<1>. DEFINE T == {m \in 0..n : ~(s[m] <= t[m])}
<1>4. ASSUME T # {} PROVE FALSE
  <2>0. T \subseteq Nat
    OBVIOUS
  <2>1. PICK m \in T : \A y \in T : m <= y
    <3>. HIDE DEF T
    <3>. QED
      BY <1>4, <2>0, LeastNatural
  <2>2. m # 0
    BY <1>1, <1>2, <2>1
  <2>3. m - 1 \in 0..n /\ s[m - 1] <= t[m - 1] /\ m - 1 \in 0..(n - 1) /\ m \in 1..n
    BY <2>1, <2>2
  <2>4. /\ f[m - 1] \in Int /\ g[m - 1] \in Int /\ f[m - 1] <= g[m - 1]
        /\ s[m - 1] \in Int /\ t[m - 1] \in Int
    BY <2>3
  <2>5. s[m] <= t[m]
    BY <1>1, <1>2, <2>3, <2>4
  <2>. QED
    BY <2>1, <2>5
<1>5. n \in 0..n
  OBVIOUS
<1>6. n \notin T
  <2>. HIDE DEF T
  <2>. QED
    BY <1>4
<1>. QED
  BY <1>1, <1>2, <1>5, <1>6

\* n times one, and a single one.
LEMMA SumOfOnes ==
  ASSUME NEW n \in Nat
  PROVE  Sum(n, [x \in 0..(n - 1) |-> 1]) = n
<1>. DEFINE f == [x \in 0..(n - 1) |-> 1]
<1>0. f \in [0..(n - 1) -> Int] /\ \A x \in 0..(n - 1) : f[x] = 1
  OBVIOUS
<1>. HIDE DEF f
<1>1. PICK s \in [0..n -> Int] : /\ Sum(n, f) = s[n] /\ s[0] = 0
                                 /\ \A m \in 1..n : s[m] = s[m - 1] + f[m - 1]
  BY <1>0, SumUnfolds
<1>. DEFINE T == {m \in 0..n : s[m] # m}
<1>4. ASSUME T # {} PROVE FALSE
  <2>0. T \subseteq Nat
    OBVIOUS
  <2>1. PICK m \in T : \A y \in T : m <= y
    <3>. HIDE DEF T
    <3>. QED
      BY <1>4, <2>0, LeastNatural
  <2>2. m # 0
    BY <1>1, <2>1
  <2>3. m - 1 \in 0..n /\ s[m - 1] = m - 1 /\ m - 1 \in 0..(n - 1) /\ m \in 1..n
    BY <2>1, <2>2
  <2>. QED
    BY <1>0, <1>1, <2>1, <2>3
<1>. QED
  BY <1>1, <1>4 DEF f

One(n, a) == [x \in 0..(n - 1) |-> IF x = a THEN 1 ELSE 0]
LEMMA SumOfOne ==
  ASSUME NEW n \in Nat, NEW a \in 0..(n - 1)
  PROVE  One(n, a) \in [0..(n - 1) -> Int] /\ Sum(n, One(n, a)) = 1
<1>0. One(n, a) \in [0..(n - 1) -> Int] /\ \A x \in 0..(n - 1) : One(n, a)[x] = IF x = a THEN 1 ELSE 0
  BY DEF One
<1>1. PICK s \in [0..n -> Int] : /\ Sum(n, One(n, a)) = s[n] /\ s[0] = 0
                                 /\ \A m \in 1..n : s[m] = s[m - 1] + One(n, a)[m - 1]
  BY <1>0, SumUnfolds
<1>. DEFINE T == {m \in 0..n : s[m] # IF m <= a THEN 0 ELSE 1}
<1>4. ASSUME T # {} PROVE FALSE
  <2>0. T \subseteq Nat
    OBVIOUS
  <2>1. PICK m \in T : \A y \in T : m <= y
    <3>. HIDE DEF T
    <3>. QED
      BY <1>4, <2>0, LeastNatural
  <2>2. m # 0
    BY <1>1, <2>1
  <2>3. /\ m - 1 \in 0..n /\ m - 1 \in 0..(n - 1) /\ m \in 1..n
        /\ s[m - 1] = IF m - 1 <= a THEN 0 ELSE 1
    BY <2>1, <2>2
  <2>. QED
    BY SMTT(30), <1>0, <1>1, <2>1, <2>3
<1>5. s[n] = 1
  BY <1>4
<1>. QED
  BY <1>0, <1>1, <1>5

\* Sums of sums.
Plus(n, f, g) == [x \in 0..(n - 1) |-> f[x] + g[x]]
LEMMA SumOfPlus ==
  ASSUME NEW n \in Nat, NEW f \in [0..(n - 1) -> Int], NEW g \in [0..(n - 1) -> Int]
  PROVE  /\ Plus(n, f, g) \in [0..(n - 1) -> Int]
         /\ \A x \in 0..(n - 1) : Plus(n, f, g)[x] = f[x] + g[x]
         /\ Sum(n, Plus(n, f, g)) = Sum(n, f) + Sum(n, g)
<1>1. /\ Plus(n, f, g) \in [0..(n - 1) -> Int]
      /\ \A x \in 0..(n - 1) : Plus(n, f, g)[x] = f[x] + g[x]
  BY DEF Plus
<1>. QED
  BY <1>1, SumAdds

-----------------------------------------------------------------------------
(* Network: what the topologies have built, and the steps that build them. *)

\* Some switch has hosts on both sides.
Crossed(w, S) == \E s \in 1..Len(w) : w[s] \cap S # {} /\ w[s] \ S # {}

\* Every division of the hosts is crossed.
Connects(w, n) ==
  \A S \in SUBSET (0..(n - 1)) : S \notin {{}, 0..(n - 1)} => Crossed(w, S)

\* The hosts that are not in the spanning tree yet, as ones.
Waiting == [h \in Hosts |-> IF \E i \in 1..joined : order[i] = h THEN 0 ELSE 1]

\* The spanning tree grows along the order: whatever divides its hosts is crossed,
\* the others have their whole degree, and the budget pays two for every host.
TreeInv ==
  /\ order \in Orders(drawn) /\ joined \in 1..plan.hosts
  /\ \A i \in (joined + 1)..plan.hosts : budget[order[i]] = drawn[order[i]]
  /\ \A S \in SUBSET Hosts :
       (\E i, k \in 1..joined : order[i] \in S /\ order[k] \notin S) => Crossed(sw, S)
  /\ Sum(plan.hosts, drawn) = Sum(plan.hosts, budget) + 2 * (joined - 1)
  /\ Sum(plan.hosts, Waiting) = plan.hosts - joined

AfterLimit == {"extra", "emit", "place", "fib", "running", "done"}
AfterTree == {"spread", "limit"} \cup AfterLimit
AfterDraw == {"tree"} \cup AfterTree

\* A random mesh: no switch is over its capacity, and a host's interfaces are paid
\* for by its degree.
MeshInv ==
  /\ plan.degMin >= 1 /\ plan.nodePerSwitch # 1
  /\ drawn \in [Hosts -> plan.degMin..plan.degMax]
  /\ budget \in [Hosts -> Nat] /\ \A h \in Hosts : budget[h] <= drawn[h]
  /\ sw \in Seq(SUBSET Hosts)
  /\ \A s \in 1..Len(sw) : sw[s] # {} /\ Cardinality(sw[s]) <= Capacity
  /\ (plan.useAll /\ stage \in AfterLimit) \/ \A h \in Hosts : Degree(h) <= drawn[h] - budget[h]
  /\ stage \in AfterLimit /\ plan.limit # 0 => Len(sw) <= plan.limit

\* What MeshTopo.build, LineTopo and ExplicitLinksTopo have made of the parameters.
BuildInv ==
  /\ plan \in Plans /\ PlanOK(plan)
  /\ stage \in {"roles", "draw", "failed"} \cup AfterDraw
  /\ stage # "failed" => why = "none"
  /\ why = "budget" => Sum(plan.hosts, drawn) < 2 * (plan.hosts - 1)
  /\ stage \in {"draw", "tree", "spread", "limit", "extra"} => Mesh
  /\ stage \in AfterDraw /\ Mesh => MeshInv
  /\ stage = "tree" => TreeInv
  /\ stage \in AfterTree => Connects(sw, plan.hosts)
  /\ stage \in AfterTree /\ ~Mesh =>
       sw = IF plan.scenario = "linear" THEN LineSwitches ELSE plan.links

\* What every plan satisfies.
LEMMA PlanFacts ==
  ASSUME NEW p \in Plans, PlanOK(p)
  PROVE  /\ p.hosts \in Nat /\ p.hosts >= 2 /\ p.nodePerSwitch \in Nat /\ p.limit \in Nat
         /\ p.degMin \in Int /\ p.degMax \in Int
         /\ p.explicit \in BOOLEAN /\ p.useAll \in BOOLEAN
         /\ p.scenario # "linear" => p.hosts >= 3
         /\ p.explicit => LinksAccepted(p) /\ p.scenario = "disaster"
BY PlansAssumption DEF PlanOK

\* A finite set and one more member.
LEMMA OneMore ==
  ASSUME NEW A, IsFiniteSet(A), NEW t, NEW B, B \subseteq A \cup {t}
  PROVE  /\ Cardinality(A) \in Nat /\ Cardinality(B) \in Nat
         /\ Cardinality(B) <= Cardinality(A) + 1
         /\ B \subseteq A => Cardinality(B) <= Cardinality(A)
<1>1. IsFiniteSet(A \cup {t}) /\ Cardinality(A) \in Nat
      /\ (Cardinality(A \cup {t}) = Cardinality(A) \/ Cardinality(A \cup {t}) = Cardinality(A) + 1)
  BY FS_AddElement, FS_CardinalityType
<1>2. IsFiniteSet(B) /\ Cardinality(B) <= Cardinality(A \cup {t})
  BY <1>1, FS_Subset
<1>3. Cardinality(B) \in Nat
  BY <1>2, FS_CardinalityType
<1>4. B \subseteq A => Cardinality(B) <= Cardinality(A)
  BY FS_Subset
<1>. QED
  BY <1>1, <1>2, <1>3, <1>4

\* The hosts, and every set of them, are finite.
LEMMA HostsFinite ==
  ASSUME plan.hosts \in Nat
  PROVE  /\ IsFiniteSet(Hosts) /\ Cardinality(Hosts) = plan.hosts
         /\ \A S \in SUBSET Hosts : IsFiniteSet(S) /\ Cardinality(S) \in Nat
<1>0. PICK n \in Int : n = plan.hosts - 1
  OBVIOUS
<1>1. IsFiniteSet(0..n) /\ Cardinality(0..n) = IF 0 > n THEN 0 ELSE n - 0 + 1
  BY FS_Interval
<1>2. IsFiniteSet(Hosts) /\ Cardinality(Hosts) = plan.hosts
  BY <1>0, <1>1 DEF Hosts
<1>. QED
  BY <1>2, FS_Subset, FS_CardinalityType

\* Adding hosts X to one switch, which may be new: whatever was crossed stays
\* crossed, and only the hosts of X get an interface more.
LEMMA SwitchesGrow ==
  ASSUME plan' = plan, sw \in Seq(SUBSET Hosts), sw' \in Seq(SUBSET Hosts),
         NEW t \in 1..Len(sw'), NEW X,
         Len(sw) <= Len(sw'), \A s \in 1..Len(sw') : s # t => s <= Len(sw) /\ sw'[s] = sw[s],
         sw'[t] = IF t <= Len(sw) THEN sw[t] \cup X ELSE X
  PROVE  /\ \A S : Crossed(sw, S) => Crossed(sw', S)
         /\ \A h \in Hosts : /\ Degree(h) \in Nat /\ Degree(h)' \in Nat
                             /\ Degree(h)' <= Degree(h) + 1
                             /\ h \notin X => Degree(h)' <= Degree(h)
<1>1. /\ DOMAIN sw = 1..Len(sw) /\ DOMAIN sw' = 1..Len(sw')
      /\ Len(sw) \in Nat /\ Len(sw') \in Nat
  OBVIOUS
<1>2. ASSUME NEW S, Crossed(sw, S) PROVE Crossed(sw', S)
  <2>1. PICK s \in 1..Len(sw) : sw[s] \cap S # {} /\ sw[s] \ S # {}
    BY <1>2 DEF Crossed
  <2>2. s \in 1..Len(sw') /\ sw[s] \subseteq sw'[s]
    BY <1>1
  <2>. QED
    BY <2>1, <2>2 DEF Crossed
<1>3. ASSUME NEW h \in Hosts
      PROVE  /\ Degree(h) \in Nat /\ Degree(h)' \in Nat /\ Degree(h)' <= Degree(h) + 1
             /\ h \notin X => Degree(h)' <= Degree(h)
  <2>. DEFINE A == {s \in DOMAIN sw : h \in sw[s]}
              B == {s \in DOMAIN sw' : h \in sw'[s]}
  <2>1. IsFiniteSet(A)
    <3>1. IsFiniteSet(1..Len(sw)) /\ A \subseteq 1..Len(sw)
      BY <1>1, FS_Interval
    <3>. QED
      BY <3>1, FS_Subset
  <2>2. B \subseteq A \cup {t}
    BY <1>1
  <2>3. h \notin X => B \subseteq A
    BY <1>1
  <2>4. Degree(h) = Cardinality(A) /\ Degree(h)' = Cardinality(B)
    BY DEF Degree
  <2>. HIDE DEF A, B
  <2>. QED
    BY <2>1, <2>2, <2>3, <2>4, OneMore
<1>. QED
  BY <1>2, <1>3

\* sorted(connected, key=degree, reverse=True)[0] is one of the connected hosts, and
\* none has more left.
LEMMA PartnerLeads ==
  ASSUME NEW n \in Nat, plan.hosts = n, plan.degMin \in Int, plan.degMax \in Int, MeshInv, TreeInv
  PROVE  \E i \in 1..joined :
           /\ Partner = order[i] /\ order[i] \in Hosts
           /\ \A k \in 1..joined : budget[order[k]] <= budget[order[i]]
<1>0. /\ joined \in 1..n /\ order \in [1..n -> Hosts]
      /\ \A h \in Hosts : budget[h] \in Nat
  BY DEF TreeInv, MeshInv, Orders
<1>1. PICK b : b = [i \in 1..joined |-> budget[order[i]]]
  OBVIOUS
<1>2. b \in [1..joined -> Nat]
  BY <1>0, <1>1
<1>3. PICK top \in Nat : \A i \in 1..joined : b[i] <= top
  <2>1. plan.degMax \in Int /\ \A h \in Hosts : budget[h] <= plan.degMax
    <3>1. drawn \in [Hosts -> plan.degMin..plan.degMax] /\ plan.degMin >= 1
          /\ \A h \in Hosts : budget[h] <= drawn[h]
      BY DEF MeshInv
    <3>. QED
      BY <1>0, <3>1
  <2>2. PICK i \in 1..joined : i = 1
    BY <1>0
  <2>3. plan.degMax \in Nat
    <3>1. budget[order[i]] \in Nat /\ budget[order[i]] <= plan.degMax
      BY <1>0, <2>1
    <3>. QED
      BY <2>1, <3>1
  <2>. QED
    BY <1>0, <1>1, <2>1, <2>3
<1>. DEFINE T == {top - b[i] : i \in 1..joined}
<1>4. PICK x \in T : \A y \in T : x <= y
  <2>1. T \subseteq Nat
    BY <1>2, <1>3
  <2>2. top - b[1] \in T
    BY <1>0
  <2>. HIDE DEF T
  <2>. QED
    BY <2>1, <2>2, LeastNatural
<1>. DEFINE U == {i \in 1..joined : top - b[i] = x}
<1>5. PICK i \in U : \A k \in U : i <= k
  <2>1. U \subseteq Nat
    OBVIOUS
  <2>2. U # {}
    BY <1>4
  <2>. HIDE DEF U
  <2>. QED
    BY <2>1, <2>2, LeastNatural
<1>6. ASSUME NEW k \in 1..joined PROVE b[k] < b[i] \/ (b[k] = b[i] /\ i <= k)
  <2>1. top - b[k] \in T /\ x <= top - b[k] /\ x = top - b[i]
    BY <1>4, <1>5
  <2>2. b[k] \in Nat /\ b[i] \in Nat
    BY <1>2, <1>5
  <2>3. b[k] = b[i] => k \in U
    BY <2>1
  <2>. QED
    BY <1>5, <2>1, <2>2, <2>3
<1>. DEFINE better(j, k) == \/ budget[order[j]] > budget[order[k]]
                            \/ budget[order[j]] = budget[order[k]] /\ j < k
<1>7. i \in 1..joined /\ \A k \in 1..joined \ {i} : better(i, k)
  BY <1>1, <1>2, <1>5, <1>6
<1>8. PICK j \in 1..joined : Partner = order[j] /\ \A k \in 1..joined \ {j} : better(j, k)
  BY <1>7 DEF Partner
<1>9. \A k \in 1..joined : budget[order[k]] <= budget[order[j]]
  BY <1>0, <1>8
<1>. QED
  BY <1>0, <1>8, <1>9

\* The order names every host.
LEMMA OrderCovers ==
  ASSUME NEW n \in Nat, plan.hosts = n, order \in Orders(drawn)
  PROVE  \A h \in Hosts : \E i \in 1..n : order[i] = h
<1>1. order \in [1..n -> Hosts] /\ \A i, k \in 1..n : order[i] = order[k] => i = k
  BY DEF Orders
<1>2. order \in Injection(1..n, Hosts)
  BY <1>1 DEF Injection, IsInjective
<1>3. IsFiniteSet(Hosts) /\ Cardinality(Hosts) = n
  BY HostsFinite
<1>4. Cardinality(1..n) = n
  BY FS_Interval
<1>5. order \in Surjection(1..n, Hosts)
  BY <1>2, <1>3, <1>4, FS_Injection
<1>. QED
  BY <1>5 DEF Surjection

\* Counting degrees.  D are the degrees drawn, B what is left of them when the first j
\* of the order o are in the tree and have used theirs up, and W has a one for each of
\* the others.
TreeCount(n, j, o, D, B, W) ==
  /\ \A h \in 0..(n - 1) : \E i \in 1..n : o[i] = h
  /\ \A i, k \in 1..n : i < k => D[o[i]] >= D[o[k]]
  /\ \A i \in 1..j : B[o[i]] = 0 /\ W[o[i]] = 0
  /\ \A h \in 0..(n - 1) : (\A i \in 1..j : o[i] # h) => W[h] = 1
  /\ \A i \in (j + 1)..n : B[o[i]] = D[o[i]]
  /\ \A h \in 0..(n - 1) : B[h] <= D[h]

TreePays(n, j, D, B, W) ==
  Sum(n, D) = Sum(n, B) + 2 * (j - 1) /\ Sum(n, W) = n - j

\* Either the others have one each, or those before them have at least two, which is
\* more than the tree has used.
LEMMA DegreesCounted ==
  ASSUME NEW n \in Nat, NEW j \in Nat, 1 <= j, j < n, NEW o \in [1..n -> 0..(n - 1)],
         NEW D \in [0..(n - 1) -> Int], NEW B \in [0..(n - 1) -> Int],
         NEW W \in [0..(n - 1) -> Int], TreeCount(n, j, o, D, B, W),
         TreePays(n, j, D, B, W)
  PROVE  Sum(n, D) < 2 * (n - 1)
<1>1. Sum(n, D) \in Int /\ Sum(n, B) \in Int /\ Sum(n, W) \in Int
  BY SumInt
<1>2. CASE \A i \in (j + 1)..n : D[o[i]] <= 1
  <2>1. ASSUME NEW h \in 0..(n - 1) PROVE B[h] <= W[h]
    <3>1. PICK i \in 1..n : o[i] = h
      BY DEF TreeCount
    <3>2. CASE \E k \in 1..j : o[k] = h
      <4>1. B[h] = 0 /\ W[h] = 0
        BY ZenonT(40), <3>1, <3>2 DEF TreeCount
      <4>. QED
        BY <4>1
    <3>3. CASE \A k \in 1..j : o[k] # h
      <4>1. i \in (j + 1)..n
        BY <3>1, <3>3
      <4>2. W[h] = 1 /\ B[h] = D[h] /\ D[h] <= 1
        BY <1>2, <3>1, <3>3, <4>1 DEF TreeCount
      <4>. QED
        BY <4>2
    <3>. QED
      BY <3>1, <3>2, <3>3
  <2>2. Sum(n, B) <= Sum(n, W)
    BY <2>1, SumKeepsOrder
  <2>. QED
    BY SMTT(30), <1>1, <2>2 DEF TreePays
<1>3. CASE \E i \in (j + 1)..n : ~(D[o[i]] <= 1)
  <2>0. PICK i \in (j + 1)..n : ~(D[o[i]] <= 1)
    BY <1>3
  <2>1. i \in 1..n /\ o[i] \in 0..(n - 1) /\ D[o[i]] \in Int /\ D[o[i]] >= 2
    <3>1. i \in 1..n
      OBVIOUS
    <3>2. o[i] \in 0..(n - 1) /\ D[o[i]] \in Int
      BY <3>1
    <3>. QED
      BY <2>0, <3>1, <3>2
  <2>. DEFINE E == Plus(n, W, W)
              F == Plus(n, D, E)
              one == [h \in 0..(n - 1) |-> 1]
              two == Plus(n, one, one)
              G == Plus(n, B, two)
  <2>2. /\ E \in [0..(n - 1) -> Int] /\ \A h \in 0..(n - 1) : E[h] = W[h] + W[h]
        /\ Sum(n, E) = Sum(n, W) + Sum(n, W)
    BY SumOfPlus
  <2>3. one \in [0..(n - 1) -> Int] /\ Sum(n, one) = n /\ \A h \in 0..(n - 1) : one[h] = 1
    BY SumOfOnes
  <2>. HIDE DEF E, one
  <2>4. /\ F \in [0..(n - 1) -> Int] /\ \A h \in 0..(n - 1) : F[h] = D[h] + E[h]
        /\ Sum(n, F) = Sum(n, D) + Sum(n, E)
    BY <2>2, SumOfPlus
  <2>5. /\ two \in [0..(n - 1) -> Int] /\ \A h \in 0..(n - 1) : two[h] = one[h] + one[h]
        /\ Sum(n, two) = Sum(n, one) + Sum(n, one)
    BY <2>3, SumOfPlus
  <2>. HIDE DEF F, two
  <2>6. /\ G \in [0..(n - 1) -> Int] /\ \A h \in 0..(n - 1) : G[h] = B[h] + two[h]
        /\ Sum(n, G) = Sum(n, B) + Sum(n, two)
    BY <2>5, SumOfPlus
  <2>. HIDE DEF G
  <2>8. ASSUME NEW h \in 0..(n - 1) PROVE G[h] <= F[h]
    <3>a. B[h] \in Int /\ D[h] \in Int /\ W[h] \in Int /\ B[h] <= D[h]
      BY DEF TreeCount
    <3>b. one[h] = 1 /\ two[h] = one[h] + one[h] /\ E[h] = W[h] + W[h]
      BY <2>2, <2>3, <2>5
    <3>0. /\ G[h] = B[h] + 2 /\ F[h] = D[h] + (W[h] + W[h])
          /\ B[h] \in Int /\ D[h] \in Int /\ W[h] \in Int /\ B[h] <= D[h]
      BY <2>4, <2>6, <3>a, <3>b, 1 + 1 = 2
    <3>1. CASE \E k \in 1..j : o[k] = h
      <4>1. PICK k \in 1..j : o[k] = h
        BY <3>1
      <4>2. k \in 1..n /\ k < i
        <5>1. k \in Nat /\ 1 <= k /\ k <= j /\ j \in Nat /\ j <= n
          BY <4>1
        <5>2. i \in Nat /\ j + 1 <= i
          BY <2>0
        <5>3. k <= n
          BY <5>1
        <5>4. k < i
          BY <5>1, <5>2
        <5>. QED
          BY <5>1, <5>3, <5>4
      <4>3. D[h] >= D[o[i]]
        BY <2>1, <4>1, <4>2 DEF TreeCount
      <4>4. B[h] = 0 /\ W[h] = 0
        BY <4>1 DEF TreeCount
      <4>. QED
        BY <2>1, <3>0, <4>3, <4>4
    <3>2. CASE \A k \in 1..j : o[k] # h
      <4>1. W[h] = 1
        BY <3>2 DEF TreeCount
      <4>. QED
        BY <3>0, <4>1
    <3>. QED
      BY <3>1, <3>2
  <2>9. Sum(n, G) <= Sum(n, F)
    BY <2>4, <2>6, <2>8, SumKeepsOrder
  <2>10. PICK d \in Int, b \in Int : d = Sum(n, D) /\ b = Sum(n, B)
    BY <1>1
  <2>11. d = b + 2 * (j - 1)
    BY <2>10 DEF TreePays
  <2>12. Sum(n, F) = d + ((n - j) + (n - j)) /\ Sum(n, G) = b + (n + n)
    BY <2>2, <2>3, <2>4, <2>5, <2>6, <2>10 DEF TreePays
  <2>13. b + (n + n) <= d + ((n - j) + (n - j))
    BY <2>9, <2>12
  <2>14. FALSE
    BY <2>11, <2>13
  <2>. QED
    BY <2>14
<1>. QED
  BY <1>2, <1>3

\* The tree ends early only when the degrees drawn cannot make one.
LEMMA TreeNeedsDegrees ==
  ASSUME NEW n \in Nat, plan.hosts = n, plan.degMin \in Int, plan.degMax \in Int,
         MeshInv, TreeInv, joined < n, \A k \in 1..joined : budget[order[k]] = 0
  PROVE  Sum(n, drawn) < 2 * (n - 1)
<1>0. /\ joined \in 1..n /\ Hosts = 0..(n - 1) /\ order \in [1..n -> Hosts]
      /\ \A i, k \in 1..n : i < k => drawn[order[i]] >= drawn[order[k]]
      /\ \A i \in (joined + 1)..n : budget[order[i]] = drawn[order[i]]
      /\ Sum(n, drawn) = Sum(n, budget) + 2 * (joined - 1)
      /\ Sum(n, Waiting) = n - joined
  BY DEF TreeInv, Orders, Hosts
<1>1. \A h \in Hosts : \E i \in 1..n : order[i] = h
  BY OrderCovers DEF TreeInv
<1>2. /\ drawn \in [Hosts -> plan.degMin..plan.degMax] /\ budget \in [Hosts -> Nat]
      /\ \A h \in Hosts : budget[h] <= drawn[h]
  BY DEF MeshInv
<1>3. \A h \in Hosts : drawn[h] \in Int /\ budget[h] \in Int
  BY <1>2
<1>4. drawn \in [0..(n - 1) -> Int] /\ budget \in [0..(n - 1) -> Int]
  BY <1>0, <1>2, <1>3
<1>5. Waiting \in [0..(n - 1) -> Int]
  BY <1>0 DEF Waiting
<1>6. \A i \in 1..joined : Waiting[order[i]] = 0
  BY <1>0 DEF Waiting
<1>7. \A h \in 0..(n - 1) : (\A i \in 1..joined : order[i] # h) => Waiting[h] = 1
  BY <1>0 DEF Waiting
<1>. HIDE DEF Waiting
<1>8. PICK D, B, W, o, j : D = drawn /\ B = budget /\ W = Waiting /\ o = order /\ j = joined
  OBVIOUS
<1>9. /\ j \in Nat /\ 1 <= j /\ j < n
      /\ o \in [1..n -> 0..(n - 1)] /\ D \in [0..(n - 1) -> Int]
      /\ B \in [0..(n - 1) -> Int] /\ W \in [0..(n - 1) -> Int]
  BY <1>0, <1>4, <1>5, <1>8
<1>10. TreeCount(n, j, o, D, B, W)
  BY <1>0, <1>1, <1>2, <1>6, <1>7, <1>8 DEF TreeCount
<1>11. TreePays(n, j, D, B, W)
  BY <1>0, <1>8 DEF TreePays
<1>12. Sum(n, D) < 2 * (n - 1)
  BY <1>9, <1>10, <1>11, DegreesCounted
<1>. QED
  BY <1>8, <1>12

\* A line is connected: somewhere the side changes.
LEMMA LineCrossed ==
  ASSUME NEW n \in Nat, NEW S \in SUBSET (0..(n - 1)), S # {}, S # 0..(n - 1)
  PROVE  \E i \in 1..(n - 1) : {i - 1, i} \cap S # {} /\ {i - 1, i} \ S # {}
<1>. DEFINE T == {x \in 0..(n - 1) : ~(x \in S <=> 0 \in S)}
<1>1. PICK x \in T : \A y \in T : x <= y
  <2>1. T \subseteq Nat
    OBVIOUS
  <2>2. T # {}
    OBVIOUS
  <2>. HIDE DEF T
  <2>. QED
    BY <2>1, <2>2, LeastNatural
<1>2. x # 0 /\ x - 1 \in 0..(n - 1) /\ x - 1 \notin T
  BY <1>1
<1>3. ~(x - 1 \in S <=> x \in S) /\ x \in 1..(n - 1)
  BY <1>1, <1>2
<1>. QED
  BY <1>3

\* The topology of a line, or of a list of links that was accepted, is connected.
LEMMA LineConnects ==
  ASSUME NEW n \in Nat, n >= 2, NEW w, w = [i \in 1..(n - 1) |-> {i - 1, i}]
  PROVE  w \in Seq(SUBSET (0..(n - 1))) /\ Connects(w, n)
<1>0. PICK m \in Nat : m = n - 1
  OBVIOUS
<1>1. w \in [1..m -> SUBSET (0..(n - 1))]
  BY <1>0
<1>2. w \in Seq(SUBSET (0..(n - 1)))
  BY <1>1, SeqDef
<1>3. Len(w) = m
  BY <1>1, <1>2
<1>4. ASSUME NEW S \in SUBSET (0..(n - 1)), S \notin {{}, 0..(n - 1)} PROVE Crossed(w, S)
  <2>1. PICK i \in 1..(n - 1) : {i - 1, i} \cap S # {} /\ {i - 1, i} \ S # {}
    BY <1>4, LineCrossed
  <2>. QED
    BY <1>0, <1>3, <2>1 DEF Crossed
<1>. QED
  BY <1>2, <1>4 DEF Connects

LEMMA LinksConnect ==
  ASSUME NEW p \in Plans, PlanOK(p), p.explicit
  PROVE  p.links \in Seq(SUBSET (0..(p.hosts - 1))) /\ Connects(p.links, p.hosts)
BY PlanFacts DEF LinksAccepted, Connects, Crossed

\* A step that leaves the parameters and the random choices alone.
LEMMA MeshKept ==
  ASSUME MeshInv, plan' = plan, drawn' = drawn, budget' = budget, sw' = sw,
         stage' \in AfterLimit <=> stage \in AfterLimit
  PROVE  MeshInv'
<1>1. Hosts' = Hosts /\ Capacity' = Capacity
  BY DEF Hosts, Capacity
<1>2. (\A h \in Hosts : Degree(h) <= drawn[h] - budget[h])
        => \A h \in Hosts : Degree(h)' <= drawn'[h] - budget'[h]
  BY DEF Degree
<1>. QED
  BY <1>1, <1>2 DEF MeshInv

\* The steps after the mesh is drawn.
LEMMA LaterStep ==
  ASSUME BuildInv, stage \in AfterLimit, stage' \in AfterLimit \cup {"failed"}, plan' = plan,
         drawn' = drawn, budget' = budget, sw' = sw, why' = why \/ stage' = "failed",
         why' = "budget" => why = "budget", stage' # "extra"
  PROVE  BuildInv'
<1>1. Mesh' <=> Mesh
  BY DEF Mesh
<1>2. stage \in AfterTree /\ stage \in AfterDraw /\ (stage' # "failed" => stage' \in AfterTree)
  BY DEF AfterTree, AfterDraw
<1>3. Mesh => MeshInv
  BY <1>2 DEF BuildInv
<1>4. Mesh => (stage' \in AfterDraw => MeshInv')
  BY <1>3, MeshKept DEF AfterDraw, AfterTree, AfterLimit
<1>5. LineSwitches' = LineSwitches
  BY DEF LineSwitches
<1>. QED
  BY <1>1, <1>2, <1>4, <1>5 DEF BuildInv, AfterDraw, AfterTree, AfterLimit

\* assign_roles, after which the given topologies are complete.
LEMMA RolesStep == ASSUME BuildInv, AssignRoles PROVE BuildInv'
<1>1. /\ plan' = plan /\ why' = why /\ drawn' = drawn /\ stage = "roles"
      /\ stage' = IF plan.explicit \/ plan.scenario = "linear" THEN "emit" ELSE "draw"
      /\ sw' = CASE plan.scenario = "linear" -> LineSwitches
                 [] plan.explicit -> plan.links
                 [] OTHER -> <<>>
  BY DEF AssignRoles
<1>2. (Mesh' <=> Mesh) /\ LineSwitches' = LineSwitches
  BY <1>1 DEF Mesh, LineSwitches
<1>3. CASE Mesh
  BY <1>1, <1>2, <1>3 DEF BuildInv, Mesh, AfterDraw, AfterTree, AfterLimit
<1>4. CASE ~Mesh
  <2>1. plan.explicit => plan.scenario = "disaster"
    BY PlanFacts DEF BuildInv
  <2>2. sw' = IF plan.scenario = "linear" THEN LineSwitches ELSE plan.links
    BY <1>1, <1>4, <2>1 DEF Mesh
  <2>3. stage' = "emit"
    BY <1>1, <1>4 DEF Mesh
  <2>4. Connects(sw', plan.hosts)
    <3>1. plan \in Plans /\ PlanOK(plan) /\ plan.hosts \in Nat /\ plan.hosts >= 2
      BY PlanFacts DEF BuildInv
    <3>2. CASE plan.scenario = "linear"
      BY <2>2, <3>1, <3>2, LineConnects DEF LineSwitches
    <3>3. CASE plan.scenario # "linear"
      BY <1>4, <2>2, <3>1, <3>3, LinksConnect DEF Mesh
    <3>. QED
      BY <3>2, <3>3
  <2>. QED
    BY <1>1, <1>2, <1>4, <2>2, <2>3, <2>4 DEF BuildInv, AfterDraw, AfterTree, AfterLimit
<1>. QED
  BY <1>3, <1>4

\* The degrees are drawn: the tree is the first host of the order.
LEMMA DrawStep == ASSUME BuildInv, DrawDegrees PROVE BuildInv'
<1>0. /\ plan' = plan /\ stage = "draw" /\ why = "none" /\ Mesh /\ (Mesh' <=> Mesh)
      /\ plan \in Plans /\ PlanOK(plan) /\ Hosts' = Hosts /\ Capacity' = Capacity
  BY DEF BuildInv, DrawDegrees, Mesh, Hosts, Capacity
<1>1. CASE plan.degMin < 1 \/ plan.degMax < plan.degMin \/ plan.nodePerSwitch = 1
  <2>1. stage' = "failed" /\ why' = "parameters"
    BY <1>1 DEF DrawDegrees, Fail
  <2>. QED
    BY <1>0, <2>1 DEF BuildInv, AfterDraw, AfterTree, AfterLimit
<1>2. CASE ~(plan.degMin < 1 \/ plan.degMax < plan.degMin \/ plan.nodePerSwitch = 1)
  <2>1. /\ drawn' \in [Hosts -> plan.degMin..plan.degMax] /\ budget' = drawn'
        /\ order' \in Orders(drawn') /\ joined' = 1 /\ sw' = <<>> /\ stage' = "tree"
        /\ why' = why
    BY <1>2 DEF DrawDegrees
  <2>2. PICK n \in Nat : n = plan.hosts /\ Hosts = 0..(n - 1) /\ n >= 3
    BY <1>0, PlanFacts DEF Hosts, Mesh
  <2>3. plan.degMin >= 1 /\ plan.nodePerSwitch # 1 /\ plan.degMin \in Int /\ plan.degMax \in Int
    BY <1>0, <1>2, PlanFacts
  <2>4. \A h \in Hosts : drawn'[h] \in Nat
    BY <2>1, <2>3
  <2>5. sw' \in Seq(SUBSET Hosts) /\ Len(sw') = 0
    BY <2>1
  <2>6. MeshInv'
    <3>1. \A h \in Hosts : Degree(h)' = 0
      <4>1. \A h \in Hosts : {s \in DOMAIN sw' : h \in sw'[s]} = {}
        BY <2>1
      <4>. QED
        BY <4>1, FS_EmptySet DEF Degree
    <3>2. budget' \in [Hosts -> Nat] /\ \A h \in Hosts : budget'[h] <= drawn'[h]
      BY <2>1, <2>4
    <3>3. \A h \in Hosts : Degree(h)' <= drawn'[h] - budget'[h]
      BY <2>1, <2>4, <3>1
    <3>. QED
      BY <1>0, <2>1, <2>3, <2>5, <3>2, <3>3 DEF MeshInv, AfterLimit
  <2>7. TreeInv'
    <3>1. order' \in Orders(drawn)'
      BY <1>0, <2>1 DEF Orders
    <3>2. order' \in [1..n -> Hosts]
      BY <2>1, <2>2 DEF Orders
    <3>3. PICK a \in 0..(n - 1) : a = order'[1]
      BY <2>2, <3>2
    <3>4. Waiting' \in [0..(n - 1) -> Int] /\ \A h \in 0..(n - 1) : Waiting'[h] = IF h = a THEN 0 ELSE 1
      <4>1. Waiting' = [h \in Hosts |-> IF \E i \in 1..1 : order'[i] = h THEN 0 ELSE 1]
        BY <1>0, <2>1 DEF Waiting
      <4>2. \A h \in 0..(n - 1) : (\E i \in 1..1 : order'[i] = h) <=> h = a
        BY <3>3
      <4>. QED
        BY <2>2, <4>1, <4>2
    <3>5. Sum(n, Waiting') = n - 1
      <4>1. PICK W \in [0..(n - 1) -> Int] : W = Waiting'
        BY <3>4
      <4>2. PICK o \in [0..(n - 1) -> Int] : /\ o = [x \in 0..(n - 1) |-> 1] /\ Sum(n, o) = n
                                            /\ \A h \in 0..(n - 1) : o[h] = 1
        <5>1. [x \in 0..(n - 1) |-> 1] \in [0..(n - 1) -> Int]
          OBVIOUS
        <5>. QED
          BY <5>1, SumOfOnes
      <4>3. PICK e \in [0..(n - 1) -> Int] : e = One(n, a) /\ Sum(n, e) = 1
        BY SumOfOne
      <4>4. \A h \in 0..(n - 1) : o[h] = W[h] + e[h]
        BY <3>4, <4>1, <4>2, <4>3 DEF One
      <4>5. Sum(n, o) = Sum(n, W) + Sum(n, e)
        BY <4>4, SumAdds
      <4>6. Sum(n, W) \in Int
        BY SumInt
      <4>. QED
        BY <4>1, <4>2, <4>3, <4>5, <4>6
    <3>6. \A S \in SUBSET Hosts : ~(\E i, k \in 1..1 : order'[i] \in S /\ order'[k] \notin S)
      OBVIOUS
    <3>7. Sum(n, drawn') \in Int
      <4>1. drawn' \in [0..(n - 1) -> Int]
        BY <2>1, <2>2, <2>4
      <4>2. PICK D \in [0..(n - 1) -> Int] : D = drawn'
        BY <4>1
      <4>3. Sum(n, D) \in Int
        BY SumInt
      <4>. QED
        BY <4>2, <4>3
    <3>8. Sum(n, drawn') = Sum(n, budget') + 2 * (joined' - 1)
      BY <2>1, <3>7
    <3>. QED
      BY <1>0, <2>1, <2>2, <3>1, <3>5, <3>6, <3>8 DEF TreeInv
  <2>. QED
    BY <1>0, <2>1, <2>6, <2>7 DEF BuildInv, AfterDraw, AfterTree, AfterLimit
<1>. QED
  BY <1>1, <1>2

\* Every host is in the tree when it is done.
LEMMA TreeStep == ASSUME BuildInv, TreeDone PROVE BuildInv'
<1>0. /\ plan' = plan /\ stage = "tree" /\ stage' = "spread" /\ joined = plan.hosts /\ why' = why
      /\ drawn' = drawn /\ budget' = budget /\ sw' = sw
  BY DEF TreeDone, building
<1>1. MeshInv /\ TreeInv /\ Mesh /\ (Mesh' <=> Mesh)
  BY <1>0 DEF BuildInv, Mesh, AfterDraw
<1>2. MeshInv'
  BY <1>0, <1>1, MeshKept DEF AfterLimit
<1>3. PICK n \in Nat : n = plan.hosts /\ Hosts = 0..(n - 1)
  BY PlanFacts DEF BuildInv, Hosts
<1>4. \A h \in Hosts : \E i \in 1..n : order[i] = h
  BY <1>1, <1>3, OrderCovers DEF TreeInv
<1>5. ASSUME NEW S \in SUBSET (0..(n - 1)), S \notin {{}, 0..(n - 1)} PROVE Crossed(sw, S)
  <2>1. PICK a \in Hosts, b \in Hosts : a \in S /\ b \notin S
    BY <1>3, <1>5
  <2>2. \E i, k \in 1..joined : order[i] \in S /\ order[k] \notin S
    BY <1>0, <1>3, <1>4, <2>1
  <2>. QED
    BY <1>1, <1>3, <2>2 DEF TreeInv
<1>6. Connects(sw', plan'.hosts)
  BY <1>0, <1>3, <1>5 DEF Connects
<1>. QED
  BY <1>0, <1>1, <1>2, <1>6 DEF BuildInv, AfterDraw, AfterTree, AfterLimit

\* A host joins the tree.
LEMMA JoinStep == ASSUME BuildInv, JoinTree PROVE BuildInv'
<1>. DEFINE room == {s \in DOMAIN sw : Partner \in sw[s] /\ Cardinality(sw[s]) + 2 <= Capacity}
<1>0. /\ plan' = plan /\ stage = "tree" /\ why = "none" /\ Mesh /\ (Mesh' <=> Mesh)
      /\ plan \in Plans /\ PlanOK(plan) /\ Hosts' = Hosts /\ Capacity' = Capacity
      /\ MeshInv /\ TreeInv /\ joined < plan.hosts
  BY DEF BuildInv, JoinTree, Mesh, Hosts, Capacity, AfterDraw
<1>1. PICK n \in Nat : n = plan.hosts /\ Hosts = 0..(n - 1) /\ n >= 3
  BY <1>0, PlanFacts DEF Hosts, Mesh
<1>2. /\ plan.degMin \in Int /\ plan.degMax \in Int /\ plan.nodePerSwitch \in Nat
      /\ plan.degMin >= 1 /\ plan.nodePerSwitch # 1
  BY <1>0, PlanFacts DEF MeshInv
<1>3. PICK i \in 1..joined : /\ Partner = order[i] /\ order[i] \in Hosts
                             /\ \A k \in 1..joined : budget[order[k]] <= budget[order[i]]
  BY <1>0, <1>1, <1>2, PartnerLeads
<1>4. /\ joined \in 1..n /\ joined < n /\ order \in [1..n -> Hosts]
      /\ \A j, k \in 1..n : order[j] = order[k] => j = k
  BY <1>0, <1>1 DEF TreeInv, Orders
<1>5. /\ drawn \in [Hosts -> plan.degMin..plan.degMax] /\ budget \in [Hosts -> Nat]
      /\ (\A h \in Hosts : budget[h] <= drawn[h]) /\ sw \in Seq(SUBSET Hosts)
  BY <1>0 DEF MeshInv
<1>6. joined + 1 \in 1..n /\ joined + 1 # i /\ i \in 1..n
  BY <1>3, <1>4
<1>7. PICK host \in Hosts : /\ host = order[joined + 1] /\ host # Partner
                            /\ budget[host] = drawn[host] /\ budget[host] >= 1
  <2>1. PICK c \in Hosts : c = order[joined + 1] /\ c # Partner
    BY <1>3, <1>4, <1>6
  <2>2. budget[c] = drawn[c]
    BY <2>1,  <1>0, <1>1, <1>4, <1>6 DEF TreeInv
  <2>3. drawn[c] \in plan.degMin..plan.degMax
    BY <1>5, <2>1
  <2>. QED
    BY <1>2, <2>1, <2>2, <2>3
<1>8. CASE budget[Partner] = 0
  <2>1. stage' = "failed" /\ why' = "budget" /\ drawn' = drawn
    BY <1>8 DEF JoinTree, Fail, building
  <2>2. \A k \in 1..joined : budget[order[k]] = 0
    <3>1. \A k \in 1..joined : budget[order[k]] \in Nat
      BY <1>4, <1>5
    <3>. QED
      BY <1>3, <1>8, <3>1
  <2>3. Sum(n, drawn) < 2 * (n - 1)
    BY <1>0, <1>1, <1>2, <1>4, <2>2, TreeNeedsDegrees
  <2>. QED
    BY <1>0, <1>1, <2>1, <2>3 DEF BuildInv, AfterDraw, AfterTree, AfterLimit
<1>9. CASE budget[Partner] # 0
  <2>0. PICK p \in Hosts : p = Partner
    BY <1>3
  <2>1. /\ sw' = IF room = {} THEN Append(sw, {host, p})
                 ELSE [sw EXCEPT ![FirstOf(room)] = @ \cup {host, p}]
        /\ budget' = [budget EXCEPT ![host] = @ - 1, ![p] = @ - 1]
        /\ joined' = joined + 1 /\ stage' = stage /\ why' = why /\ drawn' = drawn /\ order' = order
    BY <1>7, <1>9, <2>0 DEF JoinTree
  <2>2. /\ budget' \in [Hosts -> Nat]
        /\ \A h \in Hosts : budget'[h] = budget[h] - (IF h \in {host, p} THEN 1 ELSE 0)
    BY SMTT(30), <1>5, <1>7, <1>9, <2>0, <2>1
  <2>3. Capacity \in Nat /\ Capacity >= 2
    BY <1>1, <1>2 DEF Capacity
  <2>4. PICK X \in SUBSET Hosts : X = {host, p}
    BY <1>7
  <2>5. PICK t \in 1..(Len(sw) + 1) :
          /\ sw' \in Seq(SUBSET Hosts) /\ t \in 1..Len(sw') /\ Len(sw) <= Len(sw')
          /\ \A s \in 1..Len(sw') : s # t => s <= Len(sw) /\ sw'[s] = sw[s]
          /\ sw'[t] = IF t <= Len(sw) THEN sw[t] \cup X ELSE X
          /\ t <= Len(sw) => Cardinality(sw[t]) + 2 <= Capacity
    <3>1. CASE room = {}
      <4>1. sw' = Append(sw, X)
        BY <2>1, <2>4, <3>1
      <4>2. /\ sw' \in Seq(SUBSET Hosts) /\ Len(sw') = Len(sw) + 1 /\ Len(sw) \in Nat
            /\ sw'[Len(sw) + 1] = X /\ \A s \in 1..Len(sw) : sw'[s] = sw[s]
        BY <1>5, <2>4, <4>1
      <4>. QED
        BY <4>2
    <3>2. CASE room # {}
      <4>0. DOMAIN sw = 1..Len(sw) /\ Len(sw) \in Nat
        BY <1>5
      <4>1. PICK f : f \in room /\ f = FirstOf(room)
        <5>1. room \subseteq Nat
          BY <4>0
        <5>. HIDE DEF room
        <5>2. \E x \in room : \A y \in room : x <= y
          BY <3>2, <5>1, LeastNatural
        <5>. QED
          BY <5>2 DEF FirstOf
      <4>2. f \in 1..Len(sw) /\ Cardinality(sw[f]) + 2 <= Capacity
        BY <4>0, <4>1
      <4>. HIDE DEF room
      <4>3. PICK e \in SUBSET Hosts : e = sw[f] \cup X
        <5>1. sw[f] \in SUBSET Hosts
          BY <1>5, <4>2
        <5>. QED
          BY <5>1
      <4>4. sw' = [sw EXCEPT ![f] = e]
        BY <2>1, <2>4, <3>2, <4>1, <4>3
      <4>5. /\ sw' \in Seq(SUBSET Hosts) /\ Len(sw') = Len(sw)
            /\ \A s \in 1..Len(sw) : sw'[s] = IF s = f THEN e ELSE sw[s]
        BY <1>5, <4>2, <4>4, ExceptSeq
      <4>6. f \in 1..(Len(sw) + 1)
        BY <4>0, <4>2
      <4>7. \A s \in 1..Len(sw') : s # f => s <= Len(sw) /\ sw'[s] = sw[s]
        BY <4>0, <4>5
      <4>8. sw'[f] = sw[f] \cup X /\ f <= Len(sw) /\ f \in 1..Len(sw') /\ Len(sw) <= Len(sw')
        BY <4>0, <4>2, <4>3, <4>5
      <4>. QED
        BY <4>2, <4>5, <4>6, <4>7, <4>8
    <3>. QED
      BY <3>1, <3>2
  <2>. HIDE DEF room
  <2>6. /\ \A S : Crossed(sw, S) => Crossed(sw', S)
        /\ \A h \in Hosts : /\ Degree(h) \in Nat /\ Degree(h)' \in Nat
                            /\ Degree(h)' <= Degree(h) + 1
                            /\ h \notin X => Degree(h)' <= Degree(h)
    BY <1>0, <1>5, <2>5, SwitchesGrow
  <2>7. \A s \in 1..Len(sw') : sw'[s] # {} /\ Cardinality(sw'[s]) <= Capacity
    <3>1. IsFiniteSet(Hosts) /\ \A S \in SUBSET Hosts : IsFiniteSet(S) /\ Cardinality(S) \in Nat
      BY <1>1, HostsFinite
    <3>2. \A A \in SUBSET Hosts : Cardinality(A \cup X) <= Cardinality(A) + 2
      <4>1. ASSUME NEW A \in SUBSET Hosts PROVE Cardinality(A \cup X) <= Cardinality(A) + 2
        <5>1. IsFiniteSet(A) /\ IsFiniteSet(A \cup {host}) /\ A \cup {host} \in SUBSET Hosts
          BY <1>7, <3>1
        <5>2. Cardinality(A \cup {host}) <= Cardinality(A) + 1 /\ Cardinality(A) \in Nat
              /\ Cardinality(A \cup {host}) \in Nat
          BY <5>1, OneMore
        <5>3. A \cup X \subseteq (A \cup {host}) \cup {p}
          BY <2>4
        <5>4. PICK Y : Y = A \cup {host} /\ IsFiniteSet(Y)
          BY <5>1
        <5>5. PICK Z : Z = A \cup X
          OBVIOUS
        <5>6. Z \subseteq Y \cup {p}
          BY <5>3, <5>4, <5>5
        <5>7. Cardinality(Z) <= Cardinality(Y) + 1 /\ Cardinality(Z) \in Nat
          BY <5>4, <5>6, OneMore
        <5>. QED
          BY <5>2, <5>4, <5>5, <5>7
      <4>. QED
        BY <4>1
    <3>3. ASSUME NEW s \in 1..Len(sw') PROVE sw'[s] # {} /\ Cardinality(sw'[s]) <= Capacity
      <4>0. \A r \in 1..Len(sw) : sw[r] # {} /\ Cardinality(sw[r]) <= Capacity
        BY <1>0 DEF MeshInv
      <4>1. CASE s # t
        BY SMTT(30), <1>5, <2>5, <4>0, <4>1
      <4>2. CASE s = t /\ t <= Len(sw)
        <5>1. t \in 1..Len(sw) /\ sw[t] \in SUBSET Hosts
          BY <1>5, <2>5, <4>2
        <5>2. Cardinality(sw'[s]) <= Cardinality(sw[t]) + 2 /\ Cardinality(sw[t]) \in Nat
              /\ sw'[s] \in SUBSET Hosts /\ Cardinality(sw'[s]) \in Nat
          BY <2>4, <2>5, <3>1, <3>2, <4>2, <5>1
        <5>3. Cardinality(sw[t]) + 2 <= Capacity /\ sw'[s] = sw[t] \cup X
          BY <2>5, <4>2
        <5>4. host \in sw'[s]
          BY <2>4, <5>3
        <5>5. Cardinality(sw'[s]) <= Capacity
          BY <2>3, <5>2, <5>3
        <5>. QED
          BY <5>4, <5>5
      <4>3. CASE s = t /\ ~(t <= Len(sw))
        <5>1. sw'[s] = X /\ sw'[s] # {}
          BY <2>4, <2>5, <4>3
        <5>2. Cardinality({} \cup X) <= Cardinality({}) + 2 /\ Cardinality({}) = 0
          BY <3>2, FS_EmptySet
        <5>3. Cardinality(X) <= 2 /\ Cardinality(X) \in Nat
          <6>1. {} \cup X = X
            OBVIOUS
          <6>. QED
            BY <3>1, <5>2, <6>1
        <5>. QED
          BY <2>3, <5>1, <5>3
      <4>. QED
        BY <4>1, <4>2, <4>3
    <3>. QED
      BY <3>3
  <2>8. MeshInv'
    <3>1. \A h \in Hosts : budget'[h] <= drawn'[h]
      <4>1. ASSUME NEW h \in Hosts PROVE budget'[h] <= drawn'[h]
        <5>1. budget[h] \in Nat /\ drawn[h] \in Int /\ budget[h] <= drawn[h]
          BY <1>2, <1>5
        <5>. QED
          BY <2>1, <2>2, <5>1
      <4>. QED
        BY <4>1
    <3>2. \A h \in Hosts : Degree(h)' <= drawn'[h] - budget'[h]
      <4>1. ASSUME NEW h \in Hosts PROVE Degree(h)' <= drawn'[h] - budget'[h]
        <5>1. budget[h] \in Nat /\ drawn[h] \in Int /\ Degree(h) <= drawn[h] - budget[h]
          <6>1. budget[h] \in Nat /\ drawn[h] \in Int
            BY <1>2, <1>5
          <6>2. Degree(h) <= drawn[h] - budget[h]
            BY <1>0 DEF MeshInv, AfterLimit
          <6>. QED
            BY <6>1, <6>2
        <5>2. Degree(h) \in Nat /\ Degree(h)' \in Nat /\ Degree(h)' <= Degree(h) + 1
              /\ (h \notin X => Degree(h)' <= Degree(h))
          BY <2>6
        <5>3. drawn'[h] = drawn[h] /\ budget'[h] = budget[h] - (IF h \in X THEN 1 ELSE 0)
          BY <2>1, <2>2, <2>4
        <5>. QED
          BY <5>1, <5>2, <5>3
      <4>. QED
        BY <4>1
    <3>3. stage' \notin AfterLimit /\ plan'.degMin >= 1 /\ plan'.nodePerSwitch # 1
      BY <1>0, <1>2, <2>1 DEF AfterLimit
    <3>4. drawn' \in [Hosts -> plan'.degMin..plan'.degMax]
      BY <1>0, <1>5, <2>1
    <3>. QED
      BY <1>0, <2>2, <2>5, <2>7, <3>1, <3>2, <3>3, <3>4 DEF MeshInv
  <2>9. TreeInv'
    <3>1. order' \in Orders(drawn)' /\ joined' \in 1..plan'.hosts
      BY <1>0, <1>1, <1>4, <1>6, <2>1 DEF TreeInv, Orders
    <3>2. \A k \in (joined' + 1)..n : budget'[order'[k]] = drawn'[order'[k]]
      <4>1. ASSUME NEW k \in (joined' + 1)..n PROVE budget'[order'[k]] = drawn'[order'[k]]
        <5>1. k \in 1..n /\ k # joined + 1 /\ k # i /\ k \in (joined + 1)..n
          BY <1>3, <1>4, <2>1
        <5>2. order[k] \in Hosts /\ order[k] # host /\ order[k] # p
          BY <1>3, <1>4, <1>6, <1>7, <2>0, <5>1
        <5>3. budget[order[k]] = drawn[order[k]] /\ budget[order[k]] \in Nat
          BY <1>0, <1>1, <1>5, <5>1, <5>2 DEF TreeInv
        <5>. QED
          BY <2>1, <2>2, <5>2, <5>3
      <4>. QED
        BY <4>1
    <3>3. ASSUME NEW S \in SUBSET Hosts, NEW a \in 1..(joined + 1), NEW b \in 1..(joined + 1),
                 order[a] \in S, order[b] \notin S
          PROVE  Crossed(sw', S)
      <4>1. CASE \E c, d \in 1..joined : order[c] \in S /\ order[d] \notin S
        BY <1>0, <2>6, <4>1 DEF TreeInv
      <4>2. CASE ~\E c, d \in 1..joined : order[c] \in S /\ order[d] \notin S
        <5>1. ~(host \in S <=> p \in S)
          <6>1. a = joined + 1 \/ b = joined + 1
            BY <1>4, <3>3, <4>2
          <6>2. CASE a = joined + 1 /\ b # joined + 1
            <7>1. b \in 1..joined
              BY <1>4, <6>2
            <7>. QED
              BY <1>3, <1>7, <2>0, <3>3, <4>2, <6>2, <7>1
          <6>3. CASE b = joined + 1 /\ a # joined + 1
            <7>1. a \in 1..joined
              BY <1>4, <6>3
            <7>. QED
              BY <1>3, <1>7, <2>0, <3>3, <4>2, <6>3, <7>1
          <6>4. ~(a = joined + 1 /\ b = joined + 1)
            BY <3>3
          <6>. QED
            BY <6>1, <6>2, <6>3, <6>4
        <5>2. host \in sw'[t] /\ p \in sw'[t]
          BY <2>4, <2>5
        <5>. QED
          BY <2>5, <5>1, <5>2 DEF Crossed
      <4>. QED
        BY <4>1, <4>2
    <3>4. \A S \in SUBSET Hosts :
            (\E a, b \in 1..joined' : order'[a] \in S /\ order'[b] \notin S) => Crossed(sw', S)
      BY <2>1, <3>3
    <3>5. Sum(n, drawn') = Sum(n, budget') + 2 * (joined' - 1)
      <4>1. PICK B \in [0..(n - 1) -> Int], C \in [0..(n - 1) -> Int] : B = budget /\ C = budget'
        <5>1. budget \in [0..(n - 1) -> Int] /\ budget' \in [0..(n - 1) -> Int]
          BY <1>1, <1>5, <2>2
        <5>. QED
          BY <5>1
      <4>2. PICK e \in [0..(n - 1) -> Int], f \in [0..(n - 1) -> Int] :
              e = One(n, host) /\ f = One(n, p) /\ Sum(n, e) = 1 /\ Sum(n, f) = 1
        BY <1>1, <1>7, SumOfOne
      <4>3. PICK g \in [0..(n - 1) -> Int] : /\ Sum(n, g) = Sum(n, e) + Sum(n, f)
                                            /\ \A h \in 0..(n - 1) : g[h] = e[h] + f[h]
        BY ZenonT(40), SumOfPlus
      <4>4. \A h \in 0..(n - 1) : B[h] = C[h] + g[h]
        <5>1. ASSUME NEW h \in 0..(n - 1) PROVE B[h] = C[h] + g[h]
          <6>1. C[h] = B[h] - (IF h \in {host, p} THEN 1 ELSE 0)
            BY <1>1, <2>2, <4>1
          <6>2. g[h] = IF h \in {host, p} THEN 1 ELSE 0
            BY <1>7, <2>0, <4>2, <4>3 DEF One
          <6>3. B[h] \in Int
            BY <4>1
          <6>. QED
            BY <6>1, <6>2, <6>3
        <5>. QED
          BY <5>1
      <4>5. Sum(n, B) = Sum(n, C) + Sum(n, g)
        BY <4>4, SumAdds
      <4>6. Sum(n, B) \in Int /\ Sum(n, C) \in Int
        BY SumInt
      <4>7. Sum(n, drawn) = Sum(n, B) + 2 * (joined - 1)
        BY <1>0, <1>1, <4>1 DEF TreeInv
      <4>. QED
        BY <1>4, <2>1, <4>1, <4>2, <4>3, <4>5, <4>6, <4>7
    <3>6. Sum(n, Waiting') = n - joined'
      <4>1. /\ Waiting = [h \in 0..(n - 1) |-> IF \E k \in 1..joined : order[k] = h THEN 0 ELSE 1]
            /\ Waiting' = [h \in 0..(n - 1) |->
                             IF \E k \in 1..(joined + 1) : order[k] = h THEN 0 ELSE 1]
        BY <1>0, <1>1, <2>1 DEF Waiting
      <4>2. PICK V \in [0..(n - 1) -> Int], W \in [0..(n - 1) -> Int] : V = Waiting /\ W = Waiting'
        BY <4>1
      <4>3. PICK e \in [0..(n - 1) -> Int] : e = One(n, host) /\ Sum(n, e) = 1
        BY <1>1, <1>7, SumOfOne
      <4>4. \A h \in 0..(n - 1) : V[h] = W[h] + e[h]
        <5>1. ASSUME NEW h \in 0..(n - 1) PROVE V[h] = W[h] + e[h]
          <6>1. (\E k \in 1..(joined + 1) : order[k] = h)
                  <=> (h = host \/ \E k \in 1..joined : order[k] = h)
            <7>0. PICK j \in Nat : j = joined
              BY <1>4
            <7>1. \A k : k \in 1..(joined + 1) <=> k \in 1..joined \/ k = joined + 1
              <8>1. \A k : k \in 1..(j + 1) <=> k \in 1..j \/ k = j + 1
                BY SMTT(30)
              <8>. QED
                BY <7>0, <8>1
            <7>2. \A k \in 1..(joined + 1) : order[k] = h =>
                    h = host \/ \E l \in 1..joined : order[l] = h
              BY <1>7, <7>1
            <7>3. h = host => \E k \in 1..(joined + 1) : order[k] = h
              BY <1>7, <7>1
            <7>. QED
              BY <7>1, <7>2, <7>3
          <6>2. ~\E k \in 1..joined : order[k] = host
            BY <1>4, <1>6, <1>7
          <6>3. /\ V[h] = IF \E k \in 1..joined : order[k] = h THEN 0 ELSE 1
                /\ W[h] = IF \E k \in 1..(joined + 1) : order[k] = h THEN 0 ELSE 1
                /\ e[h] = IF h = host THEN 1 ELSE 0
            BY <4>1, <4>2, <4>3 DEF One
          <6>. QED
            BY SMTT(30), <6>1, <6>2, <6>3
        <5>. QED
          BY <5>1
      <4>5. Sum(n, V) = Sum(n, W) + Sum(n, e)
        BY <4>4, SumAdds
      <4>6. Sum(n, W) \in Int
        BY SumInt
      <4>7. Sum(n, V) = n - joined
        BY <1>0, <1>1, <4>2 DEF TreeInv
      <4>. QED
        BY <1>4, <2>1, <4>2, <4>3, <4>5, <4>6, <4>7
    <3>. QED
      BY <1>0, <1>1, <3>1, <3>2, <3>4, <3>5, <3>6 DEF TreeInv
  <2>. QED
    BY <1>0, <2>1, <2>8, <2>9 DEF BuildInv, AfterDraw, AfterTree, AfterLimit
<1>. QED
  BY <1>8, <1>9

\* A further switch, for hosts T.
LEMMA SwitchAdded ==
  ASSUME plan' = plan, plan.hosts \in Nat, sw \in Seq(SUBSET Hosts), NEW T \in SUBSET Hosts,
         sw' = Append(sw, T), Connects(sw, plan.hosts)
  PROVE  /\ sw' \in Seq(SUBSET Hosts) /\ Len(sw') = Len(sw) + 1 /\ Len(sw) \in Nat
         /\ sw'[Len(sw) + 1] = T /\ \A s \in 1..Len(sw) : sw'[s] = sw[s]
         /\ Connects(sw', plan'.hosts)
         /\ \A h \in Hosts : /\ Degree(h) \in Nat /\ Degree(h)' \in Nat
                             /\ Degree(h)' <= Degree(h) + 1
                             /\ h \notin T => Degree(h)' <= Degree(h)
<1>1. /\ sw' \in Seq(SUBSET Hosts) /\ Len(sw') = Len(sw) + 1 /\ Len(sw) \in Nat
      /\ sw'[Len(sw) + 1] = T /\ \A s \in 1..Len(sw) : sw'[s] = sw[s]
  OBVIOUS
<1>2. PICK t \in 1..Len(sw') : t = Len(sw) + 1
  BY <1>1
<1>3. /\ Len(sw) <= Len(sw') /\ \A s \in 1..Len(sw') : s # t => s <= Len(sw) /\ sw'[s] = sw[s]
      /\ sw'[t] = IF t <= Len(sw) THEN sw[t] \cup T ELSE T
  BY <1>1, <1>2
<1>4. /\ \A S : Crossed(sw, S) => Crossed(sw', S)
      /\ \A h \in Hosts : /\ Degree(h) \in Nat /\ Degree(h)' \in Nat
                          /\ Degree(h)' <= Degree(h) + 1
                          /\ h \notin T => Degree(h)' <= Degree(h)
  BY <1>1, <1>3, SwitchesGrow
<1>5. Connects(sw', plan'.hosts)
  BY <1>4 DEF Connects
<1>. QED
  BY <1>1, <1>4, <1>5

\* What the steps after the tree find.
LEMMA MeshFacts ==
  ASSUME BuildInv, stage \in {"spread", "limit", "extra"}
  PROVE  /\ plan \in Plans /\ PlanOK(plan) /\ Mesh /\ MeshInv /\ why = "none"
         /\ Connects(sw, plan.hosts) /\ plan.hosts \in Nat /\ plan.hosts >= 3
         /\ Capacity \in Nat /\ Capacity >= 2 /\ plan.limit \in Nat
         /\ plan.degMin \in Int /\ plan.degMax \in Int /\ plan.useAll \in BOOLEAN
<1>1. /\ plan \in Plans /\ PlanOK(plan) /\ Mesh /\ MeshInv /\ why = "none"
      /\ Connects(sw, plan.hosts)
  BY DEF BuildInv, AfterDraw, AfterTree, AfterLimit
<1>2. /\ plan.hosts \in Nat /\ plan.hosts >= 3 /\ plan.nodePerSwitch \in Nat
      /\ plan.limit \in Nat /\ plan.degMin \in Int /\ plan.degMax \in Int
      /\ plan.useAll \in BOOLEAN
  BY <1>1, PlanFacts DEF Mesh
<1>3. plan.nodePerSwitch # 1
  BY <1>1 DEF MeshInv
<1>. QED
  BY <1>1, <1>2, <1>3 DEF Capacity

\* What is left of the degrees is spread.
LEMMA SpreadStep == ASSUME BuildInv, Spread PROVE BuildInv'
<1>. DEFINE left == {h \in Hosts : budget[h] > 0}
            size == IF Cardinality(left) < Capacity THEN Cardinality(left) ELSE Capacity
<1>0. /\ plan' = plan /\ stage = "spread" /\ why' = why
      /\ (Mesh' <=> Mesh) /\ Hosts' = Hosts /\ Capacity' = Capacity
  BY DEF Spread, Mesh, Hosts, Capacity
<1>1. /\ plan \in Plans /\ PlanOK(plan) /\ Mesh /\ MeshInv /\ why = "none"
      /\ Connects(sw, plan.hosts) /\ plan.hosts \in Nat
      /\ Capacity \in Nat /\ Capacity >= 2
      /\ plan.degMin \in Int /\ plan.degMax \in Int
  BY <1>0, MeshFacts
<1>2. /\ drawn \in [Hosts -> plan.degMin..plan.degMax] /\ budget \in [Hosts -> Nat]
      /\ sw \in Seq(SUBSET Hosts) /\ plan.degMin >= 1 /\ plan.nodePerSwitch # 1
      /\ \A s \in 1..Len(sw) : sw[s] # {} /\ Cardinality(sw[s]) <= Capacity
      /\ \A h \in Hosts : budget[h] <= drawn[h] /\ Degree(h) <= drawn[h] - budget[h]
  BY <1>0, <1>1 DEF MeshInv, AfterLimit
<1>3. CASE left = {}
  <2>1. stage' = "limit" /\ drawn' = drawn /\ budget' = budget /\ sw' = sw
    BY <1>3 DEF Spread, building
  <2>2. MeshInv'
    BY <1>0, <1>1, <2>1, MeshKept DEF AfterLimit
  <2>. QED
    BY <1>0, <1>1, <2>1, <2>2 DEF BuildInv, AfterDraw, AfterTree, AfterLimit
<1>4. CASE left # {}
  <2>1. PICK T \in SUBSET left :
          /\ Cardinality(T) = size /\ sw' = Append(sw, T)
          /\ budget' = [h \in Hosts |-> IF h \in T THEN budget[h] - 1 ELSE budget[h]]
          /\ stage' = stage /\ drawn' = drawn
    BY <1>4 DEF Spread
  <2>2. left \in SUBSET Hosts /\ T \in SUBSET Hosts
    OBVIOUS
  <2>3. /\ sw' \in Seq(SUBSET Hosts) /\ Len(sw') = Len(sw) + 1 /\ Len(sw) \in Nat
        /\ sw'[Len(sw) + 1] = T /\ \A s \in 1..Len(sw) : sw'[s] = sw[s]
        /\ Connects(sw', plan'.hosts)
        /\ \A h \in Hosts : /\ Degree(h) \in Nat /\ Degree(h)' \in Nat
                            /\ Degree(h)' <= Degree(h) + 1
                            /\ h \notin T => Degree(h)' <= Degree(h)
    BY <1>0, <1>1, <1>2, <2>1, <2>2, SwitchAdded
  <2>4. Cardinality(T) <= Capacity /\ T # {}
    <3>1. IsFiniteSet(left) /\ Cardinality(left) \in Nat
      BY <1>1, <2>2, HostsFinite
    <3>2. Cardinality(left) # 0
      <4>. HIDE DEF left
      <4>. QED
        BY <1>4, <3>1, FS_EmptySet
    <3>3. Cardinality({}) = 0
      BY FS_EmptySet
    <3>. HIDE DEF left
    <3>4. Cardinality(T) <= Capacity /\ Cardinality(T) # 0
      BY <1>1, <2>1, <3>1, <3>2
    <3>. QED
      BY <3>3, <3>4
  <2>5. \A s \in 1..Len(sw') : sw'[s] # {} /\ Cardinality(sw'[s]) <= Capacity
    <3>1. ASSUME NEW s \in 1..Len(sw') PROVE sw'[s] # {} /\ Cardinality(sw'[s]) <= Capacity
      <4>1. s \in 1..Len(sw) \/ s = Len(sw) + 1
        BY <2>3
      <4>2. CASE s \in 1..Len(sw)
        BY <1>2, <2>3, <4>2
      <4>3. CASE s = Len(sw) + 1
        BY <2>3, <2>4, <4>3
      <4>. QED
        BY <4>1, <4>2, <4>3
    <3>. QED
      BY <3>1
  <2>6. ASSUME NEW h \in Hosts
        PROVE  /\ budget'[h] \in Nat /\ budget'[h] <= drawn'[h]
               /\ Degree(h)' <= drawn'[h] - budget'[h]
    <3>1. budget[h] \in Nat /\ drawn[h] \in Int /\ drawn'[h] = drawn[h]
      BY <1>1, <1>2, <2>1
    <3>2. budget[h] <= drawn[h] /\ Degree(h) <= drawn[h] - budget[h]
      BY <1>2
    <3>3. /\ Degree(h) \in Nat /\ Degree(h)' \in Nat /\ Degree(h)' <= Degree(h) + 1
          /\ (h \notin T => Degree(h)' <= Degree(h))
      BY <2>3
    <3>4. /\ budget'[h] = IF h \in T THEN budget[h] - 1 ELSE budget[h]
          /\ h \in T => budget[h] > 0
      BY <2>1
    <3>. QED
      BY <3>1, <3>2, <3>3, <3>4
  <2>7. budget' \in [Hosts -> Nat]
    BY <2>1, <2>6
  <2>8. MeshInv'
    <3>1. plan'.degMin >= 1 /\ plan'.nodePerSwitch # 1 /\ stage' \notin AfterLimit
      BY <1>0, <1>2, <2>1 DEF AfterLimit
    <3>2. drawn' \in [Hosts -> plan'.degMin..plan'.degMax]
      BY <1>0, <1>2, <2>1
    <3>. QED
      BY <1>0, <2>3, <2>5, <2>6, <2>7, <3>1, <3>2 DEF MeshInv
  <2>. QED
    BY <1>0, <1>1, <2>1, <2>3, <2>8 DEF BuildInv, AfterDraw, AfterTree, AfterLimit
<1>. QED
  BY <1>3, <1>4

\* The number of switches is compared with its limit.
LEMMA LimitStep == ASSUME BuildInv, CheckLimit PROVE BuildInv'
<1>0. /\ plan' = plan /\ stage = "limit" /\ (Mesh' <=> Mesh) /\ Hosts' = Hosts
      /\ Capacity' = Capacity /\ drawn' = drawn /\ budget' = budget /\ sw' = sw
  BY DEF CheckLimit, Mesh, Hosts, Capacity, building
<1>1. /\ plan \in Plans /\ PlanOK(plan) /\ Mesh /\ MeshInv /\ why = "none"
      /\ Connects(sw, plan.hosts) /\ plan.limit \in Nat
  BY <1>0, MeshFacts
<1>2. CASE plan.limit # 0 /\ Len(sw) > plan.limit
  <2>1. stage' = "failed" /\ why' = "limit"
    BY <1>2 DEF CheckLimit, Fail
  <2>. QED
    BY <1>0, <1>1, <2>1 DEF BuildInv, AfterDraw, AfterTree, AfterLimit
<1>3. CASE ~(plan.limit # 0 /\ Len(sw) > plan.limit)
  <2>1. stage' = "extra" /\ why' = why
    BY <1>3 DEF CheckLimit
  <2>2. sw \in Seq(SUBSET Hosts)
    BY <1>1 DEF MeshInv
  <2>3. plan.limit # 0 => Len(sw) <= plan.limit
    BY <1>1, <1>3, <2>2
  <2>4. \A h \in Hosts : Degree(h)' <= drawn'[h] - budget'[h]
    BY <1>0, <1>1 DEF MeshInv, Degree, AfterLimit
  <2>5. MeshInv'
    BY <1>0, <1>1, <2>3, <2>4 DEF MeshInv
  <2>. QED
    BY <1>0, <1>1, <2>1, <2>5 DEF BuildInv, AfterDraw, AfterTree, AfterLimit
<1>. QED
  BY <1>2, <1>3

\* With switch_use_all, the switches that are left.
LEMMA ExtraStep == ASSUME BuildInv, Extra PROVE BuildInv'
<1>0. /\ plan' = plan /\ stage = "extra" /\ (Mesh' <=> Mesh) /\ Hosts' = Hosts
      /\ Capacity' = Capacity /\ why' = why /\ drawn' = drawn /\ budget' = budget
  BY DEF Extra, Mesh, Hosts, Capacity, building
<1>1. /\ plan \in Plans /\ PlanOK(plan) /\ Mesh /\ MeshInv /\ why = "none"
      /\ Connects(sw, plan.hosts) /\ plan.limit \in Nat /\ plan.hosts \in Nat /\ plan.hosts >= 3
      /\ Capacity \in Nat /\ Capacity >= 2
  BY <1>0, MeshFacts
<1>2. CASE ~(plan.useAll /\ Len(sw) < plan.limit)
  <2>1. stage' = "emit" /\ sw' = sw
    BY <1>2 DEF Extra, building
  <2>2. MeshInv'
    BY <1>0, <1>1, <2>1, MeshKept DEF AfterLimit
  <2>. QED
    BY <1>0, <1>1, <2>1, <2>2 DEF BuildInv, AfterDraw, AfterTree, AfterLimit
<1>3. CASE plan.useAll /\ Len(sw) < plan.limit
  <2>1. PICK T \in SUBSET Hosts :
          /\ Cardinality(T) = IF Capacity < plan.hosts THEN Capacity ELSE plan.hosts
          /\ sw' = Append(sw, T) /\ stage' = stage
    BY <1>3 DEF Extra
  <2>2. sw \in Seq(SUBSET Hosts)
    BY <1>1 DEF MeshInv
  <2>3. /\ sw' \in Seq(SUBSET Hosts) /\ Len(sw') = Len(sw) + 1 /\ Len(sw) \in Nat
        /\ sw'[Len(sw) + 1] = T /\ \A s \in 1..Len(sw) : sw'[s] = sw[s]
        /\ Connects(sw', plan'.hosts)
    BY <1>0, <1>1, <2>1, <2>2, SwitchAdded
  <2>4. T # {} /\ Cardinality(T) <= Capacity
    <3>1. Cardinality(T) # 0 /\ Cardinality(T) <= Capacity
      BY <1>1, <2>1
    <3>. QED
      BY <3>1, FS_EmptySet
  <2>5. \A s \in 1..Len(sw') : sw'[s] # {} /\ Cardinality(sw'[s]) <= Capacity
    <3>0. \A s \in 1..Len(sw) : sw[s] # {} /\ Cardinality(sw[s]) <= Capacity
      BY <1>1 DEF MeshInv
    <3>1. ASSUME NEW s \in 1..Len(sw') PROVE sw'[s] # {} /\ Cardinality(sw'[s]) <= Capacity
      <4>1. s \in 1..Len(sw) \/ s = Len(sw) + 1
        BY <2>3
      <4>2. CASE s \in 1..Len(sw)
        BY <2>3, <3>0, <4>2
      <4>3. CASE s = Len(sw) + 1
        BY <2>3, <2>4, <4>3
      <4>. QED
        BY <4>1, <4>2, <4>3
    <3>. QED
      BY <3>1
  <2>6. Len(sw') <= plan.limit
    BY <1>1, <1>3, <2>3
  <2>7. MeshInv'
    <3>1. plan'.useAll /\ stage' \in AfterLimit /\ Len(sw') <= plan'.limit
      BY <1>0, <1>3, <2>1, <2>6 DEF AfterLimit
    <3>. QED
      BY <1>0, <1>1, <2>3, <2>5, <3>1 DEF MeshInv
  <2>. QED
    BY <1>0, <1>1, <2>1, <2>3, <2>7 DEF BuildInv, AfterDraw, AfterTree, AfterLimit
<1>. QED
  BY <1>2, <1>3

\* Every step keeps the invariant.
LEMMA NetworkStep == ASSUME BuildInv, [NetNext]_netVars PROVE BuildInv'
<1>1. CASE Emit \/ Place \/ ComputeFib \/ Demonstrate
           \/ \E pair \in Pairs : LinkDown(pair) \/ LinkUp(pair) \/ BwSet(pair)
  <2>1. CASE Emit
    <3>1. /\ stage = "emit" /\ plan' = plan /\ drawn' = drawn /\ budget' = budget /\ sw' = sw
          /\ \/ stage' = "place" /\ why' = why
             \/ stage' = "failed" /\ why' = "address"
      BY <2>1 DEF Emit, Fail, building
    <3>. QED
      BY <3>1, LaterStep DEF AfterLimit
  <2>2. CASE Place
    <3>1. /\ stage = "place" /\ plan' = plan /\ drawn' = drawn /\ budget' = budget /\ sw' = sw
          /\ stage' = "fib" /\ why' = why
      BY <2>2 DEF Place, building
    <3>. QED
      BY <3>1, LaterStep DEF AfterLimit
  <2>3. CASE ComputeFib
    <3>1. /\ stage = "fib" /\ plan' = plan /\ drawn' = drawn /\ budget' = budget /\ sw' = sw
          /\ stage' = "running" /\ why' = why
      BY <2>3 DEF ComputeFib, building
    <3>. QED
      BY <3>1, LaterStep DEF AfterLimit
  <2>4. CASE Demonstrate
    <3>1. /\ stage = "running" /\ plan' = plan /\ drawn' = drawn /\ budget' = budget /\ sw' = sw
          /\ \/ stage' = "done" /\ why' = why
             \/ stage' = "failed" /\ why' \in {"put", "get"}
      BY <2>4 DEF Demonstrate, Fail, building
    <3>. QED
      BY <3>1, LaterStep DEF AfterLimit
  <2>5. ASSUME NEW pair \in Pairs, LinkDown(pair) \/ LinkUp(pair) \/ BwSet(pair) PROVE BuildInv'
    <3>1. /\ stage = "running" /\ plan' = plan /\ drawn' = drawn /\ budget' = budget /\ sw' = sw
          /\ stage' = "running" /\ why' = why
      BY <2>5 DEF LinkDown, LinkUp, BwSet, LinkEvent, Unmoved, building
    <3>. QED
      BY <3>1, LaterStep DEF AfterLimit
  <2>. QED
    BY <1>1, <2>1, <2>2, <2>3, <2>4, <2>5
<1>2. CASE UNCHANGED netVars
  <2>1. /\ plan' = plan /\ stage' = stage /\ why' = why /\ drawn' = drawn /\ budget' = budget
        /\ sw' = sw /\ order' = order /\ joined' = joined
    BY <1>2 DEF netVars
  <2>2. (Mesh' <=> Mesh) /\ LineSwitches' = LineSwitches /\ Hosts' = Hosts
    BY <2>1 DEF Mesh, LineSwitches, Hosts
  <2>3. MeshInv => MeshInv'
    BY <2>1, MeshKept
  <2>4. TreeInv => TreeInv'
    BY <2>1, <2>2 DEF TreeInv, Orders, Waiting
  <2>. QED
    BY <2>1, <2>2, <2>3, <2>4 DEF BuildInv
<1>. QED
  BY <1>1, <1>2, RolesStep, DrawStep, JoinStep, TreeStep, SpreadStep, LimitStep, ExtraStep
  DEF NetNext

\* What assign_roles and the topologies of topo.py build, whatever the parameters and
\* whatever the random generator draws: BuildInv is inductive.
THEOREM NetBuildInvariant == NetSpec => []BuildInv
<1>1. NetInit => BuildInv
  BY DEF NetInit, BuildInv, AfterDraw, AfterTree, AfterLimit
<1>. QED
  BY <1>1, NetworkStep, PTL DEF NetSpec

\* A connected mesh gives every host an interface.
LEMMA EveryHostWired ==
  ASSUME plan.hosts \in Nat, plan.hosts >= 2, sw \in Seq(SUBSET Hosts), Connects(sw, plan.hosts),
         NEW h \in Hosts
  PROVE  Degree(h) \in Nat /\ Degree(h) >= 1
<1>1. {h} \in SUBSET (0..(plan.hosts - 1)) /\ {h} \notin {{}, 0..(plan.hosts - 1)}
  <2>1. 0 \in 0..(plan.hosts - 1) /\ 1 \in 0..(plan.hosts - 1)
    OBVIOUS
  <2>. QED
    BY <2>1 DEF Hosts
<1>2. PICK s \in 1..Len(sw) : sw[s] \cap {h} # {} /\ sw[s] \ {h} # {}
  BY <1>1 DEF Connects, Crossed
<1>3. DOMAIN sw = 1..Len(sw) /\ Len(sw) \in Nat
  OBVIOUS
<1>. DEFINE A == {r \in DOMAIN sw : h \in sw[r]}
<1>4. s \in A /\ A \subseteq 1..Len(sw)
  BY <1>2, <1>3
<1>5. IsFiniteSet(1..Len(sw))
  BY <1>3, FS_Interval
<1>6. Degree(h) = Cardinality(A)
  BY DEF Degree
<1>. HIDE DEF A
<1>7. IsFiniteSet(A)
  BY <1>4, <1>5, FS_Subset
<1>8. Cardinality(A) \in Nat /\ Cardinality(A) # 0
  BY <1>4, <1>7, FS_CardinalityType, FS_EmptySet
<1>. QED
  BY <1>6, <1>8

\* MeshTopo.build, LineTopo and ExplicitLinksTopo for every number of hosts, capacity,
\* limit and range of degrees, and every random choice: the network that is built is
\* connected, and a mesh respects the capacity of its switches, the degrees of its
\* hosts and the limit; a tree fails only for want of degrees.
THEOREM NetMeshSound == NetSpec => []MeshSound
<1>1. ASSUME BuildInv PROVE MeshSound
  <2>1. why = "budget" => Sum(plan.hosts, drawn) < 2 * (plan.hosts - 1)
    BY <1>1 DEF BuildInv
  <2>2. ASSUME Built
        PROVE  /\ \A S \in SUBSET Hosts : S \notin {{}, Hosts} =>
                    \E s \in DOMAIN sw : sw[s] \cap S # {} /\ sw[s] \ S # {}
               /\ Mesh => /\ \A s \in DOMAIN sw : sw[s] # {} /\ Cardinality(sw[s]) <= Capacity
                          /\ ~plan.useAll => \A h \in Hosts : Degree(h) \in 1..plan.degMax
                          /\ plan.limit # 0 => Len(sw) <= plan.limit
    <3>1. /\ stage \in AfterLimit /\ Connects(sw, plan.hosts) /\ (Mesh => MeshInv)
          /\ plan \in Plans /\ PlanOK(plan)
      BY <1>1, <2>2 DEF Built, BuildInv, AfterDraw, AfterTree, AfterLimit
    <3>2. /\ plan.hosts \in Nat /\ plan.hosts >= 2 /\ plan.degMin \in Int /\ plan.degMax \in Int
          /\ plan.explicit \in BOOLEAN
      BY <3>1, PlanFacts
    <3>3. sw \in Seq(SUBSET Hosts)
      <4>1. CASE Mesh
        BY <3>1, <4>1 DEF MeshInv
      <4>2. CASE ~Mesh
        <5>1. sw = IF plan.scenario = "linear" THEN LineSwitches ELSE plan.links
          BY <1>1, <3>1, <4>2 DEF BuildInv, AfterTree
        <5>2. CASE plan.scenario = "linear"
          BY <3>2, <5>1, <5>2, LineConnects DEF LineSwitches, Hosts
        <5>3. CASE plan.scenario # "linear"
          BY <3>1, <4>2, <5>1, <5>3, LinksConnect DEF Hosts, Mesh
        <5>. QED
          BY <5>2, <5>3
      <4>. QED
        BY <4>1, <4>2
    <3>4. DOMAIN sw = 1..Len(sw)
      BY <3>3
    <3>5. \A S \in SUBSET Hosts : S \notin {{}, Hosts} =>
             \E s \in DOMAIN sw : sw[s] \cap S # {} /\ sw[s] \ S # {}
      BY <3>1, <3>4 DEF Connects, Crossed, Hosts
    <3>6. ASSUME Mesh, ~plan.useAll, NEW h \in Hosts PROVE Degree(h) \in 1..plan.degMax
      <4>1. Degree(h) \in Nat /\ Degree(h) >= 1
        BY <3>1, <3>2, <3>3, EveryHostWired
      <4>2. /\ Degree(h) <= drawn[h] - budget[h] /\ budget[h] \in Nat
            /\ drawn[h] \in plan.degMin..plan.degMax
        BY <3>1, <3>6 DEF MeshInv
      <4>. QED
        BY <3>2, <4>1, <4>2
    <3>7. Mesh => /\ \A s \in DOMAIN sw : sw[s] # {} /\ Cardinality(sw[s]) <= Capacity
                  /\ plan.limit # 0 => Len(sw) <= plan.limit
      BY <3>1, <3>4 DEF MeshInv
    <3>. QED
      BY <3>5, <3>6, <3>7
  <2>. QED
    BY <2>1, <2>2 DEF MeshSound
<1>. QED
  BY <1>1, NetBuildInvariant, PTL

-----------------------------------------------------------------------------
(* Network: events on the links of an explicit topology. *)

\* On an explicit topology the switches are the links, in order.
LinksMatch ==
  /\ DOMAIN links = 1..Len(plan.links)
  /\ \A i \in 1..Len(plan.links) : links[i].hosts = plan.links[i] /\ links[i].subnet = i

\* A route is on the one link between its hosts.
RoutesMatch ==
  \A r \in routes : \E i \in 1..Len(plan.links) : {r.source, r.hop} = plan.links[i] /\ r.ip[1] = i

\* The ends of a link are down, or slow, with the pair.
FaultsMatch ==
  \A i \in 1..Len(plan.links) : \A h \in plan.links[i] :
    /\ <<h, i>> \in down <=> plan.links[i] \in cut
    /\ <<h, i>> \in slow <=> plan.links[i] \in limited

EventInv ==
  plan.explicit => /\ stage \in {"place", "fib", "running"} => LinksMatch
                   /\ stage = "running" => RoutesMatch
                   /\ FaultsMatch

\* Whatever the strategy, a next hop is a neighbour.
LEMMA HopsAreNeighbours ==
  ASSUME NEW graph, NEW k, NEW pubs, NEW statics, NEW strategy,
         strategy \in {"dijkstra", "shortest_path", "ecmp"},
         \A u \in DOMAIN pubs : pubs[u] \in DOMAIN graph,
         NEW t \in Hops(strategy, graph, k, pubs, statics)
  PROVE  \E src \in DOMAIN graph : \E prefix : \E n \in graph[src] : t = <<src, prefix, n>>
<1>1. ASSUME NEW src, NEW dest, NEW c \in Candidates(graph, src, dest) PROVE c[2] \in graph[src]
  BY <1>1 DEF Candidates
<1>2. ASSUME NEW src, NEW dest, NEW m PROVE FirstHops(graph, src, dest, m) \subseteq graph[src]
  BY <1>1 DEF FirstHops
<1>3. ASSUME NEW src, NEW dest PROVE EcmpHops(graph, src, dest) \subseteq graph[src]
  BY <1>1 DEF EcmpHops
<1>4. ASSUME NEW src, NEW dest PROVE NextHops(strategy, graph, src, dest, k) \subseteq graph[src]
  BY <1>2, <1>3 DEF NextHops
<1>5. ASSUME NEW src \in DOMAIN graph, NEW dest, NEW prefix,
             t \in HopsTo(strategy, graph, k, src, dest, prefix)
      PROVE  \E s \in DOMAIN graph : \E p : \E n \in graph[s] : t = <<s, p, n>>
  BY <1>4, <1>5 DEF HopsTo
<1>6. ASSUME NEW dest, NEW prefix, t \in Towards(strategy, graph, k, dest, prefix)
      PROVE  \E s \in DOMAIN graph : \E p : \E n \in graph[s] : t = <<s, p, n>>
  BY <1>5, <1>6 DEF Towards, Others, Nodes
<1>7. CASE DOMAIN pubs = {} /\ DOMAIN statics = {}
  BY <1>6, <1>7 DEF Hops
<1>8. CASE ~(DOMAIN pubs = {} /\ DOMAIN statics = {})
  <2>. DEFINE A == UNION {Towards(strategy, graph, k, pubs[p], p) : p \in DOMAIN pubs}
              B == UNION {UNION {HopsTo(strategy, graph, k, pubs[p], d, p) :
                                   d \in Others(graph, pubs[p])} : p \in DOMAIN pubs}
              C == UNION {Towards(strategy, graph, k, statics[p], p) : p \in DOMAIN statics}
  <2>0. t \in A \/ t \in B \/ t \in C
    <3>1. Hops(strategy, graph, k, pubs, statics) = A \cup B \cup C
      BY <1>8, Zenon DEF Hops
    <3>. HIDE DEF A, B, C
    <3>. QED
      BY <3>1
  <2>1. \/ \E p \in DOMAIN pubs : t \in Towards(strategy, graph, k, pubs[p], p)
        \/ \E p \in DOMAIN pubs : t \in UNION {HopsTo(strategy, graph, k, pubs[p], d, p) :
                                               d \in Others(graph, pubs[p])}
        \/ \E p \in DOMAIN statics : t \in Towards(strategy, graph, k, statics[p], p)
    BY <2>0
  <2>. QED
    BY <1>5, <1>6, <2>1
<1>. QED
  BY <1>7, <1>8

\* find_link and link_subnets agree: there is one link for a pair.
LEMMA OneLink ==
  ASSUME LinksMatch, LinksAccepted(plan), NEW pair, NEW a, NEW b, a # b, pair = {a, b},
         LinksOf(pair) # {}
  PROVE  \E i \in 1..Len(plan.links) :
           pair = plan.links[i] /\ FindLink(pair) = i /\ RouteLink(pair) = i
<1>1. PICK i \in LinksOf(pair) : TRUE
  OBVIOUS
<1>2. \A k \in LinksOf(pair) : k \in 1..Len(plan.links) /\ pair = plan.links[k]
  <2>1. ASSUME NEW k \in LinksOf(pair) PROVE k \in 1..Len(plan.links) /\ pair = plan.links[k]
    <3>1. k \in 1..Len(plan.links) /\ pair \subseteq plan.links[k]
      BY DEF LinksOf, LinksMatch
    <3>2. PICK c, d : plan.links[k] = {c, d}
      BY <3>1 DEF LinksAccepted
    <3>. QED
      BY <3>1, <3>2
  <2>. QED
    BY <2>1
<1>3. LinksOf(pair) = {i}
  <2>1. \A j, k \in 1..Len(plan.links) : plan.links[j] = plan.links[k] => j = k
    BY DEF LinksAccepted
  <2>2. \A k \in LinksOf(pair) : k = i
    BY <1>1, <1>2, <2>1
  <2>. QED
    BY <1>1, <2>2
<1>4. i \in Int
  <2>1. plan.links \in Seq(SUBSET (0..(plan.hosts - 1)))
    BY DEF LinksAccepted
  <2>2. PICK m \in Nat : m = Len(plan.links)
    BY <2>1
  <2>3. i \in 1..m
    BY <1>1, <1>2, <2>2
  <2>. QED
    BY <2>3
<1>5. FindLink(pair) = i /\ RouteLink(pair) = i
  BY <1>3, <1>4 DEF FindLink, RouteLink, FirstOf
<1>. QED
  BY <1>1, <1>2, <1>5

\* Emit makes one link of each.
LEMMA EmitMatches ==
  ASSUME BuildInv, EventInv, Emit, plan.explicit, stage' = "place"
  PROVE  LinksMatch'
<1>1. plan' = plan /\ stage = "emit"
  BY DEF Emit
<1>2. LinksAccepted(plan) /\ plan.scenario = "disaster" /\ plan.explicit \in BOOLEAN
  BY PlanFacts DEF BuildInv
<1>3. sw = plan.links
  BY <1>1, <1>2 DEF BuildInv, AfterTree, AfterLimit, Mesh
<1>4. DOMAIN sw = 1..Len(sw)
  BY <1>2, <1>3 DEF LinksAccepted
<1>5. links' = [s \in DOMAIN sw |-> [subnet |-> SubnetOf(s), hosts |-> sw[s],
                                    eth |-> [h \in sw[s] |-> EthOn(h, s)]]]
  BY DEF Emit
<1>6. \A s : SubnetOf(s) = s
  BY <1>2 DEF SubnetOf
<1>. QED
  BY <1>1, <1>3, <1>4, <1>5, <1>6 DEF LinksMatch

\* Every computed route is on its link.
LEMMA RoutesComputed ==
  ASSUME BuildInv, EventInv, ComputeFib, plan.explicit
  PROVE  RoutesMatch'
<1>1. plan' = plan /\ stage = "fib" /\ plan \in Plans /\ PlanOK(plan)
  BY DEF ComputeFib, BuildInv
<1>2. LinksMatch
  BY <1>1 DEF EventInv
<1>3. LinksAccepted(plan) /\ plan.scenario = "disaster"
  BY <1>1, PlanFacts
<1>4. ASSUME NEW r \in routes'
      PROVE  \E i \in 1..Len(plan.links) : {r.source, r.hop} = plan.links[i] /\ r.ip[1] = i
  <2>1. PICK g : g = HostGraph
    OBVIOUS
  <2>2. DOMAIN g = Hosts /\ \A s \in Hosts : \A n \in g[s] : n # s /\ LinksOf({s, n}) # {}
    BY <2>1 DEF HostGraph
  <2>3. PICK t \in Hops(plan.routing, g, plan.k, plan.pubs, plan.statics) :
          r = RouteTo(t[1], t[2], t[3])
    BY <1>3, <1>4, <2>1 DEF ComputeFib
  <2>4. PICK src \in DOMAIN g : \E prefix : \E n \in g[src] : t = <<src, prefix, n>>
    <3>1. PICK k, pubs, statics, strategy :
            k = plan.k /\ pubs = plan.pubs /\ statics = plan.statics /\ strategy = plan.routing
      OBVIOUS
    <3>2. /\ strategy \in {"dijkstra", "shortest_path", "ecmp"}
          /\ \A u \in DOMAIN pubs : pubs[u] \in DOMAIN g
      BY <1>1, <2>2, <3>1, PlansAssumption DEF Hosts
    <3>3. t \in Hops(strategy, g, k, pubs, statics)
      BY <2>3, <3>1
    <3>. QED
      BY <3>2, <3>3, HopsAreNeighbours
  <2>5. PICK prefix, n : n \in g[src] /\ t = <<src, prefix, n>>
    BY <2>4
  <2>6. n # src /\ LinksOf({src, n}) # {}
    BY <2>2, <2>5
  <2>7. PICK pair : pair = {src, n}
    OBVIOUS
  <2>8. PICK i \in 1..Len(plan.links) : pair = plan.links[i] /\ RouteLink(pair) = i
    BY <1>2, <1>3, <2>6, <2>7, OneLink
  <2>9. r = [source |-> src, prefix |-> prefix, hop |-> n, ip |-> <<links[i].subnet, n>>]
    BY <2>3, <2>5, <2>7, <2>8 DEF RouteTo
  <2>10. links[i].subnet = i
    BY <1>2, <2>8 DEF LinksMatch
  <2>. QED
    BY <2>7, <2>8, <2>9, <2>10
<1>. QED
  BY <1>1, <1>4 DEF RoutesMatch

\* An event of one pair moves the ends of its own link only.
LEMMA FaultsStep ==
  ASSUME BuildInv, EventInv, plan.explicit, NEW pair \in Pairs,
         LinkDown(pair) \/ LinkUp(pair) \/ BwSet(pair)
  PROVE  FaultsMatch'
<1>1. plan' = plan /\ stage = "running" /\ LinksOf(pair) # {} /\ plan \in Plans /\ PlanOK(plan)
  BY DEF LinkDown, LinkUp, BwSet, LinkEvent, Unmoved, BuildInv
<1>2. LinksMatch /\ FaultsMatch
  BY <1>1 DEF EventInv
<1>3. LinksAccepted(plan)
  BY <1>1, PlanFacts
<1>4. PICK a, b : a # b /\ pair = {a, b}
  <2>1. PICK a \in Hosts, b \in Hosts : pair = {a, b} /\ pair # {a}
    BY DEF Pairs
  <2>. QED
    BY <2>1
<1>5. PICK i \in 1..Len(plan.links) : pair = plan.links[i] /\ FindLink(pair) = i
  BY <1>1, <1>2, <1>3, <1>4, OneLink
<1>6. EndsOn(pair) = {<<h, i>> : h \in pair} /\ links[i].hosts = pair
  BY <1>2, <1>5 DEF EndsOn, LinksMatch
<1>7. ASSUME NEW k \in 1..Len(plan.links), NEW h \in plan.links[k]
      PROVE  /\ <<h, k>> \in down' <=> plan.links[k] \in cut'
             /\ <<h, k>> \in slow' <=> plan.links[k] \in limited'
  <2>0. /\ <<h, k>> \in down <=> plan.links[k] \in cut
        /\ <<h, k>> \in slow <=> plan.links[k] \in limited
    BY <1>2 DEF FaultsMatch
  <2>1. k = i <=> plan.links[k] = pair
    BY <1>3, <1>5 DEF LinksAccepted
  <2>2. <<h, k>> \in {<<x, i>> : x \in pair} <=> k = i
    BY <1>5
  <2>3. <<h, k>> \in pair \X {i} <=> k = i
    BY <1>5
  <2>4. CASE LinkDown(pair)
    <3>1. /\ down' = down \cup {<<x, i>> : x \in pair} /\ cut' = cut \cup {pair}
          /\ slow' = slow /\ limited' = limited
      BY <1>6, <2>4 DEF LinkDown
    <3>. QED
      BY <2>0, <2>1, <2>2, <3>1
  <2>5. CASE LinkUp(pair)
    <3>1. /\ down' = down \ {<<x, i>> : x \in pair} /\ cut' = cut \ {pair}
          /\ slow' = slow /\ limited' = limited
      BY <1>6, <2>5 DEF LinkUp
    <3>. QED
      BY <2>0, <2>1, <2>2, <3>1
  <2>6. CASE BwSet(pair)
    <3>1. /\ slow' = slow \cup (pair \X {i}) /\ limited' = limited \cup {pair}
          /\ down' = down /\ cut' = cut
      BY <1>5, <1>6, <2>6 DEF BwSet
    <3>. QED
      BY <2>0, <2>1, <2>3, <3>1
  <2>. QED
    BY <2>4, <2>5, <2>6
<1>. QED
  BY <1>1, <1>7 DEF FaultsMatch

\* Every step keeps the links, the routes and the faults in agreement.
LEMMA EventStep == ASSUME BuildInv, EventInv, [NetNext]_netVars PROVE EventInv'
<1>. SUFFICES ASSUME plan.explicit, plan' = plan
              PROVE  /\ stage' \in {"place", "fib", "running"} => LinksMatch'
                     /\ stage' = "running" => RoutesMatch'
                     /\ FaultsMatch'
  <2>1. plan' = plan
    BY DEF NetNext, netVars, AssignRoles, DrawDegrees, JoinTree, TreeDone, Spread, CheckLimit,
           Extra, Emit, Place, ComputeFib, Demonstrate, LinkDown, LinkUp, BwSet, Unmoved
  <2>. QED
    BY <2>1 DEF EventInv
<1>0. /\ stage \in {"place", "fib", "running"} => LinksMatch
      /\ stage = "running" => RoutesMatch
      /\ FaultsMatch
  BY DEF EventInv
<1>1. UNCHANGED faults => FaultsMatch'
  BY <1>0 DEF FaultsMatch, faults
<1>2. UNCHANGED links /\ LinksMatch => LinksMatch'
  BY DEF LinksMatch
<1>3. UNCHANGED routes /\ RoutesMatch => RoutesMatch'
  BY DEF RoutesMatch
<1>4. CASE \/ AssignRoles \/ DrawDegrees \/ JoinTree \/ TreeDone \/ Spread \/ CheckLimit \/ Extra
           \/ Demonstrate
  <2>1. /\ UNCHANGED faults /\ UNCHANGED links /\ UNCHANGED routes
        /\ stage' \notin {"place", "fib", "running"}
    BY <1>4 DEF AssignRoles, DrawDegrees, JoinTree, TreeDone, Spread, CheckLimit, Extra,
                Demonstrate, network, Fail
  <2>. QED
    BY <1>1, <2>1
<1>5. CASE Emit
  <2>1. UNCHANGED faults /\ stage' \in {"place", "failed"}
    BY <1>5 DEF Emit, Fail
  <2>. QED
    BY <1>1, <1>5, <2>1, EmitMatches
<1>6. CASE Place
  <2>1. UNCHANGED faults /\ UNCHANGED links /\ stage = "place" /\ stage' = "fib"
    BY <1>6 DEF Place
  <2>. QED
    BY <1>0, <1>1, <1>2, <2>1
<1>7. CASE ComputeFib
  <2>1. UNCHANGED faults /\ UNCHANGED links /\ stage = "fib" /\ stage' = "running"
    BY <1>7 DEF ComputeFib
  <2>. QED
    BY <1>0, <1>1, <1>2, <1>7, <2>1, RoutesComputed
<1>8. ASSUME NEW pair \in Pairs, LinkDown(pair) \/ LinkUp(pair) \/ BwSet(pair)
      PROVE  /\ stage' \in {"place", "fib", "running"} => LinksMatch'
             /\ stage' = "running" => RoutesMatch'
             /\ FaultsMatch'
  <2>1. UNCHANGED links /\ UNCHANGED routes /\ stage = "running" /\ stage' = stage
    BY <1>8 DEF LinkDown, LinkUp, BwSet, LinkEvent, Unmoved, network
  <2>. QED
    BY <1>0, <1>2, <1>3, <1>8, <2>1, FaultsStep
<1>9. CASE UNCHANGED netVars
  <2>1. UNCHANGED links /\ UNCHANGED routes /\ stage' = stage /\ UNCHANGED faults
    BY <1>9 DEF netVars, faults
  <2>. QED
    BY <1>0, <1>1, <1>2, <1>3, <2>1
<1>. QED
  BY <1>4, <1>5, <1>6, <1>7, <1>8, <1>9 DEF NetNext

\* links.py and bandwidth.py on an explicit topology, for every list of links the
\* validator accepts, every routing strategy and every sequence of events: the routes
\* of a pair follow the pair's own last link event, and its own bw_set.
THEOREM NetLinkEventsExact == NetSpec => []LinkEventsExact
<1>1. NetInit => EventInv
  BY DEF NetInit, EventInv, FaultsMatch
<1>2. BuildInv /\ EventInv => LinkEventsExact
  <2>. SUFFICES ASSUME BuildInv, EventInv, plan.explicit, stage = "running", NEW r \in routes
                PROVE  /\ ({r.source, r.hop} \in cut) <=>
                            (\E h \in {r.source, r.hop} : <<h, r.ip[1]>> \in down)
                       /\ ({r.source, r.hop} \in limited) <=>
                            (\E h \in {r.source, r.hop} : <<h, r.ip[1]>> \in slow)
    BY DEF LinkEventsExact
  <2>1. PICK i \in 1..Len(plan.links) : {r.source, r.hop} = plan.links[i] /\ r.ip[1] = i
    BY DEF EventInv, RoutesMatch
  <2>2. \A h \in {r.source, r.hop} : /\ <<h, i>> \in down <=> {r.source, r.hop} \in cut
                                     /\ <<h, i>> \in slow <=> {r.source, r.hop} \in limited
    BY <2>1 DEF EventInv, FaultsMatch
  <2>. QED
    BY <2>1, <2>2
<1>. QED
  BY <1>1, <1>2, EventStep, NetBuildInvariant, PTL DEF NetSpec
=============================================================================
