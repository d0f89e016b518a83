--------------------------- MODULE ContentRunner ---------------------------
(***************************************************************************)
(* ContentOperationRunner (src/src/runtime/content_ops.py): a worker       *)
(* thread executes content operations from a queue.  A subscription leaves *)
(* a cefsubfile process behind; the publication of its URI, wait_all or    *)
(* stop waits for that process and records its result.                     *)
(*                                                                         *)
(* The scheduler thread submits the operations, the main thread calls      *)
(* wait_all and stop (run_event_batch, shutdown_runtime_resources).        *)
(* Commands are processes that end on their own at any time or never.      *)
(***************************************************************************)
EXTENDS Naturals, Sequences, FiniteSets

CONSTANTS
  Script,       \* the operations, in the order in which they are submitted
  StartupGrace  \* startup_grace

Kind == {"put", "get", "sub", "pub", "ccninfo"}

ASSUME RunnerAssumption ==
  /\ Script \in Seq([kind : Kind, uri : Nat])
  /\ StartupGrace \in Nat

Ops == DOMAIN Script
Sentinel == 0
Subs == {o \in Ops : Script[o].kind = "sub"}

VARIABLES
  sched,        \* the scheduler thread: on, in its last handler, off
  sent,         \* operations submitted so far: 1..sent
  queue,        \* _queue
  unfinished,   \* _queue.unfinished_tasks
  cancel,       \* _cancel_event
  pending,      \* _pending_subs, without the grouping by URI
  wpc, op,      \* the worker thread, and the operation in its hands
  mine,         \* sub_entries: subscriptions the worker's publication waits for
  mpc,          \* the main thread
  left,         \* leftovers: subscriptions wait_all or stop waits for
  completed,    \* what wait_all returns
  procs,        \* processes alive
  records,      \* how many records the sink has for each operation
  started,      \* history: operations whose process was started
  failed,       \* history: operations whose handler raised
  lost,         \* history: subscriptions in the hands of a handler that raised
  afterCancel,  \* history: processes started after cancel was set
  asked,        \* history: sent when wait_all was called
  joined        \* history: the worker had ended when stop stopped waiting

submitVars == <<sched, sent>>
queueVars == <<queue, unfinished>>
workerVars == <<wpc, op, mine>>
mainVars == <<mpc, left, completed, asked, joined>>
startVars == <<started, afterCancel>>
vars == <<submitVars, queueVars, cancel, pending, workerVars, mainVars, procs,
          records, startVars, failed, lost>>

Init ==
  /\ sched = "on" /\ sent = 0
  /\ queue = <<>> /\ unfinished = 0
  /\ cancel = FALSE
  /\ pending = {}
  /\ wpc = "idle" /\ op = Sentinel /\ mine = {}
  /\ mpc = "experiment" /\ left = {} /\ completed = "none"
  /\ procs = {}
  /\ records = [o \in Ops |-> 0]
  /\ started = {} /\ failed = {} /\ lost = {}
  /\ afterCancel = 0 /\ asked = 0 /\ joined = FALSE

-----------------------------------------------------------------------------
(* Submission: the scheduler's content handlers *)

Submit ==
  /\ sched \in {"on", "late"}
  /\ sent < Len(Script)
  /\ sent' = sent + 1
  /\ queue' = Append(queue, sent + 1)
  /\ unfinished' = unfinished + 1
  /\ sched' = IF sched = "late" THEN "off" ELSE "on"
  /\ UNCHANGED <<cancel, pending, workerVars, mainVars, procs, records,
                 startVars, failed, lost>>

\* EventScheduler.stop: a handler already chosen may still submit.
SchedulerStop ==
  /\ sched = "on" /\ mpc \in {"experiment", "waited"}
  /\ sched' \in {"late", "off"}
  /\ UNCHANGED <<sent, queueVars, cancel, pending, workerVars, mainVars, procs,
                 records, startVars, failed, lost>>

-----------------------------------------------------------------------------
(* Processes *)

Launch(o) ==
  /\ procs' = procs \cup {o}
  /\ started' = started \cup {o}
  /\ afterCancel' = IF cancel THEN afterCancel + 1 ELSE afterCancel

ProcessExits ==
  /\ \E o \in procs : procs' = procs \ {o}
  /\ UNCHANGED <<submitVars, queueVars, cancel, pending, workerVars, mainVars,
                 records, startVars, failed, lost>>

\* cefputfile and cefgetfile run without a deadline.
HasDeadline(o) == Script[o].kind \in {"sub", "pub", "ccninfo"}

\* CommandRunner.wait returns when the process has exited; otherwise
\* cancellation or the deadline kills it.
WaitReturns(o) ==
  /\ o \notin procs \/ cancel \/ HasDeadline(o)
  /\ procs' = procs \ {o}

Record(o) == records' = [records EXCEPT ![o] = @ + 1]

-----------------------------------------------------------------------------
(* The worker thread *)

\* queue.task_done after a handler returned or raised.
TaskDone == wpc' = "idle" /\ op' = Sentinel /\ unfinished' = unfinished - 1

Get_LastIn ==
  /\ wpc = "idle" /\ queue # <<>>
  /\ queue' = SubSeq(queue, 1, Len(queue) - 1)
  /\ LET item == queue[Len(queue)] IN
     \/ /\ item = Sentinel
        /\ wpc' = "dead" /\ unfinished' = unfinished - 1 /\ UNCHANGED op
     \/ /\ item # Sentinel /\ cancel
        /\ unfinished' = unfinished - 1 /\ UNCHANGED <<wpc, op>>
     \/ /\ item # Sentinel /\ ~cancel
        /\ wpc' = "dispatch" /\ op' = item /\ UNCHANGED unfinished
  /\ UNCHANGED <<submitVars, cancel, pending, mine, mainVars, procs, records,
                 startVars, failed, lost>>

\* _run: the sentinel ends the loop, a cancelled runner skips the operation.
Get ==
  /\ wpc = "idle" /\ queue # <<>>
  /\ queue' = Tail(queue)
  /\ \/ /\ Head(queue) = Sentinel
        /\ wpc' = "dead" /\ unfinished' = unfinished - 1 /\ UNCHANGED op
     \/ /\ Head(queue) # Sentinel /\ cancel
        /\ unfinished' = unfinished - 1 /\ UNCHANGED <<wpc, op>>
     \/ /\ Head(queue) # Sentinel /\ ~cancel
        /\ wpc' = "dispatch" /\ op' = Head(queue) /\ UNCHANGED unfinished
  /\ UNCHANGED <<submitVars, cancel, pending, mine, mainVars, procs, records,
                 startVars, failed, lost>>

Dispatched(kinds) == wpc = "dispatch" /\ op \in Ops /\ Script[op].kind \in kinds

\* _do_put, _do_get, _do_ccninfo: run the command and record its result.
RunStart ==
  /\ Dispatched({"put", "get", "ccninfo"})
  /\ Launch(op)
  /\ wpc' = "run"
  /\ UNCHANGED <<submitVars, queueVars, cancel, pending, op, mine, mainVars,
                 records, failed, lost>>

RunEnds ==
  /\ wpc = "run"
  /\ WaitReturns(op)
  /\ Record(op) /\ TaskDone
  /\ UNCHANGED <<submitVars, queue, cancel, pending, mine, mainVars, startVars,
                 failed, lost>>

\* The command cannot be started, or its log cannot be read: only _do_ccninfo
\* catches the exception and records a failure.
RunRaises ==
  /\ \/ Dispatched({"put", "get", "ccninfo"}) /\ UNCHANGED procs
     \/ wpc = "run" /\ WaitReturns(op)
  /\ IF Script[op].kind = "ccninfo"
     THEN Record(op) /\ UNCHANGED failed
     ELSE failed' = failed \cup {op} /\ UNCHANGED records
  /\ TaskDone
  /\ UNCHANGED <<submitVars, queue, cancel, pending, mine, mainVars, startVars,
                 lost>>

\* _do_pubsub_sub: clear the output directory, start cefsubfile ...
SubStart ==
  /\ Dispatched({"sub"})
  /\ Launch(op)
  /\ wpc' = "register"
  /\ UNCHANGED <<submitVars, queueVars, cancel, pending, op, mine, mainVars,
                 records, failed, lost>>

SubStartRaises ==
  /\ Dispatched({"sub"})
  /\ failed' = failed \cup {op}
  /\ TaskDone
  /\ UNCHANGED <<submitVars, queue, cancel, pending, mine, mainVars, procs,
                 records, startVars, lost>>

\* ... and leave its handle in _pending_subs.
Register ==
  /\ wpc = "register"
  /\ pending' = pending \cup {op}
  /\ TaskDone
  /\ UNCHANGED <<submitVars, queue, cancel, mine, mainVars, procs, records,
                 startVars, failed, lost>>

\* _do_pubsub_pub: after the grace delay, unless cancelled during it, take the
\* pending subscriptions of the URI.
GraceCancelled ==
  /\ Dispatched({"pub"})
  /\ StartupGrace > 0 /\ cancel
  /\ TaskDone
  /\ UNCHANGED <<submitVars, queue, cancel, pending, mine, mainVars, procs,
                 records, startVars, failed, lost>>

SameUri(o) == {s \in pending : Script[s].uri = Script[o].uri}

TakeSubs_Peeks ==
  /\ Dispatched({"pub"})
  /\ ~(StartupGrace > 0 /\ cancel)
  /\ mine' = SameUri(op)
  /\ wpc' = "publish"
  /\ UNCHANGED <<submitVars, queueVars, cancel, pending, op, mainVars, procs,
                 records, startVars, failed, lost>>

TakeSubs ==
  /\ Dispatched({"pub"})
  /\ ~(StartupGrace > 0 /\ cancel)
  /\ mine' = SameUri(op)
  /\ pending' = pending \ SameUri(op)
  /\ wpc' = "publish"
  /\ UNCHANGED <<submitVars, queueVars, cancel, op, mainVars, procs, records,
                 startVars, failed, lost>>

PubStart ==
  /\ wpc = "publish"
  /\ Launch(op)
  /\ wpc' = "published"
  /\ UNCHANGED <<submitVars, queueVars, cancel, pending, op, mine, mainVars,
                 records, failed, lost>>

\* cefpubfile cannot be started: the subscriptions taken are dropped.
PubStartRaises ==
  /\ wpc = "publish"
  /\ failed' = failed \cup {op}
  /\ lost' = lost \cup mine /\ mine' = {}
  /\ TaskDone
  /\ UNCHANGED <<submitVars, queue, cancel, pending, mainVars, procs, records,
                 startVars>>

PubEnds ==
  /\ wpc = "published"
  /\ WaitReturns(op)
  /\ Record(op)
  /\ wpc' = "subs"
  /\ UNCHANGED <<submitVars, queueVars, cancel, pending, op, mine, mainVars,
                 startVars, failed, lost>>

SubEnds ==
  /\ wpc = "subs"
  /\ \E s \in mine : WaitReturns(s) /\ Record(s) /\ mine' = mine \ {s}
  /\ UNCHANGED <<submitVars, queueVars, cancel, pending, wpc, op, mainVars,
                 startVars, failed, lost>>

\* An artifact vanishes while it is inspected: the rest is dropped.
SubJudgeRaises ==
  /\ wpc = "subs"
  /\ \E s \in mine : WaitReturns(s)
  /\ lost' = lost \cup mine /\ mine' = {}
  /\ TaskDone
  /\ UNCHANGED <<submitVars, queue, cancel, pending, mainVars, records,
                 startVars, failed>>

PubReturns ==
  /\ wpc = "subs" /\ mine = {}
  /\ TaskDone
  /\ UNCHANGED <<submitVars, queue, cancel, pending, mine, mainVars, procs,
                 records, startVars, failed, lost>>

Worker ==
  \/ Get \/ RunStart \/ RunEnds \/ RunRaises
  \/ SubStart \/ SubStartRaises \/ Register
  \/ GraceCancelled \/ TakeSubs \/ PubStart \/ PubStartRaises \/ PubEnds
  \/ SubEnds \/ SubJudgeRaises \/ PubReturns

-----------------------------------------------------------------------------
(* The main thread: wait_all *)

WaitAllBegins ==
  /\ mpc = "experiment"
  /\ mpc' = "waiting"
  /\ asked' = sent
  /\ UNCHANGED <<submitVars, queueVars, cancel, pending, workerVars, left,
                 completed, joined, procs, records, startVars, failed, lost>>

WaitAllTasks_NoDeadline ==
  /\ mpc = "waiting"
  /\ unfinished = 0 /\ completed' = "True" /\ mpc' = "take"
  /\ UNCHANGED <<submitVars, queueVars, cancel, pending, workerVars, left,
                 asked, joined, procs, records, startVars, failed, lost>>

\* Every task is done, or the deadline passed and the rest is cancelled.
WaitAllTasks ==
  /\ mpc = "waiting"
  /\ \/ unfinished = 0 /\ completed' = "True" /\ mpc' = "take" /\ UNCHANGED cancel
     \/ unfinished > 0 /\ completed' = "False" /\ mpc' = "wa_discard" /\ cancel' = TRUE
  /\ UNCHANGED <<submitVars, queueVars, pending, workerVars, left, asked,
                 joined, procs, records, startVars, failed, lost>>

\* _discard_queued_items, one get_nowait at a time.
Discard ==
  /\ mpc \in {"wa_discard", "st_discard"}
  /\ \/ /\ queue # <<>>
        /\ queue' = Tail(queue)
        /\ unfinished' = unfinished - 1
        /\ UNCHANGED mpc
     \/ /\ queue = <<>>
        /\ mpc' = IF mpc = "wa_discard" THEN "take" ELSE "sentinel"
        /\ UNCHANGED queueVars
  /\ UNCHANGED <<submitVars, cancel, pending, workerVars, left, completed,
                 asked, joined, procs, records, startVars, failed, lost>>

\* Take the subscriptions that no publication came for.
TakeLeftovers ==
  /\ mpc \in {"take", "st_take"}
  /\ left' = pending /\ pending' = {}
  /\ mpc' = IF mpc = "take" THEN "wa_left" ELSE "st_left"
  /\ UNCHANGED <<submitVars, queueVars, cancel, workerVars, completed, asked,
                 joined, procs, records, startVars, failed, lost>>

\* Wait for one of them, at most until the deadline, and record it.
LeftoverEnds ==
  /\ mpc \in {"wa_left", "st_left"}
  /\ \E s \in left : WaitReturns(s) /\ Record(s) /\ left' = left \ {s}
  /\ completed' \in IF mpc = "wa_left" THEN {completed, "False"} ELSE {completed}
  /\ UNCHANGED <<submitVars, queueVars, cancel, pending, workerVars, mpc, asked,
                 joined, startVars, failed, lost>>

\* The exception leaves wait_all or stop; the caller goes on with its stages.
LeftoverRaises ==
  /\ mpc \in {"wa_left", "st_left"}
  /\ \E s \in left : WaitReturns(s)
  /\ lost' = lost \cup left /\ left' = {}
  /\ completed' = IF mpc = "wa_left" THEN "raised" ELSE completed
  /\ mpc' = IF mpc = "wa_left" THEN "waited" ELSE "done"
  /\ UNCHANGED <<submitVars, queueVars, cancel, pending, workerVars, asked,
                 joined, records, startVars, failed>>

LeftoversEnd ==
  /\ mpc \in {"wa_left", "st_left"} /\ left = {}
  /\ mpc' = IF mpc = "wa_left" THEN "waited" ELSE "done"
  /\ UNCHANGED <<submitVars, queueVars, cancel, pending, workerVars, left,
                 completed, asked, joined, procs, records, startVars, failed,
                 lost>>

-----------------------------------------------------------------------------
(* The main thread: stop *)

\* The scheduler is always stopped before the runner.
StopBegins ==
  /\ mpc \in {"experiment", "waited"} /\ sched # "on"
  /\ mpc' = "st_discard"
  /\ cancel' = TRUE
  /\ UNCHANGED <<submitVars, queueVars, pending, workerVars, left, completed,
                 asked, joined, procs, records, startVars, failed, lost>>

PutSentinel ==
  /\ mpc = "sentinel"
  /\ queue' = Append(queue, Sentinel)
  /\ unfinished' = unfinished + 1
  /\ mpc' = "joining"
  /\ UNCHANGED <<submitVars, cancel, pending, workerVars, left, completed,
                 asked, joined, procs, records, startVars, failed, lost>>

\* join(timeout=15): the worker has ended, or is given up on.
Join ==
  /\ mpc = "joining"
  /\ joined' = (wpc = "dead")
  /\ mpc' = "st_take"
  /\ UNCHANGED <<submitVars, queueVars, cancel, pending, workerVars, left,
                 completed, asked, procs, records, startVars, failed, lost>>

Main ==
  \/ WaitAllTasks \/ Discard \/ TakeLeftovers \/ LeftoverEnds \/ LeftoverRaises
  \/ LeftoversEnd \/ PutSentinel \/ Join

-----------------------------------------------------------------------------
Next ==
  \/ Submit \/ SchedulerStop \/ ProcessExits
  \/ Worker \/ WaitAllBegins \/ StopBegins \/ Main

Spec == Init /\ [][Next]_vars

\* Both threads are scheduled and deadlines pass; a process may run forever.
FairSpec == Spec /\ WF_vars(Worker) /\ WF_vars(Main)

-----------------------------------------------------------------------------
(* Properties *)

\* Every variable keeps the type the code gives it.
TypeOK ==
  /\ sched \in {"on", "late", "off"}
  /\ sent \in 0..Len(Script)
  /\ queue \in Seq(Ops \cup {Sentinel})
  /\ unfinished \in Nat
  /\ cancel \in BOOLEAN
  /\ pending \subseteq Subs
  /\ wpc \in {"idle", "dispatch", "run", "register", "publish", "published",
              "subs", "dead"}
  /\ op \in Ops \cup {Sentinel}
  /\ mine \subseteq Subs
  /\ mpc \in {"experiment", "waiting", "wa_discard", "take", "wa_left", "waited",
              "st_discard", "sentinel", "joining", "st_take", "st_left", "done"}
  /\ left \subseteq Subs
  /\ completed \in {"none", "True", "False", "raised"}
  /\ procs \subseteq Ops
  /\ records \in [Ops -> Nat]
  /\ started \subseteq Ops
  /\ failed \subseteq Ops
  /\ lost \subseteq Subs
  /\ afterCancel \in Nat
  /\ asked \in 0..Len(Script)
  /\ joined \in BOOLEAN

\* However wait_all, stop and the worker race for the pending subscriptions,
\* no operation is recorded twice.
AtMostOneRecord == \A o \in Ops : records[o] <= 1

\* _queue.unfinished_tasks counts what is queued and what the worker handles,
\* whoever takes an item out: otherwise wait_all hangs or returns too early.
Accounting ==
  unfinished = Len(queue) + IF wpc \in {"idle", "dead"} THEN 0 ELSE 1

\* The operation is through: it has its record, or its handler raised.
Settled(o) ==
  \/ records[o] = 1
  \/ o \in failed /\ Script[o].kind # "ccninfo"
  \/ o \in lost

\* When wait_all was called after the last submission (run_event_batch reports a
\* batch as completed only then) and returns True, every operation is through,
\* the subscriptions included.  A publication submitted meanwhile may take
\* subscriptions away from wait_all, which then returns before their end.
CompletedMeansSettled ==
  mpc \in {"waited", "st_discard"} /\ completed = "True" /\ asked = sent =>
    \A o \in 1..sent : Settled(o)

\* After stop, if the worker ended in time, every subscription that was started
\* has its record and its process has been waited for, unless a handler that
\* raised held it.
SubsSettled ==
  mpc = "done" /\ joined =>
    \A s \in Subs \cap started :
      s \in lost \/ (records[s] = 1 /\ s \notin procs)

\* Once cancelled, at most the operation already taken still starts a process.
OneStartAfterCancel == afterCancel <= 1

\* When a publication runs, every subscription to its URI submitted before it
\* has been started, unless it could not be.
PubAfterSubs ==
  wpc = "published" =>
    \A s \in Subs : s < op /\ Script[s].uri = Script[op].uri =>
      s \in started \cup failed

\* Once begun, wait_all and stop return and the worker ends, even if a command
\* never ends by itself.
ShutdownCompletes ==
  /\ mpc = "waiting" ~> mpc = "waited"
  /\ mpc = "st_discard" ~> mpc = "done"
  /\ mpc = "joining" ~> wpc = "dead"

\* wait_all, stop, the worker and its publications share the queue, its counter
\* and the pending subscriptions: no operation is recorded twice or forgotten.
RecordsSound ==
  AtMostOneRecord /\ Accounting /\ CompletedMeansSettled /\ SubsSettled

\* What the worker starts: one operation after a cancel, a publication after its
\* subscriptions.
StartsOrdered == OneStartAfterCancel /\ PubAfterSubs
=============================================================================
