------------------------------ MODULE HostApps ------------------------------
(***************************************************************************)
(* HostAppFleet (src/src/runtime/host_apps.py): the per-host application   *)
(* processes of one experiment.  Two threads share the fleet.  The main    *)
(* thread starts every application, runs the experiment and finally calls  *)
(* stop_all().  The EventScheduler thread calls restart_host() for every   *)
(* host_app_restart event, at any moment after the scheduler was started,  *)
(* shutdown included.                                                      *)
(*                                                                         *)
(* A process is identified by its application and its life (1 for          *)
(* start_all, n+1 for the restart of life n).  The list _launches is       *)
(* modelled as a set: its order decides only which of several stops or     *)
(* starts comes first, and here any order may happen.                      *)
(***************************************************************************)
EXTENDS Naturals, Sequences

CONSTANTS
  Apps,         \* one element per (host_apps entry, host) pair
  Hosts,        \* the host indices
  HostOf,       \* the host an application runs on
  BaseLog,      \* its life-1 log file; NoLog when the entry has no log
  MaxRestarts   \* bound: number of host_app_restart events fired

\* A canonical path is the sequence of the (numbered) parts of its name; a
\* later life appends its number, as the code appends ".lifeN".
Path == Seq(Nat)
NoLog == <<>>

ASSUME HostAppsAssumption ==
  /\ HostOf \in [Apps -> Hosts]
  /\ BaseLog \in [Apps -> Path]
  /\ MaxRestarts \in Nat

VARIABLES
  \* The fleet object.
  launches,     \* _launches: the processes the fleet tracks
  stopping,     \* _stopping: shutdown has begun
  lock,         \* _lock: "free" or the thread that holds it
  \* The operating system.
  running,      \* the processes that are alive
  opened,       \* the processes for which start() has opened a log file
  truncated,    \* history: <<p, q>> when the start of p opened the file of q
  \* The main thread.
  mpc,          \* where it is
  unstarted,    \* applications start_all has still to start
  sweep,        \* launches stop_all has still to stop
  survivors,    \* history: launches whose stop by stop_all raised
  \* The scheduler thread, inside restart_host.
  rpc,          \* where it is
  rhost,        \* the host being restarted
  mine,         \* the launches of that host
  todo,         \* those still to be stopped, or to be started
  unstopped,    \* those whose stop raised
  result,       \* outcome of the last call
  restarts      \* number of calls so far

fleetVars == <<launches, stopping, lock>>
osVars    == <<running, opened, truncated>>
mainVars  == <<mpc, unstarted, sweep, survivors>>
restartVars == <<rpc, rhost, mine, todo, unstopped, result, restarts>>
vars == <<fleetVars, osVars, mainVars, restartVars>>

Process == [app : Apps, life : Nat \ {0}]

NextLife(p) == [app |-> p.app, life |-> p.life + 1]

-----------------------------------------------------------------------------
(* Log files *)

LifeLog(log, life) ==
  IF log = NoLog \/ life <= 1 THEN log ELSE Append(log, life)

LogOf(p) == LifeLog(BaseLog[p.app], p.life)

ReservedLogs == {BaseLog[a] : a \in Apps} \ {NoLog}

Collides_Never(p) == FALSE

\* The restart of p would write to a file some entry starts its first life on.
Collides(p) == LogOf(NextLife(p)) \in ReservedLogs

-----------------------------------------------------------------------------
Init ==
  /\ launches = {} /\ stopping = FALSE /\ lock = "free"
  /\ running = {} /\ opened = {} /\ truncated = {}
  /\ mpc = "start_all" /\ unstarted = Apps /\ sweep = {} /\ survivors = {}
  /\ rpc = "off" /\ rhost \in Hosts /\ mine = {} /\ todo = {}
  /\ unstopped = {} /\ result = "none" /\ restarts = 0

-----------------------------------------------------------------------------
(* CommandRunner, as the fleet uses it *)

\* start() opens the log with "wb" before it spawns the process.
OpenLog(p) ==
  IF LogOf(p) = NoLog
  THEN UNCHANGED <<opened, truncated>>
  ELSE /\ opened' = opened \cup {p}
       /\ truncated' = truncated \cup
                         ({p} \X {q \in opened : LogOf(q) = LogOf(p)})

Spawn(p) == OpenLog(p) /\ running' = running \cup {p}

\* start() raises: the open failed, or the spawn after it.
SpawnFails(p) ==
  /\ OpenLog(p) \/ UNCHANGED <<opened, truncated>>
  /\ UNCHANGED running

\* wait() with an expired deadline has ended and reaped the process.
Reap(p) ==
  /\ running' = running \ {p}
  /\ UNCHANGED <<opened, truncated>>

\* A host application may exit on its own at any time.
ProcessExits(p) ==
  /\ p \in running
  /\ Reap(p)
  /\ UNCHANGED <<fleetVars, mainVars, restartVars>>

-----------------------------------------------------------------------------
(* Main thread: start_all, the experiment, stop_all *)

FirstLife(a) == [app |-> a, life |-> 1]

StartOne(a) ==
  /\ mpc = "start_all"
  /\ a \in unstarted
  /\ Spawn(FirstLife(a))
  /\ launches' = launches \cup {FirstLife(a)}
  /\ unstarted' = unstarted \ {a}
  /\ UNCHANGED <<stopping, lock, mpc, sweep, survivors, restartVars>>

\* start_all does not catch: the experiment goes straight to its shutdown.
StartOneFails(a) ==
  /\ mpc = "start_all"
  /\ a \in unstarted
  /\ SpawnFails(FirstLife(a))
  /\ mpc' = "stop_all"
  /\ UNCHANGED <<fleetVars, unstarted, sweep, survivors, restartVars>>

\* start_all returns and the event batch starts the scheduler thread.
StartAllReturns ==
  /\ mpc = "start_all"
  /\ unstarted = {}
  /\ mpc' = "run"
  /\ rpc' = "idle"
  /\ UNCHANGED <<fleetVars, osVars, unstarted, sweep, survivors, rhost, mine,
                 todo, unstopped, result, restarts>>

\* The experiment ends: its duration is over, the user left the CLI, or an
\* exception reached execute().
ExperimentEnds ==
  /\ mpc = "run"
  /\ mpc' = "stop_all"
  /\ UNCHANGED <<fleetVars, osVars, unstarted, sweep, survivors, restartVars>>

StopAllBegins ==
  /\ mpc = "stop_all"
  /\ lock = "free"
  /\ stopping' = TRUE
  /\ sweep' = launches
  /\ mpc' = "sweep"
  /\ UNCHANGED <<launches, lock, osVars, unstarted, survivors, restartVars>>

SweepStop(p) ==
  /\ mpc = "sweep"
  /\ p \in sweep
  /\ sweep' = sweep \ {p}
  /\ \/ Reap(p) /\ UNCHANGED survivors
     \/ survivors' = survivors \cup {p} /\ UNCHANGED osVars
  /\ UNCHANGED <<fleetVars, mpc, unstarted, restartVars>>

StopAllReturns ==
  /\ mpc = "sweep"
  /\ sweep = {}
  /\ mpc' = "done"
  /\ UNCHANGED <<fleetVars, osVars, unstarted, sweep, survivors, restartVars>>

-----------------------------------------------------------------------------
(* Scheduler thread: restart_host *)

RestartHost(h) ==
  /\ rpc = "idle"
  /\ restarts < MaxRestarts
  /\ restarts' = restarts + 1
  /\ rhost' = h
  /\ mine' = {}
  /\ result' = "none"
  /\ rpc' = "select"
  /\ UNCHANGED <<fleetVars, osVars, mainVars, todo, unstopped>>

Return(r) ==
  /\ rpc' = "idle"
  /\ result' = r

\* First critical section, its early returns.
SelectRejected ==
  LET selected == {p \in launches : HostOf[p.app] = rhost} IN
  /\ rpc = "select"
  /\ lock = "free"
  /\ \/ stopping /\ Return("False")
     \/ /\ ~stopping
        /\ \E p \in selected : Collides(p)
        /\ Return("raised")
  /\ UNCHANGED <<fleetVars, osVars, mainVars, rhost, mine, todo, unstopped,
                 restarts>>

\* First critical section: untrack the host's launches and start stopping them.
Select ==
  LET selected == {p \in launches : HostOf[p.app] = rhost} IN
  /\ rpc = "select"
  /\ lock = "free"
  /\ ~stopping
  /\ \A p \in selected : ~Collides(p)
  /\ lock' = "sched"
  /\ launches' = launches \ selected
  /\ mine' = selected
  /\ todo' = selected
  /\ unstopped' = {}
  /\ rpc' = "stop"
  /\ UNCHANGED <<stopping, osVars, mainVars, rhost, result, restarts>>

RestartStop(p) ==
  /\ rpc = "stop"
  /\ p \in todo
  /\ todo' = todo \ {p}
  /\ \/ Reap(p) /\ UNCHANGED unstopped
     \/ unstopped' = unstopped \cup {p} /\ UNCHANGED osVars
  /\ UNCHANGED <<fleetVars, mainVars, rpc, rhost, mine, result, restarts>>

PutBack_Forgets ==
  /\ rpc = "stop"
  /\ todo = {}
  /\ lock' = "free"
  /\ \/ mine = {} /\ Return("False")
     \/ mine # {} /\ unstopped # {} /\ Return("raised")
     \/ mine # {} /\ unstopped = {} /\ rpc' = "downtime" /\ UNCHANGED result
  /\ UNCHANGED <<launches, stopping, osVars, mainVars, rhost, mine, todo,
                 unstopped, restarts>>

PutBack_Proceeds ==
  /\ rpc = "stop"
  /\ todo = {}
  /\ launches' = launches \cup unstopped
  /\ lock' = "free"
  /\ \/ mine = {} /\ Return("False")
     \/ mine # {} /\ rpc' = "downtime" /\ UNCHANGED result
  /\ UNCHANGED <<stopping, osVars, mainVars, rhost, mine, todo, unstopped,
                 restarts>>

\* End of the first critical section: put back what could not be stopped.
PutBack ==
  /\ rpc = "stop"
  /\ todo = {}
  /\ launches' = launches \cup unstopped
  /\ lock' = "free"
  /\ \/ mine = {} /\ Return("False")
     \/ mine # {} /\ unstopped # {} /\ Return("raised")
     \/ mine # {} /\ unstopped = {} /\ rpc' = "downtime" /\ UNCHANGED result
  /\ UNCHANGED <<stopping, osVars, mainVars, rhost, mine, todo, unstopped,
                 restarts>>

\* _stopping.wait(downtime_s): it is set, or the time is over.
DowntimeEnds ==
  /\ rpc = "downtime"
  /\ \/ stopping /\ Return("False")
     \/ ~stopping /\ rpc' = "replay" /\ UNCHANGED result
  /\ UNCHANGED <<fleetVars, osVars, mainVars, rhost, mine, todo, unstopped,
                 restarts>>

\* Second critical section: nothing is started once shutdown has begun.
ReplayBegins ==
  /\ rpc = "replay"
  /\ lock = "free"
  /\ \/ stopping /\ Return("False") /\ UNCHANGED <<lock, todo>>
     \/ /\ ~stopping
        /\ lock' = "sched"
        /\ todo' = mine
        /\ rpc' = "start"
        /\ UNCHANGED result
  /\ UNCHANGED <<launches, stopping, osVars, mainVars, rhost, mine, unstopped,
                 restarts>>

\* Each new life is tracked as soon as its start() returns.
RestartStart(p) ==
  /\ rpc = "start"
  /\ p \in todo
  /\ Spawn(NextLife(p))
  /\ launches' = launches \cup {NextLife(p)}
  /\ todo' = todo \ {p}
  /\ UNCHANGED <<stopping, lock, mainVars, rpc, rhost, mine, unstopped, result,
                 restarts>>

RestartStartFails_KeepsLock(p) ==
  /\ rpc = "start"
  /\ p \in todo
  /\ SpawnFails(NextLife(p))
  /\ todo' = {}
  /\ Return("raised")
  /\ UNCHANGED <<fleetVars, mainVars, rhost, mine, unstopped, restarts>>

\* A start() that raises leaves the loop and the critical section.
RestartStartFails(p) ==
  /\ rpc = "start"
  /\ p \in todo
  /\ SpawnFails(NextLife(p))
  /\ lock' = "free"
  /\ todo' = {}
  /\ Return("raised")
  /\ UNCHANGED <<launches, stopping, mainVars, rhost, mine, unstopped, restarts>>

RestartReturns ==
  /\ rpc = "start"
  /\ todo = {}
  /\ lock' = "free"
  /\ Return("True")
  /\ UNCHANGED <<launches, stopping, osVars, mainVars, rhost, mine, todo,
                 unstopped, restarts>>

-----------------------------------------------------------------------------
MainStep ==
  \/ \E a \in Apps : StartOne(a) \/ StartOneFails(a)
  \/ StartAllReturns \/ ExperimentEnds \/ StopAllBegins
  \/ \E p \in sweep : SweepStop(p)
  \/ StopAllReturns

\* What the scheduler thread does once it is inside restart_host.
RestartStep ==
  \/ SelectRejected \/ Select \/ PutBack \/ DowntimeEnds \/ ReplayBegins
  \/ \E p \in todo : RestartStop(p) \/ RestartStart(p) \/ RestartStartFails(p)
  \/ RestartReturns

Next ==
  \/ MainStep
  \/ \E h \in Hosts : RestartHost(h)
  \/ RestartStep
  \/ \E p \in running : ProcessExits(p)

Spec == Init /\ [][Next]_vars

\* Both threads keep running.  That the experiment ends is assumed, that an
\* event fires or a process exits is not.  The lock is contended by a bounded
\* number of restarts only, so weak fairness is enough to obtain it.
Fairness == WF_vars(MainStep) /\ WF_vars(RestartStep)

FairSpec == Spec /\ Fairness

-----------------------------------------------------------------------------
(* Properties *)

\* Every variable keeps the type the code gives it.
TypeOK ==
  /\ launches \in SUBSET Process
  /\ stopping \in BOOLEAN
  /\ lock \in {"free", "sched"}
  /\ running \in SUBSET Process
  /\ opened \in SUBSET Process
  /\ truncated \in SUBSET (Process \X Process)
  /\ mpc \in {"start_all", "run", "stop_all", "sweep", "done"}
  /\ unstarted \in SUBSET Apps
  /\ sweep \in SUBSET Process
  /\ survivors \in SUBSET Process
  /\ rpc \in {"off", "idle", "select", "stop", "downtime", "replay", "start"}
  /\ rhost \in Hosts
  /\ mine \in SUBSET Process
  /\ todo \in SUBSET Process
  /\ unstopped \in SUBSET Process
  /\ result \in {"none", "True", "False", "raised"}
  /\ restarts \in Nat

\* Once stop_all has returned, the only processes alive are those whose stop
\* it attempted and reported as failed, whatever a restart in flight does then
\* (stop_all, restart_host: "no process is started after stop_all() has run,
\* so stop_all() never misses one").
NoOrphan == mpc = "done" => running \subseteq survivors

\* Whoever holds the lock finds every live process in _launches, except those
\* the restart that holds it has taken out and not yet confirmed stopped.
Tracked ==
  running \subseteq
    launches \cup (IF rpc = "stop" THEN todo \cup unstopped ELSE {})

\* No two lives of an application are ever alive at once: a restart whose stop
\* failed starts nothing on top of the survivor.
OneLife ==
  \A p, q \in running : p.app = q.app => p = q

\* The configuration gives the two applications the very same log file.  The
\* validator refuses this only for the different hosts of one entry.
ShareLog(a, b) == a # b /\ BaseLog[a] = BaseLog[b]

\* start() truncates a log file in use only where the configuration itself
\* gives one file to two applications: never an earlier life's, and never the
\* file of an entry that a later life's name happens to equal (_life_log,
\* _reserved_logs).
NoTruncation == \A t \in truncated : ShareLog(t[1].app, t[2].app)

\* stop_all returns, although it may have to wait for a restart that holds the
\* lock; and a restart returns even when shutdown overtakes it.
ShutdownCompletes ==
  /\ mpc = "stop_all" ~> mpc = "done"
  /\ rpc \notin {"off", "idle"} ~> rpc = "idle"

\* The fleet implements its contract: no launch on top of a live process of
\* the same application, no launch after shutdown has begun.
Contract == INSTANCE HostAppContract WITH up <- running, closed <- stopping

ContractHolds == Contract!Spec

\* Every live process has one who answers for it: the fleet while it is open,
\* the restart that holds the lock, and after stop_all its report of failures.
Ownership == NoOrphan /\ Tracked
=============================================================================
