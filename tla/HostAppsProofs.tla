--------------------------- MODULE HostAppsProofs ---------------------------
(***************************************************************************)
(* Proofs about HostApps, for any set of applications and hosts, any       *)
(* assignment of log files, shared ones included, and any number of        *)
(* restarts.                                                               *)
(***************************************************************************)
EXTENDS HostApps, SequenceTheorems, TLAPS

\* The launches the restart in flight has taken out of _launches: all of them
\* until it replays them, then those it has still to start.
Held ==
  IF rpc \in {"stop", "downtime", "replay"} THEN mine
  ELSE IF rpc = "start" THEN todo ELSE {}

\* The lock is held exactly inside the two critical sections.
LockInv == lock = "sched" <=> rpc \in {"stop", "start"}

\* Shutdown has begun once stop_all took the lock; the scheduler thread is
\* not there yet while start_all runs, and it is outside its critical
\* sections once shutdown has begun.
PhaseInv ==
  /\ stopping <=> mpc \in {"sweep", "done"}
  /\ mpc = "start_all" => rpc = "off"
  /\ stopping => lock = "free"

\* The launches still to stop or to start, and those that could not be
\* stopped, are among those taken out.
MineInv ==
  /\ rpc \in {"stop", "start"} => todo \subseteq mine
  /\ rpc = "stop" => unstopped \subseteq mine

\* An application has at most one entry, in _launches or taken out of it, and
\* none before start_all reaches it.
OneEntry ==
  /\ \A p, q \in launches : p.app = q.app => p = q
  /\ \A p, q \in Held : p.app = q.app => p = q
  /\ \A p \in launches, q \in Held : p.app # q.app
  /\ mpc = "start_all" => \A p \in launches : p.app \notin unstarted

\* What stop_all has still to account for.
SweepInv ==
  /\ mpc = "sweep" => running \subseteq sweep \cup survivors
  /\ mpc = "done" => running \subseteq survivors

\* A later life never opens a file reserved for a first life; nothing has
\* opened a file for a life that is still to come, of an entry or of an
\* application that start_all has not reached; no entry taken out for a
\* restart would run into a reserved file.
FreshLogs ==
  /\ \A q \in opened : /\ LogOf(q) # NoLog
                       /\ q.life = 1 \/ LogOf(q) \notin ReservedLogs
  /\ \A q \in opened, p \in launches \cup Held :
       q.app = p.app => q.life <= p.life
  /\ \A p \in Held : ~Collides(p)
  /\ mpc = "start_all" =>
       \A q \in opened : q.life = 1 /\ q.app \notin unstarted
  /\ NoTruncation

\* The inductive invariant.
IInv ==
  /\ TypeOK
  /\ LockInv
  /\ PhaseInv
  /\ MineInv
  /\ Tracked
  /\ OneEntry
  /\ SweepInv
  /\ FreshLogs

-----------------------------------------------------------------------------
(* Facts about processes and their log files *)

\* A life's file, and the next life, are of the right type.
LEMMA LifeTypes ==
  ASSUME NEW p \in Process
  PROVE  /\ NextLife(p) \in Process
         /\ NextLife(p).app = p.app
         /\ NextLife(p).life = p.life + 1
         /\ NextLife(p) # p
         /\ LogOf(p) \in Path
<1>1. /\ p.app \in Apps
      /\ p.life \in Nat \ {0}
  BY DEF Process
<1>2. BaseLog[p.app] \in Path
  BY <1>1, HostAppsAssumption DEF Path
<1>3. LogOf(p) \in Path
  BY <1>1, <1>2, AppendProperties DEF LogOf, LifeLog, Path
<1>. QED
  BY <1>1, <1>3 DEF Process, NextLife

\* The file of a later life determines the life and the first life's file.
LEMMA LaterLogs ==
  ASSUME NEW a \in Apps, NEW b \in Apps,
         NEW k \in Nat, k > 1, NEW m \in Nat, m > 1,
         BaseLog[a] # NoLog, BaseLog[b] # NoLog,
         LifeLog(BaseLog[a], k) = LifeLog(BaseLog[b], m)
  PROVE  BaseLog[a] = BaseLog[b] /\ k = m
<1>1. BaseLog[a] \in Seq(Nat) /\ BaseLog[b] \in Seq(Nat)
  BY HostAppsAssumption DEF Path
<1>2. ~(k <= 1) /\ ~(m <= 1)
  OBVIOUS
<1>3. Append(BaseLog[a], k) = Append(BaseLog[b], m)
  BY <1>2, Zenon DEF LifeLog
<1>4. BaseLog[a] = BaseLog[b] /\ k = m
  <2>. DEFINE s == BaseLog[a]
              t == BaseLog[b]
  <2>1. s \in Seq(Nat) /\ t \in Seq(Nat)
    BY <1>1
  <2>. HIDE DEF s, t
  <2>2. Append(s, k) = Append(t, m) <=> s = t /\ k = m
    BY <2>1, AppendInjective
  <2>. QED
    BY <2>2, <1>3 DEF s, t
<1>. QED
  BY <1>4

\* A first life is a process.
LEMMA FirstLives == \A a \in Apps : FirstLife(a) \in Process
BY DEF FirstLife, Process

\* Two lives with the same log file: both are first lives, or both later ones
\* and then of equal number; or one is a first life whose file the other, a
\* later one, is given, which is what _reserved_logs excludes.
LEMMA SameLog ==
  ASSUME NEW p \in Process, NEW q \in Process,
         LogOf(p) = LogOf(q), LogOf(p) # NoLog,
         p.life = 1 \/ LogOf(p) \notin ReservedLogs,
         q.life = 1 \/ LogOf(q) \notin ReservedLogs
  PROVE  BaseLog[p.app] = BaseLog[q.app] /\ p.life = q.life
<1>1. /\ p.app \in Apps /\ q.app \in Apps
      /\ p.life \in Nat \ {0} /\ q.life \in Nat \ {0}
  BY DEF Process
<1>2. ASSUME NEW r \in Process, r.life = 1
      PROVE  LogOf(r) = BaseLog[r.app]
  BY <1>2 DEF LogOf, LifeLog
<1>3. ASSUME NEW r \in Process, r.life = 1, LogOf(r) # NoLog
      PROVE  LogOf(r) \in ReservedLogs
  BY <1>2, <1>3 DEF ReservedLogs, Process
<1>4. p.life = 1 <=> q.life = 1
  BY <1>3
<1>5. CASE p.life = 1
  BY <1>2, <1>4, <1>5
<1>6. CASE p.life # 1
  <2>1. p.life > 1 /\ q.life > 1
    BY <1>1, <1>4, <1>6
  <2>2. BaseLog[p.app] # NoLog /\ BaseLog[q.app] # NoLog
    BY DEF LogOf, LifeLog
  <2>3. LifeLog(BaseLog[p.app], p.life) = LifeLog(BaseLog[q.app], q.life)
    BY DEF LogOf
  <2>. QED
    BY <1>1, <2>1, <2>2, <2>3, LaterLogs
<1>. QED
  BY <1>5, <1>6

\* Opening a log file for the first or next life of an application keeps
\* NoTruncation, if no file was opened for that life or a later one and the
\* file is not another's reserved one.
LEMMA OpenKeeps ==
  ASSUME NEW p \in Process, OpenLog(p) \/ UNCHANGED <<opened, truncated>>,
         opened \in SUBSET Process, NoTruncation,
         p.life = 1 \/ LogOf(p) \notin ReservedLogs,
         \A q \in opened : /\ LogOf(q) # NoLog
                           /\ q.life = 1 \/ LogOf(q) \notin ReservedLogs,
         \A q \in opened : q.app = p.app => q.life < p.life
  PROVE  /\ NoTruncation'
         /\ opened' \subseteq opened \cup {p}
         /\ \A q \in opened' : /\ LogOf(q) # NoLog
                               /\ q.life = 1 \/ LogOf(q) \notin ReservedLogs
<1>1. CASE UNCHANGED <<opened, truncated>> \/ LogOf(p) = NoLog
  BY <1>1 DEF NoTruncation, OpenLog
<1>2. CASE OpenLog(p) /\ LogOf(p) # NoLog
  <2>1. /\ opened' = opened \cup {p}
        /\ truncated' = truncated \cup
                          ({p} \X {q \in opened : LogOf(q) = LogOf(p)})
    BY <1>2, Zenon DEF OpenLog
  <2>2. ASSUME NEW q \in opened, LogOf(q) = LogOf(p)
        PROVE  ShareLog(p.app, q.app)
    <3>1. BaseLog[p.app] = BaseLog[q.app] /\ p.life = q.life
      BY <1>2, <2>2, SameLog
    <3>2. q.life \in Nat
      BY DEF Process
    <3>. QED
      BY <3>1, <3>2 DEF ShareLog
  <2>3. ASSUME NEW t \in truncated'
        PROVE  ShareLog(t[1].app, t[2].app)
    <3>1. CASE t \in truncated
      BY <3>1 DEF NoTruncation
    <3>2. CASE t \in {p} \X {q \in opened : LogOf(q) = LogOf(p)}
      BY <3>2, <2>2
    <3>. QED
      BY <3>1, <3>2, <2>1
  <2>. QED
    BY <1>2, <2>1, <2>3 DEF NoTruncation
<1>. QED
  BY <1>1, <1>2

-----------------------------------------------------------------------------
(* Type correctness *)

LEMMA OpenLogType ==
  ASSUME NEW p \in Process, TypeOK, OpenLog(p)
  PROVE  opened' \in SUBSET Process /\ truncated' \in SUBSET (Process \X Process)
BY LifeTypes DEF OpenLog, TypeOK

\* The types hold before the first step.
LEMMA TypeInit == Init => TypeOK
<1>1. Init => stopping \in BOOLEAN
  BY Zenon DEF Init
<1>2. Init => restarts \in Nat
  BY DEF Init
<1>. QED
  BY <1>1, <1>2, Zenon DEF Init, TypeOK

\* Every step keeps the types.
LEMMA TypeStep == TypeOK /\ [Next]_vars => TypeOK'
<1>. SUFFICES ASSUME TypeOK, [Next]_vars
              PROVE  TypeOK'
  OBVIOUS
<1>. USE DEF TypeOK, fleetVars, osVars, mainVars, restartVars
<1>1. ASSUME NEW a \in Apps, StartOne(a)
      PROVE  TypeOK'
  <2>1. FirstLife(a) \in Process
    BY FirstLives
  <2>2. opened' \in SUBSET Process /\ truncated' \in SUBSET (Process \X Process)
    BY <1>1, <2>1, OpenLogType DEF StartOne, Spawn
  <2>. QED
    BY <1>1, <2>1, <2>2 DEF StartOne, Spawn
<1>2. ASSUME NEW a \in Apps, StartOneFails(a)
      PROVE  TypeOK'
  <2>1. FirstLife(a) \in Process
    BY FirstLives
  <2>2. opened' \in SUBSET Process /\ truncated' \in SUBSET (Process \X Process)
    BY <1>2, <2>1, OpenLogType DEF StartOneFails, SpawnFails
  <2>. QED
    BY <1>2, <2>2 DEF StartOneFails, SpawnFails
<1>3. CASE StartAllReturns
  BY <1>3 DEF StartAllReturns
<1>4. CASE ExperimentEnds
  BY <1>4 DEF ExperimentEnds
<1>5. CASE StopAllBegins
  BY <1>5 DEF StopAllBegins
<1>6. ASSUME NEW p \in sweep, SweepStop(p)
      PROVE  TypeOK'
  BY <1>6 DEF SweepStop, Reap
<1>7. CASE StopAllReturns
  BY <1>7 DEF StopAllReturns
<1>8. ASSUME NEW h \in Hosts, RestartHost(h)
      PROVE  TypeOK'
  BY <1>8 DEF RestartHost
<1>9. CASE SelectRejected
  BY <1>9 DEF SelectRejected, Return
<1>10. CASE Select
  BY <1>10 DEF Select
<1>11. CASE PutBack
  BY <1>11 DEF PutBack, Return
<1>12. CASE DowntimeEnds
  BY <1>12 DEF DowntimeEnds, Return
<1>13. CASE ReplayBegins
  BY <1>13 DEF ReplayBegins, Return
<1>14. ASSUME NEW p \in todo, RestartStop(p)
       PROVE  TypeOK'
  BY <1>14 DEF RestartStop, Reap
<1>15. ASSUME NEW p \in todo, RestartStart(p)
       PROVE  TypeOK'
  <2>1. NextLife(p) \in Process
    BY LifeTypes
  <2>2. opened' \in SUBSET Process /\ truncated' \in SUBSET (Process \X Process)
    BY <1>15, <2>1, OpenLogType DEF RestartStart, Spawn
  <2>. QED
    BY <1>15, <2>1, <2>2 DEF RestartStart, Spawn
<1>16. ASSUME NEW p \in todo, RestartStartFails(p)
       PROVE  TypeOK'
  <2>1. NextLife(p) \in Process
    BY LifeTypes
  <2>2. opened' \in SUBSET Process /\ truncated' \in SUBSET (Process \X Process)
    BY <1>16, <2>1, OpenLogType DEF RestartStartFails, SpawnFails
  <2>. QED
    BY <1>16, <2>2 DEF RestartStartFails, SpawnFails, Return
<1>17. CASE RestartReturns
  BY <1>17 DEF RestartReturns, Return
<1>18. ASSUME NEW p \in running, ProcessExits(p)
       PROVE  TypeOK'
  BY <1>18 DEF ProcessExits, Reap
<1>19. CASE UNCHANGED vars
  BY <1>19 DEF vars
<1>. QED
  BY <1>1, <1>2, <1>3, <1>4, <1>5, <1>6, <1>7, <1>8, <1>9, <1>10, <1>11,
     <1>12, <1>13, <1>14, <1>15, <1>16, <1>17, <1>18, <1>19
     DEF Next, MainStep, RestartStep

\* Every variable keeps its type, whatever the threads and the processes do.
THEOREM TypeCorrect == Spec => []TypeOK
BY TypeInit, TypeStep, PTL DEF Spec

-----------------------------------------------------------------------------
(* The inductive step *)

LEMMA StepInv == IInv /\ [Next]_vars => IInv'
<1>. SUFFICES ASSUME IInv, [Next]_vars
              PROVE  IInv'
  OBVIOUS
<1>. USE DEF IInv
<1>0. TypeOK'
  BY TypeStep
<1>. USE DEF fleetVars, osVars, mainVars, restartVars
<1>1. ASSUME NEW a \in Apps, StartOne(a)
      PROVE  IInv'
  <2>1. (LockInv /\ PhaseInv /\ MineInv)'
    BY <1>1 DEF StartOne, Spawn, OpenLog, TypeOK, LockInv, PhaseInv, MineInv
  <2>2. Tracked'
    BY <1>1 DEF StartOne, Spawn, OpenLog, TypeOK, LockInv, PhaseInv, MineInv, Tracked
  <2>3. OneEntry'
    <3>1. Held = {} /\ Held' = {}
      BY <1>1 DEF StartOne, PhaseInv, Held
    <3>2. FirstLife(a).app = a
      BY DEF FirstLife
    <3>. QED
      BY <1>1, <3>1, <3>2 DEF StartOne, OneEntry
  <2>4. SweepInv'
    BY <1>1 DEF StartOne, Spawn, OpenLog, TypeOK, LockInv, PhaseInv, Tracked, SweepInv
  <2>5. FreshLogs'
    <3>1. Held = {} /\ Held' = {} /\ mpc = "start_all" /\ a \in unstarted
      BY <1>1 DEF StartOne, PhaseInv, Held
    <3>2. /\ FirstLife(a) \in Process
          /\ FirstLife(a).app = a /\ FirstLife(a).life = 1
      BY FirstLives DEF FirstLife
    <3>3. OpenLog(FirstLife(a))
      BY <1>1 DEF StartOne, Spawn
    <3>4. \A q \in opened : q.app # FirstLife(a).app
      BY <3>1, <3>2 DEF FreshLogs
    <3>5. /\ NoTruncation'
          /\ opened' \subseteq opened \cup {FirstLife(a)}
          /\ \A q \in opened' : /\ LogOf(q) # NoLog
                                /\ q.life = 1 \/ LogOf(q) \notin ReservedLogs
      BY <3>2, <3>3, <3>4, OpenKeeps DEF FreshLogs, TypeOK
    <3>6. /\ launches' = launches \cup {FirstLife(a)}
          /\ unstarted' = unstarted \ {a}
      BY <1>1 DEF StartOne
    <3>7. \A q \in opened' : q.life = 1 /\ q.app \notin unstarted'
      BY <3>1, <3>2, <3>5, <3>6 DEF FreshLogs
    <3>8. \A q \in opened', p \in launches' : q.app = p.app => q.life <= p.life
      <4>. SUFFICES ASSUME NEW q \in opened', NEW p \in launches'
                    PROVE  q.life <= p.life
        OBVIOUS
      <4>1. q.life = 1 /\ p.life \in Nat \ {0}
        BY <1>0, <3>7 DEF TypeOK, Process
      <4>. QED
        BY <4>1
    <3>. QED
      BY <3>1, <3>5, <3>7, <3>8 DEF FreshLogs
  <2>. QED
    BY <1>0, <2>1, <2>2, <2>3, <2>4, <2>5
<1>2. ASSUME NEW a \in Apps, StartOneFails(a)
      PROVE  IInv'
  <2>1. (LockInv /\ PhaseInv /\ MineInv)'
    BY <1>2 DEF StartOneFails, SpawnFails, OpenLog, TypeOK, LockInv, PhaseInv, MineInv
  <2>2. Tracked'
    BY <1>2 DEF StartOneFails, SpawnFails, OpenLog, TypeOK, LockInv, PhaseInv, MineInv, Tracked
  <2>3. OneEntry'
    BY <1>2 DEF StartOneFails, SpawnFails, OpenLog, TypeOK, LockInv, PhaseInv, MineInv, OneEntry, Held
  <2>4. SweepInv'
    BY <1>2 DEF StartOneFails, SpawnFails, OpenLog, TypeOK, LockInv, PhaseInv, Tracked, SweepInv
  <2>5. FreshLogs'
    <3>1. Held = {} /\ Held' = {} /\ mpc = "start_all" /\ a \in unstarted
      BY <1>2 DEF StartOneFails, PhaseInv, Held
    <3>2. /\ FirstLife(a) \in Process
          /\ FirstLife(a).app = a /\ FirstLife(a).life = 1
      BY FirstLives DEF FirstLife
    <3>3. OpenLog(FirstLife(a)) \/ UNCHANGED <<opened, truncated>>
      BY <1>2 DEF StartOneFails, SpawnFails
    <3>4. \A q \in opened : q.app # FirstLife(a).app
      BY <3>1, <3>2 DEF FreshLogs
    <3>5. /\ NoTruncation'
          /\ opened' \subseteq opened \cup {FirstLife(a)}
          /\ \A q \in opened' : /\ LogOf(q) # NoLog
                                /\ q.life = 1 \/ LogOf(q) \notin ReservedLogs
      BY <3>2, <3>3, <3>4, OpenKeeps DEF FreshLogs, TypeOK
    <3>6. launches' = launches /\ mpc' = "stop_all"
      BY <1>2 DEF StartOneFails
    <3>7. \A q \in opened', p \in launches' : q.app = p.app => q.life <= p.life
      <4>. SUFFICES ASSUME NEW q \in opened', NEW p \in launches
                    PROVE  q.life <= p.life
        BY <3>6
      <4>1. q.life = 1 /\ p.life \in Nat \ {0}
        BY <3>1, <3>2, <3>5 DEF TypeOK, Process, FreshLogs
      <4>. QED
        BY <4>1
    <3>. QED
      BY <3>1, <3>5, <3>6, <3>7 DEF FreshLogs
  <2>. QED
    BY <1>0, <2>1, <2>2, <2>3, <2>4, <2>5
<1>3. CASE StartAllReturns
  <2>1. (LockInv /\ PhaseInv /\ MineInv)'
    BY <1>3 DEF StartAllReturns, TypeOK, LockInv, PhaseInv, MineInv
  <2>2. Tracked'
    BY <1>3 DEF StartAllReturns, TypeOK, LockInv, PhaseInv, MineInv, Tracked
  <2>3. OneEntry'
    BY <1>3 DEF StartAllReturns, TypeOK, LockInv, PhaseInv, MineInv, OneEntry, Held
  <2>4. SweepInv'
    BY <1>3 DEF StartAllReturns, TypeOK, LockInv, PhaseInv, Tracked, SweepInv
  <2>5. FreshLogs'
    BY <1>3 DEF StartAllReturns, TypeOK, LockInv, PhaseInv, MineInv, Held, FreshLogs, NoTruncation
  <2>. QED
    BY <1>0, <2>1, <2>2, <2>3, <2>4, <2>5
<1>4. CASE ExperimentEnds
  <2>1. (LockInv /\ PhaseInv /\ MineInv)'
    BY <1>4 DEF ExperimentEnds, TypeOK, LockInv, PhaseInv, MineInv
  <2>2. Tracked'
    BY <1>4 DEF ExperimentEnds, TypeOK, LockInv, PhaseInv, MineInv, Tracked
  <2>3. OneEntry'
    BY <1>4 DEF ExperimentEnds, TypeOK, LockInv, PhaseInv, MineInv, OneEntry, Held
  <2>4. SweepInv'
    BY <1>4 DEF ExperimentEnds, TypeOK, LockInv, PhaseInv, Tracked, SweepInv
  <2>5. FreshLogs'
    BY <1>4 DEF ExperimentEnds, TypeOK, LockInv, PhaseInv, MineInv, Held, FreshLogs, NoTruncation
  <2>. QED
    BY <1>0, <2>1, <2>2, <2>3, <2>4, <2>5
<1>5. CASE StopAllBegins
  <2>1. (LockInv /\ PhaseInv /\ MineInv)'
    BY <1>5 DEF StopAllBegins, TypeOK, LockInv, PhaseInv, MineInv
  <2>2. Tracked'
    BY <1>5 DEF StopAllBegins, TypeOK, LockInv, PhaseInv, MineInv, Tracked
  <2>3. OneEntry'
    BY <1>5 DEF StopAllBegins, TypeOK, LockInv, PhaseInv, MineInv, OneEntry, Held
  <2>4. SweepInv'
    BY <1>5 DEF StopAllBegins, TypeOK, LockInv, PhaseInv, Tracked, SweepInv
  <2>5. FreshLogs'
    BY <1>5 DEF StopAllBegins, TypeOK, LockInv, PhaseInv, MineInv, Held, FreshLogs, NoTruncation
  <2>. QED
    BY <1>0, <2>1, <2>2, <2>3, <2>4, <2>5
<1>6. ASSUME NEW p \in sweep, SweepStop(p)
      PROVE  IInv'
  <2>1. (LockInv /\ PhaseInv /\ MineInv)'
    BY <1>6 DEF SweepStop, Reap, TypeOK, LockInv, PhaseInv, MineInv
  <2>2. Tracked'
    BY <1>6 DEF SweepStop, Reap, TypeOK, LockInv, PhaseInv, MineInv, Tracked
  <2>3. OneEntry'
    BY <1>6 DEF SweepStop, Reap, TypeOK, LockInv, PhaseInv, MineInv, OneEntry, Held
  <2>4. SweepInv'
    BY <1>6 DEF SweepStop, Reap, TypeOK, LockInv, PhaseInv, Tracked, SweepInv
  <2>5. FreshLogs'
    BY <1>6 DEF SweepStop, Reap, TypeOK, LockInv, PhaseInv, MineInv, Held, FreshLogs, NoTruncation
  <2>. QED
    BY <1>0, <2>1, <2>2, <2>3, <2>4, <2>5
<1>7. CASE StopAllReturns
  <2>1. (LockInv /\ PhaseInv /\ MineInv)'
    BY <1>7 DEF StopAllReturns, TypeOK, LockInv, PhaseInv, MineInv
  <2>2. Tracked'
    BY <1>7 DEF StopAllReturns, TypeOK, LockInv, PhaseInv, MineInv, Tracked
  <2>3. OneEntry'
    BY <1>7 DEF StopAllReturns, TypeOK, LockInv, PhaseInv, MineInv, OneEntry, Held
  <2>4. SweepInv'
    BY <1>7 DEF StopAllReturns, TypeOK, LockInv, PhaseInv, Tracked, SweepInv
  <2>5. FreshLogs'
    BY <1>7 DEF StopAllReturns, TypeOK, LockInv, PhaseInv, MineInv, Held, FreshLogs, NoTruncation
  <2>. QED
    BY <1>0, <2>1, <2>2, <2>3, <2>4, <2>5
<1>8. ASSUME NEW h \in Hosts, RestartHost(h)
      PROVE  IInv'
  <2>1. (LockInv /\ PhaseInv /\ MineInv)'
    BY <1>8 DEF RestartHost, TypeOK, LockInv, PhaseInv, MineInv
  <2>2. Tracked'
    BY <1>8 DEF RestartHost, TypeOK, LockInv, PhaseInv, MineInv, Tracked
  <2>3. OneEntry'
    BY <1>8 DEF RestartHost, TypeOK, LockInv, PhaseInv, MineInv, OneEntry, Held
  <2>4. SweepInv'
    BY <1>8 DEF RestartHost, TypeOK, LockInv, PhaseInv, Tracked, SweepInv
  <2>5. FreshLogs'
    BY <1>8 DEF RestartHost, TypeOK, LockInv, PhaseInv, MineInv, Held, FreshLogs, NoTruncation
  <2>. QED
    BY <1>0, <2>1, <2>2, <2>3, <2>4, <2>5
<1>9. CASE SelectRejected
  <2>1. (LockInv /\ PhaseInv /\ MineInv)'
    BY <1>9 DEF SelectRejected, Return, TypeOK, LockInv, PhaseInv, MineInv
  <2>2. Tracked'
    BY <1>9 DEF SelectRejected, Return, TypeOK, LockInv, PhaseInv, MineInv, Tracked
  <2>3. OneEntry'
    BY <1>9 DEF SelectRejected, Return, TypeOK, LockInv, PhaseInv, MineInv, OneEntry, Held
  <2>4. SweepInv'
    BY <1>9 DEF SelectRejected, Return, TypeOK, LockInv, PhaseInv, Tracked, SweepInv
  <2>5. FreshLogs'
    BY <1>9 DEF SelectRejected, Return, TypeOK, LockInv, PhaseInv, MineInv, Held, FreshLogs, NoTruncation
  <2>. QED
    BY <1>0, <2>1, <2>2, <2>3, <2>4, <2>5
<1>10. CASE Select
  <2>1. (LockInv /\ PhaseInv /\ MineInv)'
    BY <1>10 DEF Select, TypeOK, LockInv, PhaseInv, MineInv
  <2>2. Tracked'
    BY <1>10 DEF Select, TypeOK, LockInv, PhaseInv, MineInv, Tracked
  <2>3. OneEntry'
    BY <1>10 DEF Select, TypeOK, LockInv, PhaseInv, MineInv, OneEntry, Held
  <2>4. SweepInv'
    BY <1>10 DEF Select, TypeOK, LockInv, PhaseInv, Tracked, SweepInv
  <2>5. FreshLogs'
    BY <1>10 DEF Select, TypeOK, LockInv, PhaseInv, MineInv, Held, FreshLogs, NoTruncation
  <2>. QED
    BY <1>0, <2>1, <2>2, <2>3, <2>4, <2>5
<1>11. CASE PutBack
  <2>1. (LockInv /\ PhaseInv /\ MineInv)'
    BY <1>11 DEF PutBack, Return, TypeOK, LockInv, PhaseInv, MineInv
  <2>2. Tracked'
    BY <1>11 DEF PutBack, Return, TypeOK, LockInv, PhaseInv, MineInv, Tracked
  <2>3. OneEntry'
    BY <1>11 DEF PutBack, Return, TypeOK, LockInv, PhaseInv, MineInv, OneEntry, Held
  <2>4. SweepInv'
    BY <1>11 DEF PutBack, Return, TypeOK, LockInv, PhaseInv, Tracked, SweepInv
  <2>5. FreshLogs'
    BY <1>11 DEF PutBack, Return, TypeOK, LockInv, PhaseInv, MineInv, Held, FreshLogs, NoTruncation
  <2>. QED
    BY <1>0, <2>1, <2>2, <2>3, <2>4, <2>5
<1>12. CASE DowntimeEnds
  <2>1. (LockInv /\ PhaseInv /\ MineInv)'
    BY <1>12 DEF DowntimeEnds, Return, TypeOK, LockInv, PhaseInv, MineInv
  <2>2. Tracked'
    BY <1>12 DEF DowntimeEnds, Return, TypeOK, LockInv, PhaseInv, MineInv, Tracked
  <2>3. OneEntry'
    BY <1>12 DEF DowntimeEnds, Return, TypeOK, LockInv, PhaseInv, MineInv, OneEntry, Held
  <2>4. SweepInv'
    BY <1>12 DEF DowntimeEnds, Return, TypeOK, LockInv, PhaseInv, Tracked, SweepInv
  <2>5. FreshLogs'
    BY <1>12 DEF DowntimeEnds, Return, TypeOK, LockInv, PhaseInv, MineInv, Held, FreshLogs, NoTruncation
  <2>. QED
    BY <1>0, <2>1, <2>2, <2>3, <2>4, <2>5
<1>13. CASE ReplayBegins
  <2>1. (LockInv /\ PhaseInv /\ MineInv)'
    BY <1>13 DEF ReplayBegins, Return, TypeOK, LockInv, PhaseInv, MineInv
  <2>2. Tracked'
    BY <1>13 DEF ReplayBegins, Return, TypeOK, LockInv, PhaseInv, MineInv, Tracked
  <2>3. OneEntry'
    BY <1>13 DEF ReplayBegins, Return, TypeOK, LockInv, PhaseInv, MineInv, OneEntry, Held
  <2>4. SweepInv'
    BY <1>13 DEF ReplayBegins, Return, TypeOK, LockInv, PhaseInv, Tracked, SweepInv
  <2>5. FreshLogs'
    BY <1>13 DEF ReplayBegins, Return, TypeOK, LockInv, PhaseInv, MineInv, Held, FreshLogs, NoTruncation
  <2>. QED
    BY <1>0, <2>1, <2>2, <2>3, <2>4, <2>5
<1>14. ASSUME NEW p \in todo, RestartStop(p)
      PROVE  IInv'
  <2>1. (LockInv /\ PhaseInv /\ MineInv)'
    BY <1>14 DEF RestartStop, Reap, TypeOK, LockInv, PhaseInv, MineInv
  <2>2. Tracked'
    BY <1>14 DEF RestartStop, Reap, TypeOK, LockInv, PhaseInv, MineInv, Tracked
  <2>3. OneEntry'
    BY <1>14 DEF RestartStop, Reap, TypeOK, LockInv, PhaseInv, MineInv, OneEntry, Held
  <2>4. SweepInv'
    BY <1>14 DEF RestartStop, Reap, TypeOK, LockInv, PhaseInv, Tracked, SweepInv
  <2>5. FreshLogs'
    BY <1>14 DEF RestartStop, Reap, TypeOK, LockInv, PhaseInv, MineInv, Held, FreshLogs, NoTruncation
  <2>. QED
    BY <1>0, <2>1, <2>2, <2>3, <2>4, <2>5
<1>15. ASSUME NEW p \in todo, RestartStart(p)
      PROVE  IInv'
  <2>1. (LockInv /\ PhaseInv /\ MineInv)'
    BY <1>15 DEF RestartStart, Spawn, OpenLog, TypeOK, LockInv, PhaseInv, MineInv
  <2>2. Tracked'
    BY <1>15 DEF RestartStart, Spawn, OpenLog, TypeOK, LockInv, PhaseInv, MineInv, Tracked
  <2>3. OneEntry'
    <3>1. /\ Held = todo /\ Held' = todo \ {p}
          /\ launches' = launches \cup {NextLife(p)}
          /\ mpc' = mpc /\ unstarted' = unstarted /\ mpc # "start_all"
      BY <1>15 DEF RestartStart, Held, PhaseInv
    <3>2. NextLife(p).app = p.app
      BY LifeTypes DEF TypeOK
    <3>. QED
      BY <3>1, <3>2 DEF OneEntry
  <2>4. SweepInv'
    BY <1>15 DEF RestartStart, Spawn, OpenLog, TypeOK, LockInv, PhaseInv, Tracked, SweepInv
  <2>5. FreshLogs'
    <3>1. /\ p \in Process /\ p.life \in Nat /\ NextLife(p) \in Process
          /\ NextLife(p).app = p.app /\ NextLife(p).life = p.life + 1
      BY LifeTypes DEF TypeOK, Process
    <3>2. Held = todo
      BY <1>15 DEF RestartStart, Held
    <3>3. LogOf(NextLife(p)) \notin ReservedLogs
      BY <3>2 DEF FreshLogs, Collides
    <3>4. \A q \in opened : q.app = NextLife(p).app => q.life < NextLife(p).life
      <4>. SUFFICES ASSUME NEW q \in opened, q.app = p.app
                    PROVE  q.life < p.life + 1
        BY <3>1
      <4>1. q.life <= p.life /\ q.life \in Nat
        BY <3>2 DEF FreshLogs, TypeOK, Process
      <4>. QED
        BY <3>1, <4>1
    <3>5. OpenLog(NextLife(p)) \/ UNCHANGED <<opened, truncated>>
      BY <1>15 DEF RestartStart, Spawn
    <3>6. /\ NoTruncation'
          /\ opened' \subseteq opened \cup {NextLife(p)}
          /\ \A q \in opened' : /\ LogOf(q) # NoLog
                                /\ q.life = 1 \/ LogOf(q) \notin ReservedLogs
      BY <3>1, <3>3, <3>4, <3>5, OpenKeeps DEF FreshLogs, TypeOK
    <3>7. /\ Held' = todo \ {p}
          /\ launches' = launches \cup {NextLife(p)}
          /\ mpc' # "start_all"
      BY <1>15 DEF RestartStart, Held, PhaseInv
    <3>8. ASSUME NEW q \in opened', NEW r \in launches' \cup Held', q.app = r.app
          PROVE  q.life <= r.life
      <4>1. CASE r = NextLife(p)
        <5>1. CASE q = NextLife(p)
          BY <4>1, <5>1, <3>1
        <5>2. CASE q \in opened
          <6>1. q.life < p.life + 1 /\ q.life \in Nat
            BY <4>1, <5>2, <3>1, <3>4, <3>8 DEF TypeOK, Process
          <6>. QED
            BY <6>1, <4>1, <3>1
        <5>. QED
          BY <5>1, <5>2, <3>6
      <4>2. CASE r # NextLife(p)
        <5>1. r \in launches \/ (r \in todo /\ r # p)
          BY <4>2, <3>7
        <5>2. r.app # p.app
          BY <5>1, <3>2 DEF OneEntry
        <5>3. q \in opened
          BY <5>2, <3>1, <3>6, <3>8
        <5>. QED
          BY <5>1, <5>3, <3>2, <3>8 DEF FreshLogs
      <4>. QED
        BY <4>1, <4>2
    <3>9. \A q \in Held' : ~Collides(q)
      BY <3>2, <3>7 DEF FreshLogs
    <3>. QED
      BY <3>6, <3>7, <3>8, <3>9 DEF FreshLogs, Collides
  <2>. QED
    BY <1>0, <2>1, <2>2, <2>3, <2>4, <2>5
<1>16. ASSUME NEW p \in todo, RestartStartFails(p)
      PROVE  IInv'
  <2>1. (LockInv /\ PhaseInv /\ MineInv)'
    BY <1>16 DEF RestartStartFails, SpawnFails, OpenLog, Return, TypeOK, LockInv, PhaseInv, MineInv
  <2>2. Tracked'
    BY <1>16 DEF RestartStartFails, SpawnFails, OpenLog, Return, TypeOK, LockInv, PhaseInv, MineInv, Tracked
  <2>3. OneEntry'
    BY <1>16 DEF RestartStartFails, SpawnFails, OpenLog, Return, TypeOK, LockInv, PhaseInv, MineInv, OneEntry, Held
  <2>4. SweepInv'
    BY <1>16 DEF RestartStartFails, SpawnFails, OpenLog, Return, TypeOK, LockInv, PhaseInv, Tracked, SweepInv
  <2>5. FreshLogs'
    <3>1. /\ p \in Process /\ p.life \in Nat /\ NextLife(p) \in Process
          /\ NextLife(p).app = p.app /\ NextLife(p).life = p.life + 1
      BY LifeTypes DEF TypeOK, Process
    <3>2. Held = todo
      BY <1>16 DEF RestartStartFails, Held
    <3>3. LogOf(NextLife(p)) \notin ReservedLogs
      BY <3>2 DEF FreshLogs, Collides
    <3>4. \A q \in opened : q.app = NextLife(p).app => q.life < NextLife(p).life
      <4>. SUFFICES ASSUME NEW q \in opened, q.app = p.app
                    PROVE  q.life < p.life + 1
        BY <3>1
      <4>1. q.life <= p.life /\ q.life \in Nat
        BY <3>2 DEF FreshLogs, TypeOK, Process
      <4>. QED
        BY <3>1, <4>1
    <3>5. OpenLog(NextLife(p)) \/ UNCHANGED <<opened, truncated>>
      BY <1>16 DEF RestartStartFails, SpawnFails
    <3>6. /\ NoTruncation'
          /\ opened' \subseteq opened \cup {NextLife(p)}
          /\ \A q \in opened' : /\ LogOf(q) # NoLog
                                /\ q.life = 1 \/ LogOf(q) \notin ReservedLogs
      BY <3>1, <3>3, <3>4, <3>5, OpenKeeps DEF FreshLogs, TypeOK
    <3>7. Held' = {} /\ launches' = launches /\ mpc' # "start_all"
      BY <1>16 DEF RestartStartFails, Held, PhaseInv, Return
    <3>8. ASSUME NEW q \in opened', NEW r \in launches, q.app = r.app
          PROVE  q.life <= r.life
      <4>1. r.app # p.app
        BY <3>2 DEF OneEntry
      <4>2. q \in opened
        BY <4>1, <3>1, <3>6, <3>8
      <4>. QED
        BY <4>2, <3>8 DEF FreshLogs
    <3>. QED
      BY <3>6, <3>7, <3>8 DEF FreshLogs
  <2>. QED
    BY <1>0, <2>1, <2>2, <2>3, <2>4, <2>5
<1>17. CASE RestartReturns
  <2>1. (LockInv /\ PhaseInv /\ MineInv)'
    BY <1>17 DEF RestartReturns, Return, TypeOK, LockInv, PhaseInv, MineInv
  <2>2. Tracked'
    BY <1>17 DEF RestartReturns, Return, TypeOK, LockInv, PhaseInv, MineInv, Tracked
  <2>3. OneEntry'
    BY <1>17 DEF RestartReturns, Return, TypeOK, LockInv, PhaseInv, MineInv, OneEntry, Held
  <2>4. SweepInv'
    BY <1>17 DEF RestartReturns, Return, TypeOK, LockInv, PhaseInv, Tracked, SweepInv
  <2>5. FreshLogs'
    BY <1>17 DEF RestartReturns, Return, TypeOK, LockInv, PhaseInv, MineInv, Held, FreshLogs, NoTruncation
  <2>. QED
    BY <1>0, <2>1, <2>2, <2>3, <2>4, <2>5
<1>18. ASSUME NEW p \in running, ProcessExits(p)
      PROVE  IInv'
  <2>1. (LockInv /\ PhaseInv /\ MineInv)'
    BY <1>18 DEF ProcessExits, Reap, TypeOK, LockInv, PhaseInv, MineInv
  <2>2. Tracked'
    BY <1>18 DEF ProcessExits, Reap, TypeOK, LockInv, PhaseInv, MineInv, Tracked
  <2>3. OneEntry'
    BY <1>18 DEF ProcessExits, Reap, TypeOK, LockInv, PhaseInv, MineInv, OneEntry, Held
  <2>4. SweepInv'
    BY <1>18 DEF ProcessExits, Reap, TypeOK, LockInv, PhaseInv, Tracked, SweepInv
  <2>5. FreshLogs'
    BY <1>18 DEF ProcessExits, Reap, TypeOK, LockInv, PhaseInv, MineInv, Held, FreshLogs, NoTruncation
  <2>. QED
    BY <1>0, <2>1, <2>2, <2>3, <2>4, <2>5
<1>19. CASE UNCHANGED vars
  BY <1>19, <1>0 DEF vars, LockInv, PhaseInv, MineInv, Tracked, OneEntry, SweepInv,
     FreshLogs, Held, Collides, NoTruncation
<1>. QED
  BY <1>1, <1>2, <1>3, <1>4, <1>5, <1>6, <1>7, <1>8, <1>9, <1>10, <1>11, <1>12, <1>13, <1>14, <1>15, <1>16, <1>17, <1>18, <1>19
     DEF Next, MainStep, RestartStep

\* The inductive invariant holds before the first step.
LEMMA InitInv == Init => IInv
<1>. SUFFICES ASSUME Init
              PROVE  IInv
  OBVIOUS
<1>1. TypeOK
  BY TypeInit
<1>2. LockInv /\ PhaseInv /\ MineInv
  BY DEF Init, LockInv, PhaseInv, MineInv
<1>3. Tracked /\ OneEntry /\ SweepInv
  BY DEF Init, Tracked, OneEntry, SweepInv, Held
<1>4. FreshLogs
  BY DEF Init, FreshLogs, Held, NoTruncation
<1>. QED
  BY <1>1, <1>2, <1>3, <1>4 DEF IInv

\* The inductive invariant holds in every reachable state.
LEMMA Invariance == Spec => []IInv
BY InitInv, StepInv, PTL DEF Spec

-----------------------------------------------------------------------------
(* The safety properties *)

\* Shutdown misses nothing: once stop_all has returned, only processes whose
\* stop it attempted and reported as failed are alive, forever.
THEOREM NoOrphanTheorem == Spec => []NoOrphan
<1>1. IInv => NoOrphan
  BY DEF IInv, SweepInv, NoOrphan
<1>. QED
  BY <1>1, Invariance, PTL

\* Every live process is tracked by the fleet, or in the hands of the restart
\* that holds its lock.
THEOREM TrackedTheorem == Spec => []Tracked
<1>1. IInv => Tracked
  BY DEF IInv
<1>. QED
  BY <1>1, Invariance, PTL

\* An application has at most one process.
LEMMA OneLifeFact == IInv => OneLife
<1>. SUFFICES ASSUME IInv, NEW p \in running, NEW q \in running, p.app = q.app
              PROVE  p = q
  BY DEF OneLife
<1>1. p \in launches \cup Held /\ q \in launches \cup Held
  BY DEF IInv, Tracked, MineInv, Held
<1>. QED
  BY <1>1 DEF IInv, OneEntry

\* No two lives of one application are alive at the same time.
THEOREM OneLifeTheorem == Spec => []OneLife
BY OneLifeFact, Invariance, PTL

\* Whatever log files the configuration gives, a start() truncates one in use
\* only between two applications that were given the very same file.
THEOREM NoTruncationTheorem == Spec => []NoTruncation
<1>1. IInv => NoTruncation
  BY DEF IInv, FreshLogs, NoTruncation
<1>. QED
  BY <1>1, Invariance, PTL

-----------------------------------------------------------------------------
(* The fleet implements HostAppContract *)

\* Ending a process is an end of the contract, if it was alive.
LEMMA ReapEnds ==
  ASSUME NEW p \in Process, Reap(p), stopping' = stopping
  PROVE  [Contract!Next]_(Contract!vars)
<1>1. CASE p \in running
  BY <1>1 DEF Reap, Contract!Next, Contract!End
<1>2. CASE p \notin running
  BY <1>2 DEF Reap, Contract!vars
<1>. QED
  BY <1>1, <1>2

\* Spawning a process of an application that has none, before shutdown, is a
\* launch of the contract.
LEMMA SpawnLaunches ==
  ASSUME NEW p \in Process, running' = running \cup {p}, ~stopping,
         stopping' = stopping, \A q \in running : q.app # p.app
  PROVE  [Contract!Next]_(Contract!vars)
<1>1. p.app \in Apps /\ p \in running'
  BY DEF Process
<1>2. Contract!Launch(p)
  BY <1>1 DEF Contract!Launch
<1>. QED
  BY <1>1, <1>2 DEF Contract!Next

\* Every step is a step of the contract, or none.
LEMMA StepImplements == IInv /\ [Next]_vars => [Contract!Next]_(Contract!vars)
<1>. SUFFICES ASSUME IInv, [Next]_vars
              PROVE  [Contract!Next]_(Contract!vars)
  OBVIOUS
<1>. USE DEF IInv, fleetVars, osVars, mainVars, restartVars
<1>1. ASSUME NEW a \in Apps, StartOne(a)
      PROVE  [Contract!Next]_(Contract!vars)
  <2>1. FirstLife(a) \in Process /\ FirstLife(a).app = a
    BY FirstLives DEF FirstLife
  <2>2. ~stopping /\ stopping' = stopping
        /\ running' = running \cup {FirstLife(a)}
    BY <1>1 DEF StartOne, PhaseInv, Spawn
  <2>3. \A q \in running : q.app # a
    BY <1>1 DEF StartOne, Tracked, OneEntry, PhaseInv
  <2>. QED
    BY <2>1, <2>2, <2>3, SpawnLaunches
<1>2. ASSUME NEW a \in Apps, StartOneFails(a)
      PROVE  [Contract!Next]_(Contract!vars)
  BY <1>2 DEF StartOneFails, SpawnFails, Contract!vars
<1>3. CASE StopAllBegins
  <2>1. Contract!Close
    BY <1>3 DEF StopAllBegins, PhaseInv, Contract!Close
  <2>. QED
    BY <2>1 DEF Contract!Next
<1>4. ASSUME NEW p \in sweep, SweepStop(p)
      PROVE  [Contract!Next]_(Contract!vars)
  <2>1. CASE Reap(p)
    BY <1>4, <2>1, ReapEnds DEF SweepStop, TypeOK
  <2>2. CASE UNCHANGED osVars
    BY <1>4, <2>2 DEF SweepStop, Contract!vars
  <2>. QED
    BY <1>4, <2>1, <2>2 DEF SweepStop
<1>5. ASSUME NEW p \in todo, RestartStop(p)
      PROVE  [Contract!Next]_(Contract!vars)
  <2>1. CASE Reap(p)
    BY <1>5, <2>1, ReapEnds DEF RestartStop, TypeOK
  <2>2. CASE UNCHANGED osVars
    BY <1>5, <2>2 DEF RestartStop, Contract!vars
  <2>. QED
    BY <1>5, <2>1, <2>2 DEF RestartStop
<1>6. ASSUME NEW p \in todo, RestartStart(p)
      PROVE  [Contract!Next]_(Contract!vars)
  <2>1. NextLife(p) \in Process /\ NextLife(p).app = p.app
    BY LifeTypes DEF TypeOK
  <2>2. ~stopping /\ stopping' = stopping
        /\ running' = running \cup {NextLife(p)}
    BY <1>6 DEF RestartStart, PhaseInv, LockInv, Spawn
  <2>3. \A q \in running : q.app # p.app
    BY <1>6 DEF RestartStart, Tracked, OneEntry, Held
  <2>. QED
    BY <2>1, <2>2, <2>3, SpawnLaunches
<1>7. ASSUME NEW p \in todo, RestartStartFails(p)
      PROVE  [Contract!Next]_(Contract!vars)
  BY <1>7 DEF RestartStartFails, SpawnFails, Contract!vars
<1>8. ASSUME NEW p \in running, ProcessExits(p)
      PROVE  [Contract!Next]_(Contract!vars)
  BY <1>8, ReapEnds DEF ProcessExits, TypeOK
<1>9. CASE \/ StartAllReturns \/ ExperimentEnds \/ StopAllReturns
           \/ \E h \in Hosts : RestartHost(h)
           \/ SelectRejected \/ Select \/ PutBack \/ DowntimeEnds
           \/ ReplayBegins \/ RestartReturns
  <2>1. UNCHANGED <<running, stopping>>
    BY <1>9 DEF StartAllReturns, ExperimentEnds, StopAllReturns, RestartHost,
       SelectRejected, Select, PutBack, DowntimeEnds, ReplayBegins, RestartReturns
  <2>. QED
    BY <2>1 DEF Contract!vars
<1>10. CASE UNCHANGED vars
  BY <1>10 DEF vars, Contract!vars
<1>. QED
  BY <1>1, <1>2, <1>3, <1>4, <1>5, <1>6, <1>7, <1>8, <1>9, <1>10
     DEF Next, MainStep, RestartStep

\* HostApps implements its contract: a process of an application is launched
\* only while the application has none, and never after shutdown has begun.
THEOREM ImplementsContract == Spec => ContractHolds
<1>1. Init => Contract!Init
  BY DEF Init, Contract!Init
<1>. QED
  BY <1>1, Invariance, StepImplements, PTL DEF Spec, ContractHolds, Contract!Spec

\* Every live process is answered for.
THEOREM OwnershipTheorem == Spec => []Ownership
BY NoOrphanTheorem, TrackedTheorem, PTL DEF Ownership
=============================================================================
