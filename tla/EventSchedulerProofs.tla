------------------------ MODULE EventSchedulerProofs ------------------------
(***************************************************************************)
(* Proofs about EventScheduler, for any list of configured events and any  *)
(* horizon, and about ConfigRules, which decides what events reach it, for *)
(* any configuration file and any flags.                                   *)
(***************************************************************************)
EXTENDS EventScheduler, ConfigRules, WellFoundedInduction, FiniteSetTheorems, TLAPS

\* Everything queued is later than everything popped, and the sequence numbers
\* of the queue are distinct and already used.
QueueInv ==
  /\ \A e \in heap : Before(last, Key(e))
  /\ \A e \in cur : last = Key(e)
  /\ \A e \in heap \cup cur : e.seq < seq
  /\ \A e, f \in heap : e.seq = f.seq => e = f

\* Exactly one entry is in hand while a handler runs, none before and after.
HandInv ==
  /\ pc # "handle" => cur = {}
  /\ pc = "handle" => cur # {}
  /\ \A e, f \in cur : e = f

\* The head has come due when the thread is about to pop it.
DueInv == pc = "pop" => \A e \in heap : IsHead(e) => e.at <= now

\* An event has at most one entry that is not a restore, queued or in hand,
\* and its scheduled time follows from the number of firings.
CadenceInv ==
  /\ \A e, f \in heap \cup cur :
       ~e.restore /\ ~f.restore /\ e.ev = f.ev => e = f
  /\ \A e \in heap : e \notin cur
  /\ Cadence
  /\ \A e \in cur : ~e.restore =>
       e.at + EventList[e.ev].interval
         = EventList[e.ev].at + fired[e.ev] * EventList[e.ev].interval

\* A queued restore of an event precedes its next repetition, and none is left
\* when the event fires.
RestoreInv ==
  \A r \in heap : r.restore /\ EventList[r.ev].duration <= EventList[r.ev].interval =>
    /\ \A e \in heap : ~e.restore /\ e.ev = r.ev => Before(Key(r), Key(e))
    /\ \A e \in cur : e.restore \/ e.ev # r.ev

\* The entries carry the priority of their event.
PriorityInv ==
  \A e \in heap \cup cur :
    ~e.restore /\ EventList[e.ev].restores => e.priority = DefaultPriority

\* The record of the entry in hand is still missing.
RecordInv ==
  pc # "dead" =>
    \A i \in Events :
      recorded[i] + (IF \E e \in cur : e.ev = i /\ Recorded(e) THEN 1 ELSE 0)
        = restored[i] + (IF EventList[i].content THEN 0 ELSE fired[i])

\* An event fires after stop() only if it had been chosen before.
StopInv ==
  /\ afterStop <= 1
  /\ afterStop > 0 => stop /\ pc \in {"handle", "check", "dead"}

\* The thread ends when the queue is empty, a handler dies or stop() is called.
DeadInv ==
  /\ pc = "dead" => heap = {} \/ fatal \/ stop
  /\ mpc \in {"running", "waited"} => ~stop
  /\ waited = "True" => pc = "dead" /\ (heap = {} \/ fatal)

\* The inductive invariant.
IInv ==
  /\ TypeOK
  /\ QueueInv
  /\ HandInv
  /\ DueInv
  /\ CadenceInv
  /\ RestoreInv
  /\ PriorityInv
  /\ RecordInv
  /\ StopInv
  /\ DeadInv

-----------------------------------------------------------------------------
(* Facts about entries *)

\* The fields of an entry and of its configured event.
LEMMA EntryFields ==
  ASSUME NEW e \in Entry
  PROVE  /\ e.at \in Nat
         /\ e.priority \in Nat
         /\ e.seq \in Nat
         /\ e.left \in Nat
         /\ e.restore \in BOOLEAN
         /\ e.ev \in Events
         /\ EventList[e.ev] \in EventConfig
         /\ EventList[e.ev].at \in Nat
         /\ EventList[e.ev].interval \in Nat
         /\ EventList[e.ev].duration \in Nat
<1>1. e.ev \in Events
  BY DEF Entry
<1>2. EventList[e.ev] \in EventConfig
  BY <1>1, SchedulerAssumption DEF Events
<1>. QED
  BY <1>1, <1>2 DEF Entry, EventConfig

\* What HandleRepeat pushes for the entry c: at most one restore and one
\* repetition, both later than c, the restore with the lower number.
LEMMA Pushed ==
  ASSUME seq \in Nat, NEW c \in Entry
  PROVE  /\ \A r \in RestoreOf(c) :
              /\ r \in Entry
              /\ r.at = c.at + EventList[c.ev].duration
              /\ r.at > c.at
              /\ r.priority = DefaultPriority
              /\ r.seq = seq
              /\ r.ev = c.ev
              /\ r.restore
              /\ ~c.restore
              /\ EventList[c.ev].restores
              /\ NextNumber(c) = seq + 1
         /\ \A n \in NextOf(c) :
              /\ n \in Entry
              /\ n.at = c.at + EventList[c.ev].interval
              /\ n.at > c.at
              /\ n.priority = c.priority
              /\ n.seq = NextNumber(c)
              /\ n.ev = c.ev
              /\ ~n.restore
              /\ ~c.restore
         /\ NextNumber(c) \in Nat
         /\ NextNumber(c) >= seq
         /\ \A r, s \in RestoreOf(c) : r = s
         /\ \A m, n \in NextOf(c) : m = n
<1>. DEFINE d == EventList[c.ev].duration
            i == EventList[c.ev].interval
<1>1. /\ c.at \in Nat /\ c.priority \in Nat /\ c.left \in Nat
      /\ c.ev \in Events /\ d \in Nat /\ i \in Nat
  BY EntryFields
<1>2. \A r \in RestoreOf(c) :
        /\ r = [at |-> c.at + d, priority |-> DefaultPriority, seq |-> seq,
                ev |-> c.ev, left |-> 0, restore |-> TRUE]
        /\ d > 0 /\ ~c.restore /\ EventList[c.ev].restores
        /\ NextNumber(c) = seq + 1
  BY DEF RestoreOf, NextNumber
<1>3. \A n \in NextOf(c) :
        /\ n = [at |-> c.at + i, priority |-> c.priority,
                seq |-> NextNumber(c), ev |-> c.ev,
                left |-> IF c.left = 0 THEN 0 ELSE c.left - 1,
                restore |-> FALSE]
        /\ i > 0 /\ ~c.restore
  BY DEF NextOf, Repetition, Repeats
<1>4. NextNumber(c) \in Nat /\ NextNumber(c) >= seq
  BY DEF NextNumber
<1>. HIDE DEF d, i
<1>5. ASSUME NEW r \in RestoreOf(c)
      PROVE  /\ r \in Entry
             /\ r.at = c.at + d /\ r.at > c.at
             /\ r.priority = DefaultPriority /\ r.seq = seq
             /\ r.ev = c.ev /\ r.restore
  <2>1. c.at + d \in Nat /\ DefaultPriority \in Nat /\ c.at + d > c.at
    BY <1>1, <1>2 DEF DefaultPriority
  <2>2. r = [at |-> c.at + d, priority |-> DefaultPriority, seq |-> seq,
             ev |-> c.ev, left |-> 0, restore |-> TRUE]
    BY <1>2
  <2>. QED
    BY <1>1, <2>1, <2>2 DEF Entry
<1>6. ASSUME NEW n \in NextOf(c)
      PROVE  /\ n \in Entry
             /\ n.at = c.at + i /\ n.at > c.at
             /\ n.priority = c.priority /\ n.seq = NextNumber(c)
             /\ n.ev = c.ev /\ ~n.restore
  <2>. DEFINE l == IF c.left = 0 THEN 0 ELSE c.left - 1
  <2>1. l \in Nat
    BY <1>1
  <2>2. n = [at |-> c.at + i, priority |-> c.priority,
             seq |-> NextNumber(c), ev |-> c.ev, left |-> l,
             restore |-> FALSE]
    BY <1>3
  <2>. HIDE DEF l
  <2>3. c.at + i \in Nat /\ c.at + i > c.at
    BY <1>1, <1>3
  <2>. QED
    BY <1>1, <1>4, <2>1, <2>2, <2>3 DEF Entry
<1>7. (\A r, s \in RestoreOf(c) : r = s) /\ (\A m, n \in NextOf(c) : m = n)
  BY <1>2, <1>3, Zenon
<1>. QED
  BY <1>2, <1>3, <1>4, <1>5, <1>6, <1>7 DEF d, i

-----------------------------------------------------------------------------
(* The invariant holds initially *)

\* The invariant holds initially.
LEMMA InitIInv == Init => IInv
<1>. SUFFICES ASSUME Init PROVE IInv
  OBVIOUS
<1>0. \A i \in Events : /\ EventList[i] \in EventConfig
                        /\ EventList[i].at \in Nat
                        /\ EventList[i].priority \in Nat
                        /\ EventList[i].count \in Nat
                        /\ EventList[i].restores =>
                             EventList[i].priority = DefaultPriority
                        /\ i \in Nat
                        /\ i - 1 \in Nat
                        /\ i - 1 < Len(EventList)
                        /\ Len(EventList) \in Nat
  <2>. TAKE i \in Events
  <2>1. EventList[i] \in EventConfig /\ i \in 1..Len(EventList)
    BY SchedulerAssumption DEF Events
  <2>2. EventList[i].restores => EventList[i].priority = DefaultPriority
    BY SchedulerAssumption DEF Events
  <2>3. /\ EventList[i].at \in Nat
        /\ EventList[i].priority \in Nat
        /\ EventList[i].count \in Nat
    BY <2>1 DEF EventConfig
  <2>4. Len(EventList) \in Nat
    BY SchedulerAssumption
  <2>. QED
    BY <2>1, <2>2, <2>3, <2>4
<1>1. \A e \in heap :
        /\ e.ev \in Events
        /\ e = [at |-> EventList[e.ev].at, priority |-> EventList[e.ev].priority,
                seq |-> e.ev - 1, ev |-> e.ev, left |-> EventList[e.ev].count,
                restore |-> FALSE]
  BY SchedulerAssumption DEF Init, Events
<1>2. heap \in SUBSET Entry
  <2>. SUFFICES ASSUME NEW e \in heap PROVE e \in Entry
    OBVIOUS
  <2>1. PICK i \in Events :
          e = [at |-> EventList[i].at, priority |-> EventList[i].priority,
               seq |-> i - 1, ev |-> i, left |-> EventList[i].count,
               restore |-> FALSE]
    BY SchedulerAssumption DEF Init, Events
  <2>. QED
    BY <1>0, <2>1 DEF Entry
<1>3. \A e \in heap : /\ e.at = EventList[e.ev].at
                      /\ e.priority = EventList[e.ev].priority
                      /\ e.seq = e.ev - 1
                      /\ ~e.restore
  BY <1>1
<1>4. TypeOK
  <2>1. stop \in BOOLEAN /\ fatal \in BOOLEAN
    BY Zenon DEF Init
  <2>2. seq \in Nat /\ now \in Nat /\ cur \in SUBSET Entry
    BY SchedulerAssumption DEF Init
  <2>3. last \in Nat \X Nat \X Int /\ afterStop \in Nat
    BY DEF Init
  <2>4. /\ fired \in [Events -> Nat] /\ restored \in [Events -> Nat]
        /\ recorded \in [Events -> Nat]
    BY DEF Init
  <2>5. /\ pc \in {"check", "wait", "pop", "handle", "dead"}
        /\ mpc \in {"running", "waited", "joining", "stopped"}
        /\ waited \in {"none", "True", "False"}
    BY DEF Init
  <2>. QED
    BY <1>2, <2>1, <2>2, <2>3, <2>4, <2>5 DEF TypeOK
<1>5. QueueInv
  <2>1. \A e \in heap : e.seq < seq /\ Before(last, Key(e))
    BY <1>0, <1>2, <1>3, EntryFields DEF Init, Before, Key
  <2>2. ASSUME NEW e \in heap, NEW f \in heap, e.seq = f.seq PROVE e = f
    <3>1. e.ev - 1 = f.ev - 1 /\ e.ev \in Nat /\ f.ev \in Nat
      BY <1>0, <1>1, <1>3, <2>2
    <3>2. e.ev = f.ev
      BY <3>1
    <3>. QED
      BY <3>2, <1>1, Zenon
  <2>. QED
    BY <2>1, <2>2 DEF QueueInv, Init
<1>6. HandInv /\ DueInv /\ StopInv /\ DeadInv
  <2>1. pc \in {"check", "dead"} /\ (pc = "dead" => heap = {})
    BY DEF Init, Events
  <2>. QED
    BY <2>1 DEF Init, HandInv, DueInv, StopInv, DeadInv
<1>7. CadenceInv
  <2>1. \A e, f \in heap : e.ev = f.ev => e = f
    BY <1>1
  <2>2. Cadence
    BY <1>2, <1>3, EntryFields DEF Init, Cadence
  <2>. QED
    BY <2>1, <2>2 DEF CadenceInv, Init
<1>8. RestoreInv /\ PriorityInv
  BY <1>0, <1>1, <1>3 DEF RestoreInv, PriorityInv, Init
<1>9. RecordInv
  BY DEF RecordInv, Init
<1>. QED
  BY <1>4, <1>5, <1>6, <1>7, <1>8, <1>9 DEF IInv

-----------------------------------------------------------------------------
(* Steps that leave the queue alone *)

\* The loop condition preserves the invariant.
LEMMA CheckIInv == IInv /\ Check => IInv'
<1>. SUFFICES ASSUME IInv, Check PROVE IInv'
  OBVIOUS
<1>. USE DEF IInv, Check, mainVars, history
<1>1. TypeOK' /\ QueueInv' /\ HandInv' /\ CadenceInv' /\ RestoreInv' /\ PriorityInv'
  BY DEF TypeOK, QueueInv, HandInv, CadenceInv, Cadence, RestoreInv, PriorityInv
<1>2. DueInv'
  <2>1. \A e \in heap : IsHead(e)' <=> IsHead(e)
    BY DEF IsHead
  <2>2. \A e, f \in heap : IsHead(e) /\ IsHead(f) => e = f
    BY EntryFields DEF IsHead, Before, Key, TypeOK
  <2>. QED
    BY <2>1, <2>2 DEF DueInv, Due
<1>3. RecordInv' /\ StopInv' /\ DeadInv'
  BY DEF RecordInv, StopInv, DeadInv, Recorded, TypeOK
<1>. QED
  BY <1>1, <1>2, <1>3

\* So does the end of the wait for the head.
LEMMA WaitEndsIInv == IInv /\ WaitEnds => IInv'
<1>. SUFFICES ASSUME IInv, WaitEnds PROVE IInv'
  OBVIOUS
<1>. USE DEF IInv, WaitEnds, mainVars, history
<1>1. TypeOK' /\ QueueInv' /\ HandInv' /\ CadenceInv' /\ RestoreInv' /\ PriorityInv'
  BY DEF TypeOK, QueueInv, HandInv, CadenceInv, Cadence, RestoreInv, PriorityInv
<1>2. DueInv'
  <2>1. \A e \in heap : IsHead(e)' <=> IsHead(e)
    BY DEF IsHead
  <2>2. \A e, f \in heap : IsHead(e) /\ IsHead(f) => e = f
    BY EntryFields DEF IsHead, Before, Key, TypeOK
  <2>. QED
    BY <2>1, <2>2 DEF DueInv, Due
<1>3. RecordInv' /\ StopInv' /\ DeadInv'
  BY DEF RecordInv, StopInv, DeadInv, Recorded, TypeOK
<1>. QED
  BY <1>1, <1>2, <1>3

\* So does the end of the thread.
LEMMA HandlerDiesIInv == IInv /\ HandlerDies => IInv'
<1>. SUFFICES ASSUME IInv, HandlerDies PROVE IInv'
  OBVIOUS
<1>. USE DEF IInv, HandlerDies, mainVars
<1>0. fatal' \in BOOLEAN
  BY Zenon
<1>1. TypeOK'
  BY <1>0 DEF TypeOK
<1>2. QueueInv' /\ HandInv' /\ DueInv' /\ RestoreInv' /\ PriorityInv'
  BY DEF QueueInv, HandInv, DueInv, RestoreInv, PriorityInv
<1>3. CadenceInv'
  BY DEF CadenceInv, Cadence
<1>4. RecordInv' /\ StopInv' /\ DeadInv'
  BY DEF RecordInv, StopInv, DeadInv
<1>. QED
  BY <1>1, <1>2, <1>3, <1>4

\* The steps of the main thread and of the clock.
LEMMA OthersIInv == IInv /\ (WaitAll \/ Stop \/ Joined \/ Tick) => IInv'
<1>. SUFFICES ASSUME IInv, WaitAll \/ Stop \/ Joined \/ Tick PROVE IInv'
  OBVIOUS
<1>. USE DEF IInv, WaitAll, Stop, Joined, Tick, mainVars, threadVars, history
<1>0. stop' \in BOOLEAN /\ fatal' \in BOOLEAN
  BY Zenon DEF TypeOK
<1>1. TypeOK'
  <2>1. now' \in Nat
    BY DEF TypeOK
  <2>. QED
    BY <1>0, <2>1 DEF TypeOK
<1>2. QueueInv' /\ HandInv' /\ CadenceInv' /\ RestoreInv' /\ PriorityInv'
  BY DEF QueueInv, HandInv, CadenceInv, Cadence, RestoreInv, PriorityInv
<1>3. DueInv'
  <2>1. \A e \in heap : IsHead(e)' <=> IsHead(e)
    BY DEF IsHead
  <2>2. now' \in Nat /\ now' >= now
    BY DEF TypeOK
  <2>. QED
    BY <2>1, <2>2, EntryFields DEF DueInv, TypeOK
<1>4. RecordInv'
  BY DEF RecordInv, Recorded
<1>5. StopInv' /\ DeadInv'
  BY DEF StopInv, DeadInv, TypeOK
<1>. QED
  BY <1>1, <1>2, <1>3, <1>4, <1>5

-----------------------------------------------------------------------------
(* Steps of the queue *)

\* Popping the head preserves the invariant: it precedes the rest of the queue.
LEMMA FireIInv == IInv /\ Fire => IInv'
<1>. SUFFICES ASSUME IInv, Fire PROVE IInv'
  OBVIOUS
<1>. USE DEF IInv
<1>1. PICK c \in heap :
        /\ IsHead(c)
        /\ heap' = heap \ {c}
        /\ cur' = {c}
        /\ last' = Key(c)
        /\ IF c.restore
           THEN restored' = [restored EXCEPT ![c.ev] = @ + 1] /\ UNCHANGED fired
           ELSE fired' = [fired EXCEPT ![c.ev] = @ + 1] /\ UNCHANGED restored
  BY DEF Fire
<1>2. /\ pc = "pop" /\ pc' = "handle"
      /\ afterStop' = (IF stop THEN afterStop + 1 ELSE afterStop)
      /\ UNCHANGED <<now, seq, stop, mpc, waited, recorded, fatal>>
  BY DEF Fire, mainVars
<1>3. cur = {} /\ c \in Entry /\ heap \subseteq Entry
  BY <1>2 DEF HandInv, TypeOK
<1>4. \A e \in heap : e # c => Before(Key(c), Key(e))
  BY <1>1 DEF IsHead
<1>5. TypeOK'
  <2>1. last' \in Nat \X Nat \X Int
    BY <1>1, <1>3, EntryFields DEF Key
  <2>2. fired' \in [Events -> Nat] /\ restored' \in [Events -> Nat]
    BY <1>1, <1>3, EntryFields DEF TypeOK
  <2>3. afterStop' \in Nat
    BY <1>2 DEF TypeOK
  <2>4. stop' \in BOOLEAN /\ fatal' \in BOOLEAN
    BY <1>2, Zenon DEF TypeOK
  <2>. QED
    BY <1>1, <1>2, <1>3, <2>1, <2>2, <2>3, <2>4 DEF TypeOK
<1>6. QueueInv'
  BY <1>1, <1>2, <1>3, <1>4 DEF QueueInv
<1>7. HandInv' /\ DueInv'
  BY <1>1, <1>2 DEF HandInv, DueInv
<1>8. CadenceInv'
  <2>1. \A e, f \in (heap \cup cur)' :
          ~e.restore /\ ~f.restore /\ e.ev = f.ev => e = f
    BY <1>1, <1>3 DEF CadenceInv
  <2>2. \A e \in heap' : ~e.restore => fired'[e.ev] = fired[e.ev]
    BY <1>1, <1>3, EntryFields DEF CadenceInv, TypeOK
  <2>3. Cadence'
    BY <1>1, <2>2 DEF CadenceInv, Cadence
  <2>4. ASSUME ~c.restore
        PROVE  c.at + EventList[c.ev].interval
                 = EventList[c.ev].at + fired'[c.ev] * EventList[c.ev].interval
    <3>. DEFINE a == EventList[c.ev].at
                i == EventList[c.ev].interval
                n == fired[c.ev]
    <3>1. c.at = a + n * i
      BY <1>1, <2>4 DEF CadenceInv, Cadence
    <3>2. fired'[c.ev] = n + 1
      BY <1>1, <1>3, <2>4, EntryFields DEF TypeOK
    <3>3. n \in Nat /\ i \in Nat /\ a \in Nat
      BY <1>3, EntryFields DEF TypeOK
    <3>. HIDE DEF a, i, n
    <3>4. (n + 1) * i = n * i + i /\ n * i \in Nat
      BY <3>3
    <3>5. c.at + i = a + (n + 1) * i
      BY <3>1, <3>3, <3>4
    <3>. QED
      BY <3>2, <3>5 DEF a, i
  <2>. QED
    BY <1>1, <2>1, <2>3, <2>4 DEF CadenceInv
<1>9. RestoreInv'
  <2>1. ASSUME NEW r \in heap', r.restore, ~c.restore, r.ev = c.ev,
               EventList[r.ev].duration <= EventList[r.ev].interval
        PROVE  FALSE
    <3>1. Before(Key(r), Key(c)) /\ Before(Key(c), Key(r))
      BY <1>1, <1>4, <2>1 DEF RestoreInv
    <3>. QED
      BY <1>1, <1>3, <3>1, EntryFields DEF Before, Key
  <2>. QED
    BY <1>1, <2>1 DEF RestoreInv
<1>10. PriorityInv'
  BY <1>1 DEF PriorityInv
<1>11. RecordInv'
  <2>. SUFFICES ASSUME NEW i \in Events
                PROVE  recorded[i] + (IF c.ev = i /\ Recorded(c) THEN 1 ELSE 0)
                         = restored'[i] + (IF EventList[i].content THEN 0 ELSE fired'[i])
    BY <1>1, <1>2 DEF RecordInv, Recorded
  <2>1. recorded[i] = restored[i] + (IF EventList[i].content THEN 0 ELSE fired[i])
    BY <1>2, <1>3 DEF RecordInv, TypeOK
  <2>2. recorded[i] \in Nat /\ restored[i] \in Nat /\ fired[i] \in Nat
    BY DEF TypeOK
  <2>. QED
    BY <1>1, <2>1, <2>2 DEF Recorded, TypeOK
<1>12. StopInv' /\ DeadInv'
  BY <1>2 DEF StopInv, DeadInv, TypeOK
<1>. QED
  BY <1>5, <1>6, <1>7, <1>8, <1>9, <1>10, <1>11, <1>12

\* Pushing the restore and the repetition preserves the invariant: both are later
\* than the entry in hand, and they carry unused numbers.
LEMMA HandlerEndsIInv == IInv /\ HandlerEnds => IInv'
<1>. SUFFICES ASSUME IInv, HandlerEnds PROVE IInv'
  OBVIOUS
<1>. USE DEF IInv
<1>1. PICK c \in cur :
        /\ recorded' = IF Recorded(c)
                       THEN [recorded EXCEPT ![c.ev] = @ + 1] ELSE recorded
        /\ heap' = heap \cup RestoreOf(c) \cup NextOf(c)
        /\ seq' = seq + (IF RestoreOf(c) = {} THEN 0 ELSE 1)
                      + (IF NextOf(c) = {} THEN 0 ELSE 1)
  BY DEF HandlerEnds, HandleRepeat
<1>2. /\ pc = "handle" /\ pc' = "check"
      /\ cur' = {}
      /\ UNCHANGED <<now, stop, mpc, waited, last, fired, restored, afterStop, fatal>>
  BY DEF HandlerEnds, mainVars
<1>3. /\ c \in Entry /\ heap \subseteq Entry /\ seq \in Nat
      /\ cur = {c}
      /\ last = Key(c)
      /\ c.seq < seq
  BY DEF TypeOK, HandInv, QueueInv
<1>. DEFINE R == RestoreOf(c)
            N == NextOf(c)
<1>4. /\ \A r \in R :
           /\ r \in Entry
           /\ r.at = c.at + EventList[c.ev].duration
           /\ r.at > c.at
           /\ r.priority = DefaultPriority
           /\ r.seq = seq
           /\ r.ev = c.ev
           /\ r.restore
           /\ ~c.restore
           /\ EventList[c.ev].restores
      /\ \A n \in N :
           /\ n \in Entry
           /\ n.at = c.at + EventList[c.ev].interval
           /\ n.at > c.at
           /\ n.priority = c.priority
           /\ n.seq = IF R = {} THEN seq ELSE seq + 1
           /\ n.ev = c.ev
           /\ ~n.restore
           /\ ~c.restore
      /\ \A r, s \in R : r = s
      /\ \A m, n \in N : m = n
  BY <1>3, Pushed DEF NextNumber
<1>5. /\ seq' \in Nat /\ seq' >= seq
      /\ R # {} => seq' > seq
      /\ N # {} => seq' > seq
      /\ R # {} /\ N # {} => seq' = seq + 2
  BY <1>1, <1>3
<1>. HIDE DEF R, N
<1>6. heap' = heap \cup R \cup N
  BY <1>1 DEF R, N
<1>7. TypeOK'
  <2>1. heap' \subseteq Entry
    BY <1>3, <1>4, <1>6
  <2>2. recorded' \in [Events -> Nat]
    BY <1>1, <1>3, EntryFields DEF TypeOK
  <2>3. stop' \in BOOLEAN /\ fatal' \in BOOLEAN
    BY <1>2, Zenon DEF TypeOK
  <2>. QED
    BY <1>2, <1>5, <2>1, <2>2, <2>3 DEF TypeOK
<1>8. QueueInv'
  <2>1. \A e \in R \cup N : Before(Key(c), Key(e))
    BY <1>3, <1>4, EntryFields DEF Before, Key
  <2>2. \A e \in heap : e.seq < seq /\ e.seq \in Nat /\ Before(last, Key(e))
    BY <1>3, EntryFields DEF QueueInv
  <2>3. \A e \in heap' : e.seq < seq'
    BY <1>3, <1>4, <1>5, <1>6, <2>2
  <2>4. \A e, f \in heap' : e.seq = f.seq => e = f
    <3>1. \A e \in heap, f \in R \cup N : e.seq # f.seq
      BY <1>3, <1>4, <2>2
    <3>2. \A e \in R, f \in N : e.seq # f.seq
      BY <1>3, <1>4
    <3>. QED
      BY <1>4, <1>6, <3>1, <3>2 DEF QueueInv
  <2>5. \A e \in heap' : Before(last', Key(e))
    BY <1>2, <1>3, <1>6, <2>1, <2>2
  <2>. QED
    BY <1>2, <2>3, <2>4, <2>5 DEF QueueInv
<1>9. HandInv' /\ DueInv'
  BY <1>2 DEF HandInv, DueInv
<1>10. CadenceInv'
  <2>1. \A e, f \in heap' : ~e.restore /\ ~f.restore /\ e.ev = f.ev => e = f
    <3>1. \A e \in heap : ~e.restore /\ ~c.restore => e.ev # c.ev
      BY <1>3 DEF CadenceInv
    <3>2. \A e, f \in heap : ~e.restore /\ ~f.restore /\ e.ev = f.ev => e = f
      BY DEF CadenceInv
    <3>. QED
      BY <1>4, <1>6, <3>1, <3>2
  <2>2. Cadence'
    BY <1>2, <1>3, <1>4, <1>6 DEF CadenceInv, Cadence
  <2>. QED
    BY <1>2, <2>1, <2>2 DEF CadenceInv
<1>11. PriorityInv'
  BY <1>2, <1>3, <1>4, <1>6 DEF PriorityInv
<1>12. RestoreInv'
  <2>. SUFFICES ASSUME NEW r \in heap', r.restore,
                       EventList[r.ev].duration <= EventList[r.ev].interval,
                       NEW e \in heap', ~e.restore, e.ev = r.ev
                PROVE  Before(Key(r), Key(e))
    BY <1>2 DEF RestoreInv
  <2>1. CASE r \in heap /\ e \in heap
    BY <2>1 DEF RestoreInv
  <2>2. CASE r \in heap /\ e \in N
    BY <1>3, <1>4, <2>2 DEF RestoreInv
  <2>3. CASE r \in R /\ e \in heap
    BY <1>3, <1>4, <2>3 DEF CadenceInv
  <2>4. CASE r \in R /\ e \in N
    <3>1. c.priority = DefaultPriority
      BY <1>3, <1>4, <2>4 DEF PriorityInv
    <3>2. /\ r.at = c.at + EventList[c.ev].duration
          /\ e.at = c.at + EventList[c.ev].interval
          /\ r.priority = e.priority
          /\ r.seq < e.seq
      BY <1>3, <1>4, <2>4, <3>1
    <3>3. /\ c.at \in Nat
          /\ EventList[c.ev].duration \in Nat /\ EventList[c.ev].interval \in Nat
          /\ EventList[c.ev].duration <= EventList[c.ev].interval
      BY <1>3, <1>4, <2>4, EntryFields
    <3>. QED
      BY <3>2, <3>3 DEF Before, Key
  <2>. QED
    BY <1>4, <1>6, <2>1, <2>2, <2>3, <2>4
<1>13. RecordInv'
  <2>. SUFFICES ASSUME NEW i \in Events
                PROVE  recorded'[i]
                         = restored[i] + (IF EventList[i].content THEN 0 ELSE fired[i])
    BY <1>2, <1>7 DEF RecordInv, TypeOK
  <2>1. recorded[i] + (IF c.ev = i /\ Recorded(c) THEN 1 ELSE 0)
          = restored[i] + (IF EventList[i].content THEN 0 ELSE fired[i])
    BY <1>2, <1>3 DEF RecordInv
  <2>. QED
    BY <1>1, <2>1 DEF TypeOK
<1>14. StopInv' /\ DeadInv'
  BY <1>2 DEF StopInv, DeadInv
<1>. QED
  BY <1>7, <1>8, <1>9, <1>10, <1>11, <1>12, <1>13, <1>14

-----------------------------------------------------------------------------
(* The theorems *)

\* Every step preserves the invariant.
LEMMA NextIInv == IInv /\ [Next]_vars => IInv'
<1>. SUFFICES ASSUME IInv, [Next]_vars PROVE IInv'
  OBVIOUS
<1>1. CASE UNCHANGED vars
  <2>. USE <1>1 DEF vars, threadVars, mainVars, history
  <2>1. TypeOK' /\ QueueInv' /\ HandInv' /\ CadenceInv' /\ RestoreInv' /\ PriorityInv'
    BY DEF IInv, TypeOK, QueueInv, HandInv, CadenceInv, Cadence, RestoreInv,
           PriorityInv
  <2>2. DueInv' /\ RecordInv' /\ StopInv' /\ DeadInv'
    BY DEF IInv, DueInv, IsHead, RecordInv, Recorded, StopInv, DeadInv
  <2>. QED
    BY <2>1, <2>2 DEF IInv
<1>. QED
  BY <1>1, CheckIInv, WaitEndsIInv, FireIInv, HandlerEndsIInv, HandlerDiesIInv,
     OthersIInv DEF Next, ThreadStep

\* The inductive invariant holds in every state.
THEOREM InvariantHolds == Spec => []IInv
  BY InitIInv, NextIInv, PTL DEF Spec

\* Type correctness for any configuration.
THEOREM TypeCorrect == Spec => []TypeOK
<1>1. IInv => TypeOK
  BY DEF IInv
<1>. QED
  BY <1>1, InvariantHolds, PTL

\* No two queued entries tie, so heapq never compares two event dicts.
THEOREM NoTieTheorem == Spec => []NoTie
<1>1. IInv => NoTie
  BY EntryFields DEF IInv, TypeOK, QueueInv, NoTie, Key
<1>. QED
  BY <1>1, InvariantHolds, PTL

\* The repetitions of an event never drift.
THEOREM CadenceTheorem == Spec => []Cadence
<1>1. IInv => Cadence
  BY DEF IInv, CadenceInv
<1>. QED
  BY <1>1, InvariantHolds, PTL

\* One record for every firing that the scheduler has to record.
THEOREM OneRecordTheorem == Spec => []OneRecordEach
<1>1. IInv => OneRecordEach
  BY DEF IInv, TypeOK, HandInv, RecordInv, OneRecordEach
<1>. QED
  BY <1>1, InvariantHolds, PTL

\* At most one event fires once stop() was called.
THEOREM StopTheorem == Spec => []AtMostOneAfterStop
<1>1. IInv => AtMostOneAfterStop
  BY DEF IInv, StopInv, AtMostOneAfterStop
<1>. QED
  BY <1>1, InvariantHolds, PTL

\* wait_all tells a drained queue from a timeout.
THEOREM WaitAllTheorem == Spec => []WaitAllMeansDrained
<1>1. IInv => WaitAllMeansDrained
  BY DEF IInv, DeadInv, WaitAllMeansDrained
<1>. QED
  BY <1>1, InvariantHolds, PTL

\* Only Fire moves the history of what was popped.
LEMMA OnlyFire ==
  ASSUME [Next]_vars, last' # last \/ fired' # fired
  PROVE  Fire
  BY DEF Next, ThreadStep, Check, WaitEnds, HandlerEnds, HandlerDies, WaitAll,
         Stop, Joined, Tick, vars, threadVars, mainVars, history

\* Events fire in schedule order, none before it is due.
LEMMA OrderStep ==
  ASSUME IInv, [Next]_vars
  PROVE  InOrder
<1>1. ASSUME last' # last
      PROVE  Before(last, last') /\ last'[1] <= now
  <2>1. PICK e \in heap : IsHead(e) /\ last' = Key(e)
    BY <1>1, OnlyFire DEF Fire
  <2>2. pc = "pop"
    BY <1>1, OnlyFire DEF Fire
  <2>3. Before(last, Key(e)) /\ e.at <= now
    BY <1>1, <2>1, <2>2 DEF IInv, QueueInv, DueInv
  <2>. QED
    BY <2>1, <2>3 DEF Key
<1>. QED
  BY <1>1 DEF InOrder

\* No event fires again before its last change was restored, if it is to be
\* restored within the interval.
LEMMA RestoreStep ==
  ASSUME IInv, [Next]_vars
  PROVE  RestoredBeforeNext
<1>1. ASSUME NEW i \in Events, fired'[i] # fired[i],
             EventList[i].duration <= EventList[i].interval,
             NEW r \in heap, r.ev = i, r.restore
      PROVE  FALSE
  <2>1. PICK e \in heap :
          /\ IsHead(e)
          /\ IF e.restore
             THEN restored' = [restored EXCEPT ![e.ev] = @ + 1] /\ UNCHANGED fired
             ELSE fired' = [fired EXCEPT ![e.ev] = @ + 1] /\ UNCHANGED restored
    BY <1>1, OnlyFire DEF Fire
  <2>2. ~e.restore /\ e.ev = i
    BY <1>1, <2>1 DEF IInv, TypeOK
  <2>3. Before(Key(r), Key(e)) /\ Before(Key(e), Key(r))
    BY <1>1, <2>1, <2>2 DEF IInv, RestoreInv, IsHead
  <2>. QED
    BY <1>1, <2>3, EntryFields DEF IInv, TypeOK, Before, Key
<1>. QED
  BY <1>1 DEF RestoredBeforeNext

\* The heap and the sink are right in every state.
THEOREM BookkeepingTheorem == Spec => []Bookkeeping
BY NoTieTheorem, CadenceTheorem, OneRecordTheorem, StopTheorem, PTL DEF Bookkeeping

\* Events fire in order, each change undone before it is made again.
THEOREM FiringOrderTheorem == Spec => FiringOrder
<1>1. IInv /\ [Next]_vars => [InOrder /\ RestoredBeforeNext]_vars
  BY OrderStep, RestoreStep
<1>. QED
  BY <1>1, InvariantHolds, PTL DEF Spec, FiringOrder

-----------------------------------------------------------------------------
(***************************************************************************)
(* bootstrap_scenario: what the merge of file and flags and the validator  *)
(* guarantee to the scenario that runs, and so to the scheduler above.     *)
(***************************************************************************)

\* Where the value of a copied option comes from.
Origin(k) ==
  \/ Has(file, k) /\ args[k] = ListFromStr(k, file[k])
  \/ Has(flags, k) /\ args[k] = flags[k]
  \/ Has(Defaults, k) /\ args[k] = OptionSpecs[k].default

\* What the file says is found in the namespace, but for a flag or a null.
Kept(k) ==
  \/ Get(args, k, Null) = ListFromStr(k, file[k])
  \/ Has(flags, k) /\ args[k] = flags[k]
  \/ file[k] = Null /\ OptionSpecs[k].nullable

\* An option given on the command line.
FlagWins(k) == args[k] = IF Repeated(k) THEN ListFromStr(k, file[k]) ELSE flags[k]

\* The namespace after the merge.
MergeSound ==
  /\ DOMAIN Defaults \subseteq DOMAIN args /\ DOMAIN args \subseteq Keys
  /\ \A k \in DOMAIN args : Copied(k) => Origin(k)
  /\ \A k \in DOMAIN file \cap Keys : ConfigAllowed(k) /\ k # "debug" => Kept(k)
  /\ \A k \in DOMAIN flags \ SpecialMerge : FlagWins(k)

\* The inductive invariant: where each value of the namespace came from once the
\* merge is done, and that what runs was accepted.
BootInv ==
  /\ entry \in {"disaster", "connect"} /\ file \in Files /\ flags \in Flags
  /\ DOMAIN flags \subseteq DOMAIN Defaults
  /\ stage \in {"parse", "merge", "validate", "run", "exit"}
  /\ stage = "merge" => args = Over(flags, Defaults)
  /\ stage \in {"validate", "run", "exit"} => MergeSound
  /\ stage = "run" => Accepted

\* The domain of an option table made of two, and what it says of a key.
LEMMA OverKeys ==
  ASSUME NEW f, NEW g
  PROVE  /\ DOMAIN Over(f, g) = DOMAIN f \cup DOMAIN g
         /\ \A k \in DOMAIN f : Over(f, g)[k] = f[k]
         /\ \A k \in DOMAIN g : k \notin DOMAIN f => Over(f, g)[k] = g[k]
BY DEF Over

\* The rows of OPTION_SPECS the proofs need.
LEMMA OptionRows ==
  /\ "hosts" \in Keys /\ OptionSpecs["hosts"] = O("int", 3, FALSE, Whole(5), Everywhere)
  /\ \A k \in {"links", "events", "host_apps"} :
       k \in Keys /\ OptionSpecs[k] = FileOnly("structured")
  /\ \A k \in SpecialMerge : k \in Keys /\ OptionSpecs[k].kind = "structured"
<1>. DEFINE low == Over(StructuredOptions, OtherOptions)
            mid == Over(FailureOptions, low)
            top == Over(TopologyOptions, OutputOptions)
<1>0. OptionSpecs = Over(top, mid)
  BY DEF OptionSpecs
<1>. HIDE DEF low, mid, top
<1>1. /\ "hosts" \in DOMAIN TopologyOptions
      /\ TopologyOptions["hosts"] = O("int", 3, FALSE, Whole(5), Everywhere)
  BY DEF TopologyOptions
<1>2. \A k \in {"links", "events", "host_apps"} \cup SpecialMerge :
        k \notin DOMAIN TopologyOptions /\ k \notin DOMAIN OutputOptions
        /\ k \notin DOMAIN FailureOptions
  BY DEF TopologyOptions, OutputOptions, FailureOptions, SpecialMerge
<1>3. \A k \in {"links", "events", "host_apps"} :
        k \in DOMAIN StructuredOptions /\ StructuredOptions[k] = FileOnly("structured")
  BY DEF StructuredOptions
<1>4. \A k \in SpecialMerge :
        /\ k \notin DOMAIN StructuredOptions
        /\ k \in DOMAIN OtherOptions /\ OtherOptions[k].kind = "structured"
  <2>1. SpecialMerge = {"cache_config", "forwarding_config", "debug"}
    BY DEF SpecialMerge
  <2>2. \A k \in {"cache_config", "forwarding_config", "debug"} :
          k \notin DOMAIN StructuredOptions
    BY DEF StructuredOptions
  <2>3. /\ "cache_config" \in DOMAIN OtherOptions
        /\ OtherOptions["cache_config"].kind = "structured"
        /\ "forwarding_config" \in DOMAIN OtherOptions
        /\ OtherOptions["forwarding_config"].kind = "structured"
        /\ "debug" \in DOMAIN OtherOptions /\ OtherOptions["debug"].kind = "structured"
    BY DEF OtherOptions, FileOnly, O
  <2>. QED
    BY <2>1, <2>2, <2>3
<1>5. /\ DOMAIN OptionSpecs = DOMAIN top \cup DOMAIN mid
      /\ \A k \in DOMAIN top : OptionSpecs[k] = top[k]
      /\ \A k \in DOMAIN mid : k \notin DOMAIN top => OptionSpecs[k] = mid[k]
  BY <1>0 DEF Over
<1>6. /\ DOMAIN top = DOMAIN TopologyOptions \cup DOMAIN OutputOptions
      /\ \A k \in DOMAIN TopologyOptions : top[k] = TopologyOptions[k]
  BY OverKeys, Zenon DEF top
<1>7. /\ DOMAIN mid = DOMAIN FailureOptions \cup DOMAIN low
      /\ \A k \in DOMAIN low : k \notin DOMAIN FailureOptions => mid[k] = low[k]
  BY OverKeys, Zenon DEF mid
<1>8. /\ DOMAIN low = DOMAIN StructuredOptions \cup DOMAIN OtherOptions
      /\ \A k \in DOMAIN StructuredOptions : low[k] = StructuredOptions[k]
      /\ \A k \in DOMAIN OtherOptions :
           k \notin DOMAIN StructuredOptions => low[k] = OtherOptions[k]
  BY OverKeys, Zenon DEF low
<1>9. "hosts" \in Keys /\ OptionSpecs["hosts"] = O("int", 3, FALSE, Whole(5), Everywhere)
  BY <1>1, <1>5, <1>6, Zenon DEF Keys
<1>10. ASSUME NEW k \in {"links", "events", "host_apps"}
       PROVE  k \in Keys /\ OptionSpecs[k] = FileOnly("structured")
  <2>1. /\ k \in {"links", "events", "host_apps"} \cup SpecialMerge
        /\ k \in DOMAIN StructuredOptions /\ StructuredOptions[k] = FileOnly("structured")
    BY <1>3
  <2>. QED
    BY <2>1, <1>2, <1>5, <1>6, <1>7, <1>8 DEF Keys
<1>11. ASSUME NEW k \in SpecialMerge
       PROVE  k \in Keys /\ OptionSpecs[k].kind = "structured"
  <2>1. k \in {"links", "events", "host_apps"} \cup SpecialMerge
    OBVIOUS
  <2>. QED
    BY <2>1, <1>2, <1>4, <1>5, <1>6, <1>7, <1>8 DEF Keys
<1>. QED
  BY <1>9, <1>10, <1>11

\* An option of the command line is in the table, and its default is the table's.
LEMMA DefaultsTable ==
  /\ DOMAIN Defaults \subseteq Keys
  /\ \A k \in DOMAIN Defaults : Defaults[k] = OptionSpecs[k].default
BY DEF Defaults

\* merge_cli_and_config.
LEMMA MergeStep ==
  ASSUME BootInv, Merge
  PROVE  MergeSound'
<1>. DEFINE plain == {k \in Keys : Copied(k) /\ Taken(k)}
            special == {k \in SpecialMerge \ {"debug"} :
                          Has(file, k) \/ OptionSpecs[k].default # Null}
            low == Over([k \in special |-> Get(file, k, OptionSpecs[k].default)], args)
<1>1. /\ args = Over(flags, Defaults) /\ DOMAIN flags \subseteq DOMAIN Defaults
      /\ UNCHANGED <<entry, file, flags>>
      /\ args' = Over([k \in plain |-> ListFromStr(k, file[k])], low)
  BY DEF BootInv, Merge
<1>2. /\ DOMAIN args = DOMAIN Defaults
      /\ \A k \in DOMAIN args : args[k] = IF Has(flags, k) THEN flags[k] ELSE Defaults[k]
  BY <1>1 DEF Over, Has
<1>3. Defaults' = Defaults /\ Blocks' = Blocks
  BY <1>1 DEF Defaults, Blocks
<1>4. /\ DOMAIN low = special \cup DOMAIN args
      /\ \A k \in special : low[k] = Get(file, k, OptionSpecs[k].default)
      /\ \A k \in DOMAIN args : k \notin special => low[k] = args[k]
  BY DEF Over
<1>. HIDE DEF low
<1>5. /\ DOMAIN args' = plain \cup DOMAIN low
      /\ \A k \in plain : args'[k] = ListFromStr(k, file[k])
      /\ \A k \in DOMAIN low : k \notin plain => args'[k] = low[k]
  BY <1>1 DEF Over
<1>6. special \subseteq SpecialMerge /\ \A k \in special : ~Copied(k)
  BY DEF Copied
<1>7. DOMAIN Defaults \subseteq DOMAIN args' /\ DOMAIN args' \subseteq Keys
  BY <1>2, <1>4, <1>5, <1>6, DefaultsTable, OptionRows
<1>8. ASSUME NEW k \in DOMAIN args', Copied(k) PROVE Origin(k)'
  <2>1. CASE k \in plain
    BY <1>1, <1>5, <2>1 DEF Origin, Taken, Has, ListFromStr
  <2>2. CASE k \notin plain
    <3>1. k \in DOMAIN args /\ args'[k] = args[k]
      BY <1>4, <1>5, <1>6, <1>8, <2>2
    <3>. QED
      BY <1>1, <1>2, <1>3, <3>1, DefaultsTable DEF Origin, Has
  <2>. QED
    BY <2>1, <2>2
<1>9. ASSUME NEW k \in DOMAIN file \cap Keys, ConfigAllowed(k), k # "debug" PROVE Kept(k)'
  <2>0. file' = file /\ flags' = flags /\ Has(file, k)
    BY <1>1 DEF Has
  <2>1. CASE k \in SpecialMerge
    <3>1. k \in special /\ k \notin plain /\ ListFromStr(k, file[k]) = file[k]
      BY <2>0, <2>1, <1>9 DEF Copied, ListFromStr, SpecialMerge
    <3>2. k \in DOMAIN args' /\ args'[k] = file[k]
      BY <1>4, <1>5, <2>0, <3>1 DEF Get
    <3>. QED
      BY <2>0, <3>1, <3>2 DEF Kept, Get, Has, ListFromStr
  <2>2. CASE k \notin SpecialMerge /\ Taken(k)
    <3>1. k \in plain
      BY <2>2, <1>9 DEF Copied
    <3>2. k \in DOMAIN args' /\ args'[k] = ListFromStr(k, file[k])
      BY <1>5, <3>1
    <3>. QED
      BY <2>0, <3>2 DEF Kept, Get, Has, ListFromStr
  <2>3. CASE k \notin SpecialMerge /\ ~Taken(k)
    <3>1. CASE file[k] = Null /\ OptionSpecs[k].nullable
      BY <2>0, <3>1 DEF Kept
    <3>2. CASE Get(args, k, Null) # Get(Defaults, k, Null)
      <4>1. k \in DOMAIN args /\ Has(flags, k) /\ args[k] = flags[k]
        BY <1>2, <3>2 DEF Get, Has
      <4>2. k \notin plain /\ k \notin special
        BY <2>3
      <4>3. args'[k] = flags[k]
        BY <1>4, <1>5, <4>1, <4>2
      <4>. QED
        BY <2>0, <4>1, <4>3 DEF Kept, Has
    <3>. QED
      BY <2>0, <2>3, <3>1, <3>2 DEF Taken
  <2>. QED
    BY <2>1, <2>2, <2>3
<1>10. \A k \in DOMAIN args' : Copied(k) => Origin(k)'
  BY <1>8
<1>11. \A k \in DOMAIN file' \cap Keys : ConfigAllowed(k) /\ k # "debug" => Kept(k)'
  BY <1>1, <1>9
<1>12. ASSUME NEW k \in DOMAIN flags \ SpecialMerge PROVE FlagWins(k)'
  <2>1. /\ k \in DOMAIN Defaults /\ k \in DOMAIN args /\ k \in Keys /\ k \notin special
        /\ args[k] = flags[k] /\ k \in DOMAIN low /\ low[k] = flags[k]
    BY <1>1, <1>2, <1>4, DefaultsTable DEF Has
  <2>2. k \in plain <=> Repeated(k)
    BY <2>1 DEF Taken, Repeated, Get, Has
  <2>3. Repeated(k)' <=> Repeated(k)
    BY <1>1, <1>3 DEF Repeated, Has
  <2>4. CASE k \in plain
    BY <1>1, <1>5, <2>2, <2>3, <2>4 DEF FlagWins, ListFromStr
  <2>5. CASE k \notin plain
    BY <1>1, <1>5, <2>1, <2>2, <2>3, <2>5 DEF FlagWins
  <2>. QED
    BY <2>4, <2>5
<1>13. \A k \in DOMAIN flags' \ SpecialMerge : FlagWins(k)'
  BY <1>1, <1>12
<1>. QED
  BY <1>3, <1>7, <1>10, <1>11, <1>13 DEF MergeSound

\* The inductive invariant of bootstrap_scenario.
THEOREM BootInvariant == BootSpec => []BootInv
<1>1. BootInit => BootInv
  BY DEF BootInit, BootInv
<1>2. BootInv /\ [BootNext]_bootVars => BootInv'
  <2>. SUFFICES ASSUME BootInv, [BootNext]_bootVars PROVE BootInv'
    OBVIOUS
  <2>0. /\ entry \in {"disaster", "connect"} /\ file \in Files /\ flags \in Flags
        /\ DOMAIN flags \subseteq DOMAIN Defaults
    BY DEF BootInv
  <2>1. CASE ParseArgs
    <3>1. /\ entry' = entry /\ file' = file /\ flags' = flags /\ stage' = "merge"
          /\ args' = Over(flags, Defaults)
      BY <2>1 DEF ParseArgs
    <3>2. Defaults' = Defaults
      BY <3>1 DEF Defaults, Blocks
    <3>. QED
      BY <2>0, <3>1, <3>2 DEF BootInv, Over
  <2>2. CASE Merge
    <3>1. /\ entry' = entry /\ file' = file /\ flags' = flags /\ stage' = "validate"
      BY <2>2 DEF Merge
    <3>2. Defaults' = Defaults
      BY <3>1 DEF Defaults, Blocks
    <3>. QED
      BY <2>0, <2>2, <3>1, <3>2, MergeStep DEF BootInv
  <2>3. CASE Validate
    <3>1. /\ entry' = entry /\ file' = file /\ flags' = flags /\ args' = args
          /\ MergeSound /\ stage' \in {"run", "exit"} /\ (stage' = "run" => Accepted)
      BY <2>3 DEF Validate, BootInv
    <3>2. Defaults' = Defaults
      BY <3>1 DEF Defaults, Blocks
    <3>3. MergeSound'
      BY <3>1, <3>2 DEF MergeSound, Origin, Kept, FlagWins, Repeated, Has, Get, ListFromStr
    <3>4. Merged' = Merged
      BY <3>1 DEF Merged
    <3>5. Accepted' <=> Accepted
      BY <3>1, <3>4 DEF Accepted, Has, Get
    <3>. QED
      BY <2>0, <3>1, <3>2, <3>3, <3>5 DEF BootInv
  <2>4. CASE UNCHANGED bootVars
    <3>1. /\ entry' = entry /\ file' = file /\ flags' = flags /\ args' = args /\ stage' = stage
      BY <2>4 DEF bootVars
    <3>2. Defaults' = Defaults
      BY <3>1 DEF Defaults, Blocks
    <3>3. MergeSound' <=> MergeSound
      BY <3>1, <3>2 DEF MergeSound, Origin, Kept, FlagWins, Repeated, Has, Get, ListFromStr
    <3>4. Merged' = Merged
      BY <3>1 DEF Merged
    <3>5. Accepted' <=> Accepted
      BY <3>1, <3>4 DEF Accepted, Has, Get
    <3>. QED
      BY <3>1, <3>2, <3>3, <3>5 DEF BootInv, Over
  <2>. QED
    BY <2>1, <2>2, <2>3, <2>4 DEF BootNext
<1>. QED
  BY <1>1, <1>2, PTL DEF BootSpec

\* OptionsSound: whatever the file and the flags are, what reaches the scenario is
\* admitted, nothing the user wrote is lost, and a flag that differs from its default
\* is never overridden by the file (one that repeats it is).
THEOREM BootOptions == BootSpec => []OptionsSound
<1>1. BootInv => OptionsSound
  <2>. SUFFICES ASSUME BootInv, stage = "run"
                PROVE  /\ \A k \in DOMAIN args :
                            ConfigAllowed(k) => FlatOK(OptionSpecs[k], args[k])
                       /\ \A k \in DOMAIN file \cap Keys :
                            ConfigAllowed(k) /\ k # "debug" => Kept(k)
                       /\ \A k \in DOMAIN flags \ SpecialMerge : FlagWins(k)
    BY DEF OptionsSound, OnlyValidOptions, NothingLost, FlagsKept, Kept, FlagWins
  <2>1. MergeSound /\ ConfigOK(Merged)
    BY DEF BootInv, Accepted
  <2>2. ASSUME NEW k \in DOMAIN args, ConfigAllowed(k) PROVE FlatOK(OptionSpecs[k], args[k])
    <3>1. CASE k \in SpecialMerge
      BY <3>1, OptionRows DEF FlatOK
    <3>2. CASE k \notin SpecialMerge
      <4>1. k \in DOMAIN Merged /\ Merged[k] = args[k] /\ k \in Keys
        BY <2>1, <2>2, <3>2 DEF Merged, Copied, MergeSound
      <4>. QED
        BY <2>1, <2>2, <4>1, Zenon DEF ConfigOK
    <3>. QED
      BY <3>1, <3>2
  <2>. QED
    BY <2>1, <2>2 DEF MergeSound
<1>. QED
  BY <1>1, BootInvariant, PTL

\* What validate_merged_args has accepted, in terms of the namespace.
LEMMA RunFacts ==
  ASSUME BootInv, stage = "run"
  PROVE  /\ MergeSound /\ ConfigOK(Merged)
         /\ \A k \in {"hosts", "links", "events", "host_apps"} :
              (Has(Merged, k) <=> Has(args, k)) /\ (Has(args, k) => Merged[k] = args[k])
         /\ Has(args, "hosts") /\ IsInt(args["hosts"])
         /\ args["hosts"][2] \in Int /\ args["hosts"][2] >= 3
<1>1. MergeSound /\ ConfigOK(Merged)
  BY DEF BootInv, Accepted
<1>2. \A k \in {"hosts", "links", "events", "host_apps"} : Copied(k)
  BY DEF Copied, ConfigAllowed, SpecialMerge
<1>3. \A k \in {"hosts", "links", "events", "host_apps"} :
        (Has(Merged, k) <=> Has(args, k)) /\ (Has(args, k) => Merged[k] = args[k])
  BY <1>2 DEF Merged, Has
<1>4. "hosts" \in DOMAIN Defaults /\ OptionSpecs["hosts"].default = Whole(5)
  BY OptionRows DEF Defaults, Blocks, BootInv, O, Everywhere
<1>5. "hosts" \in DOMAIN args
  BY <1>1, <1>4 DEF MergeSound
<1>6. FlatOK(OptionSpecs["hosts"], args["hosts"])
  BY <1>1, <1>3, <1>5, OptionRows DEF ConfigOK, Has, ConfigAllowed
<1>7. IsInt(args["hosts"]) /\ args["hosts"][2] >= 3
  BY <1>6, OptionRows DEF FlatOK, O
<1>8. args["hosts"][2] \in Int
  <2>1. Origin("hosts")
    BY <1>1, <1>2, <1>5 DEF MergeSound
  <2>2. CASE Has(file, "hosts") /\ args["hosts"] = ListFromStr("hosts", file["hosts"])
    BY <2>2, <1>7, ValuesAssumption DEF ListFromStr, BootInv, Opt
  <2>3. CASE Has(flags, "hosts") /\ args["hosts"] = flags["hosts"]
    BY <2>3, <1>7, ValuesAssumption DEF BootInv, Opt
  <2>4. CASE args["hosts"] = Whole(5)
    BY <2>4 DEF Whole
  <2>. QED
    BY <2>1, <2>2, <2>3, <2>4, <1>4 DEF Origin
<1>. QED
  BY <1>1, <1>3, <1>5, <1>7, <1>8 DEF Has

\* The order of the naturals as a relation.
LessNat == {s \in Nat \X Nat : s[1] < s[2]}

\* Every set of naturals that is not empty has a least member.
LEMMA LeastNatural ==
  ASSUME NEW T, T \subseteq Nat, T # {}
  PROVE  \E x \in T : \A y \in T : x <= y
<1>1. IsWellFoundedOn(LessNat, Nat)
  BY NatLessThanWellFounded DEF OpToRel, LessNat
<1>2. PICK x \in T : \A y \in T : ~(<<y, x>> \in LessNat)
  BY <1>1, WFMin
<1>3. \A y, z \in Nat : y < z => <<y, z>> \in LessNat
  BY DEF LessNat
<1>4. ASSUME NEW y \in T PROVE x <= y
  <2>1. x \in Nat /\ y \in Nat /\ ~(y < x)
    BY <1>2, <1>3
  <2>. QED
    BY <2>1
<1>. QED
  BY <1>4

\* The hosts reached in m rounds.
Grow(f, pairs, n, m) ==
  IF m = 0 THEN {0}
  ELSE f[m - 1] \cup {q \in 0..(n - 1) : \E p \in f[m - 1] : {p, q} \in pairs}

\* The recursive function of Reached exists: there is one for the first m rounds,
\* for every m.
LEMMA GrowExists ==
  ASSUME NEW pairs, NEW n \in Nat
  PROVE  \E f : f = [m \in 0..n |-> Grow(f, pairs, n, m)]
<1>. DEFINE E(l) == \E f : f = [m \in 0..l |-> Grow(f, pairs, n, m)]
            T == {l \in 0..n : ~E(l)}
<1>1. ASSUME T # {} PROVE FALSE
  <2>0. T \subseteq Nat
    OBVIOUS
  <2>1. PICK l \in T : \A y \in T : l <= y
    <3>. HIDE DEF T
    <3>. QED
      BY <1>1, <2>0, LeastNatural
  <2>2. l # 0
    <3>1. PICK f : f = [m \in 0..0 |-> {0}]
      OBVIOUS
    <3>2. f = [m \in 0..0 |-> Grow(f, pairs, n, m)]
      BY <3>1 DEF Grow
    <3>. QED
      BY <2>1, <3>2
  <2>3. l - 1 \in 0..n /\ l - 1 \notin T
    BY <2>1, <2>2
  <2>4. PICK f : f = [m \in 0..(l - 1) |-> Grow(f, pairs, n, m)]
    BY <2>3
  <2>5. PICK g : g = [m \in 0..l |-> IF m < l THEN f[m] ELSE Grow(f, pairs, n, l)]
    OBVIOUS
  <2>6. ASSUME NEW m \in 0..l PROVE g[m] = Grow(g, pairs, n, m)
    <3>1. m = 0 \/ g[m - 1] = f[m - 1]
      BY <2>1, <2>5
    <3>2. Grow(g, pairs, n, m) = Grow(f, pairs, n, m)
      BY <3>1 DEF Grow
    <3>3. CASE m < l
      <4>1. m \in 0..(l - 1)
        BY <2>1, <3>3
      <4>. QED
        BY <2>4, <2>5, <3>2, <3>3, <4>1
    <3>4. CASE m = l
      BY <2>1, <2>5, <3>2, <3>4
    <3>. QED
      BY <2>1, <3>3, <3>4
  <2>7. g = [m \in 0..l |-> Grow(g, pairs, n, m)]
    BY <2>5, <2>6
  <2>. QED
    BY <2>1, <2>7
<1>. QED
  BY <1>1

\* A set of hosts that holds host 0 and that no pair leaves holds all that is reached.
LEMMA ReachedStays ==
  ASSUME NEW pairs, NEW n \in Nat, NEW C, 0 \in C,
         \A p \in C, q \in 0..(n - 1) : {p, q} \in pairs => q \in C
  PROVE  Reached(pairs, n) \subseteq C
<1>1. PICK grow : grow = [m \in 0..n |-> Grow(grow, pairs, n, m)] /\ Reached(pairs, n) = grow[n]
  <2>. DEFINE F(f) == f = [m \in 0..n |->
         IF m = 0 THEN {0}
         ELSE f[m - 1] \cup {q \in 0..(n - 1) : \E p \in f[m - 1] : {p, q} \in pairs}]
  <2>0. PICK f : f = [m \in 0..n |-> Grow(f, pairs, n, m)]
    BY GrowExists
  <2>1. F(f)
    BY <2>0 DEF Grow
  <2>2. \E g : F(g) /\ Reached(pairs, n) = g[n]
    BY <2>1 DEF Reached
  <2>. QED
    BY <2>2 DEF Grow
<1>. DEFINE T == {m \in 0..n : ~(grow[m] \subseteq C)}
<1>2. ASSUME T # {} PROVE FALSE
  <2>0. T \subseteq Nat
    OBVIOUS
  <2>1. PICK m \in T : \A y \in T : m <= y
    <3>. HIDE DEF T
    <3>. QED
      BY <1>2, <2>0, LeastNatural
  <2>2. grow[m] = Grow(grow, pairs, n, m)
    BY <1>1
  <2>3. m # 0
    BY <2>1, <2>2 DEF Grow
  <2>4. m - 1 \in 0..n /\ grow[m - 1] \subseteq C
    BY <2>1, <2>3
  <2>5. grow[m] \subseteq C
    BY <2>2, <2>3, <2>4 DEF Grow
  <2>. QED
    BY <2>1, <2>5
<1>. QED
  BY <1>1, <1>2

\* LinksUsable: every explicit topology that is accepted is connected, and has an
\* address for every host and link, for any number of hosts and links.
THEOREM BootLinks == BootSpec => []LinksUsable
<1>1. BootInv => LinksUsable
  <2>. SUFFICES ASSUME BootInv, stage = "run", Has(args, "links") PROVE LinksUsable
    BY DEF LinksUsable
  <2>. DEFINE L == args["links"]
              n == args["hosts"][2]
              ps == {LinkPair(L[2][k]) : k \in DOMAIN L[2]}
  <2>1. LinksOK(Merged, L)
    BY RunFacts, Zenon DEF ConfigOK, Opt
  <2>2. L = file["links"] /\ Has(file, "links")
    <3>1. "links" \notin DOMAIN Defaults
      BY OptionRows DEF Defaults, FileOnly, O
    <3>2. Origin("links")
      BY RunFacts DEF MergeSound, Copied, ConfigAllowed, SpecialMerge, Has
    <3>. QED
      BY <3>1, <3>2 DEF Origin, Has, BootInv, ListFromStr
  <2>3. Is("list", L) /\ Len(L[2]) \in Nat /\ DOMAIN L[2] = 1..Len(L[2])
    BY <2>1, <2>2, ValuesAssumption DEF LinksOK, BootInv, Opt
  <2>4. /\ Has(Merged, "hosts") /\ Merged["hosts"] = args["hosts"] /\ IsInt(args["hosts"])
        /\ n \in Int /\ n >= 3
    BY RunFacts
  <2>5. /\ Len(L[2]) <= MaxLinkSubnetId
        /\ \A k \in DOMAIN L[2] : LinkOK(Merged, L[2][k])
        /\ \A k, l \in DOMAIN L[2] : LinkPair(L[2][k]) = LinkPair(L[2][l]) => k = l
        /\ Reached(ps, n) = 0..(n - 1)
    BY <2>1, <2>4 DEF LinksOK, Opt
  <2>6. ASSUME NEW p \in ps PROVE \E a, b \in NetHosts \cap 0..MaxHostIndex : p = {a, b}
    <3>1. PICK k \in DOMAIN L[2] : p = LinkPair(L[2][k])
      OBVIOUS
    <3>2. \A j \in 1..2 : HostIndexOK(Merged, L[2][k][2][j][2])
      BY <2>5 DEF LinkOK
    <3>3. \A j \in 1..2 : L[2][k][2][j][2] \in NetHosts \cap 0..MaxHostIndex
      BY <2>4, <3>2 DEF HostIndexOK, InHosts, Opt, NetHosts
    <3>. QED
      BY SMTT(30), <3>1, <3>3 DEF LinkPair
  <2>7. Cardinality(ps) = Len(L[2])
    <3>1. PICK f : f = [k \in 1..Len(L[2]) |-> LinkPair(L[2][k])]
      OBVIOUS
    <3>2. f \in Bijection(1..Len(L[2]), ps)
      BY <2>3, <2>5, <3>1 DEF Bijection, Injection, Surjection, IsInjective
    <3>3. ExistsBijection(1..Len(L[2]), ps)
      BY <3>2 DEF ExistsBijection
    <3>. HIDE DEF ps, L
    <3>. QED
      BY <2>3, <3>3, FS_CountingElements
  <2>8. ASSUME NEW S \in SUBSET NetHosts, S \notin {{}, NetHosts},
               \A p \in ps : p \cap S = {} \/ p \subseteq S
        PROVE  FALSE
    <3>1. PICK C : C = IF 0 \in S THEN S ELSE NetHosts \ S
      OBVIOUS
    <3>2. 0 \in C /\ C # NetHosts /\ C \subseteq NetHosts /\ NetHosts = 0..(n - 1)
      <4>1. NetHosts = 0..(n - 1) /\ 0 \in NetHosts
        BY <2>4 DEF NetHosts
      <4>2. C # NetHosts
        BY <2>8, <3>1
      <4>. QED
        BY <3>1, <4>1, <4>2
    <3>3. \A p \in C, q \in 0..(n - 1) : {p, q} \in ps => q \in C
      BY <2>8, <3>1, <3>2
    <3>4. n \in Nat
      BY <2>4
    <3>5. Reached(ps, n) \subseteq C
      <4>. HIDE DEF ps, n
      <4>. QED
        BY <3>2, <3>3, <3>4, ReachedStays
    <3>. QED
      BY <2>5, <3>2, <3>5
  <2>9. \A S \in SUBSET NetHosts : S \notin {{}, NetHosts} =>
          \E p \in ps : p \cap S # {} /\ p \ S # {}
    BY <2>8
  <2>10. \A p \in ps : p \subseteq NetHosts \cap 0..MaxHostIndex
    BY <2>6
  <2>. QED
    BY <2>5, <2>7, <2>9, <2>10 DEF LinksUsable
<1>. QED
  BY <1>1, BootInvariant, PTL

\* An event that its validator accepts has what its handler needs.
LEMMA TypedFinds ==
  ASSUME BootInv, stage = "run", NEW e, Typed(e), TypedOK(Merged, e)
  PROVE  HandlerFinds(e)
<1>0. /\ Has(Merged, "hosts") /\ Merged["hosts"] = args["hosts"] /\ IsInt(args["hosts"])
  BY RunFacts
<1>1. \A m : InHosts(Merged, m) => m \in NetHosts
  BY <1>0 DEF InHosts, Opt, NetHosts
<1>2. \A m : Covers(Merged, m) => Covers(args, m)
  BY RunFacts DEF Covers
<1>3. ASSUME Has(e, "host"), IsInt(e["host"]) PROVE e["host"][2] \in NetHosts
  BY <1>1, <1>3 DEF TypedOK, Opt
<1>. DEFINE host == Has(e, "host") /\ IsInt(e["host"]) /\ e["host"][2] \in NetHosts
<1>4. ASSUME FieldsOK(e), "host" \in RequiredFields(TypeOf(e)) PROVE host
  BY <1>3, <1>4 DEF FieldsOK, Opt, Has
<1>5. ASSUME NodesOK(Merged, e)
      PROVE  /\ Has(e, "nodes") /\ Is("list", e["nodes"]) /\ Len(e["nodes"][2]) >= 2
             /\ \A k \in 1..2 : IsInt(e["nodes"][2][k]) /\ e["nodes"][2][k][2] \in NetHosts
  <2>1. Has(e, "nodes")
    BY <1>5 DEF NodesOK, Get, Ids, ListOf, Is, Null
  <2>2. /\ Is("list", e["nodes"]) /\ Len(e["nodes"][2]) = 2
        /\ \A k \in 1..Len(e["nodes"][2]) : IsInt(e["nodes"][2][k])
        /\ \A k \in 1..2 : InHosts(Merged, e["nodes"][2][k][2])
    BY <1>5, <2>1 DEF NodesOK, Get, Ids, ListOf
  <2>. QED
    BY <1>1, <2>1, <2>2
<1>6. CASE TypeOf(e) \in {"link_down", "link_up"}
  <2>1. NodesOK(Merged, e)
    BY <1>6 DEF TypedOK
  <2>. QED
    BY <1>5, <1>6, <2>1 DEF HandlerFinds
<1>7. CASE TypeOf(e) = "bw_set"
  <2>1. BwSetOK(Merged, e)
    BY <1>7 DEF TypedOK
  <2>2. NodesOK(Merged, e) /\ Has(e, "bandwidth")
    BY <2>1 DEF BwSetOK, AtLeast, IsNumber, Get, Null
  <2>. QED
    BY <1>5, <1>7, <2>2 DEF HandlerFinds
<1>8. CASE TypeOf(e) \in {"fib_add", "fib_del", "fib_enable"}
  <2>1. FieldsOK(e)
    BY <1>8 DEF TypedOK, FibOK
  <2>2. RequiredFields(TypeOf(e)) = {"host", "prefix", "next_hop"}
    BY <1>8 DEF RequiredFields
  <2>3. host /\ Has(e, "prefix") /\ Has(e, "next_hop")
    BY <1>4, <2>1, <2>2 DEF FieldsOK, Has
  <2>. QED
    BY <1>8, <2>3 DEF HandlerFinds
<1>9. CASE TypeOf(e) = "compute_call"
  <2>1. FieldsOK(e)
    BY <1>9 DEF TypedOK, ComputeCallOK
  <2>2. RequiredFields(TypeOf(e)) = {"host", "endpoint"}
    BY <1>9 DEF RequiredFields
  <2>3. host /\ Has(e, "endpoint")
    BY <1>4, <2>1, <2>2 DEF FieldsOK, Has
  <2>. QED
    BY <1>9, <2>3 DEF HandlerFinds
<1>10. CASE TypeOf(e) = "host_app_restart"
  <2>1. HostAppRestartOK(Merged, e)
    BY <1>10 DEF TypedOK
  <2>2. RequiredFields(TypeOf(e)) = {"host"}
    BY <1>10 DEF RequiredFields
  <2>3. host /\ Covers(args, e["host"][2])
    BY <1>2, <1>4, <2>1, <2>2 DEF HostAppRestartOK, Opt
  <2>. QED
    BY <1>10, <2>3 DEF HandlerFinds
<1>11. CASE TypeOf(e) \in {"put", "pubsub_pub"}
  <2>1. PublicationOK(Merged, e)
    BY <1>11 DEF TypedOK
  <2>2. RequiredFields(TypeOf(e)) = {"host", "uri", "file"}
    BY <1>11 DEF RequiredFields
  <2>3. FieldsOK(e) /\ \A f \in {"uri", "file"} : Has(e, f) => IsStr(e[f])
    BY <2>1 DEF PublicationOK, Opt
  <2>4. host /\ Has(e, "uri") /\ Has(e, "file")
    BY <1>4, <2>2, <2>3 DEF FieldsOK, Has
  <2>5. IsStr(Get(e, "uri", Null)) /\ IsStr(Get(e, "file", Null))
    BY <2>3, <2>4 DEF Get
  <2>. QED
    BY <1>11, <2>4, <2>5 DEF HandlerFinds
<1>12. CASE TypeOf(e) \in {"get", "pubsub_sub", "ccninfo"}
  <2>1. FieldsOK(e) /\ (Has(e, "uri") => IsStr(e["uri"]))
    <3>1. CASE TypeOf(e) = "ccninfo"
      <4>1. CcninfoOK(e)
        BY <3>1 DEF TypedOK
      <4>. QED
        BY <4>1 DEF CcninfoOK, Opt
    <3>2. CASE TypeOf(e) \in {"get", "pubsub_sub"}
      <4>1. GetOK(e)
        BY <3>2 DEF TypedOK
      <4>. QED
        BY <4>1 DEF GetOK, Opt
    <3>. QED
      BY <1>12, <3>1, <3>2
  <2>2. RequiredFields(TypeOf(e)) = {"host", "uri"}
    BY <1>12 DEF RequiredFields
  <2>3. host /\ IsStr(Get(e, "uri", Null))
    BY <1>4, <2>1, <2>2 DEF FieldsOK, Has, Get
  <2>. QED
    BY <1>12, <2>3 DEF HandlerFinds
<1>. QED
  BY <1>6, <1>7, <1>8, <1>9, <1>10, <1>11, <1>12 DEF Typed, EventTypes, ContentTypes

\* An event of the types that may only repeat has no restore to fire.
LEMMA AllowlistHasNoRestore ==
  ASSUME NEW c, NEW e, TypedOK(c, e), TypeOf(e) \in RepeatAllowlist
  PROVE  ~Restores(e)
<1>1. RepeatAllowlistOK(e)
  <2>1. CASE TypeOf(e) = "compute_call"
    <3>1. ComputeCallOK(e)
      BY <2>1 DEF TypedOK
    <3>. QED
      BY <3>1 DEF ComputeCallOK
  <2>2. CASE TypeOf(e) \in {"put", "pubsub_pub"}
    <3>1. PublicationOK(c, e)
      BY <2>2 DEF TypedOK
    <3>. QED
      BY <3>1 DEF PublicationOK
  <2>3. CASE TypeOf(e) \in {"get", "pubsub_sub"}
    <3>1. GetOK(e)
      BY <2>3 DEF TypedOK
    <3>. QED
      BY <3>1 DEF GetOK
  <2>4. CASE TypeOf(e) = "ccninfo"
    <3>1. CcninfoOK(e)
      BY <2>4 DEF TypedOK
    <3>. QED
      BY <3>1 DEF CcninfoOK
  <2>. QED
    BY <2>1, <2>2, <2>3, <2>4 DEF RepeatAllowlist, ContentTypes
<1>2. ASSUME Restores(e) PROVE FALSE
  <2>1. /\ Has(e, "repeat") /\ IsDict(e["repeat"]) /\ Has(e["repeat"][2], "duration")
    BY <1>2 DEF Restores, HasRestore
  <2>2. DOMAIN e["repeat"][2] \subseteq {"interval", "count"}
    BY <1>1, <2>1 DEF RepeatAllowlistOK, Opt
  <2>. QED
    BY <2>1, <2>2 DEF Has
<1>. QED
  BY <1>2

\* The restore event of an event that is accepted is accepted, and publishes nothing.
LEMMA RestoreAccepted ==
  ASSUME NEW c, NEW v, EventOK(c, v), Restores(v[2])
  PROVE  LET x == RestoreEvent(v[2])
         IN  Typed(x) /\ TypedOK(c, x) /\ ~Publishes(x)
<1>. DEFINE e == v[2]
            x == RestoreEvent(e)
<1>1. TypedOK(c, e) /\ RepeatOK(e) /\ (TypeOf(e) \notin RepeatAllowlist => RestoreOK(c, e))
  BY DEF EventOK
<1>2. TypeOf(e) \notin RepeatAllowlist
  BY <1>1, AllowlistHasNoRestore
<1>3. HasRestore(e) /\ Has(e, "repeat")
  BY DEF Restores, HasRestore
<1>4. Opt(e["repeat"][2], "restore", IsDict)
  BY <1>1, <1>3 DEF RepeatOK, Opt
<1>5. Typed(x) /\ TypeOf(x) \notin RepeatAllowlist /\ TypedOK(c, x)
  BY <1>1, <1>2, <1>3, <1>4 DEF RestoreOK
<1>6. ~Publishes(x)
  BY <1>5 DEF Publishes, RepeatAllowlist, ContentTypes
<1>. QED
  BY <1>5, <1>6

\* EventsRun: every event an accepted experiment fires, the restores made up at run
\* time included, finds what its handler needs, and publishes only what the routes
\* were computed for.
THEOREM BootEvents == BootSpec => []EventsRun
<1>1. BootInv => EventsRun
  <2>. SUFFICES ASSUME BootInv, stage = "run", NEW e \in Fired
                PROVE  /\ HandlerFinds(e)
                       /\ Publishes(e) => /\ e["host"] \in Publishers
                                          /\ PublishedUri(e) \in KnownUris
    BY DEF EventsRun
  <2>1. ASSUME NEW x \in Scheduled
        PROVE  \E v : EventOK(Merged, v) /\ x = v[2]
    <3>1. Has(args, "events") /\ \E k \in 1..Len(args["events"][2]) : x = args["events"][2][k][2]
      BY <2>1 DEF Scheduled
    <3>2. ListOf(LAMBDA v : EventOK(Merged, v), args["events"])
      BY <3>1, RunFacts, Zenon DEF ConfigOK, Opt
    <3>. QED
      BY <3>1, <3>2 DEF ListOf
  <2>2. CASE e \in Scheduled
    <3>1. PICK v : EventOK(Merged, v) /\ e = v[2]
      BY <2>1, <2>2
    <3>2. Typed(e) /\ TypedOK(Merged, e)
      BY <3>1 DEF EventOK
    <3>3. Publishes(e) => e["host"] \in Publishers /\ PublishedUri(e) \in KnownUris
      BY <2>2 DEF Publishers, KnownUris
    <3>. QED
      BY <3>2, <3>3, TypedFinds
  <2>3. CASE e \notin Scheduled
    <3>1. PICK y \in Scheduled : Restores(y) /\ e = RestoreEvent(y)
      BY <2>3 DEF Fired
    <3>2. PICK v : EventOK(Merged, v) /\ y = v[2]
      BY <2>1
    <3>3. Typed(e) /\ TypedOK(Merged, e) /\ ~Publishes(e)
      BY <3>1, <3>2, RestoreAccepted
    <3>. QED
      BY <3>3, TypedFinds
  <2>. QED
    BY <2>2, <2>3
<1>. QED
  BY <1>1, BootInvariant, PTL
=============================================================================
