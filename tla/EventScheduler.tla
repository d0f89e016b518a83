--------------------------- MODULE EventScheduler ---------------------------
(***************************************************************************)
(* EventScheduler (src/src/runtime/scheduler.py): one thread fires timed   *)
(* experiment events from a priority queue, re-queues repeating events and *)
(* queues the restore of a change, while the main thread waits for it and  *)
(* finally stops it.                                                       *)
(*                                                                         *)
(* Time is a global clock in ticks.  A handler runs for any number of      *)
(* ticks, so later events may fire late, as in the code.  What a handler   *)
(* does is not modelled here, only how it ends.                            *)
(***************************************************************************)
EXTENDS Integers, Sequences

CONSTANTS
  EventList,    \* the configured events, in configuration order
  Batches,      \* the sets of them a scheduler is made for
  Horizon       \* bound: the clock stops here

\* A configured event.  interval, duration and count are 0 when the repeat
\* section leaves them out; restores says that the repeat section declares a
\* restore form (restore or restore_type).
EventConfig ==
  [at : Nat, priority : Nat, content : BOOLEAN,
   interval : Nat, duration : Nat, count : Nat, restores : BOOLEAN]

\* The priority of every type that is not content.
DefaultPriority == 5

\* The configuration validator admits restore forms only on events that are
\* not content, and only into such events.
ASSUME SchedulerAssumption ==
  /\ EventList \in Seq(EventConfig)
  /\ Batches \subseteq SUBSET (DOMAIN EventList)
  /\ Horizon \in Nat
  /\ \A i \in DOMAIN EventList : EventList[i].restores =>
       EventList[i].priority = DefaultPriority /\ ~EventList[i].content

Events == DOMAIN EventList

VARIABLES
  now,          \* seconds since _start_time
  heap,         \* _heap, as a set of entries
  seq,          \* _seq
  pc,           \* where the scheduler thread is
  cur,          \* the entry being handled, a set of at most one
  stop,         \* _stop_event
  mpc,          \* where the main thread is
  waited,       \* what wait_all returned
  last,         \* history: key of the last entry popped
  fired,        \* history: how often each event was popped
  restored,     \* history: how often its restore event was popped
  recorded,     \* history: records the sink got for it
  afterStop,    \* history: entries popped after stop was requested
  fatal         \* history: a handler raised a non-Exception

threadVars == <<heap, seq, pc, cur>>
mainVars == <<stop, mpc, waited>>
history == <<last, fired, restored, recorded, afterStop, fatal>>
vars == <<now, threadVars, mainVars, history>>

\* left counts the firings that remain, 0 for an unlimited repetition.
Entry == [at : Nat, priority : Nat, seq : Nat, ev : Events, left : Nat,
          restore : BOOLEAN]

Key(e) == <<e.at, e.priority, e.seq>>

\* The order of the heap: tuples compare lexicographically.
Before(a, b) ==
  \/ a[1] < b[1]
  \/ a[1] = b[1] /\ a[2] < b[2]
  \/ a[1] = b[1] /\ a[2] = b[2] /\ a[3] < b[3]

IsHead(e) == e \in heap /\ \A f \in heap : f = e \/ Before(Key(e), Key(f))

Due(e) == e.at <= now

-----------------------------------------------------------------------------
(* _push_event and _handle_repeat *)

\* Sequence numbers count from 0 in each scheduler; those of EventList are in
\* the same order.
Init ==
  /\ now \in 0..Horizon         \* a shared start time may lie in the past
  /\ \E batch \in Batches :
       /\ heap = {[at |-> EventList[i].at, priority |-> EventList[i].priority,
                   seq |-> i - 1, ev |-> i, left |-> EventList[i].count,
                   restore |-> FALSE] : i \in batch}
       /\ pc = IF batch = {} THEN "dead" ELSE "check"
  /\ seq = Len(EventList)
  /\ cur = {}
  /\ stop = FALSE
  /\ mpc = "running"
  /\ waited = "none"
  /\ last = <<0, 0, -1>>
  /\ fired = [i \in Events |-> 0]
  /\ restored = [i \in Events |-> 0]
  /\ recorded = [i \in Events |-> 0]
  /\ afterStop = 0
  /\ fatal = FALSE

\* The restore event is due duration after the scheduled time of its event.
RestoreOf(e) ==
  LET c == EventList[e.ev] IN
  IF ~e.restore /\ c.duration > 0 /\ c.restores
  THEN {[at |-> e.at + c.duration, priority |-> DefaultPriority, seq |-> seq,
         ev |-> e.ev, left |-> 0, restore |-> TRUE]}
  ELSE {}

Repetition(e, from, number) ==
  [at |-> from + EventList[e.ev].interval, priority |-> e.priority,
   seq |-> number, ev |-> e.ev,
   left |-> IF e.left = 0 THEN 0 ELSE e.left - 1, restore |-> FALSE]

Repeats(e) == ~e.restore /\ EventList[e.ev].interval > 0 /\ e.left # 1

\* The restore event is pushed first and takes the lower sequence number.
NextNumber(e) == IF RestoreOf(e) = {} THEN seq ELSE seq + 1

NextOf_PushedFirst(e) ==
  IF Repeats(e) THEN {Repetition(e, e.at, seq - 1)} ELSE {}

NextOf_Drifts(e) ==
  IF Repeats(e) THEN {Repetition(e, now, NextNumber(e))} ELSE {}

\* The next repetition is due interval after the scheduled time of this one,
\* however late it fired.
NextOf(e) ==
  IF Repeats(e) THEN {Repetition(e, e.at, NextNumber(e))} ELSE {}

HandleRepeat(e) ==
  /\ heap' = heap \cup RestoreOf(e) \cup NextOf(e)
  /\ seq' = seq + (IF RestoreOf(e) = {} THEN 0 ELSE 1)
                + (IF NextOf(e) = {} THEN 0 ELSE 1)

-----------------------------------------------------------------------------
(* The scheduler thread: _run *)

\* The loop condition, and the delay of the entry at the head.
Check ==
  /\ pc = "check"
  /\ \/ (heap = {} \/ stop) /\ pc' = "dead"
     \/ /\ ~stop
        /\ \E e \in heap : IsHead(e) /\ pc' = IF Due(e) THEN "pop" ELSE "wait"
  /\ UNCHANGED <<now, heap, seq, cur, mainVars, history>>

WaitEnds_OnStopOnly ==
  /\ pc = "wait"
  /\ stop /\ pc' = "dead"
  /\ UNCHANGED <<now, heap, seq, cur, mainVars, history>>

\* _stop_event.wait(delay): stop wakes it and ends the loop, or the time is over.
WaitEnds ==
  /\ pc = "wait"
  /\ \/ stop /\ pc' = "dead"
     \/ ~stop /\ \E e \in heap : IsHead(e) /\ Due(e) /\ pc' = "pop"
  /\ UNCHANGED <<now, heap, seq, cur, mainVars, history>>

\* Pop the head and call its handler.
Fire ==
  /\ pc = "pop"
  /\ \E e \in heap :
       /\ IsHead(e)
       /\ heap' = heap \ {e}
       /\ cur' = {e}
       /\ last' = Key(e)
       /\ IF e.restore
          THEN restored' = [restored EXCEPT ![e.ev] = @ + 1] /\ UNCHANGED fired
          ELSE fired' = [fired EXCEPT ![e.ev] = @ + 1] /\ UNCHANGED restored
  /\ afterStop' = IF stop THEN afterStop + 1 ELSE afterStop
  /\ pc' = "handle"
  /\ UNCHANGED <<now, seq, mainVars, recorded, fatal>>

Recorded(e) == e.restore \/ ~EventList[e.ev].content

\* The handler returned, reported failure or raised an Exception: all are
\* recorded, except for content events, whose records the content runner writes.
HandlerEnds ==
  /\ pc = "handle"
  /\ \E e \in cur :
       /\ recorded' = IF Recorded(e)
                      THEN [recorded EXCEPT ![e.ev] = @ + 1] ELSE recorded
       /\ HandleRepeat(e)
  /\ cur' = {}
  /\ pc' = "check"
  /\ UNCHANGED <<now, mainVars, last, fired, restored, afterStop, fatal>>

\* It raised something else: the thread ends without a record.
HandlerDies ==
  /\ pc = "handle"
  /\ cur' = {}
  /\ pc' = "dead"
  /\ fatal' = TRUE
  /\ UNCHANGED <<now, heap, seq, mainVars, last, fired, restored, recorded,
                 afterStop>>

-----------------------------------------------------------------------------
(* The main thread *)

\* wait_all: the thread has ended, or the timeout expired first.
WaitAll ==
  /\ mpc = "running"
  /\ mpc' = "waited"
  /\ waited' \in (IF pc = "dead" THEN {"True"} ELSE {"False"})
  /\ UNCHANGED <<now, threadVars, stop, history>>

\* stop(), with or without a wait_all before it.
Stop ==
  /\ mpc \in {"running", "waited"}
  /\ mpc' = "joining"
  /\ stop' = TRUE
  /\ UNCHANGED <<now, threadVars, waited, history>>

\* join(timeout=5) returns when the thread has ended, or after five seconds.
Joined ==
  /\ mpc = "joining"
  /\ mpc' = "stopped"
  /\ UNCHANGED <<now, threadVars, stop, waited, history>>

Tick ==
  /\ now < Horizon
  /\ now' = now + 1
  /\ UNCHANGED <<threadVars, mainVars, history>>

-----------------------------------------------------------------------------
ThreadStep == Check \/ WaitEnds \/ Fire \/ HandlerEnds \/ HandlerDies

Next == ThreadStep \/ WaitAll \/ Stop \/ Joined \/ Tick

Spec == Init /\ [][Next]_vars

\* The clock advances and the scheduler thread is scheduled; every handler
\* ends.  The main thread may take as long as it likes to stop it.
FairSpec == Spec /\ WF_vars(Tick) /\ WF_vars(ThreadStep)

-----------------------------------------------------------------------------
(* Properties *)

\* Every variable keeps the type the code gives it.
TypeOK ==
  /\ now \in Nat
  /\ heap \in SUBSET Entry
  /\ seq \in Nat
  /\ pc \in {"check", "wait", "pop", "handle", "dead"}
  /\ cur \in SUBSET Entry
  /\ stop \in BOOLEAN
  /\ mpc \in {"running", "waited", "joining", "stopped"}
  /\ waited \in {"none", "True", "False"}
  /\ last \in Nat \X Nat \X Int
  /\ fired \in [Events -> Nat]
  /\ restored \in [Events -> Nat]
  /\ recorded \in [Events -> Nat]
  /\ afterStop \in Nat
  /\ fatal \in BOOLEAN

\* Entries fire in the order of their scheduled time, then priority, then
\* insertion, over the whole run and with repetitions and restores coming in
\* between (_push_event: "This guarantees pubsub_sub fires before pubsub_pub at
\* equal timestamps"), and never before they are due.
InOrder == last' # last => Before(last, last') /\ last'[1] <= now

\* No two entries of the heap tie: a tie would make heapq compare the event
\* dicts, which raises TypeError in the scheduler thread.
NoTie == \A e, f \in heap : Key(e) = Key(f) => e = f

\* The next repetition is always due a whole number of intervals after the
\* configured time, however late handlers made the earlier ones.
Cadence ==
  \A e \in heap : ~e.restore =>
    e.at = EventList[e.ev].at + fired[e.ev] * EventList[e.ev].interval

\* An event whose change is to be undone within its interval never fires again
\* while the restore of its last firing is still queued, not even when both
\* are due at the same time.
RestoredBeforeNext ==
  \A i \in Events :
    /\ fired'[i] # fired[i]
    /\ EventList[i].duration <= EventList[i].interval
    => ~\E e \in heap : e.ev = i /\ e.restore

\* Between two events, the sink holds exactly one record for every firing of a
\* non-content event and of a restore, and none for a content event.
OneRecordEach ==
  pc \in {"check", "wait", "pop"} =>
    \A i \in Events :
      recorded[i] = restored[i] + (IF EventList[i].content THEN 0 ELSE fired[i])

\* Once stop() was called, at most the one event already chosen still fires.
AtMostOneAfterStop == afterStop <= 1

\* wait_all returns True only when every scheduled event has fired, unless a
\* handler ended the thread.
WaitAllMeansDrained == waited = "True" => heap = {} \/ fatal

\* Every queued event, repetition and restore whose time comes is popped, unless
\* the scheduler is stopped or dies first.
EveryEventFires ==
  \A i \in Events, t \in 0..Horizon :
    LET Queued == \E e \in heap : e.ev = i /\ e.at = t
    IN  Queued ~> (~Queued \/ stop \/ fatal)

\* stop() ends the thread, also while it waits for an event far in the future.
StopEndsThread == stop ~> pc = "dead"

\* The heap and the sink are right whatever handlers and stop() do: no tie, every
\* repetition on its grid, one record for each firing, one event after stop().
Bookkeeping == NoTie /\ Cadence /\ OneRecordEach /\ AtMostOneAfterStop

\* Events fire in the configured order, and a change is undone before it is made
\* again.
FiringOrder == [][InOrder /\ RestoredBeforeNext]_vars

\* The thread does what is due, and ends when it is told to.
Progress == EveryEventFires /\ StopEndsThread
=============================================================================
