------------------------ MODULE ContentRunnerProofs ------------------------
(***************************************************************************)
(* Proofs about ContentRunner, for any script of operations.               *)
(***************************************************************************)
EXTENDS ContentRunner, TLAPS

Busy == wpc \notin {"idle", "dead"}

\* Operations that a handler has worked on.
Touched == started \cup failed \cup {o \in Ops : records[o] > 0}

Held == pending \cup mine \cup left

\* What the worker has in its hands at each place.
HandInv ==
  /\ Busy <=> op # Sentinel
  /\ wpc \in {"dispatch", "publish"} => op \notin Touched
  /\ wpc \in {"run", "register", "published"} =>
       op \in started /\ op \notin failed /\ records[op] = 0
  /\ wpc = "run" => op \notin Subs
  /\ wpc = "register" => op \in Subs
  /\ wpc \in {"publish", "published", "subs"} => Script[op].kind = "pub"
  /\ wpc = "subs" => records[op] = 1
  /\ wpc \notin {"publish", "published", "subs"} => mine = {}
  /\ mpc \notin {"wa_left", "st_left"} => left = {}

\* The queue is in the order of submission, after everything worked on.
QueueInv ==
  /\ \A i \in DOMAIN queue : queue[i] # Sentinel =>
       /\ queue[i] <= sent
       /\ op < queue[i]
       /\ \A o \in Touched : o < queue[i]
  /\ \A i, j \in DOMAIN queue :
       i < j /\ queue[i] # Sentinel /\ queue[j] # Sentinel => queue[i] < queue[j]
  /\ op <= sent
  /\ \A o \in Touched : o <= sent

\* A held subscription has one holder, a process and no record yet.
HeldInv ==
  /\ \A s \in Held : s \in started /\ records[s] = 0 /\ s # op /\ s \notin lost
  /\ \A s \in pending : s \notin mine /\ s \notin left
  /\ \A s \in mine : s \notin left
  /\ wpc = "register" => op \notin lost
  /\ lost \subseteq started
  /\ procs \subseteq started

\* What was started is held, in hand, dropped by a handler that raised, or
\* recorded and over.
StartedInv ==
  /\ \A s \in Subs \cap started :
       \/ s \in Held
       \/ s \in lost
       \/ wpc = "register" /\ s = op
       \/ records[s] = 1 /\ s \notin procs
  /\ \A o \in started \ Subs : o = op \/ records[o] = 1 \/ o \in failed
  /\ \A s \in Subs : records[s] > 0 => s \in started
  /\ \A o \in failed : Script[o].kind # "ccninfo"

\* Nothing is skipped before cancellation; nothing before the operation in hand.
SkipInv ==
  /\ ~cancel => \A o \in 1..sent :
       \/ \E i \in DOMAIN queue : queue[i] = o
       \/ o = op
       \/ o \in Touched
  /\ Busy => \A s \in Subs : s < op => s \in started \cup failed
  /\ mpc \in {"experiment", "waiting"} => ~cancel
  /\ mpc \in {"wa_discard", "st_discard"} => cancel
  /\ mpc \in {"experiment", "waiting"} => completed = "none"

\* Cancellation is final for operations not yet dispatched.
CancelInv ==
  /\ afterCancel <= 1
  /\ afterCancel > 0 => cancel /\ wpc \notin {"dispatch", "publish"}

\* Once stop saw the worker dead, nothing is registered any more.
JoinInv ==
  /\ joined => wpc = "dead"
  /\ mpc \in {"st_left", "done"} /\ joined => pending = {}

\* What wait_all has still to settle when it is going to return True.
DoneInv ==
  /\ asked <= sent
  /\ completed = "True" /\ asked = sent =>
       /\ ~Busy
       /\ \A i \in DOMAIN queue : queue[i] = Sentinel
       /\ \A o \in 1..sent :
            \/ Settled(o)
            \/ mpc = "take" /\ o \in pending
            \/ mpc = "wa_left" /\ o \in left

\* The inductive invariant.
IInv ==
  /\ TypeOK
  /\ AtMostOneRecord
  /\ Accounting
  /\ HandInv
  /\ QueueInv
  /\ HeldInv
  /\ StartedInv
  /\ SkipInv
  /\ CancelInv
  /\ JoinInv
  /\ DoneInv

-----------------------------------------------------------------------------
(* Facts about the script and the queue *)

\* An operation is a positive number, so it is not the sentinel.
LEMMA OpsFacts ==
  /\ Len(Script) \in Nat
  /\ Ops = 1..Len(Script)
  /\ Sentinel \notin Ops
  /\ Subs \subseteq Ops
  /\ \A o \in Ops : Script[o].kind \in Kind
  /\ \A o \in Ops : o \in Subs <=> Script[o].kind = "sub"
<1>1. Script \in Seq([kind : Kind, uri : Nat])
  BY RunnerAssumption
<1>2. Len(Script) \in Nat /\ Ops = 1..Len(Script)
  BY <1>1 DEF Ops
<1>3. \A o \in Ops : Script[o].kind \in Kind
  <2>. DEFINE R == [kind : Kind, uri : Nat]
  <2>1. \A r \in R : r.kind \in Kind
    OBVIOUS
  <2>2. Script \in Seq(R)
    BY <1>1
  <2>. HIDE DEF R
  <2>3. \A o \in Ops : Script[o] \in R
    BY <2>2 DEF Ops
  <2>. QED
    BY <2>1, <2>3
<1>. QED
  BY <1>2, <1>3 DEF Sentinel, Subs

\* Taking the first item out of the queue.
LEMMA TailFacts ==
  ASSUME NEW q \in Seq(Ops \cup {Sentinel}), q # <<>>
  PROVE  /\ Tail(q) \in Seq(Ops \cup {Sentinel})
         /\ Head(q) = q[1] /\ 1 \in DOMAIN q
         /\ Len(q) \in Nat /\ Len(q) > 0
         /\ Len(Tail(q)) = Len(q) - 1
         /\ \A i \in DOMAIN Tail(q) : i + 1 \in DOMAIN q /\ Tail(q)[i] = q[i + 1]
         /\ \A i \in DOMAIN q : i = 1 \/ (i - 1 \in DOMAIN Tail(q) /\ Tail(q)[i - 1] = q[i])
  OBVIOUS

\* Adding an item at the end of the queue.
LEMMA AppendFacts ==
  ASSUME NEW q \in Seq(Ops \cup {Sentinel}), NEW x \in Ops \cup {Sentinel}
  PROVE  /\ Append(q, x) \in Seq(Ops \cup {Sentinel})
         /\ Len(q) \in Nat
         /\ Len(Append(q, x)) = Len(q) + 1
         /\ \A i \in DOMAIN Append(q, x) :
              \/ i \in DOMAIN q /\ Append(q, x)[i] = q[i]
              \/ i = Len(q) + 1 /\ Append(q, x)[i] = x
         /\ \A i \in DOMAIN q : i \in DOMAIN Append(q, x) /\ Append(q, x)[i] = q[i]
         /\ Len(q) + 1 \in DOMAIN Append(q, x) /\ Append(q, x)[Len(q) + 1] = x
         /\ DOMAIN q = 1..Len(q)
  OBVIOUS

\* The operation in the worker's hands is counted by the queue.
LEMMA HandFacts ==
  ASSUME IInv, Busy
  PROVE  op \in Ops /\ unfinished - 1 \in Nat /\ records[op] \in Nat
<1>1. op \in Ops
  BY DEF IInv, TypeOK, HandInv
<1>2. Len(queue) \in Nat /\ unfinished = Len(queue) + 1
  BY DEF IInv, TypeOK, Accounting, Busy
<1>. QED
  BY <1>1, <1>2 DEF IInv, TypeOK
\* A started process ends by itself.
LEMMA ProcessExitsIInv == IInv /\ ProcessExits => IInv'
<1>. SUFFICES ASSUME IInv, ProcessExits PROVE IInv'
  OBVIOUS
<1>. USE OpsFacts DEF IInv, ProcessExits, submitVars, queueVars, workerVars, mainVars, startVars
<1>0. cancel' \in BOOLEAN /\ joined' \in BOOLEAN
  BY Zenon DEF TypeOK
<1>1. TypeOK'
  BY <1>0 DEF TypeOK
<1>2. AtMostOneRecord'
  BY DEF AtMostOneRecord, HandInv, HeldInv, Held, Busy, Touched, TypeOK
<1>3. Accounting'
  BY <1>1 DEF Accounting, Busy, TypeOK
<1>4. HandInv'
  BY DEF HandInv, Busy, Touched, HeldInv, Held, TypeOK
<1>5. QueueInv'
  BY DEF QueueInv, Touched, HandInv, HeldInv, Held, Busy, Sentinel, TypeOK
<1>6. HeldInv'
  BY DEF HeldInv, Held, HandInv, Busy, Touched, TypeOK
<1>7. StartedInv'
  BY DEF StartedInv, Held, HandInv, HeldInv, Busy, Touched, TypeOK
<1>8. SkipInv'
  BY DEF SkipInv, Busy, Touched, HandInv, HeldInv, StartedInv, Held, Sentinel, TypeOK
<1>9. CancelInv'
  BY DEF CancelInv, TypeOK
<1>10. JoinInv'
  BY DEF JoinInv, TypeOK
<1>11. DoneInv'
  BY DEF DoneInv, Busy, Settled, HandInv, HeldInv, StartedInv, Held, Touched, TypeOK
<1>. QED
  BY <1>1, <1>2, <1>3, <1>4, <1>5, <1>6, <1>7, <1>8, <1>9, <1>10, <1>11
\* The worker passes the cancellation check and starts a put, a get or ccninfo.
LEMMA RunStartIInv == IInv /\ RunStart => IInv'
<1>. SUFFICES ASSUME IInv, RunStart PROVE IInv'
  OBVIOUS
<1>. USE OpsFacts DEF IInv, RunStart, Dispatched, Launch, submitVars, queueVars, workerVars, mainVars, startVars
<1>0. op \in Ops /\ unfinished - 1 \in Nat /\ records[op] \in Nat
  BY HandFacts DEF Busy, Dispatched
<1>1. TypeOK'
  BY <1>0 DEF TypeOK
<1>2. AtMostOneRecord'
  BY <1>0 DEF AtMostOneRecord, HandInv, HeldInv, Held, Busy, Touched, TypeOK
<1>3. Accounting'
  BY <1>0, <1>1 DEF Accounting, Busy, TypeOK
<1>4. HandInv'
  BY <1>0 DEF HandInv, Busy, Touched, HeldInv, Held, TypeOK
<1>5. QueueInv'
  BY <1>0 DEF QueueInv, Touched, HandInv, HeldInv, Held, Busy, Sentinel, TypeOK
<1>6. HeldInv'
  BY <1>0 DEF HeldInv, Held, HandInv, Busy, Touched, TypeOK
<1>7. StartedInv'
  BY <1>0 DEF StartedInv, Held, HandInv, HeldInv, Busy, Touched, TypeOK
<1>8. SkipInv'
  BY <1>0 DEF SkipInv, Busy, Touched, HandInv, HeldInv, StartedInv, Held, Sentinel, TypeOK
<1>9. CancelInv'
  BY <1>0 DEF CancelInv, TypeOK
<1>10. JoinInv'
  BY <1>0 DEF JoinInv, TypeOK
<1>11. DoneInv'
  BY <1>0 DEF DoneInv, Busy, Settled, HandInv, HeldInv, StartedInv, Held, Touched, TypeOK
<1>. QED
  BY <1>1, <1>2, <1>3, <1>4, <1>5, <1>6, <1>7, <1>8, <1>9, <1>10, <1>11
\* The command of the operation in hand ends and is recorded.
LEMMA RunEndsIInv == IInv /\ RunEnds => IInv'
<1>. SUFFICES ASSUME IInv, RunEnds PROVE IInv'
  OBVIOUS
<1>. USE OpsFacts DEF IInv, RunEnds, WaitReturns, Record, TaskDone, submitVars, queueVars, workerVars, mainVars, startVars
<1>0. op \in Ops /\ unfinished - 1 \in Nat /\ records[op] \in Nat
  BY HandFacts DEF Busy, Dispatched
<1>1. TypeOK'
  BY <1>0 DEF TypeOK
<1>2. AtMostOneRecord'
  BY <1>0 DEF AtMostOneRecord, HandInv, HeldInv, Held, Busy, Touched, TypeOK
<1>3. Accounting'
  BY <1>0, <1>1 DEF Accounting, Busy, TypeOK
<1>4. HandInv'
  BY <1>0 DEF HandInv, Busy, Touched, HeldInv, Held, TypeOK
<1>5. QueueInv'
  BY <1>0 DEF QueueInv, Touched, HandInv, HeldInv, Held, Busy, Sentinel, TypeOK
<1>6. HeldInv'
  BY <1>0 DEF HeldInv, Held, HandInv, Busy, Touched, TypeOK
<1>7. StartedInv'
  BY <1>0 DEF StartedInv, Held, HandInv, HeldInv, Busy, Touched, TypeOK
<1>8. SkipInv'
  BY <1>0 DEF SkipInv, Busy, Touched, HandInv, HeldInv, StartedInv, Held, Sentinel, TypeOK
<1>9. CancelInv'
  BY <1>0 DEF CancelInv, TypeOK
<1>10. JoinInv'
  BY <1>0 DEF JoinInv, TypeOK
<1>11. DoneInv'
  BY <1>0 DEF DoneInv, Busy, Settled, HandInv, HeldInv, StartedInv, Held, Touched, TypeOK
<1>. QED
  BY <1>1, <1>2, <1>3, <1>4, <1>5, <1>6, <1>7, <1>8, <1>9, <1>10, <1>11
\* The command of the operation in hand cannot be run, or its handler raises.
LEMMA RunRaisesIInv == IInv /\ RunRaises => IInv'
<1>. SUFFICES ASSUME IInv, RunRaises PROVE IInv'
  OBVIOUS
<1>. USE OpsFacts DEF IInv, RunRaises, Dispatched, WaitReturns, Record, TaskDone, submitVars, queueVars, workerVars, mainVars, startVars
<1>0. op \in Ops /\ unfinished - 1 \in Nat /\ records[op] \in Nat
  BY HandFacts DEF Busy, Dispatched
<1>1. TypeOK'
  <2>1. records' \in [Ops -> Nat] /\ failed' \subseteq Ops
    <3>1. CASE Script[op].kind = "ccninfo"
      <4>1. records' = [records EXCEPT ![op] = @ + 1] /\ failed' = failed
        BY <3>1
      <4>. QED
        BY <1>0, <4>1 DEF TypeOK
    <3>2. CASE Script[op].kind # "ccninfo"
      BY <1>0, <3>2 DEF TypeOK
    <3>. QED
      BY <3>1, <3>2
  <2>. QED
    BY ZenonT(40), <1>0, <2>1 DEF TypeOK
<1>2. AtMostOneRecord'
  BY <1>0 DEF AtMostOneRecord, HandInv, HeldInv, Held, Busy, Touched, TypeOK
<1>3. Accounting'
  BY <1>0, <1>1 DEF Accounting, Busy, TypeOK
<1>4. HandInv'
  BY <1>0 DEF HandInv, Busy, Touched, HeldInv, Held, TypeOK
<1>5. QueueInv'
  BY SMTT(30), <1>0 DEF QueueInv, Touched, HandInv, HeldInv, Held, Busy, Sentinel, TypeOK
<1>6. HeldInv'
  BY <1>0 DEF HeldInv, Held, HandInv, Busy, Touched, TypeOK
<1>7. StartedInv'
  <2>0. op \notin Subs
    BY <1>0 DEF HandInv
  <2>1. CASE Script[op].kind = "ccninfo"
    <3>1. records' = [records EXCEPT ![op] = @ + 1] /\ failed' = failed
      BY <2>1
    <3>2. \A o \in Ops : o # op => records'[o] = records[o]
      BY <3>1 DEF TypeOK
    <3>3. records'[op] = 1
      BY <1>0, <3>1 DEF HandInv, Touched, TypeOK
    <3>. QED
      BY <1>0, <2>0, <3>1, <3>2, <3>3 DEF StartedInv, Held, TypeOK
  <2>2. CASE Script[op].kind # "ccninfo"
    BY ZenonT(40), <1>0, <2>0, <2>2 DEF StartedInv, Held, HandInv, Busy, Touched, TypeOK
  <2>. QED
    BY <2>1, <2>2
<1>8. SkipInv'
  BY <1>0 DEF SkipInv, Busy, Touched, HandInv, HeldInv, StartedInv, Held, Sentinel, TypeOK
<1>9. CancelInv'
  BY <1>0 DEF CancelInv, TypeOK
<1>10. JoinInv'
  BY <1>0 DEF JoinInv, TypeOK
<1>11. DoneInv'
  BY <1>0 DEF DoneInv, Busy, Settled, HandInv, HeldInv, StartedInv, Held, Touched, TypeOK
<1>. QED
  BY <1>1, <1>2, <1>3, <1>4, <1>5, <1>6, <1>7, <1>8, <1>9, <1>10, <1>11
\* The worker starts cefsubfile for a subscription.
LEMMA SubStartIInv == IInv /\ SubStart => IInv'
<1>. SUFFICES ASSUME IInv, SubStart PROVE IInv'
  OBVIOUS
<1>. USE OpsFacts DEF IInv, SubStart, Dispatched, Launch, submitVars, queueVars, workerVars, mainVars, startVars
<1>0. op \in Ops /\ unfinished - 1 \in Nat /\ records[op] \in Nat
  BY HandFacts DEF Busy, Dispatched
<1>1. TypeOK'
  BY <1>0 DEF TypeOK
<1>2. AtMostOneRecord'
  BY <1>0 DEF AtMostOneRecord, HandInv, HeldInv, Held, Busy, Touched, TypeOK
<1>3. Accounting'
  BY <1>0, <1>1 DEF Accounting, Busy, TypeOK
<1>4. HandInv'
  BY <1>0 DEF HandInv, Busy, Touched, HeldInv, Held, TypeOK
<1>5. QueueInv'
  BY <1>0 DEF QueueInv, Touched, HandInv, HeldInv, Held, Busy, Sentinel, TypeOK
<1>6. HeldInv'
  BY <1>0 DEF HeldInv, Held, HandInv, Busy, Touched, TypeOK
<1>7. StartedInv'
  BY <1>0 DEF StartedInv, Held, HandInv, HeldInv, Busy, Touched, TypeOK
<1>8. SkipInv'
  BY <1>0 DEF SkipInv, Busy, Touched, HandInv, HeldInv, StartedInv, Held, Sentinel, TypeOK
<1>9. CancelInv'
  BY <1>0 DEF CancelInv, TypeOK
<1>10. JoinInv'
  BY <1>0 DEF JoinInv, TypeOK
<1>11. DoneInv'
  BY <1>0 DEF DoneInv, Busy, Settled, HandInv, HeldInv, StartedInv, Held, Touched, TypeOK
<1>. QED
  BY <1>1, <1>2, <1>3, <1>4, <1>5, <1>6, <1>7, <1>8, <1>9, <1>10, <1>11
\* cefsubfile cannot be started.
LEMMA SubStartRaisesIInv == IInv /\ SubStartRaises => IInv'
<1>. SUFFICES ASSUME IInv, SubStartRaises PROVE IInv'
  OBVIOUS
<1>. USE OpsFacts DEF IInv, SubStartRaises, Dispatched, TaskDone, submitVars, queueVars, workerVars, mainVars, startVars
<1>0. op \in Ops /\ unfinished - 1 \in Nat /\ records[op] \in Nat
  BY HandFacts DEF Busy, Dispatched
<1>1. TypeOK'
  BY <1>0 DEF TypeOK
<1>2. AtMostOneRecord'
  BY <1>0 DEF AtMostOneRecord, HandInv, HeldInv, Held, Busy, Touched, TypeOK
<1>3. Accounting'
  BY <1>0, <1>1 DEF Accounting, Busy, TypeOK
<1>4. HandInv'
  BY <1>0 DEF HandInv, Busy, Touched, HeldInv, Held, TypeOK
<1>5. QueueInv'
  BY <1>0 DEF QueueInv, Touched, HandInv, HeldInv, Held, Busy, Sentinel, TypeOK
<1>6. HeldInv'
  BY <1>0 DEF HeldInv, Held, HandInv, Busy, Touched, TypeOK
<1>7. StartedInv'
  BY <1>0 DEF StartedInv, Held, HandInv, HeldInv, Busy, Touched, TypeOK
<1>8. SkipInv'
  BY <1>0 DEF SkipInv, Busy, Touched, HandInv, HeldInv, StartedInv, Held, Sentinel, TypeOK
<1>9. CancelInv'
  BY <1>0 DEF CancelInv, TypeOK
<1>10. JoinInv'
  BY <1>0 DEF JoinInv, TypeOK
<1>11. DoneInv'
  BY <1>0 DEF DoneInv, Busy, Settled, HandInv, HeldInv, StartedInv, Held, Touched, TypeOK
<1>. QED
  BY <1>1, <1>2, <1>3, <1>4, <1>5, <1>6, <1>7, <1>8, <1>9, <1>10, <1>11
\* The worker adds the running subscription to the pending ones.
LEMMA RegisterIInv == IInv /\ Register => IInv'
<1>. SUFFICES ASSUME IInv, Register PROVE IInv'
  OBVIOUS
<1>. USE OpsFacts DEF IInv, Register, TaskDone, submitVars, queueVars, workerVars, mainVars, startVars
<1>0. op \in Ops /\ unfinished - 1 \in Nat /\ records[op] \in Nat
  BY HandFacts DEF Busy, Dispatched
<1>1. TypeOK'
  BY <1>0 DEF TypeOK, HandInv
<1>2. AtMostOneRecord'
  BY <1>0 DEF AtMostOneRecord, HandInv, HeldInv, Held, Busy, Touched, TypeOK
<1>3. Accounting'
  BY <1>0, <1>1 DEF Accounting, Busy, TypeOK
<1>4. HandInv'
  BY <1>0 DEF HandInv, Busy, Touched, HeldInv, Held, TypeOK
<1>5. QueueInv'
  BY <1>0 DEF QueueInv, Touched, HandInv, HeldInv, Held, Busy, Sentinel, TypeOK
<1>6. HeldInv'
  BY <1>0 DEF HeldInv, Held, HandInv, Busy, Touched, TypeOK
<1>7. StartedInv'
  BY <1>0 DEF StartedInv, Held, HandInv, HeldInv, Busy, Touched, TypeOK
<1>8. SkipInv'
  BY <1>0 DEF SkipInv, Busy, Touched, HandInv, HeldInv, StartedInv, Held, Sentinel, TypeOK
<1>9. CancelInv'
  BY <1>0 DEF CancelInv, TypeOK
<1>10. JoinInv'
  BY <1>0 DEF JoinInv, TypeOK
<1>11. DoneInv'
  BY <1>0 DEF DoneInv, Busy, Settled, HandInv, HeldInv, StartedInv, Held, Touched, TypeOK
<1>. QED
  BY <1>1, <1>2, <1>3, <1>4, <1>5, <1>6, <1>7, <1>8, <1>9, <1>10, <1>11
\* Cancellation interrupts the grace period before a publication.
LEMMA GraceCancelledIInv == IInv /\ GraceCancelled => IInv'
<1>. SUFFICES ASSUME IInv, GraceCancelled PROVE IInv'
  OBVIOUS
<1>. USE OpsFacts DEF IInv, GraceCancelled, Dispatched, TaskDone, submitVars, queueVars, workerVars, mainVars, startVars
<1>0. op \in Ops /\ unfinished - 1 \in Nat /\ records[op] \in Nat
  BY HandFacts DEF Busy, Dispatched
<1>1. TypeOK'
  BY <1>0 DEF TypeOK
<1>2. AtMostOneRecord'
  BY <1>0 DEF AtMostOneRecord, HandInv, HeldInv, Held, Busy, Touched, TypeOK
<1>3. Accounting'
  BY <1>0, <1>1 DEF Accounting, Busy, TypeOK
<1>4. HandInv'
  BY <1>0 DEF HandInv, Busy, Touched, HeldInv, Held, TypeOK
<1>5. QueueInv'
  BY <1>0 DEF QueueInv, Touched, HandInv, HeldInv, Held, Busy, Sentinel, TypeOK
<1>6. HeldInv'
  BY <1>0 DEF HeldInv, Held, HandInv, Busy, Touched, TypeOK
<1>7. StartedInv'
  BY <1>0 DEF StartedInv, Held, HandInv, HeldInv, Busy, Touched, TypeOK
<1>8. SkipInv'
  BY <1>0 DEF SkipInv, Busy, Touched, HandInv, HeldInv, StartedInv, Held, Sentinel, TypeOK
<1>9. CancelInv'
  BY <1>0 DEF CancelInv, TypeOK
<1>10. JoinInv'
  BY <1>0 DEF JoinInv, TypeOK
<1>11. DoneInv'
  BY <1>0 DEF DoneInv, Busy, Settled, HandInv, HeldInv, StartedInv, Held, Touched, TypeOK
<1>. QED
  BY <1>1, <1>2, <1>3, <1>4, <1>5, <1>6, <1>7, <1>8, <1>9, <1>10, <1>11
\* A publication takes the pending subscriptions of its content.
LEMMA TakeSubsIInv == IInv /\ TakeSubs => IInv'
<1>. SUFFICES ASSUME IInv, TakeSubs PROVE IInv'
  OBVIOUS
<1>. USE OpsFacts DEF IInv, TakeSubs, Dispatched, SameUri, submitVars, queueVars, workerVars, mainVars, startVars
<1>0. op \in Ops /\ unfinished - 1 \in Nat /\ records[op] \in Nat
  BY HandFacts DEF Busy, Dispatched
<1>1. TypeOK'
  BY <1>0 DEF TypeOK
<1>2. AtMostOneRecord'
  BY <1>0 DEF AtMostOneRecord, HandInv, HeldInv, Held, Busy, Touched, TypeOK
<1>3. Accounting'
  BY <1>0, <1>1 DEF Accounting, Busy, TypeOK
<1>4. HandInv'
  BY <1>0 DEF HandInv, Busy, Touched, HeldInv, Held, TypeOK
<1>5. QueueInv'
  BY <1>0 DEF QueueInv, Touched, HandInv, HeldInv, Held, Busy, Sentinel, TypeOK
<1>6. HeldInv'
  BY <1>0 DEF HeldInv, Held, HandInv, Busy, Touched, TypeOK
<1>7. StartedInv'
  BY <1>0 DEF StartedInv, Held, HandInv, HeldInv, Busy, Touched, TypeOK
<1>8. SkipInv'
  BY <1>0 DEF SkipInv, Busy, Touched, HandInv, HeldInv, StartedInv, Held, Sentinel, TypeOK
<1>9. CancelInv'
  BY <1>0 DEF CancelInv, TypeOK
<1>10. JoinInv'
  BY <1>0 DEF JoinInv, TypeOK
<1>11. DoneInv'
  BY <1>0 DEF DoneInv, Busy, Settled, HandInv, HeldInv, StartedInv, Held, Touched, TypeOK
<1>. QED
  BY <1>1, <1>2, <1>3, <1>4, <1>5, <1>6, <1>7, <1>8, <1>9, <1>10, <1>11
\* The worker starts cefpubfile.
LEMMA PubStartIInv == IInv /\ PubStart => IInv'
<1>. SUFFICES ASSUME IInv, PubStart PROVE IInv'
  OBVIOUS
<1>. USE OpsFacts DEF IInv, PubStart, Launch, submitVars, queueVars, workerVars, mainVars, startVars
<1>0. op \in Ops /\ unfinished - 1 \in Nat /\ records[op] \in Nat
  BY HandFacts DEF Busy, Dispatched
<1>1. TypeOK'
  BY <1>0 DEF TypeOK
<1>2. AtMostOneRecord'
  BY <1>0 DEF AtMostOneRecord, HandInv, HeldInv, Held, Busy, Touched, TypeOK
<1>3. Accounting'
  BY <1>0, <1>1 DEF Accounting, Busy, TypeOK
<1>4. HandInv'
  BY <1>0 DEF HandInv, Busy, Touched, HeldInv, Held, TypeOK
<1>5. QueueInv'
  BY <1>0 DEF QueueInv, Touched, HandInv, HeldInv, Held, Busy, Sentinel, TypeOK
<1>6. HeldInv'
  BY <1>0 DEF HeldInv, Held, HandInv, Busy, Touched, TypeOK
<1>7. StartedInv'
  BY <1>0 DEF StartedInv, Held, HandInv, HeldInv, Busy, Touched, TypeOK
<1>8. SkipInv'
  BY <1>0 DEF SkipInv, Busy, Touched, HandInv, HeldInv, StartedInv, Held, Sentinel, TypeOK
<1>9. CancelInv'
  BY <1>0 DEF CancelInv, TypeOK
<1>10. JoinInv'
  BY <1>0 DEF JoinInv, TypeOK
<1>11. DoneInv'
  BY <1>0 DEF DoneInv, Busy, Settled, HandInv, HeldInv, StartedInv, Held, Touched, TypeOK
<1>. QED
  BY <1>1, <1>2, <1>3, <1>4, <1>5, <1>6, <1>7, <1>8, <1>9, <1>10, <1>11
\* cefpubfile cannot be started: the subscriptions it took are lost.
LEMMA PubStartRaisesIInv == IInv /\ PubStartRaises => IInv'
<1>. SUFFICES ASSUME IInv, PubStartRaises PROVE IInv'
  OBVIOUS
<1>. USE OpsFacts DEF IInv, PubStartRaises, TaskDone, submitVars, queueVars, workerVars, mainVars, startVars
<1>0. op \in Ops /\ unfinished - 1 \in Nat /\ records[op] \in Nat
  BY HandFacts DEF Busy, Dispatched
<1>1. TypeOK'
  BY <1>0 DEF TypeOK
<1>2. AtMostOneRecord'
  BY <1>0 DEF AtMostOneRecord, HandInv, HeldInv, Held, Busy, Touched, TypeOK
<1>3. Accounting'
  BY <1>0, <1>1 DEF Accounting, Busy, TypeOK
<1>4. HandInv'
  BY <1>0 DEF HandInv, Busy, Touched, HeldInv, Held, TypeOK
<1>5. QueueInv'
  BY <1>0 DEF QueueInv, Touched, HandInv, HeldInv, Held, Busy, Sentinel, TypeOK
<1>6. HeldInv'
  BY <1>0 DEF HeldInv, Held, HandInv, Busy, Touched, TypeOK
<1>7. StartedInv'
  BY <1>0 DEF StartedInv, Held, HandInv, HeldInv, Busy, Touched, TypeOK
<1>8. SkipInv'
  BY <1>0 DEF SkipInv, Busy, Touched, HandInv, HeldInv, StartedInv, Held, Sentinel, TypeOK
<1>9. CancelInv'
  BY <1>0 DEF CancelInv, TypeOK
<1>10. JoinInv'
  BY <1>0 DEF JoinInv, TypeOK
<1>11. DoneInv'
  BY <1>0 DEF DoneInv, Busy, Settled, HandInv, HeldInv, StartedInv, Held, Touched, TypeOK
<1>. QED
  BY <1>1, <1>2, <1>3, <1>4, <1>5, <1>6, <1>7, <1>8, <1>9, <1>10, <1>11
\* cefpubfile ends and is recorded.
LEMMA PubEndsIInv == IInv /\ PubEnds => IInv'
<1>. SUFFICES ASSUME IInv, PubEnds PROVE IInv'
  OBVIOUS
<1>. USE OpsFacts DEF IInv, PubEnds, WaitReturns, Record, submitVars, queueVars, workerVars, mainVars, startVars
<1>0. op \in Ops /\ unfinished - 1 \in Nat /\ records[op] \in Nat
  BY HandFacts DEF Busy, Dispatched
<1>1. TypeOK'
  BY <1>0 DEF TypeOK
<1>2. AtMostOneRecord'
  BY <1>0 DEF AtMostOneRecord, HandInv, HeldInv, Held, Busy, Touched, TypeOK
<1>3. Accounting'
  BY <1>0, <1>1 DEF Accounting, Busy, TypeOK
<1>4. HandInv'
  BY <1>0 DEF HandInv, Busy, Touched, HeldInv, Held, TypeOK
<1>5. QueueInv'
  BY <1>0 DEF QueueInv, Touched, HandInv, HeldInv, Held, Busy, Sentinel, TypeOK
<1>6. HeldInv'
  BY <1>0 DEF HeldInv, Held, HandInv, Busy, Touched, TypeOK
<1>7. StartedInv'
  BY <1>0 DEF StartedInv, Held, HandInv, HeldInv, Busy, Touched, TypeOK
<1>8. SkipInv'
  BY <1>0 DEF SkipInv, Busy, Touched, HandInv, HeldInv, StartedInv, Held, Sentinel, TypeOK
<1>9. CancelInv'
  BY <1>0 DEF CancelInv, TypeOK
<1>10. JoinInv'
  BY <1>0 DEF JoinInv, TypeOK
<1>11. DoneInv'
  BY <1>0 DEF DoneInv, Busy, Settled, HandInv, HeldInv, StartedInv, Held, Touched, TypeOK
<1>. QED
  BY <1>1, <1>2, <1>3, <1>4, <1>5, <1>6, <1>7, <1>8, <1>9, <1>10, <1>11
\* A subscription the publication holds ends and is recorded.
LEMMA SubEndsIInv == IInv /\ SubEnds => IInv'
<1>. SUFFICES ASSUME IInv, SubEnds PROVE IInv'
  OBVIOUS
<1>. USE OpsFacts DEF IInv, SubEnds, WaitReturns, Record, submitVars, queueVars, workerVars, mainVars, startVars
<1>0. op \in Ops /\ unfinished - 1 \in Nat /\ records[op] \in Nat
  BY HandFacts DEF Busy, Dispatched
<1>1. TypeOK'
  <2>1. mine' \subseteq Subs /\ procs' \subseteq Ops
    BY DEF TypeOK
  <2>2. records' \in [Ops -> Nat]
    BY SMTT(30) DEF TypeOK
  <2>. QED
    BY <2>1, <2>2 DEF TypeOK
<1>2. AtMostOneRecord'
  BY <1>0 DEF AtMostOneRecord, HandInv, HeldInv, Held, Busy, Touched, TypeOK
<1>3. Accounting'
  BY <1>0, <1>1 DEF Accounting, Busy, TypeOK
<1>4. HandInv'
  BY <1>0 DEF HandInv, Busy, Touched, HeldInv, Held, TypeOK
<1>5. QueueInv'
  BY <1>0 DEF QueueInv, Touched, HandInv, HeldInv, Held, Busy, Sentinel, TypeOK
<1>6. HeldInv'
  BY <1>0 DEF HeldInv, Held, HandInv, Busy, Touched, TypeOK
<1>7. StartedInv'
  BY <1>0 DEF StartedInv, Held, HandInv, HeldInv, Busy, Touched, TypeOK
<1>8. SkipInv'
  BY <1>0 DEF SkipInv, Busy, Touched, HandInv, HeldInv, StartedInv, Held, Sentinel, TypeOK
<1>9. CancelInv'
  BY <1>0 DEF CancelInv, TypeOK
<1>10. JoinInv'
  BY <1>0 DEF JoinInv, TypeOK
<1>11. DoneInv'
  BY <1>0 DEF DoneInv, Busy, Settled, HandInv, HeldInv, StartedInv, Held, Touched, TypeOK
<1>. QED
  BY <1>1, <1>2, <1>3, <1>4, <1>5, <1>6, <1>7, <1>8, <1>9, <1>10, <1>11
\* Recording a subscription the publication holds raises.
LEMMA SubJudgeRaisesIInv == IInv /\ SubJudgeRaises => IInv'
<1>. SUFFICES ASSUME IInv, SubJudgeRaises PROVE IInv'
  OBVIOUS
<1>. USE OpsFacts DEF IInv, SubJudgeRaises, WaitReturns, TaskDone, submitVars, queueVars, workerVars, mainVars, startVars
<1>0. op \in Ops /\ unfinished - 1 \in Nat /\ records[op] \in Nat
  BY HandFacts DEF Busy, Dispatched
<1>1. TypeOK'
  BY <1>0 DEF TypeOK
<1>2. AtMostOneRecord'
  BY <1>0 DEF AtMostOneRecord, HandInv, HeldInv, Held, Busy, Touched, TypeOK
<1>3. Accounting'
  BY <1>0, <1>1 DEF Accounting, Busy, TypeOK
<1>4. HandInv'
  BY <1>0 DEF HandInv, Busy, Touched, HeldInv, Held, TypeOK
<1>5. QueueInv'
  BY <1>0 DEF QueueInv, Touched, HandInv, HeldInv, Held, Busy, Sentinel, TypeOK
<1>6. HeldInv'
  BY <1>0 DEF HeldInv, Held, HandInv, Busy, Touched, TypeOK
<1>7. StartedInv'
  BY <1>0 DEF StartedInv, Held, HandInv, HeldInv, Busy, Touched, TypeOK
<1>8. SkipInv'
  BY <1>0 DEF SkipInv, Busy, Touched, HandInv, HeldInv, StartedInv, Held, Sentinel, TypeOK
<1>9. CancelInv'
  BY <1>0 DEF CancelInv, TypeOK
<1>10. JoinInv'
  BY <1>0 DEF JoinInv, TypeOK
<1>11. DoneInv'
  BY <1>0 DEF DoneInv, Busy, Settled, HandInv, HeldInv, StartedInv, Held, Touched, TypeOK
<1>. QED
  BY <1>1, <1>2, <1>3, <1>4, <1>5, <1>6, <1>7, <1>8, <1>9, <1>10, <1>11
\* The publication has recorded all the subscriptions it held.
LEMMA PubReturnsIInv == IInv /\ PubReturns => IInv'
<1>. SUFFICES ASSUME IInv, PubReturns PROVE IInv'
  OBVIOUS
<1>. USE OpsFacts DEF IInv, PubReturns, TaskDone, submitVars, queueVars, workerVars, mainVars, startVars
<1>0. op \in Ops /\ unfinished - 1 \in Nat /\ records[op] \in Nat
  BY HandFacts DEF Busy, Dispatched
<1>1. TypeOK'
  BY <1>0 DEF TypeOK
<1>2. AtMostOneRecord'
  BY <1>0 DEF AtMostOneRecord, HandInv, HeldInv, Held, Busy, Touched, TypeOK
<1>3. Accounting'
  BY <1>0, <1>1 DEF Accounting, Busy, TypeOK
<1>4. HandInv'
  BY <1>0 DEF HandInv, Busy, Touched, HeldInv, Held, TypeOK
<1>5. QueueInv'
  BY <1>0 DEF QueueInv, Touched, HandInv, HeldInv, Held, Busy, Sentinel, TypeOK
<1>6. HeldInv'
  BY <1>0 DEF HeldInv, Held, HandInv, Busy, Touched, TypeOK
<1>7. StartedInv'
  BY <1>0 DEF StartedInv, Held, HandInv, HeldInv, Busy, Touched, TypeOK
<1>8. SkipInv'
  BY <1>0 DEF SkipInv, Busy, Touched, HandInv, HeldInv, StartedInv, Held, Sentinel, TypeOK
<1>9. CancelInv'
  BY <1>0 DEF CancelInv, TypeOK
<1>10. JoinInv'
  BY <1>0 DEF JoinInv, TypeOK
<1>11. DoneInv'
  BY <1>0 DEF DoneInv, Busy, Settled, HandInv, HeldInv, StartedInv, Held, Touched, TypeOK
<1>. QED
  BY <1>1, <1>2, <1>3, <1>4, <1>5, <1>6, <1>7, <1>8, <1>9, <1>10, <1>11
\* The scheduler is stopped: one more submission at most.
LEMMA SchedulerStopIInv == IInv /\ SchedulerStop => IInv'
<1>. SUFFICES ASSUME IInv, SchedulerStop PROVE IInv'
  OBVIOUS
<1>. USE OpsFacts DEF IInv, SchedulerStop, submitVars, queueVars, workerVars, mainVars, startVars
<1>0. cancel' \in BOOLEAN /\ joined' \in BOOLEAN
  BY Zenon DEF TypeOK
<1>1. TypeOK'
  BY <1>0 DEF TypeOK
<1>2. AtMostOneRecord'
  BY DEF AtMostOneRecord, HandInv, HeldInv, Held, Busy, Touched, TypeOK
<1>3. Accounting'
  BY <1>1 DEF Accounting, Busy, TypeOK
<1>4. HandInv'
  BY DEF HandInv, Busy, Touched, HeldInv, Held, TypeOK
<1>5. QueueInv'
  BY DEF QueueInv, Touched, HandInv, HeldInv, Held, Busy, Sentinel, TypeOK
<1>6. HeldInv'
  BY DEF HeldInv, Held, HandInv, Busy, Touched, TypeOK
<1>7. StartedInv'
  BY DEF StartedInv, Held, HandInv, HeldInv, Busy, Touched, TypeOK
<1>8. SkipInv'
  BY DEF SkipInv, Busy, Touched, HandInv, HeldInv, StartedInv, Held, Sentinel, TypeOK
<1>9. CancelInv'
  BY DEF CancelInv, TypeOK
<1>10. JoinInv'
  BY DEF JoinInv, TypeOK
<1>11. DoneInv'
  BY DEF DoneInv, Busy, Settled, HandInv, HeldInv, StartedInv, Held, Touched, TypeOK
<1>. QED
  BY <1>1, <1>2, <1>3, <1>4, <1>5, <1>6, <1>7, <1>8, <1>9, <1>10, <1>11
\* run_event_batch calls wait_all.
LEMMA WaitAllBeginsIInv == IInv /\ WaitAllBegins => IInv'
<1>. SUFFICES ASSUME IInv, WaitAllBegins PROVE IInv'
  OBVIOUS
<1>. USE OpsFacts DEF IInv, WaitAllBegins, submitVars, queueVars, workerVars, mainVars, startVars
<1>0. cancel' \in BOOLEAN /\ joined' \in BOOLEAN
  BY Zenon DEF TypeOK
<1>1. TypeOK'
  BY <1>0 DEF TypeOK
<1>2. AtMostOneRecord'
  BY DEF AtMostOneRecord, HandInv, HeldInv, Held, Busy, Touched, TypeOK
<1>3. Accounting'
  BY <1>1 DEF Accounting, Busy, TypeOK
<1>4. HandInv'
  BY DEF HandInv, Busy, Touched, HeldInv, Held, TypeOK
<1>5. QueueInv'
  BY DEF QueueInv, Touched, HandInv, HeldInv, Held, Busy, Sentinel, TypeOK
<1>6. HeldInv'
  BY DEF HeldInv, Held, HandInv, Busy, Touched, TypeOK
<1>7. StartedInv'
  BY DEF StartedInv, Held, HandInv, HeldInv, Busy, Touched, TypeOK
<1>8. SkipInv'
  BY DEF SkipInv, Busy, Touched, HandInv, HeldInv, StartedInv, Held, Sentinel, TypeOK
<1>9. CancelInv'
  BY DEF CancelInv, TypeOK
<1>10. JoinInv'
  BY DEF JoinInv, TypeOK
<1>11. DoneInv'
  BY DEF DoneInv, SkipInv, TypeOK
<1>. QED
  BY <1>1, <1>2, <1>3, <1>4, <1>5, <1>6, <1>7, <1>8, <1>9, <1>10, <1>11
\* The wait for unfinished tasks ends, with or without the deadline.
LEMMA WaitAllTasksIInv == IInv /\ WaitAllTasks => IInv'
<1>. SUFFICES ASSUME IInv, WaitAllTasks PROVE IInv'
  OBVIOUS
<1>. USE OpsFacts DEF IInv, WaitAllTasks, submitVars, queueVars, workerVars, mainVars, startVars
<1>0. cancel' \in BOOLEAN /\ joined' \in BOOLEAN
  BY Zenon DEF TypeOK
<1>1. TypeOK'
  BY <1>0 DEF TypeOK
<1>2. AtMostOneRecord'
  BY DEF AtMostOneRecord, HandInv, HeldInv, Held, Busy, Touched, TypeOK
<1>3. Accounting'
  BY <1>1 DEF Accounting, Busy, TypeOK
<1>4. HandInv'
  BY DEF HandInv, Busy, Touched, HeldInv, Held, TypeOK
<1>5. QueueInv'
  BY DEF QueueInv, Touched, HandInv, HeldInv, Held, Busy, Sentinel, TypeOK
<1>6. HeldInv'
  BY DEF HeldInv, Held, HandInv, Busy, Touched, TypeOK
<1>7. StartedInv'
  BY DEF StartedInv, Held, HandInv, HeldInv, Busy, Touched, TypeOK
<1>8. SkipInv'
  BY DEF SkipInv, Busy, Touched, HandInv, HeldInv, StartedInv, Held, Sentinel, TypeOK
<1>9. CancelInv'
  BY DEF CancelInv, TypeOK
<1>10. JoinInv'
  BY DEF JoinInv, TypeOK
<1>11. DoneInv'
  <2>. SUFFICES ASSUME unfinished = 0, mpc' = "take", asked = sent
                PROVE  DoneInv'
    BY DEF DoneInv
  <2>1. Len(queue) \in Nat /\ queue \in Seq(Ops \cup {Sentinel})
    BY DEF TypeOK
  <2>2. ~Busy /\ Len(queue) = 0
    BY <2>1 DEF Accounting, Busy
  <2>3. DOMAIN queue = {} /\ op = Sentinel /\ mine = {} /\ left = {}
    BY <2>1, <2>2 DEF HandInv, Busy
  <2>4. \A o \in 1..sent : o \in Ops /\ o \in Touched
    BY <2>3 DEF SkipInv, TypeOK, Sentinel
  <2>5. \A o \in 1..sent : Settled(o) \/ o \in pending
    BY <2>2, <2>3, <2>4 DEF Touched, StartedInv, Held, Settled, AtMostOneRecord,
                            TypeOK, Busy
  <2>. QED
    BY <2>2, <2>3, <2>5 DEF DoneInv, Busy, Settled
<1>. QED
  BY <1>1, <1>2, <1>3, <1>4, <1>5, <1>6, <1>7, <1>8, <1>9, <1>10, <1>11
\* wait_all or stop takes the subscriptions still pending.
LEMMA TakeLeftoversIInv == IInv /\ TakeLeftovers => IInv'
<1>. SUFFICES ASSUME IInv, TakeLeftovers PROVE IInv'
  OBVIOUS
<1>. USE OpsFacts DEF IInv, TakeLeftovers, submitVars, queueVars, workerVars, mainVars, startVars
<1>0. cancel' \in BOOLEAN /\ joined' \in BOOLEAN
  BY Zenon DEF TypeOK
<1>1. TypeOK'
  BY <1>0 DEF TypeOK
<1>2. AtMostOneRecord'
  BY DEF AtMostOneRecord, HandInv, HeldInv, Held, Busy, Touched, TypeOK
<1>3. Accounting'
  BY <1>1 DEF Accounting, Busy, TypeOK
<1>4. HandInv'
  BY DEF HandInv, Busy, Touched, HeldInv, Held, TypeOK
<1>5. QueueInv'
  BY DEF QueueInv, Touched, HandInv, HeldInv, Held, Busy, Sentinel, TypeOK
<1>6. HeldInv'
  BY DEF HeldInv, Held, HandInv, Busy, Touched, TypeOK
<1>7. StartedInv'
  BY DEF StartedInv, Held, HandInv, HeldInv, Busy, Touched, TypeOK
<1>8. SkipInv'
  BY DEF SkipInv, Busy, Touched, HandInv, HeldInv, StartedInv, Held, Sentinel, TypeOK
<1>9. CancelInv'
  BY DEF CancelInv, TypeOK
<1>10. JoinInv'
  BY DEF JoinInv, TypeOK
<1>11. DoneInv'
  BY DEF DoneInv, Busy, Settled, HandInv, HeldInv, StartedInv, Held, Touched, TypeOK
<1>. QED
  BY <1>1, <1>2, <1>3, <1>4, <1>5, <1>6, <1>7, <1>8, <1>9, <1>10, <1>11
\* A subscription that wait_all or stop holds ends and is recorded.
LEMMA LeftoverEndsIInv == IInv /\ LeftoverEnds => IInv'
<1>. SUFFICES ASSUME IInv, LeftoverEnds PROVE IInv'
  OBVIOUS
<1>. USE OpsFacts DEF IInv, LeftoverEnds, WaitReturns, Record, submitVars, queueVars, workerVars, mainVars, startVars
<1>0. cancel' \in BOOLEAN /\ joined' \in BOOLEAN
  BY Zenon DEF TypeOK
<1>1. TypeOK'
  <2>1. left' \subseteq Subs /\ procs' \subseteq Ops
    BY DEF TypeOK
  <2>2. records' \in [Ops -> Nat]
    BY SMTT(30) DEF TypeOK
  <2>3. completed' \in {"none", "True", "False", "raised"}
    BY DEF TypeOK
  <2>. QED
    BY <1>0, <2>1, <2>2, <2>3 DEF TypeOK
<1>2. AtMostOneRecord'
  BY DEF AtMostOneRecord, HandInv, HeldInv, Held, Busy, Touched, TypeOK
<1>3. Accounting'
  BY <1>1 DEF Accounting, Busy, TypeOK
<1>4. HandInv'
  BY DEF HandInv, Busy, Touched, HeldInv, Held, TypeOK
<1>5. QueueInv'
  BY DEF QueueInv, Touched, HandInv, HeldInv, Held, Busy, Sentinel, TypeOK
<1>6. HeldInv'
  BY DEF HeldInv, Held, HandInv, Busy, Touched, TypeOK
<1>7. StartedInv'
  BY DEF StartedInv, Held, HandInv, HeldInv, Busy, Touched, TypeOK
<1>8. SkipInv'
  BY DEF SkipInv, Busy, Touched, HandInv, HeldInv, StartedInv, Held, Sentinel, TypeOK
<1>9. CancelInv'
  BY DEF CancelInv, TypeOK
<1>10. JoinInv'
  BY DEF JoinInv, TypeOK
<1>11. DoneInv'
  BY DEF DoneInv, Busy, Settled, HandInv, HeldInv, StartedInv, Held, Touched, TypeOK
<1>. QED
  BY <1>1, <1>2, <1>3, <1>4, <1>5, <1>6, <1>7, <1>8, <1>9, <1>10, <1>11
\* Recording a subscription that wait_all or stop holds raises.
LEMMA LeftoverRaisesIInv == IInv /\ LeftoverRaises => IInv'
<1>. SUFFICES ASSUME IInv, LeftoverRaises PROVE IInv'
  OBVIOUS
<1>. USE OpsFacts DEF IInv, LeftoverRaises, WaitReturns, submitVars, queueVars, workerVars, mainVars, startVars
<1>0. cancel' \in BOOLEAN /\ joined' \in BOOLEAN
  BY Zenon DEF TypeOK
<1>1. TypeOK'
  BY <1>0 DEF TypeOK
<1>2. AtMostOneRecord'
  BY DEF AtMostOneRecord, HandInv, HeldInv, Held, Busy, Touched, TypeOK
<1>3. Accounting'
  BY <1>1 DEF Accounting, Busy, TypeOK
<1>4. HandInv'
  BY DEF HandInv, Busy, Touched, HeldInv, Held, TypeOK
<1>5. QueueInv'
  BY DEF QueueInv, Touched, HandInv, HeldInv, Held, Busy, Sentinel, TypeOK
<1>6. HeldInv'
  BY DEF HeldInv, Held, HandInv, Busy, Touched, TypeOK
<1>7. StartedInv'
  BY DEF StartedInv, Held, HandInv, HeldInv, Busy, Touched, TypeOK
<1>8. SkipInv'
  BY DEF SkipInv, Busy, Touched, HandInv, HeldInv, StartedInv, Held, Sentinel, TypeOK
<1>9. CancelInv'
  BY DEF CancelInv, TypeOK
<1>10. JoinInv'
  BY DEF JoinInv, TypeOK
<1>11. DoneInv'
  BY DEF DoneInv, Busy, Settled, HandInv, HeldInv, StartedInv, Held, Touched, TypeOK
<1>. QED
  BY <1>1, <1>2, <1>3, <1>4, <1>5, <1>6, <1>7, <1>8, <1>9, <1>10, <1>11
\* wait_all or stop has recorded all the subscriptions it held.
LEMMA LeftoversEndIInv == IInv /\ LeftoversEnd => IInv'
<1>. SUFFICES ASSUME IInv, LeftoversEnd PROVE IInv'
  OBVIOUS
<1>. USE OpsFacts DEF IInv, LeftoversEnd, submitVars, queueVars, workerVars, mainVars, startVars
<1>0. cancel' \in BOOLEAN /\ joined' \in BOOLEAN
  BY Zenon DEF TypeOK
<1>1. TypeOK'
  BY <1>0 DEF TypeOK
<1>2. AtMostOneRecord'
  BY DEF AtMostOneRecord, HandInv, HeldInv, Held, Busy, Touched, TypeOK
<1>3. Accounting'
  BY <1>1 DEF Accounting, Busy, TypeOK
<1>4. HandInv'
  BY DEF HandInv, Busy, Touched, HeldInv, Held, TypeOK
<1>5. QueueInv'
  BY DEF QueueInv, Touched, HandInv, HeldInv, Held, Busy, Sentinel, TypeOK
<1>6. HeldInv'
  BY DEF HeldInv, Held, HandInv, Busy, Touched, TypeOK
<1>7. StartedInv'
  BY DEF StartedInv, Held, HandInv, HeldInv, Busy, Touched, TypeOK
<1>8. SkipInv'
  BY DEF SkipInv, Busy, Touched, HandInv, HeldInv, StartedInv, Held, Sentinel, TypeOK
<1>9. CancelInv'
  BY DEF CancelInv, TypeOK
<1>10. JoinInv'
  BY DEF JoinInv, TypeOK
<1>11. DoneInv'
  BY DEF DoneInv, Busy, Settled, HandInv, HeldInv, StartedInv, Held, Touched, TypeOK
<1>. QED
  BY <1>1, <1>2, <1>3, <1>4, <1>5, <1>6, <1>7, <1>8, <1>9, <1>10, <1>11
\* stop sets the cancellation event.
LEMMA StopBeginsIInv == IInv /\ StopBegins => IInv'
<1>. SUFFICES ASSUME IInv, StopBegins PROVE IInv'
  OBVIOUS
<1>. USE OpsFacts DEF IInv, StopBegins, submitVars, queueVars, workerVars, mainVars, startVars
<1>0. cancel' \in BOOLEAN /\ joined' \in BOOLEAN
  BY Zenon DEF TypeOK
<1>1. TypeOK'
  BY <1>0 DEF TypeOK
<1>2. AtMostOneRecord'
  BY DEF AtMostOneRecord, HandInv, HeldInv, Held, Busy, Touched, TypeOK
<1>3. Accounting'
  BY <1>1 DEF Accounting, Busy, TypeOK
<1>4. HandInv'
  BY DEF HandInv, Busy, Touched, HeldInv, Held, TypeOK
<1>5. QueueInv'
  BY DEF QueueInv, Touched, HandInv, HeldInv, Held, Busy, Sentinel, TypeOK
<1>6. HeldInv'
  BY DEF HeldInv, Held, HandInv, Busy, Touched, TypeOK
<1>7. StartedInv'
  BY DEF StartedInv, Held, HandInv, HeldInv, Busy, Touched, TypeOK
<1>8. SkipInv'
  BY DEF SkipInv, Busy, Touched, HandInv, HeldInv, StartedInv, Held, Sentinel, TypeOK
<1>9. CancelInv'
  BY DEF CancelInv, TypeOK
<1>10. JoinInv'
  BY DEF JoinInv, TypeOK
<1>11. DoneInv'
  BY DEF DoneInv, Busy, Settled, HandInv, HeldInv, StartedInv, Held, Touched, TypeOK
<1>. QED
  BY <1>1, <1>2, <1>3, <1>4, <1>5, <1>6, <1>7, <1>8, <1>9, <1>10, <1>11
\* stop waits for the worker's end, or gives up after its timeout.
LEMMA JoinIInv == IInv /\ Join => IInv'
<1>. SUFFICES ASSUME IInv, Join PROVE IInv'
  OBVIOUS
<1>. USE OpsFacts DEF IInv, Join, submitVars, queueVars, workerVars, mainVars, startVars
<1>0. cancel' \in BOOLEAN /\ joined' \in BOOLEAN
  BY Zenon DEF TypeOK
<1>1. TypeOK'
  BY <1>0 DEF TypeOK
<1>2. AtMostOneRecord'
  BY DEF AtMostOneRecord, HandInv, HeldInv, Held, Busy, Touched, TypeOK
<1>3. Accounting'
  BY <1>1 DEF Accounting, Busy, TypeOK
<1>4. HandInv'
  BY DEF HandInv, Busy, Touched, HeldInv, Held, TypeOK
<1>5. QueueInv'
  BY DEF QueueInv, Touched, HandInv, HeldInv, Held, Busy, Sentinel, TypeOK
<1>6. HeldInv'
  BY DEF HeldInv, Held, HandInv, Busy, Touched, TypeOK
<1>7. StartedInv'
  BY DEF StartedInv, Held, HandInv, HeldInv, Busy, Touched, TypeOK
<1>8. SkipInv'
  BY DEF SkipInv, Busy, Touched, HandInv, HeldInv, StartedInv, Held, Sentinel, TypeOK
<1>9. CancelInv'
  BY DEF CancelInv, TypeOK
<1>10. JoinInv'
  BY DEF JoinInv, TypeOK
<1>11. DoneInv'
  BY DEF DoneInv, Busy, Settled, HandInv, HeldInv, StartedInv, Held, Touched, TypeOK
<1>. QED
  BY <1>1, <1>2, <1>3, <1>4, <1>5, <1>6, <1>7, <1>8, <1>9, <1>10, <1>11

-----------------------------------------------------------------------------
(* Steps of the queue *)

\* Submission: the new operation is larger than all others.
LEMMA SubmitIInv == IInv /\ Submit => IInv'
<1>. SUFFICES ASSUME IInv, Submit PROVE IInv'
  OBVIOUS
<1>. USE OpsFacts DEF IInv
<1>0. /\ cancel' \in BOOLEAN /\ joined' \in BOOLEAN
      /\ cancel' = cancel /\ joined' = joined
  BY Zenon DEF Submit, mainVars, TypeOK
<1>1. /\ sent' = sent + 1 /\ sent \in Nat /\ sent + 1 \in Ops
      /\ queue \in Seq(Ops \cup {Sentinel})
      /\ queue' = Append(queue, sent + 1)
      /\ unfinished' = unfinished + 1
      /\ sched' \in {"on", "late", "off"}
  BY DEF Submit, TypeOK
<1>2. UNCHANGED <<pending, wpc, op, mine, mpc, left, completed, asked, procs,
                  records, started, afterCancel, failed, lost>>
  BY DEF Submit, workerVars, mainVars, startVars
<1>3. /\ queue' \in Seq(Ops \cup {Sentinel})
      /\ Len(queue) \in Nat /\ Len(queue') = Len(queue) + 1
      /\ DOMAIN queue = 1..Len(queue)
      /\ \A i \in DOMAIN queue' : \/ i \in DOMAIN queue /\ queue'[i] = queue[i]
                                  \/ i = Len(queue) + 1 /\ queue'[i] = sent + 1
      /\ \A i \in DOMAIN queue : i \in DOMAIN queue' /\ queue'[i] = queue[i]
      /\ Len(queue) + 1 \in DOMAIN queue' /\ queue'[Len(queue) + 1] = sent + 1
  BY <1>1, AppendFacts
<1>4. TypeOK'
  <2>1. unfinished' \in Nat /\ sent' \in 0..Len(Script)
    BY <1>1 DEF TypeOK
  <2>. QED
    BY <1>0, <1>1, <1>2, <1>3, <2>1 DEF TypeOK
<1>5. Accounting'
  BY <1>1, <1>2, <1>3 DEF Accounting, TypeOK
<1>6. AtMostOneRecord' /\ HandInv' /\ HeldInv' /\ StartedInv' /\ CancelInv' /\ JoinInv'
  BY ZenonT(40), <1>0, <1>2 DEF AtMostOneRecord, HandInv, HeldInv, StartedInv, CancelInv,
                    JoinInv, Busy, Touched, Held
<1>7. QueueInv'
  <2>1. \A o \in Touched : o \in Nat /\ o <= sent
    BY DEF Touched, QueueInv, TypeOK
  <2>2. op \in Nat /\ op <= sent
    BY DEF QueueInv, TypeOK, Sentinel
  <2>3. Touched' = Touched
    BY <1>2 DEF Touched
  <2>4. \A i \in DOMAIN queue : queue[i] # Sentinel =>
          /\ queue[i] \in Nat /\ queue[i] <= sent /\ op < queue[i]
          /\ \A o \in Touched : o < queue[i]
    BY <1>1 DEF QueueInv
  <2>5. \A i \in DOMAIN queue' : queue'[i] # Sentinel =>
          /\ queue'[i] <= sent' /\ op' < queue'[i]
          /\ \A o \in Touched' : o < queue'[i]
    BY <1>1, <1>2, <1>3, <2>1, <2>2, <2>3, <2>4
  <2>6. \A i, j \in DOMAIN queue' :
          i < j /\ queue'[i] # Sentinel /\ queue'[j] # Sentinel
            => queue'[i] < queue'[j]
    BY <1>1, <1>3, <2>4 DEF QueueInv
  <2>. QED
    BY <1>1, <1>2, <2>1, <2>2, <2>3, <2>5, <2>6 DEF QueueInv
<1>8. SkipInv'
  <2>1. \A o \in 1..sent' : o \in 1..sent \/ o = sent + 1
    BY <1>1
  <2>2. Touched' = Touched
    BY <1>2 DEF Touched
  <2>. QED
    BY <1>0, <1>2, <1>3, <2>1, <2>2 DEF SkipInv, Busy
<1>9. DoneInv'
  <2>1. asked \in Nat /\ asked <= sent
    BY DEF DoneInv, TypeOK
  <2>. QED
    BY <1>1, <1>2, <2>1 DEF DoneInv
<1>. QED
  BY <1>4, <1>5, <1>6, <1>7, <1>8, <1>9

\* Taking the first item out of the queue keeps the rest in order.
LEMMA TailOrder ==
  ASSUME IInv, queue # <<>>, queue' = Tail(queue)
  PROVE  /\ queue' \in Seq(Ops \cup {Sentinel})
         /\ Head(queue) \in Ops \cup {Sentinel}
         /\ Len(queue') = Len(queue) - 1
         /\ Len(queue) \in Nat /\ Len(queue) > 0
         /\ \A i \in DOMAIN queue' : queue'[i] # Sentinel =>
              /\ queue'[i] \in Nat /\ queue'[i] <= sent /\ op < queue'[i]
              /\ \A o \in Touched : o < queue'[i]
              /\ Head(queue) # Sentinel => Head(queue) < queue'[i]
         /\ \A i, j \in DOMAIN queue' :
              i < j /\ queue'[i] # Sentinel /\ queue'[j] # Sentinel
                => queue'[i] < queue'[j]
         /\ Head(queue) # Sentinel =>
              /\ Head(queue) \in Ops /\ Head(queue) <= sent /\ op < Head(queue)
              /\ \A o \in Touched : o < Head(queue)
         /\ \A i \in DOMAIN queue : queue[i] = Head(queue)
                                    \/ \E j \in DOMAIN queue' : queue'[j] = queue[i]
<1>. USE OpsFacts
<1>1. queue \in Seq(Ops \cup {Sentinel})
  BY DEF IInv, TypeOK
<1>2. /\ queue' \in Seq(Ops \cup {Sentinel})
      /\ Head(queue) = queue[1] /\ 1 \in DOMAIN queue
      /\ Len(queue) \in Nat /\ Len(queue) > 0
      /\ Len(queue') = Len(queue) - 1
      /\ \A i \in DOMAIN queue' : i + 1 \in DOMAIN queue /\ queue'[i] = queue[i + 1]
      /\ \A i \in DOMAIN queue : \/ i = 1
                                 \/ i - 1 \in DOMAIN queue' /\ queue'[i - 1] = queue[i]
  BY <1>1, TailFacts
<1>3. \A i \in DOMAIN queue : queue[i] \in Ops \cup {Sentinel}
  BY <1>1
<1>4. \A i \in DOMAIN queue' : i \in Nat /\ i >= 1
  BY <1>2
<1>5. \A i \in DOMAIN queue : queue[i] # Sentinel =>
        /\ queue[i] <= sent /\ op < queue[i]
        /\ \A o \in Touched : o < queue[i]
  BY DEF IInv, QueueInv
<1>6. \A i, j \in DOMAIN queue :
        i < j /\ queue[i] # Sentinel /\ queue[j] # Sentinel => queue[i] < queue[j]
  BY DEF IInv, QueueInv
<1>7. \A i \in DOMAIN queue' : queue'[i] # Sentinel =>
        /\ queue'[i] \in Nat /\ queue'[i] <= sent /\ op < queue'[i]
        /\ \A o \in Touched : o < queue'[i]
  BY <1>2, <1>3, <1>5
<1>8. \A i \in DOMAIN queue' : queue'[i] # Sentinel /\ Head(queue) # Sentinel
        => Head(queue) < queue'[i]
  <2>. TAKE i \in DOMAIN queue'
  <2>1. 1 < i + 1 /\ i + 1 \in DOMAIN queue /\ queue'[i] = queue[i + 1]
    BY <1>2, <1>4
  <2>. QED
    BY <1>2, <1>6, <2>1
<1>9. \A i, j \in DOMAIN queue' :
        i < j /\ queue'[i] # Sentinel /\ queue'[j] # Sentinel => queue'[i] < queue'[j]
  <2>. TAKE i, j \in DOMAIN queue'
  <2>1. i < j => i + 1 < j + 1
    BY <1>4
  <2>. QED
    BY <1>2, <1>6, <2>1
<1>10. Head(queue) \in Ops \cup {Sentinel}
  BY <1>2, <1>3
<1>. QED
  BY <1>2, <1>5, <1>7, <1>8, <1>9, <1>10

\* The worker takes the first item.
LEMMA GetIInv == IInv /\ Get => IInv'
<1>. SUFFICES ASSUME IInv, Get PROVE IInv'
  OBVIOUS
<1>. USE OpsFacts
<1>0. cancel' \in BOOLEAN /\ joined' \in BOOLEAN /\ cancel' = cancel /\ joined' = joined
  BY Zenon DEF Get, mainVars, IInv, TypeOK
<1>1. /\ wpc = "idle" /\ queue # <<>> /\ queue' = Tail(queue)
      /\ \/ /\ Head(queue) = Sentinel
            /\ wpc' = "dead" /\ unfinished' = unfinished - 1 /\ op' = op
         \/ /\ Head(queue) # Sentinel /\ cancel
            /\ unfinished' = unfinished - 1 /\ wpc' = wpc /\ op' = op
         \/ /\ Head(queue) # Sentinel /\ ~cancel
            /\ wpc' = "dispatch" /\ op' = Head(queue) /\ unfinished' = unfinished
      /\ UNCHANGED <<sched, sent, pending, mine, mpc, left, completed, asked,
                     procs, records, started, afterCancel, failed, lost>>
  BY DEF Get, submitVars, mainVars, startVars
<1>2. op = Sentinel /\ mine = {}
  BY <1>1 DEF IInv, HandInv, Busy
<1>3. /\ queue' \in Seq(Ops \cup {Sentinel})
      /\ Head(queue) \in Ops \cup {Sentinel}
      /\ Len(queue') = Len(queue) - 1
      /\ Len(queue) \in Nat /\ Len(queue) > 0
      /\ \A i \in DOMAIN queue' : queue'[i] # Sentinel =>
           /\ queue'[i] \in Nat /\ queue'[i] <= sent /\ op < queue'[i]
           /\ \A o \in Touched : o < queue'[i]
           /\ Head(queue) # Sentinel => Head(queue) < queue'[i]
      /\ \A i, j \in DOMAIN queue' :
           i < j /\ queue'[i] # Sentinel /\ queue'[j] # Sentinel
             => queue'[i] < queue'[j]
      /\ Head(queue) # Sentinel =>
           /\ Head(queue) \in Ops /\ Head(queue) <= sent /\ op < Head(queue)
           /\ \A o \in Touched : o < Head(queue)
      /\ \A i \in DOMAIN queue : queue[i] = Head(queue)
                                 \/ \E j \in DOMAIN queue' : queue'[j] = queue[i]
  BY <1>1, TailOrder
<1>4. Touched' = Touched
  BY <1>1 DEF Touched
<1>5. /\ unfinished \in Nat /\ unfinished = Len(queue)
      /\ unfinished' \in Nat
      /\ Accounting'
  BY <1>1, <1>3 DEF IInv, Accounting, TypeOK
<1>6. TypeOK'
  BY <1>0, <1>1, <1>3, <1>5 DEF IInv, TypeOK
<1>7. wpc' = "dispatch" => op' \notin Touched
  BY <1>1, <1>3
<1>8. HandInv'
  BY <1>1, <1>2, <1>3, <1>4, <1>7 DEF IInv, HandInv, Busy
<1>9. QueueInv'
  <2>1. op' <= sent'
    BY <1>1, <1>2, <1>3 DEF IInv, QueueInv
  <2>2. \A i \in DOMAIN queue' : queue'[i] # Sentinel => op' < queue'[i]
    BY <1>1, <1>3
  <2>. QED
    BY <1>1, <1>3, <1>4, <2>1, <2>2 DEF IInv, QueueInv
<1>10. AtMostOneRecord' /\ CancelInv' /\ JoinInv'
  BY <1>0, <1>1 DEF IInv, AtMostOneRecord, CancelInv, JoinInv, TypeOK
<1>11. HeldInv'
  BY <1>1, <1>7 DEF IInv, HeldInv, Held, Touched
<1>12. StartedInv'
  BY <1>1, <1>2 DEF IInv, StartedInv, Held, TypeOK
<1>13. SkipInv'
  <2>1. ASSUME ~cancel
        PROVE  \A o \in 1..sent : \/ \E j \in DOMAIN queue' : queue'[j] = o
                                  \/ o = Head(queue)
                                  \/ o \in Touched
    BY <1>2, <1>3, <2>1 DEF IInv, SkipInv, Sentinel
  <2>2. ASSUME ~cancel, Head(queue) # Sentinel,
               NEW s \in Subs, s < Head(queue)
        PROVE  s \in started \cup failed
    <3>1. s \in 1..sent
      BY <1>3, <2>2 DEF IInv, TypeOK
    <3>2. s \in Touched
      BY <1>3, <2>1, <2>2, <3>1 DEF Sentinel
    <3>3. records[s] > 0 => s \in started
      BY <2>2 DEF IInv, StartedInv
    <3>. QED
      BY <3>2, <3>3 DEF Touched
  <2>. QED
    BY <1>0, <1>1, <1>4, <2>1, <2>2 DEF IInv, SkipInv, Busy, Sentinel
<1>14. DoneInv'
  BY <1>1, <1>2, <1>3 DEF IInv, DoneInv, Busy, Settled
<1>. QED
  BY <1>5, <1>6, <1>8, <1>9, <1>10, <1>11, <1>12, <1>13, <1>14 DEF IInv

\* wait_all or stop discards what has not been started.
LEMMA DiscardIInv == IInv /\ Discard => IInv'
<1>. SUFFICES ASSUME IInv, Discard PROVE IInv'
  OBVIOUS
<1>. USE OpsFacts
<1>0. /\ cancel' \in BOOLEAN /\ joined' \in BOOLEAN
      /\ cancel' = cancel /\ joined' = joined /\ cancel
  BY Zenon DEF Discard, IInv, TypeOK, SkipInv
<1>1. /\ mpc \in {"wa_discard", "st_discard"}
      /\ UNCHANGED <<sched, sent, pending, wpc, op, mine, left, completed, asked,
                     procs, records, started, afterCancel, failed, lost>>
  BY DEF Discard, submitVars, workerVars, startVars
<1>2. CASE queue = <<>> /\ UNCHANGED queueVars
           /\ mpc' = IF mpc = "wa_discard" THEN "take" ELSE "sentinel"
  <2>. USE <1>0, <1>1, <1>2 DEF IInv, queueVars
  <2>1. TypeOK' /\ AtMostOneRecord' /\ Accounting' /\ HandInv' /\ QueueInv'
    BY DEF TypeOK, AtMostOneRecord, Accounting, HandInv, QueueInv, Busy, Touched
  <2>2. HeldInv' /\ StartedInv' /\ SkipInv' /\ CancelInv' /\ JoinInv'
    BY DEF HeldInv, StartedInv, SkipInv, CancelInv, JoinInv, Held, Busy, Touched
  <2>3. DoneInv'
    BY DEF DoneInv, Busy, Settled
  <2>. QED
    BY <2>1, <2>2, <2>3
<1>3. CASE queue # <<>> /\ queue' = Tail(queue) /\ unfinished' = unfinished - 1
           /\ mpc' = mpc
  <2>1. /\ queue' \in Seq(Ops \cup {Sentinel})
        /\ Len(queue') = Len(queue) - 1
        /\ Len(queue) \in Nat /\ Len(queue) > 0
        /\ \A i \in DOMAIN queue' : queue'[i] # Sentinel =>
             /\ queue'[i] <= sent /\ op < queue'[i]
             /\ \A o \in Touched : o < queue'[i]
        /\ \A i, j \in DOMAIN queue' :
             i < j /\ queue'[i] # Sentinel /\ queue'[j] # Sentinel
               => queue'[i] < queue'[j]
    BY <1>3, TailOrder
  <2>2. unfinished' \in Nat /\ Accounting'
    <3>1. unfinished = Len(queue) + (IF wpc \in {"idle", "dead"} THEN 0 ELSE 1)
      BY DEF IInv, Accounting
    <3>2. unfinished' = unfinished - 1 /\ wpc' = wpc
      BY <1>1, <1>3
    <3>3. CASE wpc \in {"idle", "dead"}
      <4>1. unfinished = Len(queue)
        BY <3>1, <3>3, <2>1
      <4>. QED
        BY <3>2, <3>3, <4>1, <2>1 DEF Accounting
    <3>4. CASE wpc \notin {"idle", "dead"}
      <4>1. unfinished = Len(queue) + 1
        BY <3>1, <3>4
      <4>. QED
        BY <3>2, <3>4, <4>1, <2>1 DEF Accounting
    <3>. QED
      BY <3>3, <3>4
  <2>3. Touched' = Touched
    BY <1>1 DEF Touched
  <2>4. TypeOK'
    BY <1>0, <1>1, <1>3, <2>1, <2>2 DEF IInv, TypeOK
  <2>5. QueueInv'
    BY <1>1, <2>1, <2>3 DEF IInv, QueueInv
  <2>6. AtMostOneRecord' /\ HandInv' /\ HeldInv' /\ StartedInv' /\ SkipInv'
        /\ CancelInv' /\ JoinInv'
    BY <1>0, <1>1, <1>3, <2>3 DEF IInv, AtMostOneRecord, HandInv, HeldInv,
       StartedInv, SkipInv, CancelInv, JoinInv, Held, Busy
  <2>7. \A i \in DOMAIN queue' : i + 1 \in DOMAIN queue /\ queue'[i] = queue[i + 1]
    BY <1>3, TailFacts DEF IInv, TypeOK
  <2>8. DoneInv'
    BY <1>1, <1>3, <2>7 DEF IInv, DoneInv, Busy, Settled
  <2>. QED
    BY <2>2, <2>4, <2>5, <2>6, <2>8 DEF IInv
<1>. QED
  BY <1>2, <1>3 DEF Discard

\* stop adds the sentinel.
LEMMA PutSentinelIInv == IInv /\ PutSentinel => IInv'
<1>. SUFFICES ASSUME IInv, PutSentinel PROVE IInv'
  OBVIOUS
<1>. USE OpsFacts
<1>0. cancel' \in BOOLEAN /\ joined' \in BOOLEAN /\ cancel' = cancel /\ joined' = joined
  BY Zenon DEF PutSentinel, IInv, TypeOK
<1>1. /\ mpc = "sentinel" /\ mpc' = "joining"
      /\ queue \in Seq(Ops \cup {Sentinel})
      /\ queue' = Append(queue, Sentinel)
      /\ unfinished' = unfinished + 1
      /\ UNCHANGED <<sched, sent, pending, wpc, op, mine, left, completed, asked,
                     procs, records, started, afterCancel, failed, lost>>
  BY DEF PutSentinel, IInv, TypeOK, submitVars, workerVars, startVars
<1>2. /\ queue' \in Seq(Ops \cup {Sentinel})
      /\ Len(queue) \in Nat /\ Len(queue') = Len(queue) + 1
      /\ \A i \in DOMAIN queue' : \/ i \in DOMAIN queue /\ queue'[i] = queue[i]
                                  \/ queue'[i] = Sentinel
      /\ \A i \in DOMAIN queue : i \in DOMAIN queue' /\ queue'[i] = queue[i]
  BY <1>1, AppendFacts
<1>3. Touched' = Touched
  BY <1>1 DEF Touched
<1>4. TypeOK' /\ Accounting'
  BY SMTT(30), <1>0, <1>1, <1>2 DEF IInv, TypeOK, Accounting
<1>5. QueueInv'
  BY <1>1, <1>2, <1>3 DEF IInv, QueueInv
<1>6. AtMostOneRecord' /\ HandInv' /\ HeldInv' /\ StartedInv' /\ CancelInv' /\ JoinInv'
  BY <1>0, <1>1, <1>3 DEF IInv, AtMostOneRecord, HandInv, HeldInv, StartedInv,
                          CancelInv, JoinInv, Held, Busy
<1>7. SkipInv'
  BY <1>0, <1>1, <1>2, <1>3 DEF IInv, SkipInv, Busy
<1>8. DoneInv'
  BY <1>1, <1>2 DEF IInv, DoneInv, Busy, Settled
<1>. QED
  BY <1>4, <1>5, <1>6, <1>7, <1>8 DEF IInv

-----------------------------------------------------------------------------
(* The theorems *)

\* The invariant holds initially.
LEMMA InitIInv == Init => IInv
<1>. SUFFICES ASSUME Init PROVE IInv
  OBVIOUS
<1>. USE OpsFacts DEF Init
<1>0. cancel \in BOOLEAN /\ joined \in BOOLEAN
  BY Zenon
<1>1. TypeOK
  BY <1>0 DEF TypeOK
<1>2. Touched = {} /\ Held = {} /\ ~Busy
  BY DEF Touched, Held, Busy
<1>3. AtMostOneRecord /\ Accounting /\ HandInv /\ QueueInv
  BY <1>2 DEF AtMostOneRecord, Accounting, HandInv, QueueInv, Sentinel
<1>4. HeldInv /\ StartedInv /\ SkipInv /\ CancelInv /\ JoinInv /\ DoneInv
  BY <1>2 DEF HeldInv, StartedInv, SkipInv, CancelInv, JoinInv, DoneInv
<1>. QED
  BY <1>1, <1>3, <1>4 DEF IInv

\* Every step preserves the invariant.
LEMMA NextIInv == IInv /\ [Next]_vars => IInv'
<1>. SUFFICES ASSUME IInv, [Next]_vars PROVE IInv'
  OBVIOUS
<1>1. CASE UNCHANGED vars
  <2>. USE <1>1 DEF vars, submitVars, queueVars, workerVars, mainVars, startVars
  <2>1. TypeOK' /\ AtMostOneRecord' /\ Accounting' /\ HandInv' /\ QueueInv'
    BY DEF IInv, TypeOK, AtMostOneRecord, Accounting, HandInv, QueueInv, Busy,
           Touched
  <2>2. HeldInv' /\ StartedInv' /\ SkipInv' /\ CancelInv' /\ JoinInv' /\ DoneInv'
    BY DEF IInv, HeldInv, StartedInv, SkipInv, CancelInv, JoinInv, DoneInv, Held,
           Busy, Touched, Settled
  <2>. QED
    BY <2>1, <2>2 DEF IInv
<1>2. CASE Worker
  BY <1>2, GetIInv, RunStartIInv, RunEndsIInv, RunRaisesIInv, SubStartIInv,
     SubStartRaisesIInv, RegisterIInv, GraceCancelledIInv, TakeSubsIInv,
     PubStartIInv, PubStartRaisesIInv, PubEndsIInv, SubEndsIInv,
     SubJudgeRaisesIInv, PubReturnsIInv DEF Worker
<1>3. CASE Main
  BY <1>3, WaitAllTasksIInv, DiscardIInv, TakeLeftoversIInv, LeftoverEndsIInv,
     LeftoverRaisesIInv, LeftoversEndIInv, PutSentinelIInv, JoinIInv DEF Main
<1>. QED
  BY <1>1, <1>2, <1>3, SubmitIInv, SchedulerStopIInv, ProcessExitsIInv,
     WaitAllBeginsIInv, StopBeginsIInv DEF Next

\* The inductive invariant holds in every state.
THEOREM InvariantHolds == Spec => []IInv
  BY InitIInv, NextIInv, PTL DEF Spec

\* Type correctness for any script.
THEOREM TypeCorrect == Spec => []TypeOK
<1>1. IInv => TypeOK
  BY DEF IInv
<1>. QED
  BY <1>1, InvariantHolds, PTL

\* No operation is recorded twice.
THEOREM OneRecordTheorem == Spec => []AtMostOneRecord
<1>1. IInv => AtMostOneRecord
  BY DEF IInv
<1>. QED
  BY <1>1, InvariantHolds, PTL

\* The count that wait_all waits for is exact.
THEOREM AccountingTheorem == Spec => []Accounting
<1>1. IInv => Accounting
  BY DEF IInv
<1>. QED
  BY <1>1, InvariantHolds, PTL

\* A completed batch has settled every operation.
THEOREM CompletedTheorem == Spec => []CompletedMeansSettled
<1>1. IInv => CompletedMeansSettled
  BY DEF IInv, DoneInv, CompletedMeansSettled
<1>. QED
  BY <1>1, InvariantHolds, PTL

\* After a clean stop every started subscription is recorded and over, except
\* those a handler that raised was holding.
THEOREM SubsSettledTheorem == Spec => []SubsSettled
<1>1. IInv => SubsSettled
  BY DEF IInv, StartedInv, HandInv, JoinInv, Held, SubsSettled
<1>. QED
  BY <1>1, InvariantHolds, PTL

\* At most one process is started after cancellation.
THEOREM CancelTheorem == Spec => []OneStartAfterCancel
<1>1. IInv => OneStartAfterCancel
  BY DEF IInv, CancelInv, OneStartAfterCancel
<1>. QED
  BY <1>1, InvariantHolds, PTL

\* Earlier subscriptions are running before a publication is.
THEOREM PubAfterSubsTheorem == Spec => []PubAfterSubs
<1>1. IInv => PubAfterSubs
  BY DEF IInv, SkipInv, Busy, PubAfterSubs
<1>. QED
  BY <1>1, InvariantHolds, PTL

\* No operation is recorded twice or forgotten.
THEOREM RecordsTheorem == Spec => []RecordsSound
BY OneRecordTheorem, AccountingTheorem, CompletedTheorem, SubsSettledTheorem, PTL
   DEF RecordsSound

\* What the worker starts, it starts in order.
THEOREM StartsTheorem == Spec => []StartsOrdered
BY CancelTheorem, PubAfterSubsTheorem, PTL DEF StartsOrdered
=============================================================================
