--------------------------- MODULE HostFlapProofs ---------------------------
(***************************************************************************)
(* Proofs about HostFlap: the worker and the timer threads share the       *)
(* hosts.                                                                  *)
(*                                                                         *)
(* The invariant says who owns a host that is marked down, how far its     *)
(* owner has come with it, and what that means for its records and for its *)
(* links.                                                                  *)
(***************************************************************************)
EXTENDS HostFlap, FiniteSetTheorems, SequenceTheorems, TLAPS

-----------------------------------------------------------------------------
(* The inductive invariant. *)

\* The timer with these fields, as a set.
Timer(hosts, left, host, todo, p) ==
  [hosts : {hosts}, left : {left}, host : {host}, todo : {todo}, pc : {p}]

IsTimer(r) ==
  /\ r \in Timer(r.hosts, r.left, r.host, r.todo, r.pc)
  /\ r.pc \in {"unused", "armed", "up", "links", "show", "over"}
  /\ r.left \subseteq r.hosts
  /\ r.pc = "armed" => r.left = r.hosts
  /\ r.pc = "links" => r.host \in r.hosts \ r.left

\* The hosts of a manual round come out of SelectSeq, of which the provers know
\* nothing: chosen has a type where Samples gives it one, see RoundInv.
TypeOK ==
  /\ setup \in Setups
  /\ stop \in BOOLEAN
  /\ wpc \in {"loop", "stagger", "mark", "show", "links", "arm", "over"}
  /\ armed \in 0..MaxTimers
  /\ DOMAIN timers = Timers /\ \A t \in Timers : IsTimer(timers[t])
  /\ downs \in [Hosts -> Nat] /\ ups \in [Hosts -> Nat]

InRound == wpc \notin {"loop", "over"}

\* A round of the worker: in "simple" the hosts still to take down are distinct
\* and not marked; a timer is free for each host, or for the cycle.
RoundInv ==
  /\ \A t \in Timers : t > armed => timers[t].pc = "unused"
  /\ Strategy = "simple" =>
       /\ cyc = 1 /\ cdown = {}
       /\ InRound =>
            /\ chosen \in Seq(Hosts) /\ armed + Len(chosen) <= MaxTimers
            /\ wpc # "stagger" => chosen # <<>>
            /\ \A i, k \in DOMAIN chosen : chosen[i] = chosen[k] => i = k
            /\ \A i \in DOMAIN chosen : chosen[i] \in active =>
                 i = 1 /\ wpc \in {"show", "links", "arm"}
  /\ Strategy # "simple" =>
       /\ wpc \notin {"show", "arm"}
       /\ InRound => armed < MaxTimers
       /\ wpc = "links" => Head(chosen) \in cdown

\* The worker has marked h and has yet to arm its timer.
Held(h) ==
  IF Strategy = "simple"
    THEN wpc \in {"show", "links", "arm"} /\ Head(chosen) = h
    ELSE h \in cdown /\ wpc \in {"stagger", "mark", "links"}

\* A host with an owner is marked down and has no other owner; until stop each
\* host that is marked down has one.
OwnerInv ==
  /\ \A h : Held(h) => h \in active /\ \A t \in Timers : ~Pending(t, h)
  /\ \A t \in Timers : \A h : Pending(t, h) =>
       h \in active /\ \A u \in Timers : Pending(u, h) => u = t
  /\ ~stop => \A h \in active : Held(h) \/ \E t \in Timers : Pending(t, h)

\* The worker is taking h down.
Taking(h) == wpc \in {"show", "links"} /\ Head(chosen) = h

\* Timer t has h but has not brought it back.
Waits(t, h) ==
  /\ Pending(t, h)
  /\ h \in timers[t].left \/ (timers[t].pc = "links" /\ timers[t].host = h)

\* The records of a host and where it is.
RecordInv ==
  \A h \in Hosts :
    /\ downs[h] \in {ups[h], ups[h] + 1}
    /\ h \notin active \/ Taking(h) => downs[h] = ups[h]
    /\ Held(h) /\ ~Taking(h) => downs[h] = ups[h] + 1
    /\ \A t \in Timers : Pending(t, h) =>
         downs[h] = IF Waits(t, h) THEN ups[h] + 1 ELSE ups[h]

\* The links of h that are down were set down by an event.
LinksUp(h) == \A e \in HalvesOf(h) : e \in down => e \in touched

\* The links of a host and where it is.
LinksInv ==
  /\ wpc \in {"show", "links"} => wtodo \subseteq HalvesOf(Head(chosen))
  /\ \A h : h \notin active \cup faulty => LinksUp(h)
  /\ \A t \in Timers : \A h : Pending(t, h) /\ ~Waits(t, h) /\ h \notin faulty => LinksUp(h)
  /\ \A t \in Timers : timers[t].pc = "links" =>
       \A e \in HalvesOf(timers[t].host) \ timers[t].todo : e \in down => e \in touched

\* The inductive invariant.
IInv ==
  /\ TypeOK
  /\ RoundInv
  /\ OwnerInv
  /\ RecordInv
  /\ LinksInv

-----------------------------------------------------------------------------
(* What the steps have in common. *)

\* A step leaves what the setup gives alone.
LEMMA SameSetup ==
  ASSUME setup' = setup
  PROVE  /\ Strategy' = Strategy /\ Hosts' = Hosts /\ Cycles' = Cycles /\ Events' = Events
         /\ \A h : HalvesOf(h)' = HalvesOf(h)
  BY DEF Strategy, Hosts, Cycles, Events, HalvesOf

\* A step that leaves the timers alone.
LEMMA SameTimers ==
  ASSUME timers' = timers
  PROVE  \A t, h : (Pending(t, h)' <=> Pending(t, h)) /\ (Waits(t, h)' <=> Waits(t, h))
  BY DEF Pending, Waits

\* A step that leaves the worker alone.
LEMMA SameWorker ==
  ASSUME setup' = setup, UNCHANGED <<wpc, chosen, cdown>>
  PROVE  \A h : (Held(h)' <=> Held(h)) /\ (Taking(h)' <=> Taking(h))
  BY DEF Held, Taking, Strategy

\* The halves of two hosts.
LEMMA HalvesApart ==
  ASSUME NEW h, NEW k, NEW e, e \in HalvesOf(h), e \in HalvesOf(k)
  PROVE  h = k
  BY DEF HalvesOf

\* What the worker holds while it takes a host down.
LEMMA TakingHeld ==
  ASSUME RoundInv
  PROVE  \A h : Taking(h) => Held(h)
  BY DEF RoundInv, Taking, Held

\* Timer t has these fields now, the other timers are as they were.
TimerIs(t, hosts, left, host, todo, p) ==
  /\ DOMAIN timers' = Timers
  /\ timers'[t] \in Timer(hosts, left, host, todo, p)
  /\ timers'[t].hosts = hosts /\ timers'[t].left = left /\ timers'[t].host = host
  /\ timers'[t].todo = todo /\ timers'[t].pc = p
  /\ \A u \in Timers : u # t => timers'[u] = timers[u]

\* The fields of a timer that a step changes.
LEMMA TimerFields ==
  ASSUME TypeOK, NEW t \in Timers, NEW p, NEW l, NEW d, NEW k
  PROVE  /\ timers' = [timers EXCEPT ![t].pc = p] =>
              TimerIs(t, timers[t].hosts, timers[t].left, timers[t].host, timers[t].todo, p)
         /\ timers' = [timers EXCEPT ![t].todo = d] =>
              TimerIs(t, timers[t].hosts, timers[t].left, timers[t].host, d, timers[t].pc)
         /\ timers' = [timers EXCEPT ![t].todo = d, ![t].pc = p] =>
              TimerIs(t, timers[t].hosts, timers[t].left, timers[t].host, d, p)
         /\ timers' = [timers EXCEPT ![t].left = l, ![t].todo = d, ![t].host = k, ![t].pc = p] =>
              TimerIs(t, timers[t].hosts, l, k, d, p)
<1>. DEFINE r == timers[t]
<1>1. r \in Timer(r.hosts, r.left, r.host, r.todo, r.pc) /\ DOMAIN timers = Timers
  BY DEF TypeOK, IsTimer
<1>. HIDE DEF r
<1>2. /\ [r EXCEPT !.pc = p] \in Timer(r.hosts, r.left, r.host, r.todo, p)
      /\ [r EXCEPT !.todo = d] \in Timer(r.hosts, r.left, r.host, d, r.pc)
      /\ [r EXCEPT !.todo = d, !.pc = p] \in Timer(r.hosts, r.left, r.host, d, p)
      /\ [r EXCEPT !.left = l, !.todo = d, !.host = k, !.pc = p] \in Timer(r.hosts, l, k, d, p)
  BY <1>1 DEF Timer
<1>3. \A a, b, c, e, q : \A s \in Timer(a, b, c, e, q) :
        s.hosts = a /\ s.left = b /\ s.host = c /\ s.todo = e /\ s.pc = q
  BY DEF Timer
<1>4. ASSUME NEW a, NEW b, NEW c, NEW e, NEW q, NEW s \in Timer(a, b, c, e, q),
             timers' = [timers EXCEPT ![t] = s]
      PROVE  TimerIs(t, a, b, c, e, q)
  BY <1>1, <1>3, <1>4 DEF TimerIs
<1>5. timers' = [timers EXCEPT ![t].pc = p] => TimerIs(t, r.hosts, r.left, r.host, r.todo, p)
  <2>1. [timers EXCEPT ![t].pc = p] = [timers EXCEPT ![t] = [r EXCEPT !.pc = p]]
    BY DEF r
  <2>. QED
    BY <1>2, <1>4, <2>1
<1>6. timers' = [timers EXCEPT ![t].todo = d] => TimerIs(t, r.hosts, r.left, r.host, d, r.pc)
  <2>1. [timers EXCEPT ![t].todo = d] = [timers EXCEPT ![t] = [r EXCEPT !.todo = d]]
    BY DEF r
  <2>. QED
    BY <1>2, <1>4, <2>1
<1>7. timers' = [timers EXCEPT ![t].todo = d, ![t].pc = p] =>
        TimerIs(t, r.hosts, r.left, r.host, d, p)
  <2>1. [timers EXCEPT ![t].todo = d, ![t].pc = p] =
          [timers EXCEPT ![t] = [r EXCEPT !.todo = d, !.pc = p]]
    BY <1>1 DEF r
  <2>. QED
    BY <1>2, <1>4, <2>1
<1>8. timers' = [timers EXCEPT ![t].left = l, ![t].todo = d, ![t].host = k, ![t].pc = p] =>
        TimerIs(t, r.hosts, l, k, d, p)
  <2>1. [timers EXCEPT ![t].left = l, ![t].todo = d, ![t].host = k, ![t].pc = p] =
          [timers EXCEPT ![t] = [r EXCEPT !.left = l, !.todo = d, !.host = k, !.pc = p]]
    BY <1>1 DEF r
  <2>. QED
    BY <1>2, <1>4, <2>1
<1>. QED
  BY <1>5, <1>6, <1>7, <1>8 DEF r

\* A timer is armed.
LEMMA ArmedIs ==
  ASSUME TypeOK, armed < MaxTimers, NEW S, Armed(S)
  PROVE  /\ armed + 1 \in Timers /\ armed' = armed + 1
         /\ TimerIs(armed + 1, S, S, 0, {}, "armed")
<1>1. armed \in Nat /\ armed + 1 \in Timers /\ DOMAIN timers = Timers
  BY FlapAssumption DEF TypeOK, Timers
<1>2. timers' = [timers EXCEPT ![armed + 1] =
                   [hosts |-> S, left |-> S, host |-> 0, todo |-> {}, pc |-> "armed"]]
  BY DEF Armed
<1>. QED
  BY <1>1, <1>2 DEF Armed, TimerIs, Timer

\* A step that leaves the links alone.
LEMMA SameLinks ==
  ASSUME setup' = setup, down' = down, touched' = touched
  PROVE  \A h : LinksUp(h)' <=> LinksUp(h)
  BY DEF LinksUp, HalvesOf

\* One more record.
LEMMA Counted ==
  ASSUME NEW f \in [Hosts -> Nat], NEW h
  PROVE  [f EXCEPT ![h] = @ + 1] \in [Hosts -> Nat]
<1>1. CASE h \in Hosts
  BY <1>1
<1>2. CASE h \notin Hosts
  BY <1>2
<1>. QED
  BY <1>1, <1>2

\* A timer that brings a host back has it.
LEMMA LinksPending ==
  ASSUME TypeOK, NEW t \in Timers, timers[t].pc = "links"
  PROVE  Pending(t, timers[t].host)
  BY DEF TypeOK, IsTimer, Pending

\* Loop: the worker chooses the hosts of a round.
LEMMA LoopStep ==
  ASSUME IInv, Loop, setup' = setup
  PROVE  IInv'
<1>0. /\ Strategy' = Strategy /\ Hosts' = Hosts
      /\ \A x : HalvesOf(x)' = HalvesOf(x)
      /\ timers' = timers /\ armed' = armed
      /\ \A u, x : (Pending(u, x)' <=> Pending(u, x)) /\ (Waits(u, x)' <=> Waits(u, x))
  BY SameSetup, SameTimers DEF Loop, timerVars
<1>1. TypeOK'
  BY <1>0 DEF IInv, TypeOK, Loop, timerVars
<1>2. RoundInv'
  <2>1. CASE wpc' = "stagger"
    <3>1. CASE Strategy = "simple"
      <4>. DEFINE n == Least(Cycles[1].count, Cardinality(Available(1)))
      <4>1. /\ cyc = 1 /\ cyc' = 1 /\ cdown' = {}
            /\ armed + Cycles[1].count <= MaxTimers
            /\ chosen' \in Samples(Available(1), n)
        BY <1>0, <2>1, <3>1 DEF IInv, RoundInv, Loop, Rounds
      <4>2. Cycles[1].count \in Nat /\ n \in Nat /\ n <= Cycles[1].count
        <5>1. Cycles[1].count \in Nat
          <6>1. setup \in Setups
            BY DEF IInv, TypeOK
          <6>2. /\ setup.cycles \in Seq(Descriptor(0..(setup.hosts - 1)))
                /\ setup.strategy = "simple" => Len(setup.cycles) = 1
            BY <6>1, FlapAssumption
          <6>3. Cycles[1] \in Descriptor(0..(setup.hosts - 1))
            BY <3>1, <6>2 DEF Cycles, Strategy
          <6>. QED
            BY <6>3 DEF Descriptor
        <5>2. IsFiniteSet(Hosts)
          <6>1. setup.hosts - 1 \in Int
            BY FlapAssumption DEF IInv, TypeOK
          <6>. QED
            BY <6>1, FS_Interval DEF Hosts
        <5>3. Cardinality(Available(1)) \in Nat
          BY <5>2, FS_Subset, FS_CardinalityType DEF Available
        <5>. QED
          BY <5>1, <5>3 DEF Least
      <4>. HIDE DEF n
      <4>3. /\ chosen' \in [1..n -> Available(1)]
            /\ \A i, k \in 1..n : chosen'[i] = chosen'[k] => i = k
        BY <4>1 DEF Samples
      <4>4. chosen' \in Seq(Hosts) /\ Len(chosen') = n /\ DOMAIN chosen' = 1..n
        BY <4>2, <4>3 DEF Available
      <4>5. \A i \in DOMAIN chosen' : chosen'[i] \notin active'
        BY <4>3, <4>4 DEF Available, Loop
      <4>6. armed \in Nat /\ MaxTimers \in Nat
        BY FlapAssumption DEF IInv, TypeOK
      <4>7. armed + Len(chosen') <= MaxTimers
        BY <4>1, <4>2, <4>4, <4>6
      <4>. QED
        BY <1>0, <2>1, <3>1, <4>1, <4>3, <4>4, <4>5, <4>7 DEF IInv, RoundInv, InRound
    <3>2. CASE Strategy # "simple"
      BY <1>0, <2>1, <3>2, FlapAssumption DEF IInv, TypeOK, RoundInv, InRound, Loop
    <3>. QED
      BY <3>1, <3>2
  <2>2. CASE wpc' # "stagger"
    BY <1>0, <2>2 DEF IInv, RoundInv, InRound, Loop
  <2>. QED
    BY <2>1, <2>2
<1>3. OwnerInv'
  BY <1>0 DEF IInv, RoundInv, InRound, OwnerInv, Held, Loop, timerVars
<1>4. RecordInv'
  BY <1>0 DEF IInv, TypeOK, RoundInv, OwnerInv, RecordInv, InRound, Held, Taking, Loop, timerVars
<1>5. LinksInv'
  <2>1. \A x : LinksUp(x)' <=> LinksUp(x)
    BY SameLinks DEF Loop, schedVars
  <2>. QED
    BY <1>0, <2>1, TakingHeld DEF IInv, RoundInv, OwnerInv, LinksInv, InRound, Taking, Loop,
       schedVars
<1>. QED
  BY <1>1, <1>2, <1>3, <1>4, <1>5 DEF IInv

\* Stagger: the wait between two hosts.
LEMMA StaggerStep ==
  ASSUME IInv, Stagger, setup' = setup
  PROVE  IInv'
<1>0. /\ Strategy' = Strategy /\ Hosts' = Hosts
      /\ \A x : HalvesOf(x)' = HalvesOf(x)
      /\ timers' = timers /\ armed' = armed
      /\ \A u, x : (Pending(u, x)' <=> Pending(u, x)) /\ (Waits(u, x)' <=> Waits(u, x))
  BY SameSetup, SameTimers DEF Stagger, timerVars
<1>1. TypeOK'
  BY <1>0 DEF IInv, TypeOK, Stagger, timerVars
<1>2. RoundInv'
  BY <1>0 DEF IInv, TypeOK, RoundInv, InRound, Stagger, timerVars
<1>3. OwnerInv'
  BY <1>0 DEF IInv, RoundInv, InRound, OwnerInv, Held, Stagger, timerVars
<1>4. RecordInv'
  BY <1>0 DEF IInv, TypeOK, RoundInv, OwnerInv, RecordInv, InRound, Held, Taking, Stagger,
     timerVars
<1>5. LinksInv'
  <2>1. \A x : LinksUp(x)' <=> LinksUp(x)
    BY SameLinks DEF Stagger, schedVars
  <2>. QED
    BY <1>0, <2>1, TakingHeld DEF IInv, RoundInv, OwnerInv, LinksInv, InRound, Taking, Stagger,
       schedVars
<1>. QED
  BY <1>1, <1>2, <1>3, <1>4, <1>5 DEF IInv

\* Mark: the worker marks a host.
LEMMA MarkStep ==
  ASSUME IInv, Mark, setup' = setup
  PROVE  IInv'
<1>0. /\ Strategy' = Strategy /\ Hosts' = Hosts
      /\ \A x : HalvesOf(x)' = HalvesOf(x)
      /\ timers' = timers /\ armed' = armed
      /\ \A u, x : (Pending(u, x)' <=> Pending(u, x)) /\ (Waits(u, x)' <=> Waits(u, x))
  BY SameSetup, SameTimers DEF Mark, timerVars
<1>1. TypeOK'
  BY <1>0 DEF IInv, TypeOK, Mark, timerVars
<1>2. RoundInv'
  <2>1. CASE Strategy = "simple"
    <3>1. /\ chosen \in Seq(Hosts) /\ chosen # <<>>
          /\ cyc = 1 /\ cdown = {} /\ armed + Len(chosen) <= MaxTimers
          /\ \A i, k \in DOMAIN chosen : chosen[i] = chosen[k] => i = k
          /\ \A i \in DOMAIN chosen : chosen[i] \notin active
      BY <2>1 DEF IInv, RoundInv, InRound, Mark
    <3>2. 1 \in DOMAIN chosen /\ Head(chosen) = chosen[1]
      BY <3>1
    <3>3. /\ chosen' = chosen /\ active' = active \cup {chosen[1]} /\ wpc' = "show"
          /\ cyc' = cyc /\ cdown' = cdown
      BY <2>1, <3>2 DEF Mark
    <3>. QED
      BY <1>0, <2>1, <3>1, <3>2, <3>3 DEF IInv, RoundInv, InRound
  <2>2. CASE Strategy # "simple"
    BY <1>0, <2>2 DEF IInv, RoundInv, InRound, Mark
  <2>. QED
    BY <2>1, <2>2
<1>3. OwnerInv'
  BY <1>0 DEF IInv, RoundInv, InRound, OwnerInv, Held, Mark, timerVars
<1>4. RecordInv'
  BY <1>0 DEF IInv, TypeOK, RoundInv, OwnerInv, RecordInv, InRound, Held, Taking, Mark, timerVars
<1>5. LinksInv'
  <2>1. \A x : LinksUp(x)' <=> LinksUp(x)
    BY SameLinks DEF Mark, schedVars
  <2>. QED
    BY <1>0, <2>1, TakingHeld DEF IInv, RoundInv, OwnerInv, LinksInv, InRound, Taking, Mark,
       schedVars
<1>. QED
  BY <1>1, <1>2, <1>3, <1>4, <1>5 DEF IInv

\* Show: update_state.
LEMMA ShowStep ==
  ASSUME IInv, Show, setup' = setup
  PROVE  IInv'
<1>0. /\ Strategy' = Strategy /\ Hosts' = Hosts
      /\ \A x : HalvesOf(x)' = HalvesOf(x)
      /\ timers' = timers /\ armed' = armed
      /\ \A u, x : (Pending(u, x)' <=> Pending(u, x)) /\ (Waits(u, x)' <=> Waits(u, x))
  BY SameSetup, SameTimers DEF Show, timerVars
<1>1. TypeOK'
  BY <1>0 DEF IInv, TypeOK, Show, timerVars
<1>2. RoundInv'
  BY <1>0 DEF IInv, TypeOK, RoundInv, InRound, Show, timerVars
<1>3. OwnerInv'
  BY <1>0 DEF IInv, RoundInv, InRound, OwnerInv, Held, Show, timerVars
<1>4. RecordInv'
  BY <1>0 DEF IInv, TypeOK, RoundInv, OwnerInv, RecordInv, InRound, Held, Taking, Show, timerVars
<1>5. LinksInv'
  <2>1. \A x : LinksUp(x)' <=> LinksUp(x)
    BY SameLinks DEF Show, schedVars
  <2>. QED
    BY <1>0, <2>1, TakingHeld DEF IInv, RoundInv, OwnerInv, LinksInv, InRound, Taking, Show,
       schedVars
<1>. QED
  BY <1>1, <1>2, <1>3, <1>4, <1>5 DEF IInv

\* LinkDown: a link goes down.
LEMMA LinkDownStep ==
  ASSUME IInv, LinkDown, setup' = setup
  PROVE  IInv'
<1>0. /\ Strategy' = Strategy /\ Hosts' = Hosts
      /\ \A x : HalvesOf(x)' = HalvesOf(x)
      /\ timers' = timers /\ armed' = armed
      /\ \A u, x : (Pending(u, x)' <=> Pending(u, x)) /\ (Waits(u, x)' <=> Waits(u, x))
  BY SameSetup, SameTimers DEF LinkDown, timerVars
<1>1. TypeOK'
  BY <1>0 DEF IInv, TypeOK, LinkDown, timerVars
<1>2. RoundInv'
  BY <1>0 DEF IInv, TypeOK, RoundInv, InRound, LinkDown, timerVars
<1>3. OwnerInv'
  BY <1>0 DEF IInv, RoundInv, InRound, OwnerInv, Held, LinkDown, timerVars
<1>4. RecordInv'
  BY <1>0 DEF IInv, TypeOK, RoundInv, OwnerInv, RecordInv, InRound, Held, Taking, LinkDown,
     timerVars
<1>5. LinksInv'
  <2>. DEFINE k == Head(chosen)
  <2>1. PICK e \in wtodo : down' = down \cup {e} /\ wtodo' = wtodo \ {e}
    BY DEF LinkDown
  <2>2. /\ wpc = "links" /\ wpc' = wpc /\ chosen' = chosen /\ active' = active
        /\ faulty' = faulty /\ touched' = touched
    BY DEF LinkDown, schedVars
  <2>3. wtodo \subseteq HalvesOf(k)
    BY <2>2 DEF IInv, LinksInv
  <2>4. Held(k)
    BY <2>2, TakingHeld DEF IInv, Taking
  <2>5. k \in active /\ \A t \in Timers : ~Pending(t, k)
    BY <2>4 DEF IInv, OwnerInv
  <2>. HIDE DEF k
  <2>6. \A x : x # k => e \notin HalvesOf(x)
    BY <2>1, <2>3, HalvesApart
  <2>7. \A x : x # k => (LinksUp(x)' <=> LinksUp(x))
    BY <1>0, <2>1, <2>2, <2>6 DEF LinksUp
  <2>8. \A t \in Timers : timers[t].pc = "links" => timers[t].host # k
    BY <2>5, LinksPending DEF IInv
  <2>9. wpc' \in {"show", "links"} => wtodo' \subseteq HalvesOf(Head(chosen))'
    BY <1>0, <2>1, <2>2, <2>3 DEF k
  <2>10. \A x : x \notin active' \cup faulty' => LinksUp(x)'
    BY <2>2, <2>5, <2>7 DEF IInv, LinksInv
  <2>11. \A t \in Timers : \A x : Pending(t, x)' /\ ~Waits(t, x)' /\ x \notin faulty' => LinksUp(x)'
    BY <1>0, <2>2, <2>5, <2>7 DEF IInv, LinksInv
  <2>12. \A t \in Timers : timers'[t].pc = "links" =>
           \A d \in HalvesOf(timers[t].host) \ timers'[t].todo : d \in down' => d \in touched'
    BY <1>0, <2>1, <2>2, <2>6, <2>8 DEF IInv, LinksInv
  <2>. QED
    BY <1>0, <2>9, <2>10, <2>11, <2>12 DEF LinksInv
<1>. QED
  BY <1>1, <1>2, <1>3, <1>4, <1>5 DEF IInv

\* Downed: the record of host_down.
LEMMA DownedStep ==
  ASSUME IInv, Downed, setup' = setup
  PROVE  IInv'
<1>0. /\ Strategy' = Strategy /\ Hosts' = Hosts
      /\ \A x : HalvesOf(x)' = HalvesOf(x)
      /\ timers' = timers /\ armed' = armed
      /\ \A u, x : (Pending(u, x)' <=> Pending(u, x)) /\ (Waits(u, x)' <=> Waits(u, x))
  BY SameSetup, SameTimers DEF Downed, timerVars
<1>1. TypeOK'
  BY <1>0, Counted DEF IInv, TypeOK, Downed, timerVars
<1>2. RoundInv'
  BY <1>0 DEF IInv, TypeOK, RoundInv, InRound, Downed, timerVars
<1>3. OwnerInv'
  BY <1>0 DEF IInv, RoundInv, InRound, OwnerInv, Held, Downed, timerVars
<1>4. RecordInv'
  BY <1>0 DEF IInv, TypeOK, RoundInv, OwnerInv, RecordInv, InRound, Held, Taking, Downed,
     timerVars
<1>5. LinksInv'
  <2>1. \A x : LinksUp(x)' <=> LinksUp(x)
    BY SameLinks DEF Downed, schedVars
  <2>. QED
    BY <1>0, <2>1, TakingHeld DEF IInv, RoundInv, OwnerInv, LinksInv, InRound, Taking, Downed,
       schedVars
<1>. QED
  BY <1>1, <1>2, <1>3, <1>4, <1>5 DEF IInv

\* ArmHost: a timer for the host.
LEMMA ArmHostStep ==
  ASSUME IInv, ArmHost, setup' = setup
  PROVE  IInv'
<1>. DEFINE k == Head(chosen)
            n == armed + 1
<1>0. /\ Strategy' = Strategy /\ Hosts' = Hosts
      /\ \A x : HalvesOf(x)' = HalvesOf(x)
      /\ Strategy = "simple" /\ wpc = "arm" /\ wpc' = "stagger" /\ chosen' = Tail(chosen)
      /\ cyc' = cyc /\ cdown' = cdown /\ active' = active /\ faulty' = faulty
      /\ chosen \in Seq(Hosts) /\ chosen # <<>> /\ armed + Len(chosen) <= MaxTimers
      /\ armed \in Nat /\ MaxTimers \in Nat
  BY SameSetup, FlapAssumption DEF ArmHost, IInv, TypeOK, RoundInv, InRound
<1>a. /\ Len(chosen) \in Nat \ {0} /\ Len(chosen') = Len(chosen) - 1
      /\ chosen' \in Seq(Hosts) /\ k = chosen[1] /\ 1 \in DOMAIN chosen
      /\ \A i \in DOMAIN chosen' : i + 1 \in DOMAIN chosen /\ chosen'[i] = chosen[i + 1]
                                    /\ i \in Nat \ {0}
  BY <1>0
<1>b. armed < MaxTimers
  BY <1>0, <1>a
<1>c. n \in Timers /\ armed' = n /\ TimerIs(n, {k}, {k}, 0, {}, "armed")
  BY <1>b, ArmedIs DEF IInv, ArmHost
<1>d. timers[n].pc = "unused" /\ Held(k) /\ ~Taking(k) /\ \A x : Held(x) => x = k
  BY <1>0, <1>b, <1>c DEF IInv, RoundInv, Held, Taking
<1>e. /\ \A x : ~Held(x)' /\ ~Taking(x)' /\ ~Taking(x)
      /\ \A u \in Timers : \A x : Pending(u, x)' <=> (Pending(u, x) \/ (u = n /\ x = k))
      /\ \A u \in Timers : \A x : Waits(u, x)' <=> (Waits(u, x) \/ (u = n /\ x = k))
  BY <1>0, <1>c, <1>d DEF Held, Taking, Pending, Waits, TimerIs
<1>. HIDE DEF k, n
<1>1. TypeOK'
  <2>1. \A t \in Timers : IsTimer(timers'[t])
    BY <1>c DEF IInv, TypeOK, TimerIs, IsTimer
  <2>2. armed' \in 0..MaxTimers
    BY <1>c DEF Timers
  <2>. QED
    BY <1>0, <1>c, <2>1, <2>2 DEF IInv, TypeOK, TimerIs, ArmHost
<1>2. RoundInv'
  <2>1. \A t \in Timers : t > armed' => timers'[t].pc = "unused"
    BY <1>0, <1>c DEF IInv, RoundInv, TimerIs, n, Timers
  <2>2. armed' + Len(chosen') <= MaxTimers
    BY <1>0, <1>a, <1>c DEF n
  <2>3. \A i, j \in DOMAIN chosen' : chosen'[i] = chosen'[j] => i = j
    <3>1. \A i, j \in DOMAIN chosen : chosen[i] = chosen[j] => i = j
      BY <1>0 DEF IInv, RoundInv, InRound
    <3>2. \A i, j \in DOMAIN chosen' : chosen'[i] = chosen'[j] => i + 1 = j + 1
      BY <1>a, <3>1
    <3>. QED
      BY <1>a, <3>2
  <2>4. \A i \in DOMAIN chosen' : chosen'[i] \notin active'
    <3>1. \A i \in DOMAIN chosen : chosen[i] \in active => i = 1
      BY <1>0 DEF IInv, RoundInv, InRound
    <3>2. \A i \in DOMAIN chosen' : i + 1 # 1
      BY <1>a
    <3>. QED
      BY <1>0, <1>a, <3>1, <3>2
  <2>. QED
    BY <1>0, <1>a, <2>1, <2>2, <2>3, <2>4 DEF IInv, RoundInv, InRound
<1>3. OwnerInv'
  BY <1>0, <1>c, <1>d, <1>e DEF IInv, OwnerInv, ArmHost
<1>4. RecordInv'
  BY <1>0, <1>c, <1>d, <1>e DEF IInv, OwnerInv, RecordInv, ArmHost
<1>5. LinksInv'
  <2>1. \A x : LinksUp(x)' <=> LinksUp(x)
    BY SameLinks DEF ArmHost, schedVars
  <2>. QED
    BY <1>0, <1>c, <1>e, <2>1 DEF IInv, LinksInv, TimerIs, ArmHost, schedVars
<1>. QED
  BY <1>1, <1>2, <1>3, <1>4, <1>5 DEF IInv

\* RoundEnds: a timer for the hosts of the cycle.
LEMMA RoundEndsStep ==
  ASSUME IInv, RoundEnds, setup' = setup
  PROVE  IInv'
<1>. DEFINE n == armed + 1
<1>0. /\ Strategy' = Strategy /\ Hosts' = Hosts
      /\ \A x : HalvesOf(x)' = HalvesOf(x)
      /\ wpc = "stagger" /\ wpc' = "loop" /\ chosen' = chosen /\ cdown' = cdown
      /\ Strategy = "simple" => cyc' = cyc
      /\ active' = active /\ faulty' = faulty /\ downs' = downs /\ ups' = ups
      /\ \A x : ~Held(x)' /\ ~Taking(x)' /\ ~Taking(x)
  BY SameSetup DEF RoundEnds, Held, Taking
<1>a. CASE Strategy = "simple" \/ cdown = {}
  <2>0. timers' = timers /\ armed' = armed
    BY <1>a DEF RoundEnds, timerVars
  <2>a. /\ \A x : ~Held(x)
        /\ \A u, x : (Pending(u, x)' <=> Pending(u, x)) /\ (Waits(u, x)' <=> Waits(u, x))
    BY <1>a, <1>0, <2>0, SameTimers DEF Held
  <2>1. TypeOK'
    BY <1>0, <2>0 DEF IInv, TypeOK, RoundEnds
  <2>2. RoundInv'
    BY <1>0, <2>0 DEF IInv, RoundInv, InRound
  <2>3. OwnerInv'
    BY <1>0, <2>a DEF IInv, OwnerInv, RoundEnds
  <2>4. RecordInv'
    BY <1>0, <2>a DEF IInv, RecordInv
  <2>5. LinksInv'
    <3>1. \A x : LinksUp(x)' <=> LinksUp(x)
      BY SameLinks DEF RoundEnds, schedVars
    <3>. QED
      BY <1>0, <2>0, <2>a, <3>1 DEF IInv, LinksInv, RoundEnds, schedVars
  <2>. QED
    BY <2>1, <2>2, <2>3, <2>4, <2>5 DEF IInv
<1>b. CASE Strategy # "simple" /\ cdown # {}
  <2>0. armed < MaxTimers /\ armed \in Nat /\ MaxTimers \in Nat
    BY <1>b, <1>0, FlapAssumption DEF IInv, TypeOK, RoundInv, InRound
  <2>a. n \in Timers /\ armed' = n /\ TimerIs(n, cdown, cdown, 0, {}, "armed")
    BY <1>b, <2>0, ArmedIs DEF IInv, RoundEnds
  <2>b. timers[n].pc = "unused" /\ \A x : Held(x) <=> x \in cdown
    BY <1>0, <1>b, <2>0, <2>a DEF IInv, RoundInv, Held
  <2>c. /\ \A u \in Timers : \A x : Pending(u, x)' <=> (Pending(u, x) \/ (u = n /\ x \in cdown))
        /\ \A u \in Timers : \A x : Waits(u, x)' <=> (Waits(u, x) \/ (u = n /\ x \in cdown))
    BY <2>a, <2>b DEF Pending, Waits, TimerIs
  <2>. HIDE DEF n
  <2>1. TypeOK'
    <3>1. \A t \in Timers : IsTimer(timers'[t])
      BY <2>a DEF IInv, TypeOK, TimerIs, IsTimer
    <3>2. armed' \in 0..MaxTimers
      BY <2>a DEF Timers
    <3>. QED
      BY <1>0, <2>a, <3>1, <3>2 DEF IInv, TypeOK, TimerIs, RoundEnds
  <2>2. RoundInv'
    <3>1. \A t \in Timers : t > armed' => timers'[t].pc = "unused"
      BY <2>0, <2>a DEF IInv, RoundInv, TimerIs, n, Timers
    <3>. QED
      BY <1>0, <1>b, <3>1 DEF IInv, RoundInv, InRound
  <2>3. OwnerInv'
    BY <1>0, <2>a, <2>b, <2>c DEF IInv, OwnerInv, RoundEnds
  <2>4. RecordInv'
    BY <1>0, <2>a, <2>b, <2>c DEF IInv, OwnerInv, RecordInv
  <2>5. LinksInv'
    <3>1. \A x : LinksUp(x)' <=> LinksUp(x)
      BY SameLinks DEF RoundEnds, schedVars
    <3>. QED
      BY <1>0, <2>a, <2>c, <3>1 DEF IInv, LinksInv, TimerIs, RoundEnds, schedVars
  <2>. QED
    BY <2>1, <2>2, <2>3, <2>4, <2>5 DEF IInv
<1>. QED
  BY <1>a, <1>b

\* Fire: the duration of a timer is over.
LEMMA FireStep ==
  ASSUME IInv, NEW t \in Timers, Fire(t), setup' = setup
  PROVE  IInv'
<1>0. /\ Strategy' = Strategy /\ Hosts' = Hosts
      /\ \A x : HalvesOf(x)' = HalvesOf(x)
      /\ wpc' = wpc /\ cyc' = cyc /\ chosen' = chosen /\ cdown' = cdown /\ wtodo' = wtodo
      /\ armed' = armed
      /\ \A x : (Held(x)' <=> Held(x)) /\ (Taking(x)' <=> Taking(x))
      /\ TimerIs(t, timers[t].hosts, timers[t].left, timers[t].host, timers[t].todo,
                 IF stop THEN "over" ELSE "up")
  BY SameSetup, SameWorker, TimerFields DEF Fire, IInv, workerVars
<1>1. TypeOK'
  BY <1>0 DEF IInv, TypeOK, TimerIs, IsTimer, Fire
<1>2. RoundInv'
  BY <1>0 DEF IInv, TypeOK, RoundInv, InRound, TimerIs, Fire
<1>3. OwnerInv'
  BY <1>0 DEF IInv, TypeOK, IsTimer, OwnerInv, Pending, TimerIs, Fire
<1>4. RecordInv'
  BY <1>0 DEF IInv, TypeOK, IsTimer, OwnerInv, RecordInv, Pending, Waits, TimerIs, Fire
<1>5. LinksInv'
  <2>1. \A x : LinksUp(x)' <=> LinksUp(x)
    BY SameLinks DEF Fire, schedVars
  <2>. QED
    BY <1>0, <2>1 DEF IInv, TypeOK, IsTimer, OwnerInv, LinksInv, Pending, Waits, TimerIs,
                      Fire, schedVars
<1>. QED
  BY <1>1, <1>2, <1>3, <1>4, <1>5 DEF IInv

\* UpBegins: the next host of a timer.
LEMMA UpBeginsStep ==
  ASSUME IInv, NEW t \in Timers, NEW h \in Hosts, UpBegins(t, h), setup' = setup
  PROVE  IInv'
<1>0. /\ Strategy' = Strategy /\ Hosts' = Hosts
      /\ \A x : HalvesOf(x)' = HalvesOf(x)
      /\ wpc' = wpc /\ cyc' = cyc /\ chosen' = chosen /\ cdown' = cdown /\ wtodo' = wtodo
      /\ armed' = armed
      /\ \A x : (Held(x)' <=> Held(x)) /\ (Taking(x)' <=> Taking(x))
      /\ TimerIs(t, timers[t].hosts, timers[t].left \ {h}, h, HalvesOf(h), "links")
  BY ZenonT(40), SameSetup, SameWorker, TimerFields DEF UpBegins, IInv, workerVars
<1>1. TypeOK'
  BY <1>0 DEF IInv, TypeOK, TimerIs, IsTimer, UpBegins
<1>2. RoundInv'
  BY SMTT(30), <1>0 DEF IInv, TypeOK, RoundInv, InRound, TimerIs, UpBegins
<1>3. OwnerInv'
  BY <1>0 DEF IInv, TypeOK, IsTimer, OwnerInv, Pending, TimerIs, UpBegins
<1>4. RecordInv'
  BY SMTT(30), <1>0 DEF IInv, TypeOK, IsTimer, OwnerInv, RecordInv, Pending, Waits, TimerIs, UpBegins
<1>5. LinksInv'
  <2>1. \A x : LinksUp(x)' <=> LinksUp(x)
    BY SameLinks DEF UpBegins, schedVars
  <2>. QED
    BY <1>0, <2>1 DEF IInv, TypeOK, IsTimer, OwnerInv, LinksInv, Pending, Waits, TimerIs,
                      UpBegins, schedVars
<1>. QED
  BY <1>1, <1>2, <1>3, <1>4, <1>5 DEF IInv

\* LinkUp: a link comes up.
LEMMA LinkUpStep ==
  ASSUME IInv, NEW t \in Timers, LinkUp(t), setup' = setup
  PROVE  IInv'
<1>0. /\ Strategy' = Strategy /\ Hosts' = Hosts
      /\ \A x : HalvesOf(x)' = HalvesOf(x)
      /\ wpc' = wpc /\ cyc' = cyc /\ chosen' = chosen /\ cdown' = cdown /\ wtodo' = wtodo
      /\ armed' = armed
      /\ \A x : (Held(x)' <=> Held(x)) /\ (Taking(x)' <=> Taking(x))
      /\ \E e \in timers[t].todo :
           /\ down' = down \ {e}
           /\ TimerIs(t, timers[t].hosts, timers[t].left, timers[t].host,
                      timers[t].todo \ {e}, timers[t].pc)
  BY SameSetup, SameWorker, TimerFields DEF LinkUp, IInv, workerVars
<1>1. TypeOK'
  <2>1. PICK e \in timers[t].todo :
          TimerIs(t, timers[t].hosts, timers[t].left, timers[t].host,
                  timers[t].todo \ {e}, timers[t].pc)
    BY <1>0
  <2>2. \A u \in Timers : IsTimer(timers'[u])
    BY <2>1 DEF IInv, TypeOK, TimerIs, IsTimer
  <2>. QED
    BY <1>0, <2>1, <2>2 DEF IInv, TypeOK, TimerIs, LinkUp
<1>2. RoundInv'
  BY <1>0 DEF IInv, TypeOK, RoundInv, InRound, TimerIs, LinkUp
<1>3. OwnerInv'
  BY <1>0 DEF IInv, TypeOK, IsTimer, OwnerInv, Pending, TimerIs, LinkUp
<1>4. RecordInv'
  BY <1>0 DEF IInv, TypeOK, IsTimer, OwnerInv, RecordInv, Pending, Waits, TimerIs, LinkUp
<1>5. LinksInv'
  <2>1. PICK e \in timers[t].todo :
          /\ down' = down \ {e}
          /\ TimerIs(t, timers[t].hosts, timers[t].left, timers[t].host,
                     timers[t].todo \ {e}, timers[t].pc)
    BY <1>0
  <2>2. active' = active /\ faulty' = faulty /\ touched' = touched
    BY DEF LinkUp, schedVars
  <2>3. \A x : LinksUp(x) => LinksUp(x)'
    BY <1>0, <2>1, <2>2 DEF LinksUp
  <2>4. \A u \in Timers : timers'[u].pc = timers[u].pc /\ timers'[u].hosts = timers[u].hosts
          /\ timers'[u].left = timers[u].left /\ timers'[u].host = timers[u].host
    BY <2>1 DEF TimerIs
  <2>5. \A u \in Timers : \A x : (Pending(u, x)' <=> Pending(u, x)) /\ (Waits(u, x)' <=> Waits(u, x))
    BY <2>4 DEF Pending, Waits
  <2>6. \A u \in Timers : timers'[u].pc = "links" =>
          \A d \in HalvesOf(timers'[u].host) \ timers'[u].todo : d \in down' => d \in touched'
    BY <2>1, <2>2, <2>4 DEF IInv, LinksInv, TimerIs
  <2>. QED
    BY <1>0, <2>2, <2>3, <2>5, <2>6 DEF IInv, LinksInv
<1>. QED
  BY <1>1, <1>2, <1>3, <1>4, <1>5 DEF IInv

\* Upped: the record of host_up.
LEMMA UppedStep ==
  ASSUME IInv, NEW t \in Timers, Upped(t), setup' = setup
  PROVE  IInv'
<1>0. /\ Strategy' = Strategy /\ Hosts' = Hosts
      /\ \A x : HalvesOf(x)' = HalvesOf(x)
      /\ wpc' = wpc /\ cyc' = cyc /\ chosen' = chosen /\ cdown' = cdown /\ wtodo' = wtodo
      /\ armed' = armed
      /\ \A x : (Held(x)' <=> Held(x)) /\ (Taking(x)' <=> Taking(x))
      /\ TimerIs(t, timers[t].hosts, timers[t].left, timers[t].host, {}, "up")
  BY SameSetup, SameWorker, TimerFields DEF Upped, IInv, workerVars
<1>1. TypeOK'
  BY <1>0, Counted DEF IInv, TypeOK, TimerIs, IsTimer, Upped
<1>2. RoundInv'
  BY <1>0 DEF IInv, TypeOK, RoundInv, InRound, TimerIs, Upped
<1>3. OwnerInv'
  BY <1>0 DEF IInv, TypeOK, IsTimer, OwnerInv, Pending, TimerIs, Upped
<1>4. RecordInv'
  BY <1>0 DEF IInv, TypeOK, IsTimer, OwnerInv, RecordInv, Pending, Waits, TimerIs, Upped
<1>5. LinksInv'
  <2>. DEFINE k == timers[t].host
  <2>1. \A x : LinksUp(x)' <=> LinksUp(x)
    BY SameLinks DEF Upped, schedVars
  <2>2. /\ active' = active /\ touched' = touched /\ down' = down /\ timers[t].pc = "links"
        /\ faulty' = faulty \ {k} \/ faulty' = faulty \cup {k}
        /\ k \notin faulty' => timers[t].todo = {}
    BY DEF Upped, schedVars
  <2>3. Pending(t, k)
    BY <2>2, LinksPending DEF IInv
  <2>4. k \in active /\ \A u \in Timers : Pending(u, k) => u = t
    BY <2>3 DEF IInv, OwnerInv
  <2>5. k \notin faulty' => LinksUp(k)
    BY <2>2 DEF IInv, LinksInv, LinksUp
  <2>6. \A u \in Timers : \A x : Pending(u, x)' <=> Pending(u, x)
    BY <1>0, <2>2 DEF Pending, TimerIs
  <2>7. \A u \in Timers : \A x : x # k /\ ~Waits(u, x)' => ~Waits(u, x)
    BY <1>0, <2>2, <2>6 DEF Waits, TimerIs
  <2>. HIDE DEF k
  <2>8. \A x : x # k => (x \in faulty' <=> x \in faulty)
    BY <2>2
  <2>9. \A x : x \notin active' \cup faulty' => LinksUp(x)'
    BY <2>1, <2>2, <2>4, <2>8 DEF IInv, LinksInv
  <2>10. \A u \in Timers : \A x : Pending(u, x)' /\ ~Waits(u, x)' /\ x \notin faulty' => LinksUp(x)'
    BY <2>1, <2>5, <2>6, <2>7, <2>8 DEF IInv, LinksInv
  <2>11. \A u \in Timers : timers'[u].pc = "links" => timers'[u] = timers[u]
    BY <1>0 DEF TimerIs
  <2>12. \A u \in Timers : timers'[u].pc = "links" =>
           \A d \in HalvesOf(timers'[u].host) \ timers'[u].todo : d \in down' => d \in touched'
    BY <2>2, <2>11 DEF IInv, LinksInv
  <2>. QED
    BY <1>0, <2>9, <2>10, <2>12 DEF IInv, LinksInv
<1>. QED
  BY <1>1, <1>2, <1>3, <1>4, <1>5 DEF IInv

\* Release: the hosts of a timer are no longer marked.
LEMMA ReleaseStep ==
  ASSUME IInv, NEW t \in Timers, Release(t), setup' = setup
  PROVE  IInv'
<1>0. /\ Strategy' = Strategy /\ Hosts' = Hosts
      /\ \A x : HalvesOf(x)' = HalvesOf(x)
      /\ wpc' = wpc /\ cyc' = cyc /\ chosen' = chosen /\ cdown' = cdown /\ wtodo' = wtodo
      /\ armed' = armed
      /\ \A x : (Held(x)' <=> Held(x)) /\ (Taking(x)' <=> Taking(x))
      /\ TimerIs(t, timers[t].hosts, timers[t].left, timers[t].host, timers[t].todo,
                 IF Strategy = "simple" THEN "show" ELSE "over")
  BY SameSetup, SameWorker, TimerFields DEF Release, IInv, workerVars
<1>1. TypeOK'
  BY ZenonT(40), <1>0 DEF IInv, TypeOK, TimerIs, IsTimer, Release
<1>2. RoundInv'
  BY SMTT(30), <1>0 DEF IInv, TypeOK, RoundInv, InRound, TimerIs, Release
<1>3. OwnerInv'
  BY <1>0 DEF IInv, TypeOK, IsTimer, OwnerInv, Pending, TimerIs, Release
<1>4. RecordInv'
  BY <1>0 DEF IInv, TypeOK, IsTimer, OwnerInv, RecordInv, Pending, Waits, TimerIs, Release
<1>5. LinksInv'
  <2>1. \A x : LinksUp(x)' <=> LinksUp(x)
    BY SameLinks DEF Release, schedVars
  <2>. QED
    BY <1>0, <2>1 DEF IInv, TypeOK, IsTimer, OwnerInv, LinksInv, Pending, Waits, TimerIs,
                      Release, schedVars
<1>. QED
  BY SMTT(30), <1>1, <1>2, <1>3, <1>4, <1>5 DEF IInv

\* ShowUp: update_state after a timer.
LEMMA ShowUpStep ==
  ASSUME IInv, NEW t \in Timers, ShowUp(t), setup' = setup
  PROVE  IInv'
<1>0. /\ Strategy' = Strategy /\ Hosts' = Hosts
      /\ \A x : HalvesOf(x)' = HalvesOf(x)
      /\ wpc' = wpc /\ cyc' = cyc /\ chosen' = chosen /\ cdown' = cdown /\ wtodo' = wtodo
      /\ armed' = armed
      /\ \A x : (Held(x)' <=> Held(x)) /\ (Taking(x)' <=> Taking(x))
      /\ TimerIs(t, timers[t].hosts, timers[t].left, timers[t].host, timers[t].todo, "over")
  BY SameSetup, SameWorker, TimerFields DEF ShowUp, IInv, workerVars
<1>1. TypeOK'
  BY <1>0 DEF IInv, TypeOK, TimerIs, IsTimer, ShowUp
<1>2. RoundInv'
  BY <1>0 DEF IInv, TypeOK, RoundInv, InRound, TimerIs, ShowUp
<1>3. OwnerInv'
  BY <1>0 DEF IInv, TypeOK, IsTimer, OwnerInv, Pending, TimerIs, ShowUp
<1>4. RecordInv'
  BY <1>0 DEF IInv, TypeOK, IsTimer, OwnerInv, RecordInv, Pending, Waits, TimerIs, ShowUp
<1>5. LinksInv'
  <2>1. \A x : LinksUp(x)' <=> LinksUp(x)
    BY SameLinks DEF ShowUp, schedVars
  <2>. QED
    BY <1>0, <2>1 DEF IInv, TypeOK, IsTimer, OwnerInv, LinksInv, Pending, Waits, TimerIs,
                      ShowUp, schedVars
<1>. QED
  BY <1>1, <1>2, <1>3, <1>4, <1>5 DEF IInv

\* LinkEvent: the scheduler sets half a link.
LEMMA LinkEventStep ==
  ASSUME IInv, LinkEvent, setup' = setup
  PROVE  IInv'
<1>0. /\ Strategy' = Strategy /\ Hosts' = Hosts
      /\ \A x : HalvesOf(x)' = HalvesOf(x)
      /\ timers' = timers /\ armed' = armed
      /\ \A u, x : (Pending(u, x)' <=> Pending(u, x)) /\ (Waits(u, x)' <=> Waits(u, x))
      /\ wpc' = wpc /\ cyc' = cyc /\ chosen' = chosen /\ cdown' = cdown /\ wtodo' = wtodo
      /\ \A x : (Held(x)' <=> Held(x)) /\ (Taking(x)' <=> Taking(x))
  BY SameSetup, SameTimers, SameWorker DEF LinkEvent, timerVars, workerVars
<1>1. TypeOK'
  BY <1>0 DEF IInv, TypeOK, LinkEvent, schedVars, workerVars, timerVars
<1>2. RoundInv'
  BY <1>0 DEF IInv, TypeOK, RoundInv, InRound, LinkEvent, schedVars, workerVars, timerVars
<1>3. OwnerInv'
  BY <1>0 DEF IInv, OwnerInv, LinkEvent, schedVars, workerVars, timerVars
<1>4. RecordInv'
  BY <1>0 DEF IInv, RecordInv, LinkEvent, schedVars, workerVars, timerVars
<1>5. LinksInv'
  <2>1. PICK e : /\ down' = down \cup {e} \/ down' = down \ {e}
                 /\ touched' = touched \cup {e}
    BY DEF LinkEvent, SetHalf
  <2>2. active' = active /\ faulty' = faulty
    BY DEF LinkEvent
  <2>3. \A x : LinksUp(x) => LinksUp(x)'
    BY <1>0, <2>1 DEF LinksUp
  <2>4. \A t \in Timers : timers'[t].pc = "links" =>
          \A d \in HalvesOf(timers'[t].host) \ timers'[t].todo : d \in down' => d \in touched'
    BY <1>0, <2>1 DEF IInv, LinksInv
  <2>. QED
    BY <1>0, <2>2, <2>3, <2>4 DEF IInv, LinksInv
<1>. QED
  BY <1>1, <1>2, <1>3, <1>4, <1>5 DEF IInv

\* LinkEventRaises: the event fails.
LEMMA LinkEventRaisesStep ==
  ASSUME IInv, LinkEventRaises, setup' = setup
  PROVE  IInv'
<1>0. /\ Strategy' = Strategy /\ Hosts' = Hosts
      /\ \A x : HalvesOf(x)' = HalvesOf(x)
      /\ timers' = timers /\ armed' = armed
      /\ \A u, x : (Pending(u, x)' <=> Pending(u, x)) /\ (Waits(u, x)' <=> Waits(u, x))
      /\ wpc' = wpc /\ cyc' = cyc /\ chosen' = chosen /\ cdown' = cdown /\ wtodo' = wtodo
      /\ \A x : (Held(x)' <=> Held(x)) /\ (Taking(x)' <=> Taking(x))
  BY SameSetup, SameTimers, SameWorker DEF LinkEventRaises, timerVars, workerVars
<1>1. TypeOK'
  BY <1>0 DEF IInv, TypeOK, LinkEventRaises, schedVars, workerVars, timerVars
<1>2. RoundInv'
  BY <1>0 DEF IInv, TypeOK, RoundInv, InRound, LinkEventRaises, schedVars, workerVars, timerVars
<1>3. OwnerInv'
  BY <1>0 DEF IInv, OwnerInv, LinkEventRaises, schedVars, workerVars, timerVars
<1>4. RecordInv'
  BY <1>0 DEF IInv, RecordInv, LinkEventRaises, schedVars, workerVars, timerVars
<1>5. LinksInv'
  BY <1>0 DEF IInv, LinksInv, LinksUp, LinkEventRaises, schedVars, workerVars, timerVars
<1>. QED
  BY <1>1, <1>2, <1>3, <1>4, <1>5 DEF IInv

\* FibDel: the scheduler takes a route away.
LEMMA FibDelStep ==
  ASSUME IInv, FibDel, setup' = setup
  PROVE  IInv'
<1>0. /\ Strategy' = Strategy /\ Hosts' = Hosts
      /\ \A x : HalvesOf(x)' = HalvesOf(x)
      /\ timers' = timers /\ armed' = armed
      /\ \A u, x : (Pending(u, x)' <=> Pending(u, x)) /\ (Waits(u, x)' <=> Waits(u, x))
      /\ wpc' = wpc /\ cyc' = cyc /\ chosen' = chosen /\ cdown' = cdown /\ wtodo' = wtodo
      /\ \A x : (Held(x)' <=> Held(x)) /\ (Taking(x)' <=> Taking(x))
  BY SameSetup, SameTimers, SameWorker DEF FibDel, timerVars, workerVars
<1>1. TypeOK'
  BY <1>0 DEF IInv, TypeOK, FibDel, schedVars, workerVars, timerVars
<1>2. RoundInv'
  BY <1>0 DEF IInv, TypeOK, RoundInv, InRound, FibDel, schedVars, workerVars, timerVars
<1>3. OwnerInv'
  BY <1>0 DEF IInv, OwnerInv, FibDel, schedVars, workerVars, timerVars
<1>4. RecordInv'
  BY <1>0 DEF IInv, RecordInv, FibDel, schedVars, workerVars, timerVars
<1>5. LinksInv'
  BY <1>0 DEF IInv, LinksInv, LinksUp, FibDel, schedVars, workerVars, timerVars
<1>. QED
  BY <1>1, <1>2, <1>3, <1>4, <1>5 DEF IInv

\* Stop: stop_event.
LEMMA StopStep ==
  ASSUME IInv, Stop, setup' = setup
  PROVE  IInv'
<1>0. /\ Strategy' = Strategy /\ Hosts' = Hosts
      /\ \A x : HalvesOf(x)' = HalvesOf(x)
      /\ timers' = timers /\ armed' = armed
      /\ \A u, x : (Pending(u, x)' <=> Pending(u, x)) /\ (Waits(u, x)' <=> Waits(u, x))
      /\ wpc' = wpc /\ cyc' = cyc /\ chosen' = chosen /\ cdown' = cdown /\ wtodo' = wtodo
      /\ \A x : (Held(x)' <=> Held(x)) /\ (Taking(x)' <=> Taking(x))
  BY SameSetup, SameTimers, SameWorker DEF Stop, timerVars, workerVars
<1>1. TypeOK'
  BY <1>0 DEF IInv, TypeOK, Stop, schedVars, workerVars, timerVars
<1>2. RoundInv'
  BY <1>0 DEF IInv, TypeOK, RoundInv, InRound, Stop, schedVars, workerVars, timerVars
<1>3. OwnerInv'
  BY <1>0 DEF IInv, OwnerInv, Stop, schedVars, workerVars, timerVars
<1>4. RecordInv'
  BY <1>0 DEF IInv, RecordInv, Stop, schedVars, workerVars, timerVars
<1>5. LinksInv'
  BY <1>0 DEF IInv, LinksInv, LinksUp, Stop, schedVars, workerVars, timerVars
<1>. QED
  BY <1>1, <1>2, <1>3, <1>4, <1>5 DEF IInv

-----------------------------------------------------------------------------
(* The theorems. *)

\* The invariant holds before the first step.
LEMMA InitHolds ==
  ASSUME Init
  PROVE  IInv
<1>0. /\ wpc = "loop" /\ cdown = {} /\ active = {} /\ down = {} /\ armed = 0 /\ cyc = 1
      /\ timers = [t \in Timers |-> Idle] /\ MaxTimers \in Nat
  BY FlapAssumption DEF Init
<1>1. \A t \in Timers : timers[t].pc = "unused" /\ \A h : ~Pending(t, h)
  BY <1>0 DEF Idle, Pending
<1>2. Idle \in Timer({}, {}, 0, {}, "unused")
  BY DEF Idle, Timer
<1>3. TypeOK
  <2>1. IsTimer(Idle)
    BY <1>2 DEF IsTimer, Idle
  <2>2. DOMAIN timers = Timers /\ \A t \in Timers : IsTimer(timers[t])
    BY <1>0, <2>1
  <2>3. downs \in [Hosts -> Nat] /\ ups \in [Hosts -> Nat]
    BY DEF Init
  <2>4. armed \in 0..MaxTimers
    BY <1>0
  <2>. QED
    BY <1>0, <2>2, <2>3, <2>4 DEF Init, TypeOK
<1>4. RoundInv
  BY <1>0, <1>1 DEF RoundInv, InRound
<1>5. OwnerInv
  BY <1>0, <1>1 DEF OwnerInv, Held
<1>6. RecordInv
  BY <1>0, <1>1 DEF Init, RecordInv, Held, Taking
<1>7. LinksInv
  BY <1>0, <1>1 DEF LinksInv, LinksUp
<1>. QED
  BY <1>3, <1>4, <1>5, <1>6, <1>7 DEF IInv

\* Every step of every thread preserves the invariant.
LEMMA NextPreserves ==
  ASSUME IInv, [Next]_vars
  PROVE  IInv'
<1>1. CASE Worker
  BY <1>1, LoopStep, StaggerStep, MarkStep, ShowStep, LinkDownStep, DownedStep,
     ArmHostStep, RoundEndsStep DEF Worker
<1>2. CASE Others
  BY <1>2, LinkEventStep, LinkEventRaisesStep, FibDelStep, StopStep DEF Others
<1>3. ASSUME NEW t \in Timers, TimerThread(t)
      PROVE  IInv'
  BY <1>3, FireStep, UpBeginsStep, LinkUpStep, UppedStep, ReleaseStep, ShowUpStep
     DEF TimerThread
<1>4. CASE UNCHANGED vars
  <2>0. /\ setup' = setup /\ stop' = stop /\ timers' = timers /\ armed' = armed
        /\ wpc' = wpc /\ cyc' = cyc /\ chosen' = chosen /\ cdown' = cdown /\ wtodo' = wtodo
        /\ active' = active /\ down' = down /\ touched' = touched /\ faulty' = faulty
        /\ downs' = downs /\ ups' = ups
    BY <1>4 DEF vars, workerVars, timerVars, schedVars
  <2>1. /\ Strategy' = Strategy /\ Hosts' = Hosts
        /\ \A h : HalvesOf(h)' = HalvesOf(h)
        /\ \A t, h : (Pending(t, h)' <=> Pending(t, h)) /\ (Waits(t, h)' <=> Waits(t, h))
        /\ \A h : (Held(h)' <=> Held(h)) /\ (Taking(h)' <=> Taking(h))
        /\ \A h : LinksUp(h)' <=> LinksUp(h)
    BY <2>0, SameSetup, SameTimers, SameWorker, SameLinks
  <2>2. TypeOK' /\ RoundInv'
    BY <2>0, <2>1 DEF IInv, TypeOK, RoundInv, InRound
  <2>3. OwnerInv' /\ RecordInv'
    BY <2>0, <2>1 DEF IInv, OwnerInv, RecordInv
  <2>4. LinksInv'
    BY <2>0, <2>1 DEF IInv, LinksInv
  <2>. QED
    BY <2>2, <2>3, <2>4 DEF IInv
<1>. QED
  BY <1>1, <1>2, <1>3, <1>4 DEF Next

\* The inductive invariant holds in every reachable state, for every setup: any
\* number of hosts, links and cycles, any strategy, and any events of the
\* scheduler between the steps of the worker and the timers.
THEOREM InvariantHolds == Spec => []IInv
<1>1. Init => IInv
  BY InitHolds
<1>2. IInv /\ [Next]_vars => IInv'
  BY NextPreserves
<1>. QED
  BY <1>1, <1>2, PTL DEF Spec

\* The worker, the timers and the counts of records keep their types.
THEOREM TypeCorrect == Spec => []TypeOK
<1>1. IInv => TypeOK
  BY DEF IInv
<1>. QED
  BY <1>1, InvariantHolds, PTL

\* The rounds of the worker and the timers they leave never meet on a host
\* (periodic_host_flap and _start_cycle_mode): its host_down and host_up records
\* alternate, and until stop_event exactly one party has it to bring back.
THEOREM RoundsTheorem == Spec => []RoundsOwned
<1>1. ASSUME IInv
      PROVE  Alternate
  BY <1>1 DEF IInv, RecordInv, Alternate
<1>2. ASSUME IInv, ~stop, NEW h \in active
      PROVE  LET owners == {t \in Timers : Pending(t, h)}
             IN  IF Held(h) THEN owners = {} ELSE Cardinality(owners) = 1
  <2>. DEFINE owners == {t \in Timers : Pending(t, h)}
  <2>1. Held(h) => owners = {}
    BY <1>2 DEF IInv, OwnerInv
  <2>2. ASSUME ~Held(h)
        PROVE  Cardinality(owners) = 1
    <3>1. PICK t \in Timers : Pending(t, h)
      BY <1>2, <2>2 DEF IInv, OwnerInv
    <3>2. owners = {t}
      BY <1>2, <3>1 DEF IInv, OwnerInv
    <3>. QED
      BY <3>2, FS_Singleton
  <2>. QED
    BY <2>1, <2>2
<1>3. IInv => OneOwner
  BY <1>2 DEF OneOwner, Held
<1>4. IInv => RoundsOwned
  BY <1>1, <1>3 DEF RoundsOwned
<1>. QED
  BY <1>4, InvariantHolds, PTL

\* A host that is not marked down has all its links up, whatever order the
\* worker, the timers and the scheduler took in set_node_links_state and
\* set_link_state, unless an event set the link or the last change failed.
THEOREM LinksTheorem == Spec => []LinksFollow
<1>1. IInv => LinksFollow
  BY DEF IInv, LinksInv, LinksUp, LinksFollow
<1>. QED
  BY <1>1, InvariantHolds, PTL
=============================================================================
