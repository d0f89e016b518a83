----------------------------- MODULE HostFlap ------------------------------
(***************************************************************************)
(* Host flapping (src/src/runtime/failure_manager.py): a worker thread     *)
(* takes hosts down and arms a timer thread that brings them back.         *)
(*                                                                         *)
(* "simple" is periodic_host_flap: rounds without end, one timer per host. *)
(* The other strategies are _start_cycle_mode: each cycle once, one timer  *)
(* per cycle, the set of down hosts under a lock.  Meanwhile the event     *)
(* scheduler's thread executes link_down, link_up and fib_del events.      *)
(*                                                                         *)
(* A mesh link <<a, b>> is two Mininet links, host a - switch and switch - *)
(* host b.  A "half" <<h, l>> is the one at host h.                        *)
(*                                                                         *)
(* Intervals, durations and staggers are waits of any length.              *)
(***************************************************************************)
EXTENDS Naturals, Sequences, FiniteSets, SequencesExt

CONSTANTS
  Setups,     \* the setups to start from
  MaxTimers   \* bound: timers armed in a behaviour

\* "exclude" already holds the publishers unless allow_publishers, "on" says that
\* interval and duration are positive, "manual" that a target list is given.
Descriptor(hosts) == [on : BOOLEAN, count : Nat, exclude : SUBSET hosts,
                      manual : BOOLEAN, target : Seq(hosts)]

\* A setup: the number of hosts, mesh_links, the strategy with its cycles (for
\* "simple" the one descriptor), and the scheduler's link and route events.
ASSUME FlapAssumption ==
  /\ \A s \in Setups :
       LET hosts == 0..(s.hosts - 1) IN
       /\ s.hosts \in Nat \ {0}
       /\ s.links \subseteq {l \in hosts \X hosts : l[1] < l[2]}
       /\ s.strategy \in {"simple", "cyclic", "random", "manual"}
       /\ s.cycles \in Seq(Descriptor(hosts))
       /\ s.strategy = "simple" => Len(s.cycles) = 1 /\ s.cycles[1].on
       /\ \A i \in DOMAIN s.events :
            LET e == s.events[i] IN
            \/ e.type \in {"link_down", "link_up"} /\ e.link \in s.links
            \/ e.type = "fib_del" /\ e.host \in hosts
  /\ MaxTimers \in Nat

VARIABLE setup

Hosts == 0..(setup.hosts - 1)
Strategy == setup.strategy
Cycles == setup.cycles
Events == setup.events

Timers == 1..MaxTimers
HalvesOf(h) == {<<h, l>> : l \in {k \in setup.links : h \in {k[1], k[2]}}}

VARIABLES
  stop,      \* stop_event
  wpc,       \* the worker thread
  cyc,       \* cycle_idx + 1
  chosen,    \* hosts of this round still to take down; the first is in hand
  cdown,     \* cycle_down
  wtodo,     \* halves set_node_links_state has still to take down
  active,    \* active_down or shared_down
  shown,     \* FlapState._down_hosts
  timers,    \* the timer threads
  armed,     \* timers armed so far: 1..armed
  down,      \* halves that are down
  routes,    \* hosts whose dynamic FIB routes are installed
  next,      \* the scheduler's next event
  second,    \* set_link_state has set the first half of that event's link
  downs,     \* host_down records per host
  ups,       \* host_up records per host
  faulty,    \* history: hosts whose last change of links failed half way
  touched    \* history: halves that a link event has set

workerVars == <<wpc, cyc, chosen, cdown, wtodo>>
timerVars == <<timers, armed>>
schedVars == <<next, second, touched>>
vars == <<setup, stop, workerVars, active, shown, timerVars, down, routes, schedVars,
          downs, ups, faulty>>

Idle == [hosts |-> {}, left |-> {}, host |-> 0, todo |-> {}, pc |-> "unused"]

Init ==
  /\ setup \in Setups
  /\ stop = FALSE
  /\ wpc = "loop" /\ cyc = 1 /\ chosen = <<>> /\ cdown = {} /\ wtodo = {}
  /\ active = {} /\ shown = {}
  /\ timers = [t \in Timers |-> Idle] /\ armed = 0
  /\ down = {} /\ routes = Hosts
  /\ next = 1 /\ second = FALSE
  /\ downs = [h \in Hosts |-> 0] /\ ups = [h \in Hosts |-> 0]
  /\ faulty = {} /\ touched = {}

-----------------------------------------------------------------------------
\* Choosing the hosts of a round.

Available(c) == {h \in Hosts : h \notin Cycles[c].exclude /\ h \notin active}

Least(a, b) == IF a < b THEN a ELSE b

\* rng.sample
Samples(S, n) == {s \in [1..n -> S] : \A i, j \in 1..n : s[i] = s[j] => i = j}

\* The hosts in increasing order.
Ordered(S) == SetToSortSeq(S, <)

\* What the worker may choose: the sequences of hosts to take down, in order.
\* Without a random generator "simple" rotates through the hosts: one of the
\* samples.
Rounds(c) ==
  LET avail == Available(c)
      n == Least(Cycles[c].count, Cardinality(avail))
  IN  CASE Strategy = "manual" /\ Cycles[c].manual ->
             {SelectSeq(Cycles[c].target, LAMBDA h : h \in avail)}
        [] Strategy \in {"simple", "random"} -> Samples(avail, n)
        [] OTHER -> {SubSeq(Ordered(avail), 1, n)}

-----------------------------------------------------------------------------
\* The worker thread.

\* The head of the round's loop.  In the cycle modes "after" the interval.  A
\* list of targets may come out empty; without hosts the other modes skip the
\* round.
Loop ==
  /\ wpc = "loop"
  /\ IF stop \/ cyc > Len(Cycles)
       THEN wpc' = "over" /\ UNCHANGED <<cyc, chosen, cdown>>
       ELSE IF ~Cycles[cyc].on \/ (Available(cyc) = {} /\ ~Cycles[cyc].manual)
       THEN /\ Strategy # "simple"
            /\ cyc' = cyc + 1
            /\ UNCHANGED <<wpc, chosen, cdown>>
       ELSE /\ armed + (IF Strategy = "simple" THEN Cycles[cyc].count ELSE 1)
                 <= MaxTimers
            /\ chosen' \in Rounds(cyc)
            /\ cdown' = {}
            /\ wpc' = "stagger"
            /\ UNCHANGED cyc
  /\ UNCHANGED <<stop, wtodo, active, shown, timerVars, down, routes, schedVars,
                 downs, ups, faulty>>

\* The wait between two hosts, which stop_event ends.
Stagger ==
  /\ wpc = "stagger" /\ chosen # <<>>
  /\ wpc' = IF stop THEN "over" ELSE "mark"
  /\ UNCHANGED <<stop, cyc, chosen, cdown, wtodo, active, shown,
                 timerVars, down, routes, schedVars, downs, ups, faulty>>

\* The host is marked down; with a lock, and then also shown, in the cycle modes,
\* which skip a host that is down.
Mark ==
  /\ wpc = "mark"
  /\ IF Strategy # "simple" /\ Head(chosen) \in active
       THEN /\ wpc' = "stagger" /\ chosen' = Tail(chosen)
            /\ UNCHANGED <<active, wtodo, cdown, shown>>
       ELSE /\ active' = active \cup {Head(chosen)}
            /\ wtodo' = HalvesOf(Head(chosen))
            /\ UNCHANGED chosen
            /\ IF Strategy = "simple"
                 THEN wpc' = "show" /\ UNCHANGED <<cdown, shown>>
                 ELSE /\ wpc' = "links"
                      /\ shown' = active'
                      /\ cdown' = cdown \cup {Head(chosen)}
  /\ UNCHANGED <<stop, cyc, timerVars, down, routes, schedVars,
                 downs, ups, faulty>>

\* update_state in periodic_host_flap.
Show ==
  /\ wpc = "show"
  /\ shown' = active
  /\ wpc' = "links"
  /\ UNCHANGED <<stop, cyc, chosen, cdown, wtodo, active, timerVars,
                 down, routes, schedVars, downs, ups, faulty>>

\* set_node_links_state(net, host, "down"), one link at a time.
LinkDown ==
  /\ wpc = "links"
  /\ \E e \in wtodo : down' = down \cup {e} /\ wtodo' = wtodo \ {e}
  /\ UNCHANGED <<stop, wpc, cyc, chosen, cdown, active, shown,
                 timerVars, routes, schedVars, downs, ups, faulty>>

\* All links are down, or one raised, and the outcome is recorded.
Downed ==
  /\ wpc = "links"
  /\ \/ wtodo = {} /\ faulty' = faulty \ {Head(chosen)}
     \/ wtodo # {} /\ faulty' = faulty \cup {Head(chosen)}
  /\ downs' = [downs EXCEPT ![Head(chosen)] = @ + 1]
  /\ wtodo' = {}
  /\ IF Strategy = "simple"
       THEN wpc' = "arm" /\ UNCHANGED chosen
       ELSE wpc' = "stagger" /\ chosen' = Tail(chosen)
  /\ UNCHANGED <<stop, cyc, cdown, active, shown, timerVars, down,
                 routes, schedVars, ups>>

Armed(S) ==
  /\ armed' = armed + 1
  /\ timers' = [timers EXCEPT ![armed + 1] =
                  [hosts |-> S, left |-> S, host |-> 0, todo |-> {}, pc |-> "armed"]]

\* schedule_up in periodic_host_flap: a timer for the host just taken down.
ArmHost ==
  /\ wpc = "arm"
  /\ Armed({Head(chosen)})
  /\ chosen' = Tail(chosen)
  /\ wpc' = "stagger"
  /\ UNCHANGED <<stop, cyc, cdown, wtodo, active, shown, down, routes,
                 schedVars, downs, ups, faulty>>

\* The end of a round; a cycle arms one timer for all its hosts.
RoundEnds ==
  /\ wpc = "stagger" /\ chosen = <<>>
  /\ IF Strategy = "simple"
       THEN UNCHANGED <<timerVars, cyc>>
       ELSE /\ cyc' = cyc + 1
            /\ IF cdown = {} THEN UNCHANGED timerVars ELSE Armed(cdown)
  /\ wpc' = "loop"
  /\ UNCHANGED <<stop, chosen, cdown, wtodo, active, shown, down,
                 routes, schedVars, downs, ups, faulty>>

-----------------------------------------------------------------------------
\* A timer thread: do_up.

Fire_NotStarted(t) ==
  /\ timers[t].pc = "armed" /\ stop
  /\ timers' = [timers EXCEPT ![t].pc = "over"]
  /\ UNCHANGED <<stop, workerVars, active, shown, armed, down, routes, schedVars,
                 downs, ups, faulty>>

\* Duration is over.  stop_event is read here only.
Fire(t) ==
  /\ timers[t].pc = "armed"
  /\ timers' = [timers EXCEPT ![t].pc = IF stop THEN "over" ELSE "up"]
  /\ UNCHANGED <<stop, workerVars, active, shown, armed, down, routes, schedVars,
                 downs, ups, faulty>>

\* The next host of the timer.
UpBegins(t, h) ==
  /\ timers[t].pc = "up" /\ h \in timers[t].left
  /\ timers' = [timers EXCEPT ![t].left = @ \ {h}, ![t].todo = HalvesOf(h),
                              ![t].host = h, ![t].pc = "links"]
  /\ UNCHANGED <<stop, workerVars, active, shown, armed, down, routes, schedVars,
                 downs, ups, faulty>>

\* set_node_links_state(net, host, "up"), one link at a time.
LinkUp(t) ==
  /\ timers[t].pc = "links"
  /\ \E e \in timers[t].todo :
       /\ down' = down \ {e}
       /\ timers' = [timers EXCEPT ![t].todo = @ \ {e}]
  /\ UNCHANGED <<stop, workerVars, active, shown, armed, routes, schedVars,
                 downs, ups, faulty>>

Upped_Swallowed(t) ==
  LET h == timers[t].host
  IN  /\ timers[t].pc = "links"
      /\ faulty' = faulty \ {h}
      /\ routes' \in {routes, routes \cup {h}}
      /\ ups' = [ups EXCEPT ![h] = @ + 1]
      /\ timers' = [timers EXCEPT ![t].todo = {}, ![t].pc = "up"]
      /\ UNCHANGED <<stop, workerVars, active, shown, armed, down, schedVars,
                     downs>>

\* All links are up and on_host_up, _restore_fib_for_host, installs the routes
\* again, skips that because cefnetd is not ready, or raises; or a link raised
\* and on_host_up is not called.  The outcome is recorded.
Upped(t) ==
  LET h == timers[t].host
  IN  /\ timers[t].pc = "links"
      /\ IF timers[t].todo = {}
           THEN /\ faulty' = faulty \ {h}
                /\ routes' \in {routes, routes \cup {h}}
           ELSE faulty' = faulty \cup {h} /\ UNCHANGED routes
      /\ ups' = [ups EXCEPT ![h] = @ + 1]
      /\ timers' = [timers EXCEPT ![t].todo = {}, ![t].pc = "up"]
      /\ UNCHANGED <<stop, workerVars, active, shown, armed, down, schedVars,
                     downs>>

Release_OnlyRestored(t) ==
  /\ timers[t].pc = "up" /\ timers[t].left = {}
  /\ active' = active \ (timers[t].hosts \ faulty)
  /\ IF Strategy = "simple"
       THEN timers' = [timers EXCEPT ![t].pc = "show"] /\ UNCHANGED shown
       ELSE timers' = [timers EXCEPT ![t].pc = "over"] /\ shown' = active'
  /\ UNCHANGED <<stop, workerVars, armed, down, routes, schedVars, downs, ups,
                 faulty>>

\* The hosts are no longer marked down, whether their links came up or not; with
\* a lock, and then also shown so, in the cycle modes.
Release(t) ==
  /\ timers[t].pc = "up" /\ timers[t].left = {}
  /\ active' = active \ timers[t].hosts
  /\ IF Strategy = "simple"
       THEN timers' = [timers EXCEPT ![t].pc = "show"] /\ UNCHANGED shown
       ELSE timers' = [timers EXCEPT ![t].pc = "over"] /\ shown' = active'
  /\ UNCHANGED <<stop, workerVars, armed, down, routes, schedVars, downs, ups,
                 faulty>>

\* update_state at the end of do_up in periodic_host_flap.
ShowUp(t) ==
  /\ timers[t].pc = "show"
  /\ timers' = [timers EXCEPT ![t].pc = "over"]
  /\ shown' = active
  /\ UNCHANGED <<stop, workerVars, active, armed, down, routes, schedVars,
                 downs, ups, faulty>>

-----------------------------------------------------------------------------
\* The scheduler thread and the main thread.

SetHalf(e, type) ==
  /\ down' = IF type = "link_down" THEN down \cup {e} ELSE down \ {e}
  /\ touched' = touched \cup {e}

\* set_link_state sets the half of the first host, then that of the second.
LinkEvent ==
  /\ next <= Len(Events) /\ Events[next].type # "fib_del"
  /\ LET ev == Events[next]
     IN  IF second
           THEN SetHalf(<<ev.link[2], ev.link>>, ev.type)
                /\ second' = FALSE /\ next' = next + 1
           ELSE SetHalf(<<ev.link[1], ev.link>>, ev.type)
                /\ second' = TRUE /\ UNCHANGED next
  /\ UNCHANGED <<stop, workerVars, active, shown, timerVars, routes,
                 downs, ups, faulty>>

\* configLinkStatus raises, for the first half or for the second.
LinkEventRaises ==
  /\ next <= Len(Events) /\ Events[next].type # "fib_del"
  /\ second' = FALSE /\ next' = next + 1
  /\ UNCHANGED <<stop, workerVars, active, shown, timerVars, down, routes,
                 touched, downs, ups, faulty>>

\* fib_del takes the dynamic route of its host away.
FibDel ==
  /\ next <= Len(Events) /\ Events[next].type = "fib_del"
  /\ routes' = routes \ {Events[next].host}
  /\ next' = next + 1
  /\ UNCHANGED <<stop, workerVars, active, shown, timerVars, down, second,
                 touched, downs, ups, faulty>>

\* shutdown_runtime_resources: stop_event.set().
Stop ==
  /\ ~stop /\ stop' = TRUE
  /\ UNCHANGED <<workerVars, active, shown, timerVars, down, routes, schedVars,
                 downs, ups, faulty>>

Worker == /\ \/ Loop \/ Stagger \/ Mark \/ Show \/ LinkDown \/ Downed \/ ArmHost
             \/ RoundEnds
          /\ UNCHANGED setup

TimerThread(t) == /\ \/ Fire(t) \/ LinkUp(t) \/ Upped(t) \/ Release(t) \/ ShowUp(t)
                     \/ \E h \in Hosts : UpBegins(t, h)
                  /\ UNCHANGED setup

Others == (LinkEvent \/ LinkEventRaises \/ FibDel \/ Stop) /\ UNCHANGED setup

Next == Worker \/ Others \/ \E t \in Timers : TimerThread(t)

\* The threads run; the interval, the stagger and the timers end.  Events and
\* stop come when they come.
Fairness == WF_vars(Worker) /\ \A t \in Timers : WF_vars(TimerThread(t))

Spec == Init /\ [][Next]_vars /\ Fairness

-----------------------------------------------------------------------------
\* Properties.

\* The records of each host alternate, host_down first: no host is taken down
\* twice before it was brought back, by whichever round and timer.
Alternate == \A h \in Hosts : downs[h] \in {ups[h], ups[h] + 1}

\* Timer t has still to bring h back.
Pending(t, h) == timers[t].pc \notin {"unused", "show", "over"} /\ h \in timers[t].hosts

\* Until stop, each host marked down has exactly one party that will release it:
\* one timer, or the worker, which is about to arm one.
OneOwner ==
  ~stop =>
    \A h \in active :
      LET worker == IF Strategy = "simple"
                      THEN wpc \in {"show", "links", "arm"} /\ Head(chosen) = h
                      ELSE h \in cdown /\ wpc \in {"stagger", "mark", "links"}
          owners == {t \in Timers : Pending(t, h)}
      IN  IF worker THEN owners = {} ELSE Cardinality(owners) = 1

\* A host that is not marked down has all its links up, unless an event set them
\* or the last change of its links failed.
LinksFollow ==
  \A h \in Hosts \ (active \cup faulty) :
    \A e \in HalvesOf(h) : e \in down => e \in touched

\* A host that is down comes back, or flapping is stopped.
DownEnds ==
  \A h \in UNION {0..(s.hosts - 1) : s \in Setups} :
    h \in active ~> (h \notin active \/ stop)

\* The rounds of the worker and the timers they leave never meet on a host: its
\* records alternate and one party has it to bring back.
RoundsOwned == Alternate /\ OneOwner
=============================================================================
