---------------------------- MODULE MCHostFlap -----------------------------
(***************************************************************************)
(* Instances of HostFlap.                                                  *)
(***************************************************************************)
EXTENDS HostFlap

Plain(n, ex) == [on |-> TRUE, count |-> n, exclude |-> ex, manual |-> FALSE,
                 target |-> <<>>]
Off == [Plain(1, {}) EXCEPT !.on = FALSE]
Manual(t) == [Plain(1, {}) EXCEPT !.manual = TRUE, !.target = t]

\* Endless rounds of one host each.
Simple ==
  [hosts |-> 2, links |-> {<<0, 1>>}, strategy |-> "simple",
   cycles |-> <<Plain(1, {})>>, events |-> <<>>]

\* A list that names a host twice, a skipped cycle and one that may overlap;
\* events take a link down and up whose host may be down.
Listed ==
  [hosts |-> 3, links |-> {<<0, 1>>, <<1, 2>>}, strategy |-> "manual",
   cycles |-> <<Manual(<<1, 1, 2>>), Off, Manual(<<1>>)>>,
   events |-> <<[type |-> "link_down", link |-> <<0, 1>>],
                [type |-> "fib_del", host |-> 1],
                [type |-> "link_up", link |-> <<0, 1>>]>>]

MCSetups == {Simple, Listed}
=============================================================================
