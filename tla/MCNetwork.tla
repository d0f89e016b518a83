----------------------------- MODULE MCNetwork ------------------------------
(* Instances of Network for TLC: random meshes of three and four hosts,     *)
(* every explicit connected topology of a few links, and lines.             *)
EXTENDS Network, TLC

None == [p \in {} |-> 0]
Pub(n, h) == [p \in {<<"uri", n>>} |-> h]
Basic ==
  [scenario |-> "disaster", hosts |-> 4, explicit |-> FALSE, links |-> <<>>,
   nodePerSwitch |-> 2, degMin |-> 1, degMax |-> 2, limit |-> 5, useAll |-> FALSE,
   pubs |-> Pub(1, 3), statics |-> None, routing |-> "dijkstra", k |-> 2,
   cache |-> "legacy", cacheCount |-> 0, downCount |-> 1, manual |-> {},
   forwarding |-> "flooding", overrides |-> <<>>, events |-> 0]

MeshPlans ==
  {[Basic EXCEPT !.scenario = "mesh", !.pubs = None, !.hosts = n, !.nodePerSwitch = c,
                 !.degMin = d[1], !.degMax = d[2], !.limit = l, !.useAll = u]
     : n \in {3, 4}, c \in {0, 1, 2, 3}, d \in {<<0, 1>>, <<1, 2>>, <<1, 3>>, <<2, 1>>}, l \in {3, 6}, u \in BOOLEAN}

CachePlans ==
  {[Basic EXCEPT !.scenario = s, !.pubs = p, !.cache = c, !.cacheCount = n,
                 !.manual = {0, 3}, !.overrides = <<[ids |-> {1}, strategy |-> "shortest_path"]>>]
     : s \in {"disaster", "connect"}, p \in {Pub(1, 0), Pub(1, 3)},
       c \in {"legacy", "k_centers", "degree_based", "manual", "random"}, n \in {0, 1, 2}}

\* Sequences of distinct links that connect the hosts.
Edges(n) == {{a, b} : a, b \in 0..(n - 1)} \ {{a} : a \in 0..(n - 1)}
Connects(l, n) == \A S \in SUBSET (0..(n - 1)) : S \notin {{}, 0..(n - 1)} =>
                    \E i \in DOMAIN l : l[i] \cap S # {} /\ l[i] \ S # {}
LinkLists(n, m) == {l \in [1..m -> Edges(n)] :
                      /\ \A i, j \in 1..m : i < j => l[i] # l[j]
                      /\ Connects(l, n)}
ExplicitPlans ==
  {[Basic EXCEPT !.explicit = TRUE, !.hosts = 3, !.links = l, !.routing = r, !.pubs = p, !.statics = s, !.events = 3]
     : l \in LinkLists(3, 2) \cup LinkLists(3, 3), r \in {"dijkstra", "shortest_path", "ecmp"},
       p \in {None, Pub(1, 0), Pub(1, 1) @@ Pub(2, 2)},
       s \in {None, Pub(3, 2)}}
  \cup {[Basic EXCEPT !.explicit = TRUE, !.links = l, !.routing = r, !.k = k, !.statics = Pub(3, 1), !.events = 1]
     : l \in LinkLists(4, 4), r \in {"dijkstra", "ecmp"}, k \in {1, 3}}

LinePlans == {[Basic EXCEPT !.scenario = "linear", !.hosts = n, !.pubs = None] : n \in 2..4}
MCPlans == MeshPlans \cup CachePlans \cup ExplicitPlans \cup LinePlans
=============================================================================
