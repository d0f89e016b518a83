------------------------------ MODULE Routing -------------------------------
(***************************************************************************)
(* Graph algorithms and route computation on the graph of hosts:           *)
(* src/src/core/graph.py, src/src/core/fib.py and the selection of cache   *)
(* nodes in src/src/runtime/cache_manager.py.  A graph maps each host to   *)
(* the set of its neighbours; every edge costs one hop, as no caller gives *)
(* a weight function.  The loops of the code are recursive functions over  *)
(* a count of iterations.                                                  *)
(***************************************************************************)
EXTENDS Integers, Sequences, FiniteSets

Nodes(graph) == DOMAIN graph

\* The smallest member of a non-empty set of tuples <<cost, node>> or of paths:
\* heapq.heappop and list.sort compare tuples from the left.
Before(s, t) ==
  \E i \in 1..Len(t) : /\ \A k \in 1..(i - 1) : k <= Len(s) /\ s[k] = t[k]
                       /\ (i > Len(s) \/ s[i] < t[i])
Least(S) == CHOOSE s \in S : \A t \in S \ {s} : Before(s, t)

-----------------------------------------------------------------------------
\* The search shared by dijkstra_all and shortest_path, as a record of the
\* distances and parents found and the heap.  stop is the node at which it ends.
Start(source) == [dist |-> [n \in {source} |-> 0], parent |-> [n \in {source} |-> source],
                  heap |-> {<<0, source>>}]

Improves(s, d, n) == n \notin DOMAIN s.dist \/ d < s.dist[n]

Relax(s, d, node, ns) ==
  LET better == {n \in ns : Improves(s, d + 1, n)}
      dom == DOMAIN s.dist \cup better
  IN  [dist |-> [n \in dom |-> IF n \in better THEN d + 1 ELSE s.dist[n]],
       parent |-> [n \in dom |-> IF n \in better THEN node ELSE s.parent[n]],
       heap |-> s.heap \cup {<<d + 1, n>> : n \in better}]

\* One iteration: a popped entry that is no longer the node's distance is skipped.
Visit(graph, s, bannedEdges, bannedNodes, target, stop) ==
  IF s.heap = {} THEN s
  ELSE LET top == Least(s.heap)
           node == top[2]
           rest == [s EXCEPT !.heap = @ \ {top}]
       IN  IF node = stop THEN [s EXCEPT !.heap = {}]
           ELSE IF top[1] # s.dist[node] THEN rest
           ELSE Relax(rest, top[1], node,
                      {n \in graph[node] : /\ {node, n} \notin bannedEdges
                                           /\ n \notin bannedNodes \/ n = target})

\* No node is pushed twice, since every edge costs the same.
Search(graph, source, bannedEdges, bannedNodes, target, stop) ==
  LET run[k \in 0..Cardinality(Nodes(graph))] ==
        IF k = 0 THEN Start(source)
        ELSE Visit(graph, run[k - 1], bannedEdges, bannedNodes, target, stop)
  IN  run[Cardinality(Nodes(graph))]

NoNode == -1
DijkstraAll(graph, source) == Search(graph, source, {}, {}, NoNode, NoNode).dist

\* The path along the parents, or <<>> for None.
ShortestPath(graph, source, target, bannedEdges, bannedNodes) ==
  LET s == Search(graph, source, bannedEdges, bannedNodes, target, target)
      back[k \in 0..Cardinality(Nodes(graph))] ==
        IF k = 0 THEN <<target>>
        ELSE LET p == back[k - 1]
             IN  IF Head(p) = source THEN p ELSE <<s.parent[Head(p)]>> \o p
  IN  IF target \in DOMAIN s.parent THEN back[Cardinality(Nodes(graph))] ELSE <<>>

\* Yen's algorithm: the spur paths of the last path join the candidates, a list
\* that may hold a path twice; the cheapest candidate is taken, and dropped if it
\* is already there.  A bag of paths is a function from paths to their number.
Spur_FreeRoot(graph, target, paths, i) ==
  LET previous == paths[Len(paths)]
      root == SubSeq(previous, 1, i)
      banned == {{paths[q][i], paths[q][i + 1]} :
                   q \in {x \in DOMAIN paths : Len(paths[x]) > i /\ SubSeq(paths[x], 1, i) = root}}
      spur == ShortestPath(graph, previous[i], target, banned, {})
  IN  IF spur = <<>> THEN <<>> ELSE SubSeq(root, 1, i - 1) \o spur

Spur(graph, target, paths, i) ==
  LET previous == paths[Len(paths)]
      root == SubSeq(previous, 1, i)
      banned == {{paths[q][i], paths[q][i + 1]} :
                   q \in {x \in DOMAIN paths : Len(paths[x]) > i /\ SubSeq(paths[x], 1, i) = root}}
      spur == ShortestPath(graph, previous[i], target, banned,
                           {root[k] : k \in 1..(i - 1)})
  IN  IF spur = <<>> THEN <<>> ELSE SubSeq(root, 1, i - 1) \o spur

AddPaths(bag, new) ==
  LET ps == {new[i] : i \in DOMAIN new} \ {<<>>}
      many(p) == Cardinality({i \in DOMAIN new : new[i] = p})
  IN  [p \in DOMAIN bag \cup ps |->
         (IF p \in DOMAIN bag THEN bag[p] ELSE 0) + many(p)]

\* Sorted by cost, then by the path itself.
Cheapest(S) == LET short == {p \in S : \A q \in S : Len(p) <= Len(q)} IN Least(short)

TakeOne(bag, p) ==
  [q \in {x \in DOMAIN bag : x # p \/ bag[x] > 1} |-> IF q = p THEN bag[q] - 1 ELSE bag[q]]

KShortestPaths(graph, source, target, k) ==
  LET first == ShortestPath(graph, source, target, {}, {})
      none == [p \in {} |-> 0]
      round[n \in 1..k] ==
        IF n = 1 THEN [paths |-> <<first>>, bag |-> none]
        ELSE LET paths == round[n - 1].paths
                 last == paths[Len(paths)]
                 bag == AddPaths(round[n - 1].bag,
                                 [i \in 1..(Len(last) - 1) |-> Spur(graph, target, paths, i)])
             IN  IF DOMAIN bag = {} THEN [paths |-> paths, bag |-> bag]
                 ELSE LET p == Cheapest(DOMAIN bag)
                      IN  [paths |-> IF \E i \in DOMAIN paths : paths[i] = p THEN paths
                                     ELSE Append(paths, p),
                           bag |-> TakeOne(bag, p)]
  IN  IF first = <<>> THEN <<>> ELSE round[k].paths

\* compute_distances: breadth first, with the queue in the order of discovery.
ComputeDistances(graph, source) ==
  LET run[k \in 0..Cardinality(Nodes(graph))] ==
        IF k = 0 THEN [dist |-> [n \in {source} |-> 0], edge |-> {source}]
        ELSE LET s == run[k - 1]
                 new == (UNION {graph[n] : n \in s.edge}) \ DOMAIN s.dist
             IN  [dist |-> [n \in DOMAIN s.dist \cup new |->
                              IF n \in new THEN k ELSE s.dist[n]],
                  edge |-> new]
  IN  run[Cardinality(Nodes(graph))].dist

Far(graph) == Cardinality(Nodes(graph)) + 1   \* stands for float("inf")
DistOr(dist, n, graph) == IF n \in DOMAIN dist THEN dist[n] ELSE Far(graph)

\* select_k_centers, as a sequence.  The farthest node is the one with the
\* greatest (distance to the nearest centre, -node).
MinDist(graph, centers, n) ==
  LET ds == {DistOr(ComputeDistances(graph, c), n, graph) : c \in centers}
  IN  CHOOSE d \in ds : \A e \in ds : d <= e

Farthest(graph, nodes, centers) ==
  CHOOSE f \in nodes : \A n \in nodes \ {f} :
    LET df == MinDist(graph, centers, f)
        dn == MinDist(graph, centers, n)
    IN  df > dn \/ (df = dn /\ f < n)

Smallest(S) == CHOOSE x \in S : \A y \in S : x <= y
SelectKCenters(graph, k, exclude) ==
  LET nodes == Nodes(graph) \ exclude
      grow[n \in 1..k] ==
        IF n = 1 THEN {Smallest(nodes)}
        ELSE grow[n - 1] \cup {Farthest(graph, nodes, grow[n - 1])}
  IN  IF nodes = {} \/ k <= 0 THEN {} ELSE grow[k]

\* _select_degree_based: the first of the nodes by (-degree, node).
SelectDegreeBased(graph, count, exclude) ==
  LET nodes == Nodes(graph) \ exclude
      ahead(n) == {m \in nodes : \/ Cardinality(graph[m]) > Cardinality(graph[n])
                                 \/ Cardinality(graph[m]) = Cardinality(graph[n]) /\ m < n}
  IN  {n \in nodes : Cardinality(ahead(n)) < count}

-----------------------------------------------------------------------------
\* The next hops from src to dest, before the choice of a strategy: (cost, host)
\* for every neighbour from which dest is reachable.
Candidates(graph, src, dest) ==
  {<<1 + DijkstraAll(graph, n)[dest], n>> :
     n \in {m \in graph[src] : dest \in DOMAIN DijkstraAll(graph, m)}}

Rank(S, c) == Cardinality({d \in S : Before(d, c)})

\* candidates[:k_paths] of compute_fib and compute_fib_for_uris
FirstHops(graph, src, dest, k) ==
  LET cs == Candidates(graph, src, dest) IN {c[2] : c \in {x \in cs : Rank(cs, x) < k}}

EcmpHops_Slack(graph, src, dest) ==
  LET cs == Candidates(graph, src, dest)
  IN  {c[2] : c \in {x \in cs : \A y \in cs : x[1] <= y[1] + 1}}

\* _add_ecmp
EcmpHops(graph, src, dest) ==
  LET cs == Candidates(graph, src, dest)
  IN  {c[2] : c \in {x \in cs : \A y \in cs : x[1] <= y[1]}}

\* The next hops a strategy chooses; shortest_path ignores k_paths.
NextHops(strategy, graph, src, dest, k) ==
  CASE strategy = "dijkstra" -> FirstHops(graph, src, dest, k)
    [] strategy = "shortest_path" -> FirstHops(graph, src, dest, 1)
    [] strategy = "ecmp" -> EcmpHops(graph, src, dest)

\* compute_routes as the set of <<source, prefix, next hop>>.  A prefix is the
\* URI of a publisher (pubs), a static announcement (statics) or, when there is
\* neither, the default prefix of a host; only publishers get routes of their own
\* prefix towards everybody else.
DefaultPrefix(dest) == <<"example", dest>>
HopsTo(strategy, graph, k, src, dest, prefix) ==
  {<<src, prefix, n>> : n \in NextHops(strategy, graph, src, dest, k)}
Others(graph, h) == Nodes(graph) \ {h}

\* From everybody to dest: what each prefix gets.
Towards(strategy, graph, k, dest, prefix) ==
  UNION {HopsTo(strategy, graph, k, s, dest, prefix) : s \in Others(graph, dest)}

Hops(strategy, graph, k, pubs, statics) ==
  IF DOMAIN pubs = {} /\ DOMAIN statics = {}
  THEN UNION {Towards(strategy, graph, k, d, DefaultPrefix(d)) : d \in Nodes(graph)}
  ELSE (UNION {Towards(strategy, graph, k, pubs[p], p) : p \in DOMAIN pubs})
       \cup (UNION {UNION {HopsTo(strategy, graph, k, pubs[p], d, p) :
                              d \in Others(graph, pubs[p])} : p \in DOMAIN pubs})
       \cup (UNION {Towards(strategy, graph, k, statics[p], p) : p \in DOMAIN statics})
=============================================================================
