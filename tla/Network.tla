------------------------------ MODULE Network -------------------------------
(***************************************************************************)
(* From the parameters of a scenario to a routed network: assign_roles     *)
(* (src/src/core/roles.py), the topologies of src/src/runtime/topo.py,     *)
(* TopologyModel and AddressingScheme (src/src/core/topology.py and        *)
(* addressing.py), cache placement and forwarding (cache_manager.py,       *)
(* cache_strategy.py, template.py, forwarding.py), FIB computation         *)
(* (Routing.tla) and the link and bandwidth events (links.py,              *)
(* bandwidth.py), for the four scenarios.                                  *)
(*                                                                         *)
(* What the random generator draws is a nondeterministic choice.  Switches *)
(* are numbered from 1; the links of mesh_links are in the order of their  *)
(* switches.  An address is a pair <<third octet, host index>>.            *)
(***************************************************************************)
EXTENDS Integers, Sequences, FiniteSets, Routing

CONSTANTS
  Plans,            \* the scenarios to build, as records (see PlanOK)
  MaxLinkSubnetId,  \* the third octet is at most this
  MaxHostIndex      \* the fourth octet minus one is at most this

VARIABLES
  plan,     \* the scenario's parameters
  stage,    \* "roles", "draw", "tree", "spread", "limit", "extra", "emit",
            \* "place", "fib", "running", "done" or "failed"
  why,      \* what made it fail
  roles,    \* host -> NodeRole
  budget,   \* what is left of each host's degree
  drawn,    \* the degrees as they were drawn
  order,    \* host_order
  joined,   \* how many hosts of the order are in the spanning tree
  sw,       \* switch_hosts: the hosts of each switch
  links,    \* mesh_links
  wired,    \* host -> the switches of its interfaces eth0, eth1, ...
  addr,     \* <<host, interface>> -> address
  cs,       \* CS_MODE in each host's cefnetd.conf
  csmgrd,   \* hosts that run csmgrd
  strat,    \* FORWARDING_STRATEGY of each host
  routes,   \* the computed routes
  down,     \* interfaces <<host, switch>> that are down
  slow,     \* interfaces <<host, switch>> whose bandwidth was set
  cut,      \* pairs whose last link event was link_down
  limited,  \* pairs that had a bw_set event
  events    \* link events so far
netVars == <<plan, stage, why, roles, budget, drawn, order, joined, sw, links, wired, addr,
          cs, csmgrd, strat, routes, down, slow, cut, limited, events>>

building == <<budget, drawn, order, joined, sw>>
network == <<links, wired, addr, cs, csmgrd, strat, routes>>
faults == <<down, slow, cut, limited, events>>

Hosts == 0..(plan.hosts - 1)
Capacity == IF plan.nodePerSwitch > 0 THEN plan.nodePerSwitch ELSE plan.hosts

\* Parameters: scenario is "mesh", "linear", "disaster" or "connect"; links is <<>>
\* unless the topology is explicit; cache is the placement strategy; events bounds the
\* link and bandwidth events.
PlanOK(p) ==
  /\ p.scenario \in {"mesh", "linear", "disaster", "connect"}
  /\ p.hosts >= (IF p.scenario = "linear" THEN 2 ELSE 3)
  /\ p.scenario = "mesh" => p.limit \in (p.hosts - 1)..((p.hosts * (p.hosts - 1)) \div 2)
  /\ p.explicit => p.scenario = "disaster"
  /\ p.scenario = "connect" => p.cache = "legacy"

\* What the option table, and for links _validate_links, accept (ConfigRules.tla).
LinksAccepted(p) ==
  LET hosts == 0..(p.hosts - 1) IN
  /\ p.links \in Seq(SUBSET hosts)
  /\ \A i \in 1..Len(p.links) : \E a, b \in hosts : a # b /\ p.links[i] = {a, b}
  /\ \A i, k \in 1..Len(p.links) : p.links[i] = p.links[k] => i = k
  /\ \A S \in SUBSET hosts : S \notin {{}, hosts} =>
       \E i \in 1..Len(p.links) : p.links[i] \cap S # {} /\ p.links[i] \ S # {}
ASSUME PlansAssumption ==
  \A p \in Plans : PlanOK(p) =>
    /\ p.hosts \in Nat /\ p.nodePerSwitch \in Nat /\ p.limit \in Nat
    /\ p.degMin \in Int /\ p.degMax \in Int
    /\ p.explicit \in BOOLEAN /\ p.useAll \in BOOLEAN
    /\ p.routing \in {"dijkstra", "shortest_path", "ecmp"}
    /\ \A u \in DOMAIN p.pubs : p.pubs[u] \in 0..(p.hosts - 1)
    /\ p.explicit => LinksAccepted(p)

NetInit ==
  /\ plan \in {p \in Plans : PlanOK(p)}
  /\ stage = "roles" /\ why = "none" /\ roles = <<>>
  /\ budget = <<>> /\ drawn = <<>> /\ order = <<>> /\ joined = 0 /\ sw = <<>>
  /\ links = <<>> /\ wired = <<>> /\ addr = <<>> /\ cs = <<>> /\ csmgrd = {} /\ strat = <<>>
  /\ routes = {} /\ down = {} /\ slow = {} /\ cut = {} /\ limited = {} /\ events = 0

Fail(reason) == stage' = "failed" /\ why' = reason

-----------------------------------------------------------------------------
\* Roles and node directories.

CsMode(role) == CASE role = "consumer" -> 0 [] role = "router" -> 2 [] role = "publisher" -> 1
PublisherIds == {plan.pubs[p] : p \in DOMAIN plan.pubs}

RolesOf(h) ==
  CASE h \in PublisherIds -> {"publisher"}
    [] h = 0 -> {"consumer"}
    [] plan.hosts = 2 /\ h = 1 -> {"publisher"}
    [] h = 1 -> {"router"}
    [] h = 2 -> {"publisher"}
    [] h % 2 = 1 -> {"router"}
    [] h = plan.hosts - 1 -> {"publisher"}
    [] OTHER -> {"consumer", "publisher"}

\* LineTopo
LineSwitches == [i \in 1..(plan.hosts - 1) |-> {i - 1, i}]

\* assign_roles and provision_node_dirs: the templates carry the CS_MODE of the role.
AssignRoles ==
  /\ stage = "roles"
  /\ roles' \in {r \in [Hosts -> {"consumer", "router", "publisher"}] : \A h \in Hosts : r[h] \in RolesOf(h)}
  /\ cs' = [h \in Hosts |-> CsMode(roles'[h])]
  /\ stage' = IF plan.explicit \/ plan.scenario = "linear" THEN "emit" ELSE "draw"
  /\ sw' = CASE plan.scenario = "linear" -> LineSwitches
             [] plan.explicit -> plan.links
             [] OTHER -> <<>>
  /\ UNCHANGED <<plan, why, budget, drawn, order, joined, links, wired, addr, csmgrd, strat,
                 routes, faults>>

-----------------------------------------------------------------------------
\* MeshTopo.build.

\* A shuffle followed by a stable sort on the degree, greatest first.
Orders(deg) ==
  {o \in [1..plan.hosts -> Hosts] :
     \A i, k \in 1..plan.hosts : (o[i] = o[k] => i = k) /\ (i < k => deg[o[i]] >= deg[o[k]])}

DrawDegrees ==
  /\ stage = "draw"
  /\ IF plan.degMin < 1 \/ plan.degMax < plan.degMin \/ plan.nodePerSwitch = 1
       THEN Fail("parameters") /\ UNCHANGED building
       ELSE /\ drawn' \in [Hosts -> plan.degMin..plan.degMax]
            /\ budget' = drawn'
            /\ order' \in Orders(drawn')
            /\ joined' = 1 /\ sw' = <<>>
            /\ stage' = "tree" /\ UNCHANGED why
  /\ UNCHANGED <<plan, roles, network, faults>>

Partner_Latest == order[joined]

\* The first of the connected hosts with the greatest remaining degree.
Partner ==
  LET better(i, k) == \/ budget[order[i]] > budget[order[k]]
                      \/ budget[order[i]] = budget[order[k]] /\ i < k
  IN  order[CHOOSE i \in 1..joined : \A k \in 1..joined \ {i} : better(i, k)]

FirstOf(S) == CHOOSE i \in S : \A k \in S : i <= k

\* The next host joins the spanning tree: on a switch of its partner that has room
\* for two, or on a new one.
JoinTree ==
  /\ stage = "tree" /\ joined < plan.hosts
  /\ LET host == order[joined + 1]
         room == {s \in DOMAIN sw : Partner \in sw[s] /\ Cardinality(sw[s]) + 2 <= Capacity}
     IN  IF budget[Partner] = 0
         THEN Fail("budget") /\ UNCHANGED building
         ELSE /\ sw' = IF room = {} THEN Append(sw, {host, Partner})
                       ELSE [sw EXCEPT ![FirstOf(room)] = @ \cup {host, Partner}]
              /\ budget' = [budget EXCEPT ![host] = @ - 1, ![Partner] = @ - 1]
              /\ joined' = joined + 1
              /\ UNCHANGED <<stage, why, drawn, order>>
  /\ UNCHANGED <<plan, roles, network, faults>>

TreeDone ==
  /\ stage = "tree" /\ joined = plan.hosts /\ stage' = "spread"
  /\ UNCHANGED <<plan, why, roles, building, network, faults>>

\* What is left of the degrees is spread over new switches, in a shuffled order.
Spread ==
  /\ stage = "spread"
  /\ LET left == {h \in Hosts : budget[h] > 0}
         size == IF Cardinality(left) < Capacity THEN Cardinality(left) ELSE Capacity
     IN  IF left = {}
         THEN stage' = "limit" /\ UNCHANGED building
         ELSE /\ \E T \in SUBSET left :
                   /\ Cardinality(T) = size
                   /\ sw' = Append(sw, T)
                   /\ budget' = [h \in Hosts |-> IF h \in T THEN budget[h] - 1 ELSE budget[h]]
              /\ UNCHANGED <<stage, drawn, order, joined>>
  /\ UNCHANGED <<plan, why, roles, network, faults>>

CheckLimit ==
  /\ stage = "limit"
  /\ IF plan.limit # 0 /\ Len(sw) > plan.limit THEN Fail("limit")
     ELSE stage' = "extra" /\ UNCHANGED why
  /\ UNCHANGED <<plan, roles, building, network, faults>>

Degree(h) == Cardinality({s \in DOMAIN sw : h \in sw[s]})

\* With switch_use_all every further switch takes the hosts of least degree; the
\* heap breaks ties at random.
Extra ==
  /\ stage = "extra"
  /\ IF plan.useAll /\ Len(sw) < plan.limit
     THEN /\ \E T \in SUBSET Hosts :
               /\ Cardinality(T) = (IF Capacity < plan.hosts THEN Capacity ELSE plan.hosts)
               /\ \A t \in T, u \in Hosts \ T : Degree(t) <= Degree(u)
               /\ sw' = Append(sw, T)
          /\ UNCHANGED <<stage, budget, drawn, order, joined>>
     ELSE stage' = "emit" /\ UNCHANGED building
  /\ UNCHANGED <<plan, why, roles, network, faults>>

-----------------------------------------------------------------------------
\* mesh_links, interfaces and addresses.

\* The switches of a host in the order of the addLink calls: Mininet numbers its
\* interfaces by them.
PortsOf(h) ==
  LET mine == {s \in DOMAIN sw : h \in sw[s]}
  IN  [n \in 1..Cardinality(mine) |->
         CHOOSE s \in mine : Cardinality({t \in mine : t < s}) = n - 1]

\* host_ports when switch s is emitted: the interfaces the host already has.
EthOn(h, s) == Cardinality({t \in 1..(s - 1) : h \in sw[t]})

\* The subnets of the line start at 0, those of the others at 1.
SubnetOf(s) == IF plan.scenario = "linear" THEN s - 1 ELSE s
InRange(a) == a[1] \in 0..MaxLinkSubnetId /\ a[2] \in 0..MaxHostIndex

\* apply_ip_addr: the address of each interface, named by the index that mesh_links
\* gives it.
Ends == {e \in Hosts \X DOMAIN sw : e[1] \in sw[e[2]]}
IpOf(e) == <<SubnetOf(e[2]), e[1]>>
Addresses(ls) ==
  LET intf(e) == <<e[1], ls[e[2]].eth[e[1]]>>
  IN  [i \in {intf(e) : e \in Ends} |-> IpOf(CHOOSE e \in Ends : i = intf(e))]

\* The last loop of the builders, then apply_ip_addr (or _set_ip_addr on a line):
\* host_ip refuses an octet that does not fit.
Emit ==
  /\ stage = "emit"
  /\ links' = [s \in DOMAIN sw |-> [subnet |-> SubnetOf(s), hosts |-> sw[s],
                                    eth |-> [h \in sw[s] |-> EthOn(h, s)]]]
  /\ wired' = [h \in Hosts |-> PortsOf(h)]
  /\ IF \A e \in Ends : InRange(IpOf(e))
     THEN stage' = "place" /\ addr' = Addresses(links') /\ UNCHANGED why
     ELSE Fail("address") /\ UNCHANGED addr
  /\ UNCHANGED <<plan, roles, building, cs, csmgrd, strat, routes, faults>>

-----------------------------------------------------------------------------
\* TopologyModel.

Pairs == {{a, b} : a, b \in Hosts} \ {{a} : a \in Hosts}
LinksOf(pair) == {i \in DOMAIN links : pair \subseteq links[i].hosts}

\* find_link takes the first; link_subnets keeps the last.
FindLink(pair) == FirstOf(LinksOf(pair))
RouteLink(pair) == CHOOSE i \in LinksOf(pair) : \A k \in LinksOf(pair) : k <= i
HostGraph == [h \in Hosts |-> {n \in Hosts \ {h} : LinksOf({h, n}) # {}}]

-----------------------------------------------------------------------------
\* Cache placement, forwarding strategies.

\* A disaster never caches on a publisher, unless no other host is left.
Exclude == IF plan.scenario = "disaster" THEN PublisherIds ELSE {}

\* select_cache_nodes: the strategies of cache_config.
SelectCacheNodes ==
  CASE plan.cache = "k_centers" -> SelectKCenters(HostGraph, plan.cacheCount, Exclude)
    [] plan.cache = "degree_based" -> SelectDegreeBased(HostGraph, plan.cacheCount, Exclude)
    [] plan.cache = "manual" -> plan.manual \ Exclude

\* CachePlacement.decide.
Decide ==
  LET count == IF plan.cacheCount > 0 THEN plan.cacheCount ELSE plan.downCount + 1
      chosen == IF plan.cache = "legacy" THEN SelectKCenters(HostGraph, count, Exclude)
                ELSE SelectCacheNodes
  IN  IF chosen = {} THEN {plan.hosts - 1} ELSE chosen

ModesFor_KeepsTemplate(nodes) ==
  [h \in Hosts |-> CASE h \in nodes -> 2
                     [] h \notin nodes /\ h \in PublisherIds -> 1
                     [] OTHER -> cs[h]]

\* apply_cache_node_settings.
ModesFor(nodes) ==
  [h \in Hosts |-> CASE h \in nodes -> 2
                     [] h \notin nodes /\ h \in PublisherIds -> 1
                     [] OTHER -> IF cs[h] = 2 THEN 0 ELSE cs[h]]

\* assign_random_cs_modes.
RandomModes == {m \in [Hosts -> 0..2] : \A h \in PublisherIds : m[h] # 0}

\* CachePlacement.place
PlaceByGraph == csmgrd' = Decide /\ cs' = ModesFor(Decide)

\* RandomCSModeStrategy
PlaceAtRandom == cs' \in RandomModes /\ csmgrd' = {h \in Hosts : cs'[h] = 2}

\* RolesCacheStrategy, which writes no CS_MODE
PlaceByRole == csmgrd' = {h \in Hosts : roles[h] = "router"} /\ UNCHANGED cs

\* The cache strategy of the scenario; csmgrd is started on its result.
PlaceCaches ==
  CASE plan.scenario \in {"mesh", "linear"} -> PlaceByRole
    [] plan.scenario = "disaster" /\ plan.cache = "random" -> PlaceAtRandom
    [] OTHER -> PlaceByGraph

\* ForwardingConfigManager: the last entry that names a host wins.
StrategyFor(h) ==
  LET named == {i \in DOMAIN plan.overrides : h \in plan.overrides[i].ids}
  IN  IF named = {} THEN plan.forwarding
      ELSE plan.overrides[CHOOSE i \in named : \A k \in named : k <= i].strategy

Place ==
  /\ stage = "place" /\ stage' = "fib"
  /\ PlaceCaches
  /\ strat' = [h \in Hosts |-> IF plan.scenario = "linear" THEN "default" ELSE StrategyFor(h)]
  /\ UNCHANGED <<plan, why, roles, building, links, wired, addr, routes, faults>>

-----------------------------------------------------------------------------
\* Routes.

\* A route carries the next hop's address on the link of the pair.
RouteTo(src, prefix, n) ==
  [source |-> src, prefix |-> prefix, hop |-> n, ip |-> <<links[RouteLink({src, n})].subnet, n>>]

\* _set_fib of the line: forward, to the last host.
LineRoutes == {[source |-> h, prefix |-> DefaultPrefix(plan.hosts - 1), hop |-> h + 1,
                ip |-> <<h, h + 1>>] : h \in 0..(plan.hosts - 2)}

\* apply_fib
ComputeFib ==
  /\ stage = "fib" /\ stage' = "running"
  /\ routes' = IF plan.scenario = "linear" THEN LineRoutes
               ELSE {RouteTo(t[1], t[2], t[3]) :
                       t \in Hops(plan.routing, HostGraph, plan.k, plan.pubs, plan.statics)}
  /\ UNCHANGED <<plan, why, roles, building, links, wired, addr, cs, csmgrd, strat, faults>>

\* run_experiment of the mesh and of the line: the last host publishes, and a peer
\* of it (on a line, host 0) retrieves; a command that fails ends the scenario.
Publisher == plan.hosts - 1
PeerOf(h) ==
  LET i == FirstOf({k \in DOMAIN links : h \in links[k].hosts /\ links[k].hosts # {h}})
  IN  Smallest(links[i].hosts \ {h})
Consumer == IF plan.scenario = "linear" THEN 0 ELSE PeerOf(Publisher)

Demonstrate ==
  /\ stage = "running" /\ plan.scenario \in {"mesh", "linear"}
  /\ (stage' = "done" /\ UNCHANGED why) \/ Fail("put") \/ Fail("get")
  /\ UNCHANGED <<plan, roles, building, network, faults>>

-----------------------------------------------------------------------------
\* Events on links.

\* set_link_state on the switch that find_link returns.
EndsOn(pair) == {<<h, FindLink(pair)>> : h \in pair}

\* Only a disaster schedules them.
LinkEvent(pair) ==
  /\ stage = "running" /\ plan.scenario = "disaster" /\ LinksOf(pair) # {}
  /\ events < plan.events /\ events' = events + 1
Unmoved == <<plan, stage, why, roles, building, network>>

LinkDown_WholeSwitch(pair) ==
  /\ LinkEvent(pair)
  /\ down' = down \cup (pair \X DOMAIN links) /\ cut' = cut \cup {pair}
  /\ UNCHANGED <<Unmoved, slow, limited>>

LinkDown(pair) ==
  /\ LinkEvent(pair)
  /\ down' = down \cup EndsOn(pair) /\ cut' = cut \cup {pair}
  /\ UNCHANGED <<Unmoved, slow, limited>>

LinkUp(pair) ==
  /\ LinkEvent(pair)
  /\ down' = down \ EndsOn(pair) /\ cut' = cut \ {pair}
  /\ UNCHANGED <<Unmoved, slow, limited>>

\* set_switch_bandwidth: every interface of the switch.
BwSet(pair) ==
  /\ LinkEvent(pair)
  /\ slow' = slow \cup (links[FindLink(pair)].hosts \X {FindLink(pair)})
  /\ limited' = limited \cup {pair}
  /\ UNCHANGED <<Unmoved, down, cut>>

NetNext ==
  \/ AssignRoles \/ DrawDegrees \/ JoinTree \/ TreeDone \/ Spread \/ CheckLimit \/ Extra
  \/ Emit \/ Place \/ ComputeFib \/ Demonstrate
  \/ \E pair \in Pairs : LinkDown(pair) \/ LinkUp(pair) \/ BwSet(pair)

NetSpec == NetInit /\ [][NetNext]_netVars

-----------------------------------------------------------------------------
Built == stage \in {"place", "fib", "running"}
Mesh == plan.scenario # "linear" /\ ~plan.explicit

\* f[0] + ... + f[count - 1]
Sum(count, f) == LET add[n \in 0..count] == IF n = 0 THEN 0 ELSE add[n - 1] + f[n - 1]
                 IN  add[count]

\* A random mesh that was built connects every host, no switch holds more hosts than
\* its capacity and no host has more interfaces than it may have (unless every switch
\* must be used); and the spanning tree fails only when the degrees drawn cannot make
\* a tree at all, which is what the error message of the code says.
MeshSound ==
  /\ why = "budget" => Sum(plan.hosts, drawn) < 2 * (plan.hosts - 1)
  /\ Built => \A S \in SUBSET Hosts : S \notin {{}, Hosts} =>
                \E s \in DOMAIN sw : sw[s] \cap S # {} /\ sw[s] \ S # {}
  /\ Built /\ Mesh => /\ \A s \in DOMAIN sw : sw[s] # {} /\ Cardinality(sw[s]) <= Capacity
                      /\ ~plan.useAll => \A h \in Hosts : Degree(h) \in 1..plan.degMax
                      /\ plan.limit # 0 => Len(sw) <= plan.limit

\* The length of a shortest path, by its definition.
Walks(a, b, n) == \E p \in [0..n -> Hosts] :
                    /\ p[0] = a /\ p[n] = b
                    /\ \A i \in 1..n : p[i] \in HostGraph[p[i - 1]]
Dist(a, b) == CHOOSE n \in 0..plan.hosts : Walks(a, b, n) /\ \A m \in 0..(n - 1) : ~Walks(a, b, m)

\* The interface that answers at an address is on a switch the other host is on too.
OnLink(src, hop, ip) ==
  \E n \in DOMAIN wired[hop] :
    /\ <<hop, n - 1>> \in DOMAIN addr /\ addr[<<hop, n - 1>>] = ip
    /\ \E m \in DOMAIN wired[src] : /\ wired[src][m] = wired[hop][n]
                                    /\ addr[<<src, m - 1>>][1] = ip[1]

Destinations ==
  IF plan.scenario = "linear" THEN [p \in {DefaultPrefix(plan.hosts - 1)} |-> p[2]]
  ELSE IF DOMAIN plan.pubs = {} /\ DOMAIN plan.statics = {}
       THEN [p \in {DefaultPrefix(d) : d \in Hosts} |-> p[2]]
       ELSE [p \in DOMAIN plan.pubs \cup DOMAIN plan.statics |->
               IF p \in DOMAIN plan.pubs THEN plan.pubs[p] ELSE plan.statics[p]]

\* Whatever the strategy, from every host there is a route one hop closer to the
\* host of each prefix, so Interests that follow it arrive; a strategy that promises
\* shortest paths has no other route; and every next hop is an address configured
\* on an interface that shares a switch, and a subnet, with the source.  In a
\* demonstration the consumer has a route for what the publisher publishes.
RoutesLead ==
  stage = "running" =>
    /\ \A r \in routes : OnLink(r.source, r.hop, r.ip)
    /\ plan.scenario \in {"mesh", "linear"} =>
         \E r \in routes : r.source = Consumer /\ r.prefix = DefaultPrefix(Publisher)
    /\ \A p \in DOMAIN Destinations : \A h \in Hosts \ {Destinations[p]} :
         LET mine == {r \in routes : r.source = h /\ r.prefix = p}
             closer(r) == Dist(r.hop, Destinations[p]) = Dist(h, Destinations[p]) - 1
         IN  /\ \E r \in mine : closer(r)
             /\ plan.routing # "dijkstra" => \A r \in mine : closer(r)
             /\ plan.routing = "dijkstra" /\ plan.scenario # "linear" =>
                  Cardinality(mine) <= plan.k

\* cefnetd waits for csmgrd exactly where csmgrd runs, a publisher keeps its content,
\* and the greedy choice of k cache nodes is at most twice as far from any host that
\* could be one as the best choice of k would be.
Radius(S, nodes) ==
  LET near(n) == Smallest({Dist(n, c) : c \in S}) IN
  CHOOSE d \in {near(n) : n \in nodes} : \A n \in nodes : near(n) <= d
CachesServe ==
  stage \in {"fib", "running"} =>
    /\ \A h \in Hosts : cs[h] = 2 <=> h \in csmgrd
    /\ plan.scenario \in {"disaster", "connect"} => \A h \in PublisherIds : cs[h] # 0
    /\ plan.scenario \in {"disaster", "connect"} /\ plan.cache \in {"legacy", "k_centers"} =>
         LET nodes == Hosts \ Exclude
         IN  \A S \in SUBSET nodes :
               S # {} /\ Cardinality(S) = Cardinality(csmgrd) /\ csmgrd \subseteq nodes
                 => Radius(csmgrd, nodes) <= 2 * Radius(S, nodes)

\* On an explicit topology, whatever the sequence of link events, the routes between
\* two hosts are dead exactly when their own last event was link_down: no event of
\* another pair brings them down or up; and they are limited exactly when the pair had
\* a bw_set.
LinkEventsExact ==
  plan.explicit /\ stage = "running" =>
    \A r \in routes :
      LET pair == {r.source, r.hop}
      IN  /\ (pair \in cut) <=> (\E h \in pair : <<h, r.ip[1]>> \in down)
          /\ (pair \in limited) <=> (\E h \in pair : <<h, r.ip[1]>> \in slow)

\* The paths k_shortest_paths returns are loop-free, distinct and in order of cost,
\* and no path that it leaves out is shorter than one that it returns.
SimplePaths(a, b) ==
  {p \in UNION {[1..n -> Hosts] : n \in 1..plan.hosts} :
     /\ p[1] = a /\ p[Len(p)] = b
     /\ \A i, k \in DOMAIN p : p[i] = p[k] => i = k
     /\ \A i \in 1..(Len(p) - 1) : p[i + 1] \in HostGraph[p[i]]}
PathsOptimal ==
  stage = "running" /\ plan.explicit /\ events = 0 =>
    \A b \in Hosts \ {0} : \A k \in 1..4 : \A g \in {HostGraph} :
    \A ps \in {KShortestPaths(g, 0, b, k)} : \A all \in {SimplePaths(0, b)} :
      LET got == {ps[i] : i \in DOMAIN ps}
      IN  /\ got \subseteq all /\ Cardinality(got) = Len(ps)
          /\ \A i \in 1..(Len(ps) - 1) : Len(ps[i]) <= Len(ps[i + 1])
          /\ \A p \in all \ got : \A q \in got : Len(q) <= Len(p)
=============================================================================
