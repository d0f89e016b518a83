---------------------------- MODULE ConfigRules -----------------------------
(***************************************************************************)
(* From the command line and the configuration file to a running scenario: *)
(* bootstrap_scenario (src/src/cli/bootstrap.py), merge_cli_and_config     *)
(* (src/src/core/config/loader.py) and the validator                       *)
(* (src/src/core/config/validator.py), with the event schema they share    *)
(* with the scheduler (src/src/core/events.py).                            *)
(*                                                                         *)
(* A configuration value is a pair of its YAML type and its content; a     *)
(* dict is a function on the keys it has.  Error messages are left out:    *)
(* what is modelled is whether there is one.                               *)
(***************************************************************************)
EXTENDS Integers, Sequences, FiniteSets

CONSTANTS
  Files,            \* the configuration files to consider, as functions
  Flags,            \* the sets of explicit command line flags, likewise
  MaxLinkSubnetId,  \* MAX_LINK_SUBNET_ID
  MaxHostIndex      \* MAX_HOST_INDEX

-----------------------------------------------------------------------------
\* Values.

Null == <<"null", "null">>
Whole(n) == <<"int", n>>
Float(n) == <<"float", n>>
Str(s) == <<"str", s>>
Bool(b) == <<"bool", b>>
List(s) == <<"list", s>>
Dict(f) == <<"dict", f>>
Is(t, v) == v[1] = t
IsInt(v) == Is("int", v)
IsNumber(v) == v[1] \in {"int", "float"}
Infinite == Float(1000000)

\* A list all of whose members satisfy P.
ListOf(P(_), v) == Is("list", v) /\ \A k \in 1..Len(v[2]) : P(v[2][k])
IsStr(v) == Is("str", v)
Ids(v) == ListOf(IsInt, v)

\* Python's truth of a value.
Truthy(v) == v \notin {Null, Bool(FALSE), Whole(0), Str(""), List(<<>>)}

Has(d, k) == k \in DOMAIN d
\* d.get(k, default)
Get(d, k, default) == IF Has(d, k) THEN d[k] ELSE default
\* {**g, **f}
Over(f, g) == [k \in DOMAIN f \cup DOMAIN g |-> IF k \in DOMAIN f THEN f[k] ELSE g[k]]

\* An optional key whose value, when it is there, satisfies P.
Opt(d, k, P(_)) == Has(d, k) => P(d[k])

AtLeast(n, v) == IsNumber(v) /\ v[2] >= n
IntAtLeast(n, v) == IsInt(v) /\ v[2] >= n
Positive(v) == IsNumber(v) /\ v[2] > 0
IsBool(v) == Is("bool", v)
IsDict(v) == Is("dict", v)

\* What a value of type int or list holds.
ASSUME ValuesAssumption ==
  /\ \A f \in Files \cup Flags : Opt(f, "hosts", LAMBDA v : IsInt(v) => v[2] \in Int)
  /\ \A f \in Files : Opt(f, "links", LAMBDA v :
       Is("list", v) => Len(v[2]) \in Nat /\ DOMAIN v[2] = 1..Len(v[2]))

-----------------------------------------------------------------------------
\* OPTION_SPECS.

NoMin == -1000000
O(kind, min, nullable, default, blocks) ==
  [kind |-> kind, min |-> min, nullable |-> nullable, default |-> default,
   blocks |-> blocks]
Everywhere == {"common", "linear", "connect"}
Meshes == {"mesh", "connect"}
Runs == {"disaster", "connect"}

TopologyOptions ==
  [hosts |-> O("int", 3, FALSE, Whole(5), Everywhere),
   switches |-> O("int", 2, FALSE, Whole(10), Meshes),
   seed |-> O("int", NoMin, TRUE, Null, {"common", "connect"}),
   topo_png |-> O("str", NoMin, TRUE, Null, {"common", "connect"}),
   topo_layout |-> O("layout", NoMin, FALSE, Str("spring"), {"common", "connect"}),
   k |-> O("int", 1, FALSE, Whole(2), Meshes),
   host_degree_min |-> O("int", 1, FALSE, Whole(1), Meshes),
   host_degree_max |-> O("int", NoMin, FALSE, Whole(2), Meshes),
   node_per_switch |-> O("int", 0, FALSE, Whole(2), Meshes),
   switch_use_all |-> O("bool", NoMin, FALSE, Bool(FALSE), Meshes)]

OutputOptions ==
  [num |-> O("int", 1, TRUE, Null, Everywhere),
   output_dir |-> O("str", NoMin, FALSE, Str("logs"), Everywhere),
   results_json |-> O("str", NoMin, TRUE, Str(""), {"disaster"}),
   timestamp |-> O("bool", NoMin, FALSE, Bool(FALSE), Everywhere),
   no_cli |-> O("bool", NoMin, FALSE, Bool(FALSE), Runs),
   no_script_log |-> O("bool", NoMin, FALSE, Bool(FALSE), Runs),
   duration |-> O("int", 0, FALSE, Whole(0), {"disaster"}),
   cache_default_rct_ms |-> O("int", 1000, TRUE, Null, {"disaster"}),
   publisher_host |-> O("int", NoMin, TRUE, Null, {"disaster"}),
   pubsub_sub_startup_grace |-> O("number", 0, FALSE, Float(1), {"disaster"}),
   warmup_get_interval |-> O("number", 0, FALSE, Whole(0), {"disaster"}),
   warmup_only_cache_nodes |-> O("bool", NoMin, FALSE, Bool(TRUE), {"disaster"})]

FailureOptions ==
  [down_interval |-> O("int", 0, FALSE, Whole(0), Runs),
   down_duration |-> O("int", 0, FALSE, Whole(0), Runs),
   down_exclude |-> O("str", NoMin, FALSE, Str(""), Runs),
   down_count |-> O("int", 0, FALSE, Whole(5), Runs),
   down_stagger |-> O("int", 0, FALSE, Whole(2), Runs),
   cache_count |-> O("int", 0, FALSE, Whole(0), Runs),
   bw |-> O("list", NoMin, FALSE, List(<<>>), Runs),
   ext |-> O("list", NoMin, FALSE, List(<<>>), Runs),
   bridge |-> O("list", NoMin, FALSE, List(<<>>), Runs)]

FileOnly(kind) == O(kind, NoMin, FALSE, Null, {})
StructuredOptions ==
  [key \in {"bridges", "failure_scenarios", "links", "prefix_routes", "events",
            "monitoring", "routing", "addressing", "warmup_gets", "host_apps"}
     |-> FileOnly("structured")]
OtherOptions ==
  [cache_config |-> FileOnly("structured"),
   forwarding_config |-> O("structured", NoMin, FALSE,
                           Dict([default |-> Str("flooding")]), {}),
   cefnetd_timeout |-> FileOnly("timeout"),
   webui_port |-> O("int", 1, TRUE, Null, {"disaster"}),
   script_log |-> O("str", NoMin, TRUE, Null, Runs),
   debug |-> O("structured", NoMin, FALSE, Bool(FALSE), {"debug"}),
   debug_artifact |-> O("list", NoMin, FALSE, List(<<>>), {"debug"}),
   config |-> O("str", NoMin, FALSE, Str(""), Runs)]

OptionSpecs == Over(Over(TopologyOptions, OutputOptions),
                    Over(FailureOptions, Over(StructuredOptions, OtherOptions)))
Keys == DOMAIN OptionSpecs

\* config_allowed, and special_config_merge.
ConfigAllowed(key) == key \notin {"bridge", "debug_artifact", "config"}
SpecialMerge == {"cache_config", "forwarding_config", "debug"}
Copied(key) == ConfigAllowed(key) /\ key \notin SpecialMerge

\* _validate_flat_keys for one value, and the two rules about cefnetd_timeout.
FlatOK(o, v) ==
  \/ o.nullable /\ v = Null
  \/ CASE o.kind = "bool" -> IsBool(v)
       [] o.kind = "str" -> IsStr(v)
       [] o.kind = "int" -> IsInt(v) /\ v[2] >= o.min
       [] o.kind = "number" -> IsNumber(v) /\ v[2] >= o.min
       [] o.kind = "timeout" -> Positive(v)
       [] o.kind = "layout" -> v \in {Str("spring"), Str("kamada_kawai"), Str("circular")}
       [] o.kind = "list" -> ListOf(IsStr, v)
       [] OTHER -> TRUE

-----------------------------------------------------------------------------
\* Blocks of the file that are checked on their own.

Algorithms == {Str("LRU"), Str("LFU"), Str("FIFO"), Str("None")}
CacheFieldsOK(d) ==
  /\ Opt(d, "capacity", LAMBDA v : IntAtLeast(0, v))
  /\ Opt(d, "default_rct_ms", LAMBDA v : IntAtLeast(1000, v))
  /\ Opt(d, "algorithm", LAMBDA v : v \in Algorithms)
  /\ Opt(d, "type", LAMBDA v : v \in {Str("memory"), Str("filesystem")})

CacheNodeOK(v) ==
  IsDict(v) /\ Opt(v[2], "id", LAMBDA i : IsInt(i) \/ Ids(i)) /\ CacheFieldsOK(v[2])

CacheConfigOK(v) ==
  /\ IsDict(v)
  /\ Opt(v[2], "strategy", LAMBDA s : s \in {Str("k_centers"), Str("manual"),
                                           Str("degree_based"), Str("random")})
  /\ Opt(v[2], "default", LAMBDA d : /\ IsDict(d) /\ CacheFieldsOK(d[2])
                                     /\ Opt(d[2], "count", LAMBDA c : IntAtLeast(0, c)))
  /\ Opt(v[2], "nodes", LAMBDA ns : ListOf(CacheNodeOK, ns))

Strategies == {Str("default"), Str("flooding"), Str("shortest_path")}
ForwardingNodeOK(v) ==
  IsDict(v) /\ Opt(v[2], "id", Ids) /\ Get(v[2], "strategy", Null) \in Strategies

ForwardingConfigOK(v) ==
  /\ IsDict(v) /\ DOMAIN v[2] # {}
  /\ Opt(v[2], "default", LAMBDA s : s \in Strategies)
  /\ Opt(v[2], "nodes", LAMBDA ns : ListOf(ForwardingNodeOK, ns))

\* Only cyclic entries have their target and allow_publishers checked.
FlapDescriptorOK(d, cyclic) ==
  /\ \A f \in {"interval", "duration"} : Opt(d, f, LAMBDA v : IntAtLeast(0, v))
  /\ \A f \in {"count", "stagger"} : Opt(d, f, LAMBDA v : v = Null \/ IntAtLeast(0, v))
  /\ Opt(d, "exclude", LAMBDA v : v = Null \/ Ids(v))
  /\ cyclic => /\ Opt(d, "target", LAMBDA v : v = Null \/ Ids(v))
               /\ Opt(d, "allow_publishers", LAMBDA v : v = Null \/ IsBool(v))

FailureScenariosOK(v) ==
  /\ IsDict(v)
  /\ LET strategy == Get(v[2], "strategy", Str("simple"))
     IN  /\ strategy \in {Str("simple"), Str("cyclic"), Str("random"), Str("manual")}
         /\ IF strategy = Str("simple")
              THEN LET s == Get(v[2], "simple", Null)
                   IN  IsDict(s) /\ FlapDescriptorOK(s[2], FALSE)
              ELSE LET cs == Get(v[2], "cycles", Null)
                   IN  /\ ListOf(LAMBDA c : IsDict(c) /\ FlapDescriptorOK(c[2], TRUE), cs)
                       /\ cs[2] # <<>>

\* An address is "auto", a network in CIDR form ("cidr") or another string.
BridgeOK(c, v) ==
  /\ IsDict(v)
  /\ LET s == Get(v[2], "switch", Null)
     IN  /\ IntAtLeast(0, s)
         /\ IF Has(c, "links") /\ Is("list", c["links"])
              THEN s[2] < Len(c["links"][2])
              ELSE Opt(c, "switches", LAMBDA n : IsInt(n) => s[2] < n[2])
  /\ Get(v[2], "root_ip", Null) \in {Str("auto"), Str("cidr")}
  /\ IsStr(Get(v[2], "local_routes", Null))
  /\ Opt(v[2], "nat", IsBool) /\ Opt(v[2], "nat_out", IsStr)

InHosts(c, n) == Opt(c, "hosts", LAMBDA h : IsInt(h) => n \in 0..(h[2] - 1))

\* A host index that exists and can be addressed.
HostIndexOK(c, n) == InHosts(c, n) /\ n <= MaxHostIndex

\* Hosts reachable from host 0 over the pairs, in at most n rounds.
Reached(pairs, n) ==
  LET grow[m \in 0..n] ==
        IF m = 0 THEN {0}
        ELSE grow[m - 1] \cup {q \in 0..(n - 1) : \E p \in grow[m - 1] :
                                  {p, q} \in pairs}
  IN  grow[n]

LinkOK(c, v) ==
  /\ Ids(v) /\ Len(v[2]) = 2
  /\ v[2][1][2] # v[2][2][2]
  /\ \A k \in 1..2 : HostIndexOK(c, v[2][k][2])

LinkPair(v) == {v[2][1][2], v[2][2][2]}
RandomizationKeys == {"switches", "node_per_switch", "host_degree_min",
                      "host_degree_max", "switch_use_all"}

LinksOK_AnyGraph(c, v) ==
  /\ Is("list", v)
  /\ Len(v[2]) <= MaxLinkSubnetId
  /\ \A i \in DOMAIN v[2] : LinkOK(c, v[2][i])
  /\ \A i, k \in DOMAIN v[2] : LinkPair(v[2][i]) = LinkPair(v[2][k]) => i = k
  /\ \A key \in RandomizationKeys : Opt(c, key, LAMBDA x : x = OptionSpecs[key].default)

\* _validate_links.
LinksOK(c, v) ==
  /\ Is("list", v)
  /\ Len(v[2]) <= MaxLinkSubnetId
  /\ \A i \in DOMAIN v[2] : LinkOK(c, v[2][i])
  /\ \A i, k \in DOMAIN v[2] : LinkPair(v[2][i]) = LinkPair(v[2][k]) => i = k
  /\ \A key \in RandomizationKeys : Opt(c, key, LAMBDA x : x = OptionSpecs[key].default)
  /\ Opt(c, "hosts", LAMBDA h : IsInt(h) /\ h[2] > 0 =>
        Reached({LinkPair(v[2][i]) : i \in DOMAIN v[2]}, h[2]) = 0..(h[2] - 1))

\* The keys of prefix_routes are "root" for the bare root and "plain" for a string
\* that is no ccnx URI; every other key is a URI.
PrefixRoutesOK(c, v) ==
  /\ IsDict(v)
  /\ \A p \in DOMAIN v[2] : /\ p \notin {"root", "plain"}
                            /\ IsInt(v[2][p]) /\ HostIndexOK(c, v[2][p][2])

HostAppKeys == {"hosts", "argv", "cwd", "env", "log"}

\* A log is "per_host" if its path has one of the three placeholders.  The values
\* of env are strings; a key that is no POSIX name is "bad".
HostAppOK(c, v) ==
  /\ IsDict(v) /\ DOMAIN v[2] \subseteq HostAppKeys
  /\ LET hosts == Get(v[2], "hosts", Null)
     IN  /\ hosts = Str("all") \/ (Ids(hosts) /\ \A k \in DOMAIN hosts[2] : InHosts(c, hosts[2][k][2]))
         /\ Opt(v[2], "log", LAMBDA p :
              IsStr(p) /\ (hosts = Str("all") \/ Len(hosts[2]) > 1 => p = Str("per_host")))
  /\ LET argv == Get(v[2], "argv", Null)
     IN  ListOf(IsStr, argv) /\ argv[2] # <<>>
  /\ Opt(v[2], "cwd", IsStr)
  /\ Opt(v[2], "env", LAMBDA e : IsDict(e) /\ "bad" \notin DOMAIN e[2]
                                 /\ \A key \in DOMAIN e[2] : IsStr(e[2][key]))

\* _host_apps_covers_host
Covers(c, n) ==
  Has(c, "host_apps") /\ Is("list", c["host_apps"])
  /\ \E k \in DOMAIN c["host_apps"][2] :
       LET a == c["host_apps"][2][k]
       IN  /\ IsDict(a)
           /\ LET hosts == Get(a[2], "hosts", Null)
              IN  hosts = Str("all") \/ (Is("list", hosts)
                     /\ \E i \in DOMAIN hosts[2] : hosts[2][i] = Whole(n))

-----------------------------------------------------------------------------
\* Options of the content commands.

Algo(v) == v \in {Str("crc32c"), Str("rsa-sha256")}

PutOptionsOK(d) ==
  /\ \A f \in {"rate", "expiry", "cache_time"} : Opt(d, f, LAMBDA v : AtLeast(1, v))
  /\ Opt(d, "block_size", LAMBDA v : IntAtLeast(60, v))
  /\ Opt(d, "port_num", LAMBDA v : IntAtLeast(1, v))
  /\ Opt(d, "valid_algo", Algo)

GetOptionsOK(d) ==
  /\ \A f \in {"owner_only", "sg"} : Opt(d, f, IsBool)
  /\ \A f \in {"chunk", "pipeline", "port_num"} : Opt(d, f, LAMBDA v : IntAtLeast(1, v))
  /\ Opt(d, "valid_algo", Algo)

\* The options a republication passes to cefputfile.
PutfileOptionsOK(e) ==
  Opt(e, "pub_opts", LAMBDA v :
    /\ IsDict(v)
    /\ DOMAIN v[2] \subseteq {"rate", "block_size", "expiry", "cache_time",
                               "valid_algo", "port_num"}
    /\ PutOptionsOK(v[2]))

PubsubOptionsOK(e, type) ==
  LET v == Get(e, IF type = "pubsub_pub" THEN "pub_opts" ELSE "sub_opts", Null)
      d == v[2]
  IN  \/ ~Truthy(v)
      \/ /\ IsDict(v)
         /\ type = "pubsub_pub" =>
              /\ \A f \in {"rate", "expiry", "cache_time"} : Opt(d, f, LAMBDA x : AtLeast(1, x))
              /\ Opt(d, "lifetime", LAMBDA x : AtLeast(0, x))
              /\ \A f \in {"block_size", "port_num"} : Opt(d, f, LAMBDA x : IntAtLeast(1, x))
              /\ Opt(d, "retry_limit", LAMBDA x : IntAtLeast(0, x))
              /\ Opt(d, "target", LAMBDA x : x \in {Str("trg"), Str("ref"), Str("both")})
              /\ \A f \in {"ti_valid_algo", "rd_valid_algo"} : Opt(d, f, Algo)
         /\ type = "pubsub_sub" =>
              /\ Opt(d, "wait", LAMBDA x : AtLeast(0, x))
              /\ \A f \in {"pipeline", "port_num"} : Opt(d, f, LAMBDA x : IntAtLeast(1, x))
              /\ \A f \in {"ri_valid_algo", "td_valid_algo"} : Opt(d, f, Algo)

CcninfoOptionsOK(d) ==
  /\ \A f \in {"cache_info", "owner_only"} : Opt(d, f, IsBool)
  /\ Opt(d, "hop_count", LAMBDA v : IsInt(v) /\ v[2] \in 1..255)
  /\ Opt(d, "skip_hop", LAMBDA v : IsInt(v) /\ v[2] \in 1..15)
  /\ Has(d, "hop_count") /\ Has(d, "skip_hop") => d["skip_hop"][2] < d["hop_count"][2]
  /\ Opt(d, "valid_algo", Algo)
  /\ ~Has(d, "port_num")

-----------------------------------------------------------------------------
\* Events.

ContentTypes == {"put", "get", "pubsub_pub", "pubsub_sub", "ccninfo"}
EventTypes == ContentTypes \cup {"link_down", "link_up", "fib_add", "fib_del", "fib_enable",
                                 "bw_set", "compute_call", "host_app_restart"}

\* required_fields of EVENT_SCHEMA.
RequiredFields(type) ==
  CASE type \in {"link_down", "link_up"} -> {"nodes"}
    [] type \in {"fib_add", "fib_del", "fib_enable"} -> {"host", "prefix", "next_hop"}
    [] type = "bw_set" -> {"nodes", "bandwidth"}
    [] type = "compute_call" -> {"host", "endpoint"}
    [] type \in {"put", "pubsub_pub"} -> {"host", "uri", "file"}
    [] type \in {"get", "pubsub_sub", "ccninfo"} -> {"host", "uri"}
    [] type = "host_app_restart" -> {"host"}

TypeOf(e) == Get(e, "type", Null)[2]
Typed(e) == TypeOf(e) \in EventTypes
RepeatAllowlist == ContentTypes \cup {"compute_call"}

\* _validate_required_fields and _validate_host_integer.
FieldsOK(e) == RequiredFields(TypeOf(e)) \subseteq DOMAIN e /\ Opt(e, "host", IsInt)

NodesOK(c, e) ==
  LET v == Get(e, "nodes", Null)
  IN  Ids(v) /\ Len(v[2]) = 2 /\ \A k \in 1..2 : InHosts(c, v[2][k][2])

BwSetOK(c, e) == NodesOK(c, e) /\ AtLeast(0, Get(e, "bandwidth", Null))

RepeatAllowlistOK(e) ==
  Opt(e, "repeat", LAMBDA r : IsDict(r) => DOMAIN r[2] \subseteq {"interval", "count"})

ComputeCallOK(e) ==
  /\ FieldsOK(e)
  /\ \A f \in {"endpoint", "payload", "output_file", "publish_uri"} : Opt(e, f, IsStr)
  /\ Opt(e, "method", LAMBDA v : v \in {Str("GET"), Str("POST")})
  /\ \A f \in {"timeout", "publish_timeout"} : Opt(e, f, Positive)
  /\ Opt(e, "headers", LAMBDA v : IsDict(v) /\ \A h \in DOMAIN v[2] : IsStr(v[2][h]))
  /\ Truthy(Get(e, "publish_uri", Null)) => Truthy(Get(e, "output_file", Null))
  /\ RepeatAllowlistOK(e)
  /\ PutfileOptionsOK(e)

FibOK(e) == FieldsOK(e) /\ Opt(e, "protocol", LAMBDA v : v \in {Null, Str("udp")})

PublicationOK(c, e) ==
  /\ FieldsOK(e)
  /\ \A f \in {"uri", "file"} : Opt(e, f, IsStr)
  /\ IF TypeOf(e) = "put"
       THEN /\ PutOptionsOK(e)
            /\ ~(/\ Truthy(Get(e, "repeat", Null)) /\ Get(c, "no_cli", Null) = Bool(TRUE)
                 /\ Truthy(Get(c, "results_json", Null)))
       ELSE PubsubOptionsOK(e, TypeOf(e))
  /\ RepeatAllowlistOK(e)

NonBlank(v) == IsStr(v) /\ v \notin {Str(""), Str(" ")}

CcninfoOK(e) ==
  /\ FieldsOK(e) /\ ~Has(e, "timeout")
  /\ Opt(e, "uri", LAMBDA v : IsStr(v) /\ v \notin {Str(""), Str("root")})
  /\ CcninfoOptionsOK(e)
  /\ Opt(e, "expected_responder", NonBlank)
  /\ Opt(e, "expected_route", LAMBDA v : ListOf(NonBlank, v) /\ v[2] # <<>>)
  /\ RepeatAllowlistOK(e)

GetOK(e) ==
  /\ FieldsOK(e) /\ Opt(e, "uri", IsStr)
  /\ IF TypeOf(e) = "get" THEN GetOptionsOK(e) ELSE PubsubOptionsOK(e, TypeOf(e))
  /\ RepeatAllowlistOK(e)

HostAppRestartOK(c, e) ==
  /\ FieldsOK(e)
  /\ Opt(e, "downtime_s", LAMBDA v : AtLeast(0, v) /\ v # Infinite)
  /\ Opt(e, "host", LAMBDA v : IsInt(v) => Covers(c, v[2]))

\* _EVENT_VALIDATORS, and _validate_host_range after each of them.
TypedOK(c, e) ==
  /\ CASE TypeOf(e) \in {"link_down", "link_up"} -> NodesOK(c, e)
       [] TypeOf(e) \in {"fib_add", "fib_del", "fib_enable"} -> FibOK(e)
       [] TypeOf(e) = "bw_set" -> BwSetOK(c, e)
       [] TypeOf(e) = "compute_call" -> ComputeCallOK(e)
       [] TypeOf(e) \in {"put", "pubsub_pub"} -> PublicationOK(c, e)
       [] TypeOf(e) \in {"get", "pubsub_sub"} -> GetOK(e)
       [] TypeOf(e) = "ccninfo" -> CcninfoOK(e)
       [] TypeOf(e) = "host_app_restart" -> HostAppRestartOK(c, e)
  /\ Opt(e, "host", LAMBDA v : IsInt(v) => InHosts(c, v[2]))

\* build_restore_event: the event a repeating event restores to.
HasRestore(e) ==
  Has(e, "repeat") /\ IsDict(e["repeat"])
  /\ (Has(e["repeat"][2], "restore") \/ Has(e["repeat"][2], "restore_type"))
RestoreEvent(e) ==
  LET r == e["repeat"][2]
      merged == IF Has(r, "restore") THEN Over(r["restore"][2], e)
                ELSE Over([type |-> r["restore_type"]], e)
  IN  [f \in DOMAIN merged \ {"repeat"} |-> merged[f]]

RestoreOK_Unchecked(c, e) == TRUE

\* _validate_restore_event.
RestoreOK(c, e) ==
  HasRestore(e) /\ Opt(e["repeat"][2], "restore", IsDict)
    => LET x == RestoreEvent(e)
       IN  Typed(x) /\ TypeOf(x) \notin RepeatAllowlist /\ TypedOK(c, x)

RepeatOK(e) ==
  Opt(e, "repeat", LAMBDA r :
    /\ IsDict(r)
    /\ Opt(r[2], "interval", Positive)
    /\ Opt(r[2], "duration", LAMBDA v : AtLeast(0, v))
    /\ Opt(r[2], "count", LAMBDA v : v = Null \/ IntAtLeast(1, v))
    /\ Opt(r[2], "restore", IsDict)
    /\ Opt(r[2], "restore_type", LAMBDA v : v[2] \in EventTypes)
    /\ TypeOf(e) \notin RepeatAllowlist => ~(Has(r[2], "restore") /\ Has(r[2], "restore_type")))

EventOK(c, v) ==
  /\ IsDict(v)
  /\ AtLeast(0, Get(v[2], "at", Null))
  /\ Typed(v[2]) /\ TypedOK(c, v[2])
  /\ RepeatOK(v[2])
  /\ TypeOf(v[2]) \notin RepeatAllowlist => RestoreOK(c, v[2])

-----------------------------------------------------------------------------
\* The whole configuration.

MonitorTargetOK(c, v) ==
  /\ IsDict(v)
  /\ Get(v[2], "type", Null) \in {Str("cefstatus"), Str("csmgrstatus"), Str("ccninfo")}
  /\ Opt(v[2], "target_host", LAMBDA t : IsStr(t) /\ t # Str(""))
  /\ ~Has(v[2], "command_timeout")
  /\ Opt(v[2], "hosts", LAMBDA h : \/ h \in {Str("all"), Str("cache")}
                                  \/ (Ids(h) /\ \A k \in DOMAIN h[2] : InHosts(c, h[2][k][2])))
  /\ v[2]["type"] = Str("ccninfo") =>
       /\ NonBlank(Get(v[2], "uri", Null)) /\ CcninfoOptionsOK(v[2])
       /\ ~Has(v[2], "expected_responder") /\ ~Has(v[2], "expected_route")

MonitoringOK(c, v) ==
  /\ IsDict(v)
  /\ \A f \in {"interval", "command_timeout"} :
       Opt(v[2], f, LAMBDA x : Positive(x) /\ x # Infinite)
  /\ Opt(v[2], "targets", LAMBDA ts : ListOf(LAMBDA t : MonitorTargetOK(c, t), ts))

WarmupGetOK(v) == IsDict(v) /\ IsInt(Get(v[2], "host", Null)) /\ IsStr(Get(v[2], "uri", Null))

RoutingOK(v) ==
  /\ IsDict(v)
  /\ Opt(v[2], "strategy", LAMBDA s : s \in {Str("dijkstra"), Str("shortest_path"), Str("ecmp")})
  /\ Opt(v[2], "k", LAMBDA n : IntAtLeast(1, n))

\* Of a network only the length of its prefix matters; another string is no CIDR.
AddressingOK(v) == IsDict(v) /\ Opt(v[2], "network_cidr", LAMBDA n : n = Str("/16"))

DebugOK(v) ==
  \/ IsBool(v)
  \/ /\ IsDict(v)
     /\ Opt(v[2], "artifacts", LAMBDA as :
          ListOf(LAMBDA a : a \in {Str("node_dirs"), Str("fib_dump")}, as))
     /\ Opt(v[2], "output_subdir", IsStr)

\* validate_config.
ConfigOK(c) ==
  /\ \A key \in DOMAIN c \cap Keys : ConfigAllowed(key) => FlatOK(OptionSpecs[key], c[key])
  /\ Opt(c, "host_degree_max", LAMBDA v :
       IsInt(v) => LET m == Get(c, "host_degree_min", Whole(1))
                   IN  v[2] >= IF IsInt(m) THEN m[2] ELSE 1)
  /\ ~Has(c, "legacy_layout")
  /\ Opt(c, "cache_config", CacheConfigOK)
  /\ Opt(c, "forwarding_config", ForwardingConfigOK)
  /\ Opt(c, "failure_scenarios", FailureScenariosOK)
  /\ Opt(c, "bridges", LAMBDA v : ListOf(LAMBDA b : BridgeOK(c, b), v))
  /\ Opt(c, "links", LAMBDA v : LinksOK(c, v))
  /\ Opt(c, "prefix_routes", LAMBDA v : PrefixRoutesOK(c, v))
  /\ Opt(c, "warmup_gets", LAMBDA v : ListOf(WarmupGetOK, v))
  /\ Opt(c, "events", LAMBDA v : ListOf(LAMBDA e : EventOK(c, e), v))
  /\ Opt(c, "monitoring", LAMBDA v : MonitoringOK(c, v))
  /\ Opt(c, "host_apps", LAMBDA v : ListOf(LAMBDA a : HostAppOK(c, a), v))
  /\ Opt(c, "addressing", AddressingOK) /\ Opt(c, "routing", RoutingOK)
  /\ Opt(c, "debug", DebugOK)

-----------------------------------------------------------------------------
\* bootstrap_scenario.

VARIABLES
  entry,   \* the entry point: "disaster" or "connect"
  file,    \* what load_config returned
  flags,   \* the options given on the command line
  args,    \* the argparse namespace
  stage    \* "parse", "merge", "validate", "run" or "exit"
bootVars == <<entry, file, flags, args, stage>>

Blocks == IF entry = "connect" THEN {"connect"} ELSE {"common", "mesh", "disaster"}

\* parser.parse_args([]) of the entry point.
Defaults ==
  [key \in {k \in Keys : OptionSpecs[k].blocks \cap Blocks # {}} |-> OptionSpecs[key].default]

BootInit ==
  /\ entry \in {"disaster", "connect"}
  /\ file \in Files /\ flags \in Flags
  /\ DOMAIN flags \subseteq DOMAIN Defaults
  /\ args = <<>> /\ stage = "parse"

ParseArgs ==
  /\ stage = "parse" /\ stage' = "merge"
  /\ args' = Over(flags, Defaults)
  /\ UNCHANGED <<entry, file, flags>>

\* The merge without a parser that loader.py:143 tells of.
Taken_Parserless(key) ==
  Has(file, key) /\ ~(file[key] = Null /\ OptionSpecs[key].nullable)

\* Whether merge_cli_and_config copies a key of the file.
Taken(key) ==
  /\ Has(file, key)
  /\ Get(args, key, Null) = Get(Defaults, key, Null)
  /\ ~(file[key] = Null /\ OptionSpecs[key].nullable)

ListFromStr(key, v) == IF key \in {"bw", "ext"} /\ IsStr(v) /\ v # Str("") THEN List(<<v>>) ELSE v

Merge ==
  /\ stage = "merge" /\ stage' = "validate"
  /\ LET plain == {k \in Keys : Copied(k) /\ Taken(k)}
         special == {k \in SpecialMerge \ {"debug"} :
                       Has(file, k) \/ OptionSpecs[k].default # Null}
     IN  args' = Over([k \in plain |-> ListFromStr(k, file[k])],
                      Over([k \in special |-> Get(file, k, OptionSpecs[k].default)], args))
  /\ UNCHANGED <<entry, file, flags>>

\* The dict validate_merged_args builds from the namespace.
Merged ==
  LET ks == {k \in DOMAIN args : Copied(k)}
  IN  [k \in ks |-> args[k]]

Accepted ==
  /\ ConfigOK(Merged)
  /\ entry = "connect" => \A k \in {"links", "prefix_routes"} : Get(file, k, Null) = Null
  /\ \A k \in SpecialMerge : Has(file, k) => ConfigOK([x \in {k} |-> file[k]])

\* Errors are printed and the process exits; otherwise the scenario is run.
Validate ==
  /\ stage = "validate"
  /\ stage' = IF Accepted THEN "run" ELSE "exit"
  /\ UNCHANGED <<entry, file, flags, args>>

BootNext == ParseArgs \/ Merge \/ Validate

BootSpec == BootInit /\ [][BootNext]_bootVars

-----------------------------------------------------------------------------
\* What the scenario does with an accepted configuration.

Scheduled == IF Has(args, "events")
             THEN {args["events"][2][k][2] : k \in 1..Len(args["events"][2])} ELSE {}

\* _handle_repeat fires the restore event only after a positive duration.
Restores(e) == HasRestore(e) /\ Opt(e["repeat"][2], "duration", LAMBDA v : v[2] > 0)
               /\ Has(e["repeat"][2], "duration")
Fired == Scheduled \cup {RestoreEvent(e) : e \in {x \in Scheduled : Restores(x)}}
NetHosts == 0..(args["hosts"][2] - 1)

\* What the handler of an event reads without a default: hosts must exist in the
\* network, and there must be an application to restart.
HandlerFinds(e) ==
  LET host == Has(e, "host") /\ IsInt(e["host"]) /\ e["host"][2] \in NetHosts
  IN  CASE TypeOf(e) \in {"link_down", "link_up", "bw_set"} ->
             /\ Has(e, "nodes") /\ Is("list", e["nodes"]) /\ Len(e["nodes"][2]) >= 2
             /\ \A k \in 1..2 : IsInt(e["nodes"][2][k]) /\ e["nodes"][2][k][2] \in NetHosts
             /\ TypeOf(e) = "bw_set" => Has(e, "bandwidth")
        [] TypeOf(e) \in {"fib_add", "fib_del", "fib_enable"} ->
             host /\ Has(e, "prefix") /\ Has(e, "next_hop")
        [] TypeOf(e) = "compute_call" -> host /\ Has(e, "endpoint")
        [] TypeOf(e) = "host_app_restart" -> host /\ Covers(args, e["host"][2])
        [] TypeOf(e) \in {"put", "pubsub_pub"} -> host /\ IsStr(Get(e, "uri", Null)) /\ IsStr(Get(e, "file", Null))
        [] TypeOf(e) \in {"get", "pubsub_sub", "ccninfo"} -> host /\ IsStr(Get(e, "uri", Null))
        [] OTHER -> FALSE

\* extract_publications: the URI an event publishes, if it does.
Publishes(e) == \/ TypeOf(e) \in {"put", "pubsub_pub"}
                \/ TypeOf(e) = "compute_call" /\ Truthy(Get(e, "publish_uri", Null))
PublishedUri(e) == IF TypeOf(e) = "compute_call" THEN e["publish_uri"] ELSE e["uri"]
Publishers == {e["host"] : e \in {x \in Scheduled : Publishes(x)}}
KnownUris == {PublishedUri(e) : e \in {x \in Scheduled : Publishes(x)}}

-----------------------------------------------------------------------------
\* No value that its option does not admit reaches a scenario, wherever it came
\* from: an explicit null for an option that has none is not mistaken for absence.
OnlyValidOptions ==
  stage = "run" => \A k \in DOMAIN args : ConfigAllowed(k) => FlatOK(OptionSpecs[k], args[k])

\* A value of the configuration file is dropped only for an explicit flag, or
\* because it is a null that stands for the default; nothing else is silently lost.
NothingLost ==
  stage = "run" =>
    \A k \in DOMAIN file \cap Keys :
      (ConfigAllowed(k) /\ k # "debug") =>
        \/ Get(args, k, Null) = ListFromStr(k, file[k])
        \/ Has(flags, k) /\ args[k] = flags[k]
        \/ file[k] = Null /\ OptionSpecs[k].nullable

\* Every event the scheduler fires in an accepted experiment, the restore events it
\* makes up at run time included, has what its handler needs; and whatever of them
\* publishes is a publisher the routes were computed for.
EventsRun ==
  stage = "run" =>
    \A e \in Fired : /\ HandlerFinds(e)
                     /\ Publishes(e) => e["host"] \in Publishers /\ PublishedUri(e) \in KnownUris

\* An explicit topology that was accepted leaves no host unreachable from another,
\* and every link and host of it has an address.
LinksUsable ==
  stage = "run" /\ Has(args, "links") =>
    LET ps == {LinkPair(args["links"][2][i]) : i \in DOMAIN args["links"][2]}
    IN  /\ Cardinality(ps) = Len(args["links"][2])
        /\ Cardinality(ps) <= MaxLinkSubnetId
        /\ \A p \in ps : p \subseteq NetHosts \cap 0..MaxHostIndex
        /\ \A S \in SUBSET NetHosts : S \notin {{}, NetHosts} =>
             \E p \in ps : p \cap S # {} /\ p \ S # {}

\* loader.py:142 promises that "config values must never override explicit CLI flags".
\* That is what becomes of a flag that differs from its default, and of a flag the file
\* says nothing about. It is not what becomes of a flag that repeats its default: the
\* merge compares values, cannot tell it from an absent one, and the file's value wins.
\* (Of the special_config_merge options only debug has a flag, and it is not merged.)
Repeated(k) == flags[k] = Defaults[k] /\ Copied(k) /\ Has(file, k)
               /\ ~(file[k] = Null /\ OptionSpecs[k].nullable)
FlagsKept ==
  stage = "run" =>
    \A k \in DOMAIN flags \ SpecialMerge :
      args[k] = IF Repeated(k) THEN ListFromStr(k, file[k]) ELSE flags[k]

\* What a scenario is given is admitted and is what the user wrote, and of two things
\* the user wrote the flag wins, unless it only repeats its default.
OptionsSound == OnlyValidOptions /\ NothingLost /\ FlagsKept
=============================================================================
