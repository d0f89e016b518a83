--------------------------- MODULE MCConfigRules ----------------------------
(* Instances of ConfigRules for TLC: files with one option, with one event, *)
(* with an explicit topology, and with one structured block.                *)
EXTENDS ConfigRules, TLC

One(key, v) == [k \in {key} |-> v]

\* Every option with values of every type, at and below its minimum.
Samples == {Null, Bool(TRUE), Str(""), Str("spring"), Str("x"), Whole(0), Whole(1), Whole(2),
            Whole(3), Whole(6), Whole(999), Float(1), List(<<>>), List(<<Str("x")>>), List(<<Whole(1)>>)}
FlatKeys == {k \in Keys : OptionSpecs[k].kind # "structured" /\ ConfigAllowed(k)}
FlatFiles == {One(k, v) : k \in FlatKeys, v \in Samples} \cup {One("legacy_layout", Null)}

\* Flags that differ from the defaults, and one that repeats its default.
MCFlags == {<<>>, One("hosts", Whole(4)), One("hosts", Whole(5)), One("num", Whole(7)),
            One("bw", List(<<Str("y")>>)), One("no_cli", Bool(TRUE))}

\* Events: a complete one of every type, with a field dropped or replaced.
PairOf(a, b) == List(<<Whole(a), Whole(b)>>)
Complete ==
  [nodes |-> PairOf(0, 1), host |-> Whole(1), prefix |-> Str("p"), next_hop |-> Str("a"),
   bandwidth |-> Whole(1), endpoint |-> Str("e"), uri |-> Str("u"), file |-> Str("f")]
CompleteEvent(type) == [f \in RequiredFields(type) |-> Complete[f]]
                @@ [at |-> Whole(0), type |-> Str(type)]
Bad == [nodes |-> {PairOf(0, 9), List(<<Whole(0)>>), Str("x")}, host |-> {Whole(9), Str("x")},
        uri |-> {Null}, file |-> {Whole(1)}, at |-> {Whole(-1), Str("x")},
        bandwidth |-> {Whole(-1)}, type |-> {Str("x")}, prefix |-> {}, next_hop |-> {}, endpoint |-> {Null}]
Variants(e) ==
  {e} \cup {[f \in DOMAIN e \ {g} |-> e[f]] : g \in DOMAIN e}
      \cup UNION {{[e EXCEPT ![g] = v] : v \in Bad[g]} : g \in DOMAIN e}
Extra(type) ==
  CASE type = "compute_call" -> {One("publish_uri", Str("u2")),
                                 [publish_uri |-> Str("u2"), output_file |-> Str("o")],
                                 [pub_opts |-> Dict([rate |-> Whole(1)]), method |-> Str("GET")],
                                 One("pub_opts", Dict([target |-> Str("trg")]))}
    [] type = "put" -> {One("block_size", Whole(59)), One("block_size", Whole(60)), One("rate", Float(0))}
    [] type = "get" -> {One("sg", Whole(1)), One("chunk", Whole(0)), One("valid_algo", Str("crc32c"))}
    [] type = "pubsub_pub" -> {One("pub_opts", Null), One("pub_opts", Dict([retry_limit |-> Whole(0)])),
                               One("pub_opts", Dict([target |-> Str("x")]))}
    [] type = "pubsub_sub" -> {One("sub_opts", Dict([wait |-> Whole(0)])), One("sub_opts", Dict([pipeline |-> Whole(0)]))}
    [] type = "ccninfo" -> {[hop_count |-> Whole(3), skip_hop |-> Whole(2)],
                            [hop_count |-> Whole(2), skip_hop |-> Whole(2)], One("timeout", Whole(1)),
                            One("uri", Str("root")), One("expected_route", List(<<Str("h1"), Str("h0")>>))}
    [] type = "host_app_restart" -> {One("downtime_s", Whole(2)), One("downtime_s", Infinite)}
    [] type = "fib_add" -> {One("protocol", Str("udp")), One("protocol", Str("tcp"))}
    [] OTHER -> {}
Plain == UNION {Variants(CompleteEvent(t)) \cup {x @@ CompleteEvent(t) : x \in Extra(t)} : t \in EventTypes}

RestoreFields == [nodes |-> PairOf(1, 2), host |-> Whole(1), prefix |-> Str("p"),
                  next_hop |-> Str("a"), bandwidth |-> Whole(2), uri |-> Str("u3"), file |-> Str("f"),
                  endpoint |-> Str("e")]
Repeats ==
  LET timed == [interval |-> Whole(3), duration |-> Whole(1)]
  IN  {[interval |-> Whole(2), count |-> Whole(2)], [interval |-> Whole(0)], [count |-> Whole(0)],
       [duration |-> Whole(1)], [duration |-> Whole(1), restore |-> Str("x")],
       timed @@ [restore |-> Dict(One("bandwidth", Whole(5)))],
       timed @@ [restore |-> Dict(One("host", Whole(9)))],
       timed @@ [restore |-> Dict(One("type", Str("link_up"))), restore_type |-> Str("link_up")]}
      \cup {timed @@ [restore_type |-> Str(t)] : t \in EventTypes \cup {"x"}}
      \cup {timed @@ [restore |-> Dict([type |-> Str(t)] @@ RestoreFields)] : t \in EventTypes}
Repeating == {[repeat |-> Dict(r)] @@ CompleteEvent(t) : r \in Repeats, t \in EventTypes}

App(hosts) == Dict([hosts |-> hosts, argv |-> List(<<Str("run")>>)])
EventFiles ==
  {[events |-> List(<<Dict(e)>>), host_apps |-> List(<<App(List(<<Whole(1)>>))>>)] : e \in Plain \cup Repeating}
  \cup {[events |-> List(<<Dict(CompleteEvent("put")), Dict(CompleteEvent("compute_call"))>>)],
        [events |-> List(<<Dict([repeat |-> Dict([count |-> Whole(2)])] @@ CompleteEvent("put"))>>),
         no_cli |-> Bool(TRUE), results_json |-> Str("r")],
        [events |-> List(<<Str("x")>>)], [events |-> Str("x")]}

\* Topologies of three or four hosts.
Pairs == {PairOf(0, 1), PairOf(1, 0), PairOf(1, 2), PairOf(2, 0), PairOf(2, 3), PairOf(1, 1),
          PairOf(3, 4), List(<<Whole(0)>>)}
LinkLists == UNION {[1..n -> Pairs] : n \in 0..4}
LinkFiles == {[hosts |-> Whole(n), links |-> List(l)] : n \in {3, 4, 5}, l \in LinkLists}
             \cup {[links |-> List(<<PairOf(0, 1)>>), switches |-> Whole(3)]}

\* Structured blocks, sound and not.
Blocky ==
  {One("cache_config", v) : v \in {Null, Dict(<<>>), Dict([strategy |-> Str("x")]),
      Dict([default |-> Dict([count |-> Whole(1), capacity |-> Whole(0)]),
            nodes |-> List(<<Dict([id |-> Whole(1), type |-> Str("memory")])>>)])}}
  \cup {One("forwarding_config", v) : v \in {Null, Dict(<<>>), Dict([default |-> Str("flooding")]),
      Dict([nodes |-> List(<<Dict([id |-> List(<<Whole(1)>>)])>>)]),
      Dict([nodes |-> List(<<Dict([id |-> List(<<Whole(1)>>), strategy |-> Str("flooding")])>>)])}}
  \cup {One("failure_scenarios", v) : v \in {Null, Dict(<<>>), Dict([simple |-> Dict([interval |-> Null])]),
      Dict([simple |-> Dict([interval |-> Whole(2), target |-> Str("x")])]),
      Dict([strategy |-> Str("cyclic"), cycles |-> List(<<>>)]),
      Dict([strategy |-> Str("cyclic"), cycles |-> List(<<Dict([target |-> Str("x")])>>)]),
      Dict([strategy |-> Str("cyclic"), cycles |-> List(<<Dict([target |-> List(<<Whole(1)>>)])>>)])}}
  \cup {One("bridges", List(<<Dict([switch |-> Whole(n), root_ip |-> Str(ip), local_routes |-> Str("r")])>>))
          : n \in {-1, 1, 10}, ip \in {"auto", "cidr", "x"}}
  \cup {One("prefix_routes", Dict(One(p, Whole(n)))) : p \in {"uri", "root"}, n \in {1, 9}}
  \cup {One("warmup_gets", List(<<Dict([host |-> Whole(1), uri |-> Str("u")])>>)), One("warmup_gets", Null)}
  \cup {One("monitoring", v) : v \in {Dict([interval |-> Infinite]), Dict([interval |-> Whole(5)]),
      Dict([targets |-> List(<<Dict([type |-> Str("ccninfo"), uri |-> Str("u"), hosts |-> Str("all")])>>)]),
      Dict([targets |-> List(<<Dict([type |-> Str("cefstatus"), hosts |-> List(<<Whole(9)>>)])>>)])}}
  \cup {One("host_apps", List(<<App(h)>>)) : h \in {Str("all"), List(<<Whole(1), Whole(9)>>), Null}}
  \cup {One("host_apps", List(<<Dict([hosts |-> Str("all"), argv |-> List(<<Str("r")>>), log |-> Str(l)])>>))
          : l \in {"per_host", "shared"}}
  \cup {One("routing", v) : v \in {Null, Dict([k |-> Whole(0)]), Dict([strategy |-> Str("ecmp")])}}
  \cup {One("addressing", v) : v \in {Dict([network_cidr |-> Str("/16")]), Dict([network_cidr |-> Str("/24")])}}
  \cup {One("debug", v) : v \in {Null, Bool(TRUE), Dict([artifacts |-> List(<<Str("fib_dump")>>)])}}

MCFiles == {<<>>} \cup FlatFiles \cup EventFiles \cup LinkFiles \cup Blocky
=============================================================================
