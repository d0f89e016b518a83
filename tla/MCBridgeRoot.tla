---------------------------- MODULE MCBridgeRoot ----------------------------
(* Instances of BridgeRoot for TLC. *)
EXTENDS BridgeRoot

\* An entry of switch s0 with one host and nothing else to do.
Plain(intf) ==
  [found |-> TRUE, switch |-> "s0", intf |-> intf, local |-> "net",
   hosts |-> <<"h0">>, ext |-> "none", gateway |-> FALSE,
   nat |-> FALSE, proxy |-> FALSE, vm |-> "none"]

MCConfigs ==
  { \* The third entry finds /etc/resolv.conf and the host's route as the first
    \* has left them; the switch of the second was not built.
    << [Plain("root-eth0") EXCEPT !.ext = "wan"],
       [Plain("none") EXCEPT !.found = FALSE, !.nat = TRUE],
       [Plain("root-eth1") EXCEPT !.ext = "wan", !.gateway = TRUE, !.vm = "vms"] >>,
    \* Two default routes, in the root namespace and in the host's.
    << [Plain("root-eth0") EXCEPT !.ext = "default", !.gateway = TRUE],
       [Plain("root-eth1") EXCEPT !.ext = "default"] >>,
    \* Equal NAT rules; forwarding is on when the second entry reads it.
    << [Plain("root-eth0") EXCEPT !.nat = TRUE],
       [Plain("root-eth1") EXCEPT !.nat = TRUE] >>,
    \* Proxy ARP twice, next to NAT.
    << [Plain("root-eth0") EXCEPT !.nat = TRUE, !.proxy = TRUE],
       [Plain("root-eth1") EXCEPT !.proxy = TRUE] >> }

\* The operator has a default route and an equal NAT rule; the host has a route
\* to the virtual machines.
MCPrior == {<<"root", "default">>, <<"h0", "vms">>, <<"POSTROUTING", "net">>}
MCEnabled == {<<"root-eth1", "proxy_arp">>}
=============================================================================
