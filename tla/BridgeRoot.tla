----------------------------- MODULE BridgeRoot -----------------------------
(***************************************************************************)
(* BridgeManager and setup_bridges (src/src/runtime/bridge_root.py): what  *)
(* the emulator changes on the operator's own machine (routes, OpenFlow    *)
(* rules, /etc/resolv.conf, sysctls, iptables) and the ledger of cleanup   *)
(* actions that undoes it.                                                 *)
(*                                                                         *)
(* Three kinds of things are changed:                                      *)
(*   cells: a value that is captured, overwritten and put back (0 and 1 are *)
(*          the two settings, 2 is a file cut short);                      *)
(*   items: routes and flows, which exist or not;                          *)
(*   rules: iptables rules, of which several equal ones may exist.         *)
(* A name is a pair: the node or table, and what it holds.                 *)
(*                                                                         *)
(* Any command may fail, and any call may raise or be interrupted.         *)
(***************************************************************************)
EXTENDS Naturals, Sequences, FiniteSets

CONSTANTS
  Configs,      \* the lists bridge_configs to consider
  Prior,        \* routes, flows and rules that were there before
  Enabled,      \* cells that had the value 1 before
  MaxCleanups   \* bound: calls of cleanup()

Names == STRING \X STRING

\* "intf" is the root interface of the entry, "ext" external_routes ("none" if
\* absent, "default" for a default route), "vm" vm_host_network.
Entry == [found : BOOLEAN, switch : STRING, intf : STRING, local : STRING,
          hosts : Seq(STRING), ext : STRING, gateway : BOOLEAN,
          nat : BOOLEAN, proxy : BOOLEAN, vm : STRING]

ASSUME BridgeAssumption ==
  /\ Configs \subseteq Seq(Entry)
  /\ Prior \subseteq Names /\ Enabled \subseteq Names
  /\ MaxCleanups \in Nat
  \* Mininet numbers the interfaces of the root node.
  /\ \A es \in Configs :
       /\ \A i, k \in DOMAIN es : es[i].intf = es[k].intf => i = k
       /\ \A i \in DOMAIN es : es[i].intf \notin {"all", "root", "etc"}

Allconfig == UNION {{es[i] : i \in DOMAIN es} : es \in Configs}

Forward == <<"root", "ip_forward">>
AllArp == <<"all", "proxy_arp">>
Resolv == <<"etc", "resolv.conf">>
IfaceArp(e) == <<e.intf, "proxy_arp">>
Cells == {Forward, AllArp, Resolv} \cup {IfaceArp(e) : e \in Allconfig}

\* The rules of enable_nat, in its order.
Rule(e, k) == CASE k = 1 -> <<"POSTROUTING", e.local>>
                [] k = 2 -> <<"FORWARD_out", e.intf>>
                [] OTHER -> <<"FORWARD_in", e.intf>>
Rules == {Rule(e, k) : e \in Allconfig, k \in 1..3}

\* "ip route replace default", which only add_host_route runs, and "ovs-ofctl
\* add-flow" overwrite what is there: in a host's namespace and on a switch of
\* the emulation, never in the root namespace.
Overwrites(name) == name[1] = "flow" \/ (name[2] = "default" /\ name[1] # "root")

VARIABLES
  config,    \* bridge_configs
  entry,     \* the bridge entry at which setup_bridges is
  calls,     \* the calls it still makes for this entry
  pc,        \* inside a call, after setup ("up"), or inside cleanup
  n,         \* hosts written or NAT rules added by the call
  prior,     \* the value the call has read
  cells, items, rules,
  ledger,    \* cleanup_actions
  j,         \* the action at which cleanup() is
  retained,  \* retained_reversed, reversed
  cleanups,  \* history: cleanup() calls begun
  before,    \* history: cells before setup
  captures,  \* history: restores registered for each cell
  gap,       \* history: changes made by a call that was cut off before it could
             \* register their inverse, and rules whose rollback failed
  dropped,   \* history: items whose removal failed
  cut        \* history: a cleanup() was interrupted

locals == <<entry, calls, n, prior>>
world == <<cells, items, rules>>
cleanVars == <<j, retained, cleanups>>
given == <<config, before>>
histVars == <<given, captures, gap, dropped, cut>>
vars == <<locals, pc, world, ledger, cleanVars, histVars>>

Init ==
  /\ config \in Configs
  /\ entry = 0 /\ calls = <<>> /\ n = 0 /\ prior = 0 /\ pc = "call"
  /\ cells = [c \in Cells |-> IF c \in Enabled THEN 1 ELSE 0]
  /\ items = Prior \ Rules
  /\ rules = [r \in Rules |-> IF r \in Prior THEN 1 ELSE 0]
  /\ ledger = <<>>
  /\ j = 0 /\ retained = <<>> /\ cleanups = 0
  /\ before = cells /\ captures = [c \in Cells |-> 0]
  /\ gap = {} /\ dropped = {} /\ cut = FALSE

-----------------------------------------------------------------------------
\* setup_bridges.

Add(name) == [op |-> "add", what |-> name]
HostRoutes(e, dest) == [k \in 1..Len(e.hosts) |-> Add(<<e.hosts[k], dest>>)]
If(b, s) == IF b THEN s ELSE <<>>
Do(op) == <<[op |-> op, what |-> <<"", "">>]>>

\* The calls for one entry, in their order.  An entry without a root address or
\* whose switch was not built is skipped whole.
CallsOf(e) ==
  If(e.found,
     <<Add(<<"root", e.local>>), Add(<<"flow", e.switch>>)>>
     \o If(e.ext # "none",
           If(e.gateway, <<Add(<<"root", e.ext>>)>>)
           \o HostRoutes(e, e.ext) \o Do("resolv"))
     \o If(e.nat, Do("forward") \o Do("nat"))
     \o If(e.proxy, Do("proxy"))
     \o If(e.vm # "none", HostRoutes(e, e.vm)))

\* The call has returned; its local variables are gone.
Returned == pc' = "call" /\ calls' = Tail(calls) /\ n' = 0 /\ prior' = 0 /\ UNCHANGED entry

\* setup_bridges has returned or an exception has left it.
Left == pc' = "up" /\ calls' = <<>> /\ n' = 0 /\ prior' = 0 /\ entry' = 0

NextEntry ==
  /\ pc = "call" /\ calls = <<>>
  /\ IF entry = Len(config)
       THEN Left
       ELSE entry' = entry + 1 /\ calls' = CallsOf(config[entry + 1])
            /\ UNCHANGED <<pc, n, prior>>
  /\ UNCHANGED <<world, ledger, cleanVars, histVars>>

Calling(op) == pc = "call" /\ calls # <<>> /\ Head(calls).op = op
Current == config[entry]

Restore(c, v) == [kind |-> "cell", what |-> c, value |-> v]
Remove(name) == [kind |-> "item", what |-> name, value |-> 0]
Delete(r) == [kind |-> "rule", what |-> r, value |-> 0]

\* cleanup_actions.append for a cell.
Register(c, v) ==
  /\ ledger' = Append(ledger, Restore(c, v))
  /\ captures' = [captures EXCEPT ![c] = @ + 1]

AddItem_Unconditional ==
  /\ Calling("add")
  /\ LET name == Head(calls).what
     IN  /\ items' = items \cup {name}
         /\ ledger' = Append(ledger, Remove(name))
  /\ Returned
  /\ UNCHANGED <<cells, rules, cleanVars, histVars>>

\* _apply_reversible: the inverse is registered only if the command succeeded.
\* "ip route add" fails if the route exists, a default route of the root
\* namespace included.
AddItem ==
  /\ Calling("add")
  /\ LET name == Head(calls).what
     IN  \/ /\ name \notin items \/ Overwrites(name)
            /\ items' = items \cup {name}
            /\ ledger' = Append(ledger, Remove(name))
         \/ UNCHANGED <<items, ledger>>
  /\ Returned
  /\ UNCHANGED <<cells, rules, cleanVars, histVars>>

\* write_host_resolv_conf: nothing to do without hosts or if the file cannot be
\* read; otherwise the restore is registered before the first write.
CaptureResolv ==
  /\ Calling("resolv")
  /\ \/ Returned /\ UNCHANGED <<ledger, captures>>
     \/ /\ Len(Current.hosts) > 0
        /\ Register(Resolv, cells[Resolv])
        /\ pc' = "resolv" /\ UNCHANGED locals
  /\ UNCHANGED <<world, cleanVars, given, gap, dropped, cut>>

\* The file is opened for writing, which empties it, and written; how the command
\* ended is not looked at.
WriteResolv ==
  /\ pc = "resolv"
  /\ IF n < Len(Current.hosts)
       THEN /\ n' = n + 1
            /\ \E v \in {1, 2} : cells' = [cells EXCEPT ![Resolv] = v]
            /\ UNCHANGED <<pc, entry, calls, prior>>
       ELSE Returned /\ UNCHANGED cells
  /\ UNCHANGED <<items, rules, ledger, cleanVars, histVars>>

\* enable_ip_forwarding.
WriteForward ==
  /\ Calling("forward")
  /\ prior' = cells[Forward]
  /\ cells' = [cells EXCEPT ![Forward] = 1]
  /\ pc' = "forward"
  /\ UNCHANGED <<entry, calls, n, items, rules, ledger, cleanVars, histVars>>

RegisterForward ==
  /\ pc = "forward"
  /\ Register(Forward, prior)
  /\ Returned
  /\ UNCHANGED <<world, cleanVars, given, gap, dropped, cut>>

\* enable_nat, which does nothing if it finds no outbound interface.
BeginNat ==
  /\ Calling("nat")
  /\ \/ pc' = "nat" /\ UNCHANGED locals
     \/ Returned
  /\ UNCHANGED <<world, ledger, cleanVars, histVars>>

AddRule ==
  /\ pc = "nat" /\ n < 3
  /\ n' = n + 1
  /\ rules' = [rules EXCEPT ![Rule(Current, n + 1)] = @ + 1]
  /\ UNCHANGED <<entry, calls, pc, prior, cells, items, ledger, cleanVars, histVars>>

RuleFails ==
  /\ pc = "nat" /\ n < 3
  /\ pc' = "nat_undo"
  /\ UNCHANGED <<locals, world, ledger, cleanVars, histVars>>

UndoRule_Skips ==
  /\ pc = "nat_undo" /\ n > 0
  /\ n' = n - 1
  /\ rules' = IF n = 1 THEN rules ELSE [rules EXCEPT ![Rule(Current, n)] = @ - 1]
  /\ UNCHANGED <<entry, calls, pc, prior, cells, items, ledger, cleanVars, histVars>>

\* The rules already added are deleted in reverse order.
UndoRule ==
  /\ pc = "nat_undo" /\ n > 0
  /\ n' = n - 1
  /\ \/ rules' = [rules EXCEPT ![Rule(Current, n)] = @ - 1] /\ UNCHANGED gap
     \/ gap' = gap \cup {Rule(Current, n)} /\ UNCHANGED rules
  /\ UNCHANGED <<entry, calls, pc, prior, cells, items, ledger, cleanVars,
                 given, captures, dropped, cut>>

RegisterNat ==
  /\ pc = "nat" /\ n = 3
  /\ ledger' = ledger \o [k \in 1..3 |-> Delete(Rule(Current, k))]
  /\ Returned
  /\ UNCHANGED <<world, cleanVars, histVars>>

\* enable_proxy_arp: the interface first.
WriteIface ==
  /\ Calling("proxy")
  /\ prior' = cells[IfaceArp(Current)]
  /\ cells' = [cells EXCEPT ![IfaceArp(Current)] = 1]
  /\ pc' = "iface"
  /\ UNCHANGED <<entry, calls, n, items, rules, ledger, cleanVars, histVars>>

RegisterIface ==
  /\ pc = "iface"
  /\ Register(IfaceArp(Current), prior)
  /\ pc' = "all"
  /\ UNCHANGED <<locals, world, cleanVars, given, gap, dropped, cut>>

\* Then all interfaces.
WriteAll ==
  /\ pc = "all"
  /\ prior' = cells[AllArp]
  /\ cells' = [cells EXCEPT ![AllArp] = 1]
  /\ pc' = "all_written"
  /\ UNCHANGED <<entry, calls, n, items, rules, ledger, cleanVars, histVars>>

RegisterAll ==
  /\ pc = "all_written"
  /\ Register(AllArp, prior)
  /\ Returned
  /\ UNCHANGED <<world, cleanVars, given, gap, dropped, cut>>

AllFails_Removes ==
  /\ pc = "all"
  /\ LET a == ledger[Len(ledger)]
     IN  \/ cells' = [cells EXCEPT ![a.what] = a.value]
         \/ UNCHANGED cells
  /\ ledger' = SubSeq(ledger, 1, Len(ledger) - 1)
  /\ Left
  /\ UNCHANGED <<items, rules, cleanVars, histVars>>

\* The second write fails: the interface is put back and its restore taken out of
\* the ledger; the restore stays there if that fails too.
AllFails ==
  /\ pc = "all"
  /\ LET a == ledger[Len(ledger)]
     IN  \/ /\ cells' = [cells EXCEPT ![a.what] = a.value]
            /\ ledger' = SubSeq(ledger, 1, Len(ledger) - 1)
         \/ UNCHANGED <<cells, ledger>>
  /\ Left
  /\ UNCHANGED <<items, rules, cleanVars, histVars>>

\* What the call under way has changed and not registered.
Unregistered ==
  CASE pc = "forward" -> {Forward}
    [] pc = "iface" -> {IfaceArp(Current)}
    [] pc = "all_written" -> {AllArp}
    [] pc \in {"nat", "nat_undo"} -> {Rule(Current, k) : k \in 1..n}
    [] OTHER -> {}

\* A call raises, or an interrupt arrives: setup_scenario is left, cleanup follows.
\* A route may have been added just then.
SetupRaises ==
  /\ pc \notin {"up", "clean"}
  /\ pc = "call" => calls # <<>>
  /\ Left
  /\ gap' = gap \cup Unregistered
  /\ \/ UNCHANGED <<items, dropped>>
     \/ /\ Calling("add") /\ Head(calls).what \notin items
        /\ items' = items \cup {Head(calls).what}
        /\ dropped' = dropped \cup {Head(calls).what}
  /\ UNCHANGED <<cells, rules, ledger, cleanVars, given, captures, cut>>

-----------------------------------------------------------------------------
\* cleanup().

BeginCleanup ==
  /\ pc = "up" /\ cleanups < MaxCleanups
  /\ pc' = "clean"
  /\ j' = Len(ledger) /\ retained' = <<>>
  /\ cleanups' = cleanups + 1
  /\ UNCHANGED <<locals, world, ledger, histVars>>

\* The command of an action succeeds.
Undone(a) ==
  \/ /\ a.kind = "cell"
     /\ cells' = [cells EXCEPT ![a.what] = a.value]
     /\ UNCHANGED <<items, rules>>
  \/ /\ a.kind = "item" /\ a.what \in items
     /\ items' = items \ {a.what}
     /\ UNCHANGED <<cells, rules>>
  \/ /\ a.kind = "rule" /\ rules[a.what] > 0
     /\ rules' = [rules EXCEPT ![a.what] = @ - 1]
     /\ UNCHANGED <<cells, items>>

\* It returns rc # 0 or raises; a file it was to write may be empty then.
NotUndone(a) ==
  /\ \/ UNCHANGED cells
     \/ a.kind = "cell" /\ a.what = Resolv /\ cells' = [cells EXCEPT ![Resolv] = 2]
  /\ UNCHANGED <<items, rules>>

\* The actions from the last to the first.  Those for routes and flows are best
\* effort; the others are retained when they fail.
CleanAction ==
  /\ pc = "clean" /\ j > 0
  /\ j' = j - 1
  /\ LET a == ledger[j]
     IN  \/ Undone(a) /\ UNCHANGED <<retained, dropped>>
         \/ /\ NotUndone(a)
            /\ IF a.kind = "item"
                 THEN dropped' = dropped \cup {a.what} /\ UNCHANGED retained
                 ELSE retained' = <<a>> \o retained /\ UNCHANGED dropped
  /\ UNCHANGED <<locals, pc, ledger, cleanups, given, captures, gap, cut>>

CleanDone ==
  /\ pc = "clean" /\ j = 0
  /\ ledger' = retained /\ retained' = <<>>
  /\ pc' = "up"
  /\ UNCHANGED <<locals, world, j, cleanups, histVars>>

\* KeyboardInterrupt is no Exception: it leaves cleanup() with the ledger as it
\* was, the command under way done or not.
CleanInterrupted ==
  /\ pc = "clean" /\ j > 0
  /\ Undone(ledger[j]) \/ NotUndone(ledger[j])
  /\ cut' = TRUE
  /\ pc' = "up" /\ j' = 0 /\ retained' = <<>>
  /\ UNCHANGED <<locals, ledger, cleanups, given, captures, gap, dropped>>

Next ==
  \/ NextEntry \/ AddItem \/ CaptureResolv \/ WriteResolv
  \/ WriteForward \/ RegisterForward
  \/ BeginNat \/ AddRule \/ RuleFails \/ UndoRule \/ RegisterNat
  \/ WriteIface \/ RegisterIface \/ WriteAll \/ RegisterAll \/ AllFails
  \/ SetupRaises
  \/ BeginCleanup \/ CleanAction \/ CleanDone \/ CleanInterrupted

Spec == Init /\ [][Next]_vars

-----------------------------------------------------------------------------
\* Properties.

\* An action of the ledger holds the original value of c.
Restorable(c) ==
  \E k \in DOMAIN ledger :
    ledger[k].kind = "cell" /\ ledger[k].what = c /\ ledger[k].value = before[c]

\* Once setup has ended, whatever it raised, each changed setting of the machine
\* can be put back: it has its original value, or the ledger still holds it, also
\* after a cleanup() that failed in part (so one that raises nothing has restored
\* everything).  Not so for a sysctl whose write was cut off before the restore
\* was registered, nor when cleanup() is called again for a setting that two
\* entries captured: the later capture may then be written last.
Recoverable ==
  pc = "up" =>
    \A c \in Cells :
      \/ cells[c] = before[c] \/ Restorable(c)
      \/ c \in gap /\ c # Resolv
      \/ cleanups > 1 /\ captures[c] > 1

DeletesOf(r) ==
  Cardinality({k \in DOMAIN ledger : ledger[k].kind = "rule" /\ ledger[k].what = r})

\* The iptables rules are those that were there before and one for each deletion
\* in the ledger: enable_nat adds all three rules or none, and cleanup() deletes
\* as many as were added, even if the operator has an equal rule.
RulesBalanced ==
  pc = "up" /\ ~cut =>
    \A r \in Rules \ gap :
      rules[r] = (IF r \in Prior THEN 1 ELSE 0) + DeletesOf(r)

\* No route of the operator is deleted, his default route included, also when
\* an entry adds an equal one; and a route or flow that setup has added is
\* registered, or its removal has failed.  Only what ends with the emulation may
\* be overwritten: a host's default route and a switch's flow.
ItemsOwned ==
  /\ \A x \in Prior \ Rules : Overwrites(x) \/ x \in items
  /\ pc = "up" =>
       \A x \in items \ (Prior \cup dropped) :
         \E k \in DOMAIN ledger : ledger[k].kind = "item" /\ ledger[k].what = x
=============================================================================
