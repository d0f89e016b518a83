-------------------------- MODULE BridgeRootProofs --------------------------
(***************************************************************************)
(* Proofs about BridgeRoot: the operator's machine can be put back.        *)
(*                                                                         *)
(* Recoverable, RulesBalanced and ItemsOwned speak of the moments outside  *)
(* setup and cleanup.  The inductive invariant says how far a call or a    *)
(* cleanup under way has come: which cell is written and not registered,   *)
(* which rules are added and not registered, which actions of the ledger   *)
(* are still to be tried and which are retained.                           *)
(***************************************************************************)
EXTENDS BridgeRoot, FiniteSetTheorems, SequenceTheorems, TLAPS

-----------------------------------------------------------------------------
(* The inductive invariant. *)

\* STRING, with the literals of the names spelt out for the provers.
Words == STRING \cup {"root", "all", "etc", "flow", "", "ip_forward", "proxy_arp",
                     "resolv.conf", "POSTROUTING", "FORWARD_out", "FORWARD_in"}
Pairs == Words \X Words

Call == [op : {"add", "resolv", "forward", "nat", "proxy"}, what : Pairs]

\* A cleanup action.
Action ==
  {a \in [kind : {"cell", "item", "rule"}, what : Pairs, value : 0..2] :
     (a.kind = "cell" => a.what \in Cells) /\ (a.kind = "rule" => a.what \in Rules)}

ControlOK ==
  /\ config \in Configs /\ entry \in 0..Len(config) /\ calls \in Seq(Call)
  /\ pc \in {"call", "resolv", "forward", "nat", "nat_undo", "iface", "all",
             "all_written", "up", "clean"}
  /\ n \in Nat /\ prior \in 0..2

WorldOK ==
  cells \in [Cells -> 0..2] /\ items \subseteq Pairs /\ rules \in [Rules -> Nat]

LedgerOK ==
  /\ ledger \in Seq(Action) /\ retained \in Seq(Action)
  /\ j \in 0..Len(ledger) /\ cleanups \in Nat

HistoryOK ==
  /\ before \in [Cells -> 0..2] /\ captures \in [Cells -> Nat]
  /\ gap \subseteq Pairs /\ dropped \subseteq Pairs /\ cut \in BOOLEAN

TypeOK == ControlOK /\ WorldOK /\ LedgerOK /\ HistoryOK

\* What is true at each place of setup_bridges and of cleanup().
PlaceInv ==
  /\ pc # "clean" => j = 0 /\ retained = <<>>
  /\ pc \notin {"up", "clean"} => cleanups = 0
  /\ pc = "clean" => cleanups > 0
  /\ calls # <<>> => entry # 0
  /\ pc \notin {"call", "up", "clean"} => calls # <<>>
  /\ pc \in {"nat", "nat_undo"} => n <= 3
  /\ pc \notin {"nat", "nat_undo", "resolv"} => n = 0
  /\ pc = "resolv" => captures[Resolv] > 0
  /\ pc = "all" => ledger # <<>> /\ ledger[Len(ledger)].kind = "cell"
  /\ Resolv \notin gap

\* The k-th action of s restores c.
Restores(s, k, c) == s[k].kind = "cell" /\ s[k].what = c

\* Cells of which a history of changes is told.
Told == Cells \ gap

\* The cell that the call under way has written and not registered.
Written ==
  CASE pc = "forward" -> {Forward}
    [] pc = "iface" -> {IfaceArp(Current)}
    [] pc = "all_written" -> {AllArp}
    [] OTHER -> {}

\* A cell without a capture is unchanged; the write of the call under way has
\* kept its value.
UntouchedInv ==
  \A c \in Told : captures[c] = 0 =>
    IF c \in Written THEN prior = before[c] ELSE cells[c] = before[c]

\* The captures and the ledger: one action for a capture, and during setup the
\* ledger has lost none but the last.
CaptureInv ==
  \A c \in Told :
    /\ captures[c] = 0 => \A k \in DOMAIN ledger : ~Restores(ledger, k, c)
    /\ captures[c] <= 1 => \A k, l \in DOMAIN ledger :
         Restores(ledger, k, c) /\ Restores(ledger, l, c) => k = l
    /\ captures[c] > 0 /\ pc \notin {"up", "clean"} =>
         \E k \in DOMAIN ledger : Restores(ledger, k, c)

\* No action of the ledger for c is out of its original order.
Fresh(c) == captures[c] <= 1 \/ cleanups = 0 \/ (cleanups = 1 /\ pc = "clean")

\* The first action for a cell, which cleanup() reaches last, has its original
\* value.
FirstInv ==
  \A c \in Told : Fresh(c) =>
    \A k \in DOMAIN ledger : Restores(ledger, k, c) =>
      \E i \in 1..k :
        /\ Restores(ledger, i, c) /\ ledger[i].value = before[c]
        /\ \A m \in 1..(i - 1) : ~Restores(ledger, m, c)

\* A changed cell can be put back: outside cleanup() as Recoverable says; inside
\* an action is still to be tried or has been retained.
CellInv ==
  /\ pc = "up" => \A c \in Told :
       cells[c] = before[c] \/ Restorable(c) \/ (cleanups > 1 /\ captures[c] > 1)
  /\ pc = "clean" => \A c \in Told : Fresh(c) =>
       \/ cells[c] = before[c]
       \/ \E k \in 1..j : Restores(ledger, k, c)
       \/ \E k \in DOMAIN retained : Restores(retained, k, c) /\ retained[k].value = before[c]

\* The actions that cleanup() retains.
RetainInv ==
  /\ \A k \in DOMAIN retained : retained[k].kind # "item"
  /\ \A c \in Told : \A k \in DOMAIN retained : Restores(retained, k, c) =>
       /\ captures[c] > 0 /\ \E l \in DOMAIN ledger : Restores(ledger, l, c)
       /\ captures[c] = 1 =>
            /\ retained[k].value = before[c]
            /\ \A l \in DOMAIN retained : Restores(retained, l, c) => l = k
            /\ \A l \in 1..j : ~Restores(ledger, l, c)

\* The deletions of r among the first m actions of s.
DeletesIn(s, m, r) == {k \in 1..m : s[k].kind = "rule" /\ s[k].what = r}

\* The rules that enable_nat has added and not registered.
Adding == IF pc \in {"nat", "nat_undo"} THEN {Rule(Current, k) : k \in 1..n} ELSE {}

\* Each rule is there before, is to be deleted by an action, or is being added.
RulesInv ==
  /\ \A r \in Adding : rules[r] > 0
  /\ ~cut => \A r \in Rules \ gap :
       rules[r] = (IF r \in Prior THEN 1 ELSE 0) + (IF r \in Adding THEN 1 ELSE 0)
                  + (IF pc = "clean"
                       THEN Cardinality(DeletesIn(ledger, j, r))
                            + Cardinality(DeletesIn(retained, Len(retained), r))
                       ELSE Cardinality(DeletesIn(ledger, Len(ledger), r)))

\* The k-th action of the ledger removes x.
Removes(k, x) == ledger[k].kind = "item" /\ ledger[k].what = x

\* No action removes what the operator had; each item that setup added has one
\* that cleanup() has still to try.
ItemsInv ==
  /\ \A x \in Prior \ Rules :
       Overwrites(x) \/ (x \in items /\ \A k \in DOMAIN ledger : ~Removes(k, x))
  /\ \A x \in items \ (Prior \cup dropped) :
       \E k \in DOMAIN ledger : Removes(k, x) /\ (pc = "clean" => k <= j)

\* The inductive invariant.
IInv ==
  /\ TypeOK
  /\ PlaceInv
  /\ UntouchedInv
  /\ CaptureInv
  /\ FirstInv
  /\ CellInv
  /\ RetainInv
  /\ RulesInv
  /\ ItemsInv

-----------------------------------------------------------------------------
(* Names and types. *)

\* The entry at which setup_bridges is.
LEMMA CurrentEntry ==
  ASSUME TypeOK, entry # 0
  PROVE  /\ Current \in Entry /\ Current \in Allconfig
         /\ entry \in DOMAIN config /\ Len(Current.hosts) \in Nat
<1>1. config \in Seq(Entry) /\ entry \in DOMAIN config
  BY BridgeAssumption DEF TypeOK, ControlOK, WorldOK, LedgerOK, HistoryOK
<1>2. Current \in Entry
  BY <1>1 DEF Current
<1>3. Current \in Allconfig
  BY <1>1 DEF Current, Allconfig, TypeOK, ControlOK, WorldOK, LedgerOK, HistoryOK
<1>4. Len(Current.hosts) \in Nat
  BY <1>2 DEF Entry
<1>. QED
  BY <1>1, <1>2, <1>3, <1>4

\* Every entry of every list is an entry of bridge_configs.
LEMMA EntriesTyped == Allconfig \subseteq Entry
<1>. SUFFICES ASSUME NEW es \in Configs, NEW i \in DOMAIN es PROVE es[i] \in Entry
  BY DEF Allconfig
<1>. QED
  BY BridgeAssumption

\* The rules of an entry are three, and none is the cell of /etc/resolv.conf.
LEMMA RuleNames ==
  ASSUME NEW e
  PROVE  /\ \A k, l \in 1..3 : Rule(e, k) = Rule(e, l) => k = l
         /\ \A k \in 1..3 : Rule(e, k) # Resolv
         /\ IfaceArp(e) # Resolv
<1>1. /\ Rule(e, 1) = <<"POSTROUTING", e.local>>
      /\ Rule(e, 2) = <<"FORWARD_out", e.intf>>
      /\ Rule(e, 3) = <<"FORWARD_in", e.intf>>
  BY DEF Rule
<1>2. /\ Rule(e, 1) # Rule(e, 2) /\ Rule(e, 1) # Rule(e, 3) /\ Rule(e, 2) # Rule(e, 3)
      /\ Rule(e, 1) # Resolv /\ Rule(e, 2) # Resolv /\ Rule(e, 3) # Resolv
  BY <1>1 DEF Resolv
<1>3. IfaceArp(e) # Resolv
  BY DEF IfaceArp, Resolv
<1>. QED
  BY <1>2, <1>3

\* Cells and rules are names.
LEMMA NamesTyped ==
  /\ Cells \subseteq Pairs /\ Rules \subseteq Pairs
  /\ Forward \in Cells /\ AllArp \in Cells /\ Resolv \in Cells
  /\ Forward # Resolv /\ AllArp # Resolv /\ Forward # AllArp
  /\ \A e \in Allconfig : IfaceArp(e) \in Cells /\ \A k \in 1..3 : Rule(e, k) \in Rules
<1>1. ASSUME NEW e \in Allconfig
      PROVE  IfaceArp(e) \in Pairs /\ \A k \in 1..3 : Rule(e, k) \in Pairs
  <2>1. e.intf \in STRING /\ e.local \in STRING
    BY EntriesTyped DEF Entry
  <2>. QED
    BY <2>1 DEF IfaceArp, Rule, Pairs, Words
<1>2. Forward \in Pairs /\ AllArp \in Pairs /\ Resolv \in Pairs
  BY DEF Forward, AllArp, Resolv, Pairs, Words
<1>3. Cells \subseteq Pairs
  BY <1>1, <1>2 DEF Cells
<1>4. Rules \subseteq Pairs
  BY <1>1 DEF Rules
<1>5. Forward # Resolv /\ AllArp # Resolv /\ Forward # AllArp
  BY DEF Forward, AllArp, Resolv
<1>6. \A e \in Allconfig : IfaceArp(e) \in Cells /\ \A k \in 1..3 : Rule(e, k) \in Rules
  BY DEF Cells, Rules
<1>. QED
  BY <1>2, <1>3, <1>4, <1>5, <1>6 DEF Cells

\* The calls for an entry.
LEMMA CallsTyped ==
  ASSUME NEW e \in Entry
  PROVE  CallsOf(e) \in Seq(Call)
<1>1. /\ e.local \in STRING /\ e.switch \in STRING /\ e.ext \in STRING /\ e.vm \in STRING
      /\ e.hosts \in Seq(STRING)
  BY DEF Entry
<1>2. ASSUME NEW a \in Words, NEW b \in STRING
      PROVE  Add(<<a, b>>) \in Call
  BY DEF Add, Call, Pairs, Words
<1>3. ASSUME NEW op \in {"resolv", "forward", "nat", "proxy"} PROVE Do(op) \in Seq(Call)
  <2>1. "" \in Words
    BY DEF Words
  <2>2. <<"", "">> \in Pairs
    BY <2>1 DEF Pairs
  <2>3. [op |-> op, what |-> <<"", "">>] \in Call
    BY <2>2, <1>3 DEF Call
  <2>4. \A x \in Call : <<x>> \in Seq(Call)
    OBVIOUS
  <2>5. <<[op |-> op, what |-> <<"", "">>]>> \in Seq(Call)
    BY <2>3, <2>4, Zenon
  <2>. QED
    BY <2>5, Zenon DEF Do
<1>4. ASSUME NEW dest \in STRING PROVE HostRoutes(e, dest) \in Seq(Call)
  <2>1. Len(e.hosts) \in Nat /\ \A k \in 1..Len(e.hosts) : e.hosts[k] \in STRING
    BY <1>1
  <2>2. \A k \in 1..Len(e.hosts) : Add(<<e.hosts[k], dest>>) \in Call
    BY <2>1, <1>2, <1>4 DEF Words
  <2>. QED
    BY <2>1, <2>2 DEF HostRoutes
<1>5. ASSUME NEW b, NEW s \in Seq(Call) PROVE If(b, s) \in Seq(Call)
  BY DEF If
<1>6. ASSUME NEW s \in Seq(Call), NEW t \in Seq(Call) PROVE s \o t \in Seq(Call)
  OBVIOUS
<1>. DEFINE s1 == <<Add(<<"root", e.local>>), Add(<<"flow", e.switch>>)>>
            s2 == <<Add(<<"root", e.ext>>)>>
            s3 == If(e.gateway, s2) \o HostRoutes(e, e.ext) \o Do("resolv")
            s4 == Do("forward") \o Do("nat")
            s5 == HostRoutes(e, e.vm)
<1>7. s1 \in Seq(Call)
  <2>1. "root" \in Words /\ "flow" \in Words
    BY DEF Words
  <2>2. Add(<<"root", e.local>>) \in Call /\ Add(<<"flow", e.switch>>) \in Call
    BY <1>1, <1>2, <2>1
  <2>. QED
    BY <2>2
<1>8. s2 \in Seq(Call)
  <2>1. "root" \in Words
    BY DEF Words
  <2>2. Add(<<"root", e.ext>>) \in Call
    BY <1>1, <1>2, <2>1
  <2>. QED
    BY <2>2
<1>. HIDE DEF s2
<1>9. s3 \in Seq(Call)
  BY <1>1, <1>3, <1>4, <1>5, <1>6, <1>8
<1>10. s4 \in Seq(Call)
  BY <1>3, <1>6
<1>11. s5 \in Seq(Call)
  BY <1>1, <1>4
<1>. HIDE DEF s1, s3, s4, s5
<1>12. s1 \o If(e.ext # "none", s3) \o If(e.nat, s4) \o If(e.proxy, Do("proxy"))
       \o If(e.vm # "none", s5) \in Seq(Call)
  BY <1>3, <1>5, <1>6, <1>7, <1>9, <1>10, <1>11
<1>13. CallsOf(e) = If(e.found, s1 \o If(e.ext # "none", s3) \o If(e.nat, s4)
                                \o If(e.proxy, Do("proxy")) \o If(e.vm # "none", s5))
  BY DEF CallsOf, s1, s2, s3, s4, s5
<1>. QED
  BY <1>5, <1>12, <1>13

\* The actions of the ledger and those retained.
LEMMA LedgerTyped ==
  ASSUME TypeOK
  PROVE  /\ Len(ledger) \in Nat /\ DOMAIN ledger = 1..Len(ledger)
         /\ Len(retained) \in Nat /\ DOMAIN retained = 1..Len(retained)
         /\ \A k \in DOMAIN ledger : ledger[k] \in Action
         /\ \A k \in DOMAIN retained : retained[k] \in Action
  BY DEF TypeOK, ControlOK, WorldOK, LedgerOK, HistoryOK

\* The fields of an action, and the actions that the calls register.
LEMMA ActionTyped ==
  /\ \A a \in Action :
       /\ a.kind \in {"cell", "item", "rule"} /\ a.what \in Pairs /\ a.value \in 0..2
       /\ a.kind = "cell" => a.what \in Cells
       /\ a.kind = "rule" => a.what \in Rules
  /\ \A c \in Cells, v \in 0..2 :
       /\ Restore(c, v) \in Action /\ Restore(c, v).kind = "cell"
       /\ Restore(c, v).what = c /\ Restore(c, v).value = v
  /\ \A x \in Pairs :
       /\ Remove(x) \in Action /\ Remove(x).kind = "item" /\ Remove(x).what = x
  /\ \A r \in Rules :
       /\ Delete(r) \in Action /\ Delete(r).kind = "rule" /\ Delete(r).what = r
  BY NamesTyped DEF Action, Restore, Remove, Delete

\* The call under way names a name.
LEMMA HeadTyped ==
  ASSUME TypeOK, calls # <<>>
  PROVE  /\ Head(calls).what \in Pairs
         /\ Tail(calls) \in Seq(Call)
<1>1. Head(calls) \in Call /\ Tail(calls) \in Seq(Call)
  BY DEF TypeOK, ControlOK, WorldOK, LedgerOK, HistoryOK
<1>. QED
  BY <1>1 DEF Call

\* What a call under way has changed.
LEMMA UnregisteredNames ==
  ASSUME TypeOK, PlaceInv
  PROVE  /\ Written \subseteq Unregistered /\ Adding \subseteq Unregistered
         /\ Unregistered \subseteq Pairs /\ Resolv \notin Unregistered
         /\ Adding \subseteq Rules
<1>1. CASE pc \in {"nat", "nat_undo"}
  <2>1. Current \in Allconfig /\ 1..n \subseteq 1..3
    BY <1>1, CurrentEntry DEF PlaceInv, TypeOK, ControlOK
  <2>2. Adding = {Rule(Current, k) : k \in 1..n} /\ Written = {}
    BY <1>1 DEF Adding, Written
  <2>3. Unregistered = Adding
    BY <1>1, <2>2 DEF Unregistered
  <2>. QED
    BY <2>1, <2>2, <2>3, NamesTyped, RuleNames
<1>2. CASE pc = "iface"
  <2>1. Current \in Allconfig
    BY <1>2, CurrentEntry DEF PlaceInv
  <2>. QED
    BY <1>2, <2>1, NamesTyped, RuleNames DEF Adding, Written, Unregistered
<1>3. CASE pc \notin {"nat", "nat_undo", "iface"}
  BY <1>3, NamesTyped DEF Adding, Written, Unregistered
<1>. QED
  BY <1>1, <1>2, <1>3

\* The control state after a call that returns.
LEMMA ReturnedTyped ==
  ASSUME TypeOK, PlaceInv, calls # <<>>, Returned, config' = config
  PROVE  ControlOK'
  BY HeadTyped DEF TypeOK, ControlOK, Returned

\* The control state after setup is left.
LEMMA LeftTyped ==
  ASSUME TypeOK, Left, config' = config
  PROVE  ControlOK'
<1>1. <<>> \in Seq(Call) /\ Len(config) \in Nat
  BY BridgeAssumption DEF TypeOK, ControlOK
<1>. QED
  BY <1>1 DEF TypeOK, ControlOK, Left

\* Cells and rules when a cell is written and when a rule is added or deleted.
LEMMA WrittenTyped ==
  ASSUME TypeOK
  PROVE  /\ \A c \in Cells, v \in 0..2 : [cells EXCEPT ![c] = v] \in [Cells -> 0..2]
         /\ \A c \in Cells : cells[c] \in 0..2
         /\ \A r \in Rules : [rules EXCEPT ![r] = @ + 1] \in [Rules -> Nat]
         /\ \A r \in Rules : rules[r] > 0 => [rules EXCEPT ![r] = @ - 1] \in [Rules -> Nat]
  BY DEF TypeOK, WorldOK

-----------------------------------------------------------------------------
(* Counting the deletions among some actions. *)

\* The deletions are finitely many, and none among no actions.
LEMMA DeletesFinite ==
  ASSUME NEW s, NEW m \in Nat, NEW r
  PROVE  /\ IsFiniteSet(DeletesIn(s, m, r)) /\ Cardinality(DeletesIn(s, m, r)) \in Nat
         /\ m = 0 => Cardinality(DeletesIn(s, m, r)) = 0
<1>1. IsFiniteSet(1..m)
  BY FS_Interval
<1>2. DeletesIn(s, m, r) \subseteq 1..m
  BY DEF DeletesIn
<1>3. IsFiniteSet(DeletesIn(s, m, r))
  BY <1>1, <1>2, FS_Subset
<1>4. m = 0 => DeletesIn(s, m, r) = {}
  BY <1>2
<1>. QED
  BY <1>3, <1>4, FS_CardinalityType, FS_EmptySet

\* Equal actions, equal deletions.
LEMMA DeletesSame ==
  ASSUME NEW s, NEW t, NEW m \in Nat, NEW r, \A k \in 1..m : s[k] = t[k]
  PROVE  DeletesIn(s, m, r) = DeletesIn(t, m, r)
  BY DEF DeletesIn

\* One action more at the end.
LEMMA DeletesNext ==
  ASSUME NEW s, NEW m \in Nat, NEW r
  PROVE  Cardinality(DeletesIn(s, m + 1, r)) =
           Cardinality(DeletesIn(s, m, r))
           + (IF s[m + 1].kind = "rule" /\ s[m + 1].what = r THEN 1 ELSE 0)
<1>1. /\ m + 1 \notin DeletesIn(s, m, r)
      /\ IsFiniteSet(DeletesIn(s, m, r)) /\ Cardinality(DeletesIn(s, m, r)) \in Nat
  <2>1. m + 1 \notin DeletesIn(s, m, r)
    BY DEF DeletesIn
  <2>. QED
    BY <2>1, DeletesFinite
<1>2. CASE s[m + 1].kind = "rule" /\ s[m + 1].what = r
  <2>1. DeletesIn(s, m + 1, r) = DeletesIn(s, m, r) \cup {m + 1}
    BY <1>2 DEF DeletesIn
  <2>. QED
    BY <1>1, <1>2, <2>1, FS_AddElement
<1>3. CASE ~(s[m + 1].kind = "rule" /\ s[m + 1].what = r)
  <2>1. DeletesIn(s, m + 1, r) = DeletesIn(s, m, r)
    BY <1>3 DEF DeletesIn
  <2>. QED
    BY <1>1, <1>3, <2>1
<1>. QED
  BY <1>2, <1>3

\* One action more at the beginning.
LEMMA DeletesPrepended ==
  ASSUME NEW a \in Action, NEW s \in Seq(Action), NEW r
  PROVE  Cardinality(DeletesIn(<<a>> \o s, Len(<<a>> \o s), r)) =
           Cardinality(DeletesIn(s, Len(s), r))
           + (IF a.kind = "rule" /\ a.what = r THEN 1 ELSE 0)
<1>. DEFINE t == <<a>> \o s
            old == DeletesIn(s, Len(s), r)
            moved == {k \in 2..(Len(s) + 1) : t[k].kind = "rule" /\ t[k].what = r}
<1>1. /\ Len(s) \in Nat /\ Len(t) = Len(s) + 1 /\ t[1] = a
      /\ \A k \in 1..Len(s) : t[k + 1] = s[k]
  OBVIOUS
<1>. SUFFICES Cardinality(DeletesIn(t, Len(t), r)) =
                Cardinality(old) + (IF a.kind = "rule" /\ a.what = r THEN 1 ELSE 0)
  OBVIOUS
<1>. HIDE DEF t
<1>2. IsFiniteSet(old) /\ Cardinality(old) \in Nat
  BY <1>1, DeletesFinite
<1>3. IsFiniteSet(moved) /\ Cardinality(moved) = Cardinality(old)
  <2>. DEFINE f == [k \in old |-> k + 1]
  <2>1. f \in [old -> moved]
    BY <1>1 DEF DeletesIn
  <2>2. \A k, l \in old : f[k] = f[l] => k = l
    BY <1>1 DEF DeletesIn
  <2>3. ASSUME NEW m \in moved PROVE \E k \in old : f[k] = m
    <3>1. m - 1 \in 1..Len(s) /\ t[(m - 1) + 1] = s[m - 1] /\ (m - 1) + 1 = m
      BY <1>1
    <3>2. m - 1 \in old
      BY <3>1 DEF DeletesIn
    <3>. QED
      BY <3>1, <3>2
  <2>4. f \in Bijection(old, moved)
    BY <2>1, <2>2, <2>3 DEF Bijection, Injection, Surjection, IsInjective
  <2>5. ExistsBijection(old, moved)
    BY <2>4 DEF ExistsBijection
  <2>. QED
    BY <2>5, <1>2, FS_Bijection
<1>4. 1 \notin moved
  BY <1>1
<1>. HIDE DEF old
<1>5. CASE a.kind = "rule" /\ a.what = r
  <2>1. DeletesIn(t, Len(t), r) = moved \cup {1}
    BY <1>1, <1>5 DEF DeletesIn
  <2>. HIDE DEF moved
  <2>. QED
    BY ZenonT(40), <1>2, <1>3, <1>4, <1>5, <2>1, FS_AddElement
<1>6. CASE ~(a.kind = "rule" /\ a.what = r)
  <2>1. DeletesIn(t, Len(t), r) = moved
    BY <1>1, <1>6 DEF DeletesIn
  <2>. QED
    BY <1>2, <1>3, <1>6, <2>1
<1>. QED
  BY <1>5, <1>6

-----------------------------------------------------------------------------
(* What the steps have in common. *)

Setup == pc \notin {"up", "clean"}

\* A step that leaves the ledger alone.
LEMMA SameLedger ==
  ASSUME IInv, UNCHANGED <<ledger, captures, before, cleanups>>, gap \subseteq gap',
         Setup' => Setup, pc' = "clean" => pc = "clean"
  PROVE  CaptureInv' /\ FirstInv'
  BY DEF IInv, CaptureInv, FirstInv, Fresh, Told, Restores, Cells, Setup

\* Actions for routes, flows and rules are added at the end.
LEMMA OthersAdded ==
  ASSUME IInv, Setup, ledger' \in Seq(Action), Len(ledger') >= Len(ledger),
         \A k \in DOMAIN ledger : ledger'[k] = ledger[k],
         \A k \in DOMAIN ledger' : k \notin DOMAIN ledger => ledger'[k].kind # "cell",
         UNCHANGED <<captures, before, cleanups, gap>>
  PROVE  CaptureInv' /\ FirstInv'
<1>1. /\ Len(ledger) \in Nat /\ DOMAIN ledger = 1..Len(ledger)
      /\ Len(ledger') \in Nat /\ DOMAIN ledger' = 1..Len(ledger')
      /\ CaptureInv /\ FirstInv /\ cleanups = 0 /\ Told' = Told
  BY LedgerTyped DEF IInv, PlaceInv, Setup, Told, Cells
<1>2. ASSUME NEW k \in DOMAIN ledger', NEW c, Restores(ledger', k, c)
      PROVE  k \in DOMAIN ledger /\ Restores(ledger, k, c)
  BY <1>2 DEF Restores
<1>3. ASSUME NEW k \in DOMAIN ledger, NEW c
      PROVE  k \in DOMAIN ledger' /\ (Restores(ledger', k, c) <=> Restores(ledger, k, c))
  BY <1>1 DEF Restores
<1>4. CaptureInv'
  BY <1>1, <1>2, <1>3 DEF CaptureInv, Setup
<1>5. ASSUME NEW c \in Told, NEW k \in DOMAIN ledger', Restores(ledger', k, c)
      PROVE  \E i \in 1..k :
               /\ Restores(ledger', i, c) /\ ledger'[i].value = before[c]
               /\ \A m \in 1..(i - 1) : ~Restores(ledger', m, c)
  <2>1. k \in DOMAIN ledger /\ Restores(ledger, k, c)
    BY <1>2, <1>5
  <2>2. PICK i \in 1..k :
          /\ Restores(ledger, i, c) /\ ledger[i].value = before[c]
          /\ \A m \in 1..(i - 1) : ~Restores(ledger, m, c)
    BY <1>1, <2>1 DEF FirstInv, Fresh
  <2>3. i \in DOMAIN ledger /\ \A m \in 1..(i - 1) : m \in DOMAIN ledger
    BY <1>1, <2>1
  <2>. QED
    BY <1>3, <2>2, <2>3
<1>. QED
  BY <1>1, <1>4, <1>5 DEF FirstInv

\* A restore is registered: the first one of a cell has its original value.
LEMMA Registered ==
  ASSUME IInv, Setup, NEW c \in Cells, NEW v \in 0..2, Register(c, v),
         c \in Told /\ captures[c] = 0 => v = before[c],
         UNCHANGED <<before, cleanups, gap>>
  PROVE  /\ CaptureInv' /\ FirstInv'
         /\ ledger' \in Seq(Action) /\ captures' \in [Cells -> Nat] /\ captures'[c] > 0
         /\ ledger' # <<>> /\ ledger'[Len(ledger')].kind = "cell"
<1>. DEFINE new == Len(ledger) + 1
<1>1. /\ Len(ledger) \in Nat /\ DOMAIN ledger = 1..Len(ledger)
      /\ ledger \in Seq(Action) /\ captures \in [Cells -> Nat]
      /\ CaptureInv /\ FirstInv /\ cleanups = 0 /\ Told' = Told
  BY LedgerTyped DEF IInv, TypeOK, ControlOK, WorldOK, LedgerOK, HistoryOK, PlaceInv, Setup,
     Told, Cells
<1>2. /\ Restore(c, v) \in Action /\ Restore(c, v).kind = "cell"
      /\ Restore(c, v).what = c /\ Restore(c, v).value = v
  BY ActionTyped
<1>3. /\ ledger' \in Seq(Action) /\ Len(ledger') = new /\ DOMAIN ledger' = 1..new
      /\ \A k \in DOMAIN ledger : ledger'[k] = ledger[k]
      /\ ledger'[new] = Restore(c, v)
  BY <1>1, <1>2 DEF Register
<1>4. /\ captures' \in [Cells -> Nat] /\ captures'[c] = captures[c] + 1
      /\ \A d \in Cells : d # c => captures'[d] = captures[d]
  BY <1>1 DEF Register
<1>5. /\ \A k \in DOMAIN ledger : \A d : Restores(ledger', k, d) <=> Restores(ledger, k, d)
      /\ \A d : Restores(ledger', new, d) <=> d = c
      /\ \A k \in DOMAIN ledger' : k \in DOMAIN ledger \/ k = new
      /\ \A k \in DOMAIN ledger : k \in DOMAIN ledger' /\ k < new
      /\ new \in DOMAIN ledger' /\ new \in Nat
  BY <1>1, <1>2, <1>3 DEF Restores
<1>6. CaptureInv'
  <2>. SUFFICES ASSUME NEW d \in Told
                PROVE  /\ captures'[d] = 0 => \A k \in DOMAIN ledger' : ~Restores(ledger', k, d)
                       /\ captures'[d] <= 1 => \A k, l \in DOMAIN ledger' :
                            Restores(ledger', k, d) /\ Restores(ledger', l, d) => k = l
                       /\ captures'[d] > 0 => \E k \in DOMAIN ledger' : Restores(ledger', k, d)
    BY <1>1 DEF CaptureInv
  <2>1. d \in Cells /\ captures[d] \in Nat
    BY <1>1 DEF Told
  <2>2. CASE d = c
    <3>1. captures'[d] = captures[d] + 1
      BY <2>2, <1>4
    <3>2. captures[d] = 0 => \A k \in DOMAIN ledger : ~Restores(ledger, k, d)
      BY <1>1 DEF CaptureInv
    <3>3. captures'[d] # 0 /\ (captures'[d] <= 1 => captures[d] = 0)
      BY <2>1, <3>1
    <3>. QED
      BY <2>2, <3>2, <3>3, <1>5
  <2>3. CASE d # c
    <3>1. captures'[d] = captures[d]
      BY <2>1, <2>3, <1>4
    <3>2. captures[d] > 0 => \E k \in DOMAIN ledger : Restores(ledger, k, d)
      BY <1>1 DEF CaptureInv, Setup
    <3>. QED
      BY <2>3, <3>1, <3>2, <1>1, <1>5 DEF CaptureInv
  <2>. QED
    BY <2>2, <2>3
<1>7. ASSUME NEW d \in Told, NEW k \in DOMAIN ledger', Restores(ledger', k, d)
      PROVE  \E i \in 1..k :
               /\ Restores(ledger', i, d) /\ ledger'[i].value = before[d]
               /\ \A m \in 1..(i - 1) : ~Restores(ledger', m, d)
  <2>1. CASE \E l \in DOMAIN ledger : l <= k /\ Restores(ledger, l, d)
    <3>1. PICK l \in DOMAIN ledger : l <= k /\ Restores(ledger, l, d)
      BY <2>1
    <3>2. PICK i \in 1..l :
            /\ Restores(ledger, i, d) /\ ledger[i].value = before[d]
            /\ \A m \in 1..(i - 1) : ~Restores(ledger, m, d)
      BY <1>1, <3>1 DEF FirstInv, Fresh
    <3>3. i \in 1..k /\ i \in DOMAIN ledger /\ \A m \in 1..(i - 1) : m \in DOMAIN ledger
      BY <1>1, <1>3, <3>1
    <3>. QED
      BY <3>2, <3>3, <1>3, <1>5
  <2>2. CASE ~ \E l \in DOMAIN ledger : l <= k /\ Restores(ledger, l, d)
    <3>1. k = new /\ d = c
      BY <2>2, <1>5, <1>7, <1>1
    <3>2. \A l \in DOMAIN ledger : ~Restores(ledger, l, c)
      BY <2>2, <3>1, <1>5
    <3>3. captures[c] = 0
      BY <3>1, <3>2, <1>1, <1>7 DEF CaptureInv, Setup
    <3>4. ledger'[new].value = before[c]
      BY <3>1, <3>3, <1>2, <1>3, <1>7
    <3>5. \A m \in 1..(new - 1) : m \in DOMAIN ledger
      BY <1>1
    <3>. QED
      BY <3>1, <3>2, <3>4, <3>5, <1>5
  <2>. QED
    BY <2>1, <2>2
<1>8. FirstInv'
  BY <1>1, <1>7 DEF FirstInv
<1>. QED
  BY <1>1, <1>2, <1>3, <1>4, <1>6, <1>8

\* A step of setup that neither adds rules nor registers any.
LEMMA SameRules ==
  ASSUME IInv, UNCHANGED <<rules, cut>>, gap \subseteq gap', pc # "clean", pc' # "clean",
         Adding' = {}, \A r \in Adding : r \in gap',
         \A r \in Rules : Cardinality(DeletesIn(ledger, Len(ledger), r))' =
                            Cardinality(DeletesIn(ledger, Len(ledger), r))
  PROVE  RulesInv'
<1>1. RulesInv /\ Rules' = Rules
  BY DEF IInv, Rules
<1>2. ASSUME ~cut, NEW r \in Rules, r \notin gap'
      PROVE  rules[r] = (IF r \in Prior THEN 1 ELSE 0) + 0
                        + Cardinality(DeletesIn(ledger, Len(ledger), r))
  BY <1>1, <1>2 DEF RulesInv
<1>. QED
  BY <1>1, <1>2 DEF RulesInv

\* The ledger grows by actions that delete no rule.
LEMMA NoDeleteAdded ==
  ASSUME TypeOK, NEW a \in Action, a.kind # "rule", ledger' = Append(ledger, a)
  PROVE  \A r : Cardinality(DeletesIn(ledger, Len(ledger), r))' =
                  Cardinality(DeletesIn(ledger, Len(ledger), r))
<1>1. /\ Len(ledger) \in Nat /\ Len(ledger') = Len(ledger) + 1
      /\ \A k \in 1..Len(ledger) : ledger'[k] = ledger[k]
      /\ ledger'[Len(ledger) + 1] = a
  BY DEF TypeOK, ControlOK, WorldOK, LedgerOK, HistoryOK
<1>. SUFFICES ASSUME NEW r
              PROVE  Cardinality(DeletesIn(ledger', Len(ledger'), r)) =
                       Cardinality(DeletesIn(ledger, Len(ledger), r))
  OBVIOUS
<1>2. DeletesIn(ledger', Len(ledger'), r) = DeletesIn(ledger, Len(ledger), r)
  BY <1>1 DEF DeletesIn
<1>. QED
  BY <1>2

\* A step that leaves routes and flows alone and removes no action for them.
LEMMA SameItems ==
  ASSUME IInv, UNCHANGED <<items, dropped>>, pc # "clean", pc' # "clean",
         \A k \in DOMAIN ledger : \A x : Removes(k, x) => k \in DOMAIN ledger' /\ Removes(k, x)',
         \A k \in DOMAIN ledger' : \A x : Removes(k, x)' => k \in DOMAIN ledger /\ Removes(k, x)
  PROVE  ItemsInv'
<1>1. ItemsInv
  BY DEF IInv
<1>2. ASSUME NEW x \in Prior \ Rules
      PROVE  Overwrites(x) \/ (x \in items' /\ \A k \in DOMAIN ledger' : ~Removes(k, x)')
  BY <1>1 DEF ItemsInv
<1>3. ASSUME NEW x \in items' \ (Prior \cup dropped')
      PROVE  \E k \in DOMAIN ledger' : Removes(k, x)'
  <2>1. PICK k \in DOMAIN ledger : Removes(k, x)
    BY <1>1 DEF ItemsInv
  <2>. QED
    BY <2>1
<1>. QED
  BY <1>2, <1>3 DEF ItemsInv, Rules, Overwrites

\* Without retained actions there is nothing to say of them.
LEMMA NoneRetained ==
  ASSUME retained' = <<>> PROVE RetainInv'
  BY DEF RetainInv

\* Setup is left, with the ledger as it is.
LEMMA LeavesSetup ==
  ASSUME IInv, Setup, pc' = "up", UNCHANGED <<cells, ledger, captures, before, cleanups>>,
         gap \subseteq gap', Written \subseteq gap'
  PROVE  CellInv' /\ UntouchedInv'
<1>1. /\ UntouchedInv /\ CaptureInv /\ FirstInv /\ cleanups = 0
      /\ Told' \subseteq Told \ Written
      /\ Written' = {} /\ captures \in [Cells -> Nat]
  BY DEF IInv, TypeOK, ControlOK, WorldOK, LedgerOK, HistoryOK, PlaceInv, Setup, Told, Cells,
     Written
<1>2. ASSUME NEW c \in Told' PROVE cells[c] = before[c] \/ Restorable(c)
  <2>1. CASE captures[c] = 0
    BY <1>1, <2>1 DEF UntouchedInv
  <2>2. CASE captures[c] # 0
    <3>1. PICK k \in DOMAIN ledger : Restores(ledger, k, c)
      BY <1>1, <2>2 DEF CaptureInv, Setup, Told
    <3>2. PICK i \in 1..k : Restores(ledger, i, c) /\ ledger[i].value = before[c]
      BY <1>1, <3>1 DEF FirstInv, Fresh
    <3>3. i \in DOMAIN ledger
      BY <3>1, LedgerTyped DEF IInv
    <3>. QED
      BY <3>2, <3>3 DEF Restorable, Restores
  <2>. QED
    BY <2>1, <2>2
<1>3. \A c : Restorable(c) => Restorable(c)'
  BY DEF Restorable
<1>4. CellInv'
  BY <1>2, <1>3 DEF CellInv
<1>5. UntouchedInv'
  BY <1>1 DEF UntouchedInv
<1>. QED
  BY <1>4, <1>5

\* No call has an unregistered write, and cells and captures stay.
LEMMA SameCells ==
  ASSUME IInv, UNCHANGED <<cells, captures, before>>, gap \subseteq gap',
         Written = {}, Written' = {}
  PROVE  UntouchedInv'
  BY DEF IInv, UntouchedInv, Told, Cells

\* A call reads a cell and writes it.
LEMMA CellWritten ==
  ASSUME IInv, NEW c \in Cells, NEW v, Written = {}, Written' = {c},
         prior' = cells[c], cells' = [cells EXCEPT ![c] = v],
         UNCHANGED <<captures, before, gap>>
  PROVE  UntouchedInv'
<1>1. /\ cells \in [Cells -> 0..2] /\ UntouchedInv /\ Told' = Told /\ Told \subseteq Cells
  BY DEF IInv, TypeOK, WorldOK, Told, Cells
<1>. QED
  BY <1>1 DEF UntouchedInv

\* A restore is registered, with the value the call has read.
LEMMA CellRegistered ==
  ASSUME IInv, NEW c \in Cells, NEW v, Register(c, v), Written \subseteq {c}, Written' = {},
         UNCHANGED <<cells, before, gap>>
  PROVE  UntouchedInv'
<1>1. /\ captures \in [Cells -> Nat] /\ UntouchedInv /\ Told' = Told /\ Told \subseteq Cells
  BY DEF IInv, TypeOK, HistoryOK, Told, Cells
<1>2. captures'[c] = captures[c] + 1 /\ \A d \in Cells : d # c => captures'[d] = captures[d]
  BY <1>1 DEF Register
<1>3. \A d \in Told : captures'[d] = 0 => d # c /\ captures[d] = 0
  BY <1>1, <1>2
<1>. QED
  BY <1>1, <1>3 DEF UntouchedInv

\* A restore added to the ledger deletes no rule and removes no item.
LEMMA RestoreAdded ==
  ASSUME IInv, NEW c \in Cells, NEW v \in 0..2, Register(c, v), pc # "clean", pc' # "clean",
         UNCHANGED <<items, dropped, rules, cut, gap>>, Adding = {}, Adding' = {}
  PROVE  RulesInv' /\ ItemsInv'
<1>1. /\ ledger' = Append(ledger, Restore(c, v)) /\ Restore(c, v) \in Action
      /\ Restore(c, v).kind = "cell" /\ TypeOK
  BY ActionTyped DEF Register, IInv
<1>2. RulesInv'
  BY <1>1, NoDeleteAdded, SameRules
<1>3. /\ Len(ledger) \in Nat /\ DOMAIN ledger = 1..Len(ledger)
      /\ DOMAIN ledger' = 1..(Len(ledger) + 1)
      /\ \A k \in DOMAIN ledger : ledger'[k] = ledger[k]
      /\ ledger'[Len(ledger) + 1].kind = "cell"
  BY <1>1, LedgerTyped DEF TypeOK, LedgerOK
<1>4. /\ \A k \in DOMAIN ledger : \A x : Removes(k, x) => k \in DOMAIN ledger' /\ Removes(k, x)'
      /\ \A k \in DOMAIN ledger' : \A x : Removes(k, x)' => k \in DOMAIN ledger /\ Removes(k, x)
  BY <1>3 DEF Removes
<1>5. ItemsInv'
  BY <1>4, SameItems
<1>. QED
  BY <1>2, <1>5

\* cleanup() has tried an action: only what it names has changed.
LEMMA Attempted ==
  ASSUME TypeOK, NEW a \in Action, Undone(a) \/ NotUndone(a)
  PROVE  /\ WorldOK'
         /\ \A c \in Cells : ~(a.kind = "cell" /\ a.what = c) => cells'[c] = cells[c]
         /\ items' = items \/ (a.kind = "item" /\ items' = items \ {a.what})
<1>1. /\ cells \in [Cells -> 0..2] /\ items \subseteq Pairs /\ rules \in [Rules -> Nat]
      /\ 2 \in 0..2 /\ Resolv \in Cells /\ a.value \in 0..2
      /\ a.kind = "cell" => a.what \in Cells
      /\ a.kind = "rule" => a.what \in Rules
  BY NamesTyped, ActionTyped DEF TypeOK, WorldOK
<1>2. \/ UNCHANGED cells
      \/ a.kind = "cell" /\ \E v \in 0..2 : cells' = [cells EXCEPT ![a.what] = v]
  BY <1>1 DEF Undone, NotUndone
<1>3. /\ cells' \in [Cells -> 0..2]
      /\ \A c \in Cells : ~(a.kind = "cell" /\ a.what = c) => cells'[c] = cells[c]
  BY <1>1, <1>2
<1>4. items' = items \/ (a.kind = "item" /\ items' = items \ {a.what})
  BY DEF Undone, NotUndone
<1>5. \/ UNCHANGED rules
      \/ a.kind = "rule" /\ rules[a.what] > 0 /\ rules' = [rules EXCEPT ![a.what] = @ - 1]
  BY DEF Undone, NotUndone
<1>6. rules' \in [Rules -> Nat]
  BY <1>1, <1>5, WrittenTyped
<1>. QED
  BY <1>1, <1>3, <1>4, <1>6 DEF WorldOK

-----------------------------------------------------------------------------
(* The steps. *)

\* setup_bridges goes on to an entry, or returns.
LEMMA NextEntryPreserves ==
  ASSUME IInv, NextEntry PROVE IInv'
<1>. USE DEF locals, world, cleanVars, given, histVars
<1>1. TypeOK'
  <2>1. ControlOK'
    <3>1. config \in Seq(Entry) /\ Len(config) \in Nat /\ config' = config
      BY BridgeAssumption DEF IInv, TypeOK, ControlOK, NextEntry, histVars, given
    <3>2. CASE entry = Len(config)
      BY <3>1, <3>2, LeftTyped DEF IInv, NextEntry
    <3>3. CASE entry # Len(config)
      <4>1. entry + 1 \in DOMAIN config
        BY <3>1, <3>3 DEF IInv, TypeOK, ControlOK
      <4>2. CallsOf(config[entry + 1]) \in Seq(Call)
        BY <3>1, <4>1, CallsTyped
      <4>. QED
        BY <3>1, <3>3, <4>1, <4>2 DEF IInv, TypeOK, ControlOK, NextEntry
    <3>. QED
      BY <3>2, <3>3
  <2>2. WorldOK'
    BY DEF IInv, TypeOK, WorldOK, NextEntry
  <2>3. LedgerOK'
    BY DEF IInv, TypeOK, LedgerOK, NextEntry
  <2>4. HistoryOK'
    BY DEF IInv, TypeOK, HistoryOK, NextEntry
  <2>. QED
    BY <2>1, <2>2, <2>3, <2>4 DEF TypeOK
<1>2. PlaceInv'
  BY DEF IInv, TypeOK, ControlOK, PlaceInv, Returned, Left, NextEntry
<1>3. UntouchedInv'
  BY SameCells DEF IInv, NextEntry, Written, Returned, Left
<1>4. CaptureInv' /\ FirstInv'
  BY SameLedger DEF IInv, NextEntry, Setup, Returned, Left
<1>5. CellInv'
  <2>1. CASE entry = Len(config)
    BY <2>1, LeavesSetup DEF NextEntry, Left, Setup, Written
  <2>2. CASE entry # Len(config)
    BY <2>2 DEF CellInv, NextEntry
  <2>. QED
    BY <2>1, <2>2
<1>6. RetainInv'
  BY NoneRetained DEF IInv, PlaceInv, NextEntry
<1>7. RulesInv'
  BY SameRules DEF IInv, NextEntry, Adding, Returned, Left
<1>8. ItemsInv'
  BY SameItems DEF IInv, NextEntry, Removes, Returned, Left
<1>. QED
  BY <1>1, <1>2, <1>3, <1>4, <1>5, <1>6, <1>7, <1>8 DEF IInv

\* _apply_reversible: a route or flow is added with the action that removes it.
LEMMA AddItemPreserves ==
  ASSUME IInv, AddItem PROVE IInv'
<1>. USE DEF locals, world, cleanVars, given, histVars
<1>. DEFINE x == Head(calls).what
<1>0. /\ Setup /\ calls # <<>> /\ x \in Pairs /\ TypeOK /\ PlaceInv /\ Returned
      /\ UNCHANGED <<cells, rules, before, config, cleanups, captures, gap, cut, dropped, j, retained>>
      /\ pc = "call" /\ pc' = "call"
  BY HeadTyped DEF IInv, Setup, AddItem, Returned, Calling
<1>1. /\ Written = {} /\ Written' = {} /\ Adding = {} /\ Adding' = {}
  BY <1>0 DEF Written, Adding
<1>2. ControlOK' /\ HistoryOK'
  BY <1>0, ReturnedTyped DEF TypeOK, HistoryOK
<1>3. PlaceInv'
  BY <1>0 DEF PlaceInv, Returned
<1>4. UntouchedInv'
  BY <1>0, <1>1, SameCells
<1>5. CellInv' /\ RetainInv'
  BY <1>0, NoneRetained DEF CellInv, PlaceInv
<1>6. CASE UNCHANGED <<items, ledger>>
  <2>1. TypeOK'
    BY <1>0, <1>2, <1>6 DEF TypeOK, WorldOK, LedgerOK
  <2>2. CaptureInv' /\ FirstInv'
    BY <1>0, <1>6, SameLedger
  <2>3. RulesInv' /\ ItemsInv'
    BY <1>0, <1>1, <1>6, SameRules, SameItems DEF Removes
  <2>. QED
    BY <1>3, <1>4, <1>5, <2>1, <2>2, <2>3 DEF IInv
<1>7. CASE /\ x \notin items \/ Overwrites(x)
           /\ items' = items \cup {x}
           /\ ledger' = Append(ledger, Remove(x))
  <2>0. Remove(x) \in Action /\ Remove(x).kind = "item" /\ Remove(x).what = x
    BY <1>0, ActionTyped
  <2>. HIDE DEF x
  <2>1. /\ Len(ledger) \in Nat /\ DOMAIN ledger = 1..Len(ledger)
        /\ ledger' \in Seq(Action) /\ Len(ledger') = Len(ledger) + 1
        /\ DOMAIN ledger' = 1..(Len(ledger) + 1)
        /\ \A k \in DOMAIN ledger : ledger'[k] = ledger[k]
        /\ ledger'[Len(ledger) + 1] = Remove(x)
    BY <1>0, <1>7, <2>0, LedgerTyped DEF TypeOK, LedgerOK
  <2>2. TypeOK'
    BY <1>0, <1>2, <1>7, <2>1 DEF TypeOK, WorldOK, LedgerOK, PlaceInv
  <2>3. CaptureInv' /\ FirstInv'
    BY <1>0, <2>0, <2>1, OthersAdded
  <2>4. RulesInv'
    BY <1>0, <1>1, <1>7, <2>0, NoDeleteAdded, SameRules
  <2>5. ItemsInv'
    <3>1. /\ \A k \in DOMAIN ledger : \A y : k \in DOMAIN ledger' /\ (Removes(k, y)' <=> Removes(k, y))
          /\ \A k \in DOMAIN ledger' : \A y : Removes(k, y)' =>
               y = x \/ (k \in DOMAIN ledger /\ Removes(k, y))
          /\ \E k \in DOMAIN ledger' : ledger'[k].kind = "item" /\ ledger'[k].what = x
      <4>1. Len(ledger) + 1 \in DOMAIN ledger'
        BY <2>1
      <4>2. \A k \in DOMAIN ledger' : k \in DOMAIN ledger \/ k = Len(ledger) + 1
        BY <2>1
      <4>. QED
        BY <2>0, <2>1, <4>1, <4>2 DEF Removes
    <3>2. ItemsInv
      BY DEF IInv
    <3>3. ASSUME NEW y \in Prior \ Rules
          PROVE  Overwrites(y) \/ (y \in items' /\ \A k \in DOMAIN ledger' : ~Removes(k, y)')
      BY <1>7, <3>1, <3>2 DEF ItemsInv
    <3>4. ASSUME NEW y \in items' \ (Prior \cup dropped')
          PROVE  \E k \in DOMAIN ledger' : Removes(k, y)'
      <4>1. CASE y = x
        BY <4>1, <3>1 DEF Removes
      <4>2. CASE y # x
        BY <4>2, <1>0, <1>7, <3>1, <3>2 DEF ItemsInv
      <4>. QED
        BY <4>1, <4>2
    <3>. QED
      BY <1>0, <3>3, <3>4 DEF ItemsInv, Rules, Overwrites
  <2>. QED
    BY <1>3, <1>4, <1>5, <2>2, <2>3, <2>4, <2>5 DEF IInv
<1>. QED
  BY <1>6, <1>7 DEF AddItem

\* write_host_resolv_conf registers what it has read before it writes.
LEMMA CaptureResolvPreserves ==
  ASSUME IInv, CaptureResolv PROVE IInv'
<1>. USE DEF locals, world, cleanVars, given, histVars
<1>0. /\ Resolv \in Cells /\ cells[Resolv] \in 0..2 /\ Setup /\ calls # <<>>
      /\ UNCHANGED <<cells, items, rules, before, config, cleanups, gap, cut, dropped, j, retained>>
      /\ pc # "clean" /\ pc' # "clean" /\ pc' # "up"
  BY NamesTyped, WrittenTyped DEF IInv, Setup, CaptureResolv, Returned, Calling
<1>9. /\ Written = {} /\ Written' = {} /\ Adding = {} /\ Adding' = {}
  BY DEF CaptureResolv, Returned, Written, Adding, Calling
<1>10. Resolv \in Told /\ captures[Resolv] = 0 => cells[Resolv] = before[Resolv]
  BY <1>9 DEF IInv, UntouchedInv
<1>11. CASE Returned /\ UNCHANGED <<ledger, captures>>
  <2>1. TypeOK'
    BY <1>0, <1>11, ReturnedTyped DEF IInv, TypeOK, WorldOK, LedgerOK, HistoryOK
  <2>2. PlaceInv'
    BY <1>0, <1>11 DEF IInv, TypeOK, ControlOK, PlaceInv, Returned, CaptureResolv, Calling
  <2>3. UntouchedInv'
    BY <1>0, <1>9, <1>11, SameCells
  <2>4. CaptureInv' /\ FirstInv'
    BY <1>0, <1>11, SameLedger DEF Setup
  <2>5. RulesInv' /\ ItemsInv'
    BY <1>0, <1>9, <1>11, SameRules, SameItems DEF Removes
  <2>6. CellInv' /\ RetainInv'
    BY <1>0, NoneRetained DEF CellInv, IInv, PlaceInv
  <2>. QED
    BY <2>1, <2>2, <2>3, <2>4, <2>5, <2>6 DEF IInv
<1>12. CASE Register(Resolv, cells[Resolv]) /\ pc' = "resolv" /\ UNCHANGED locals
  <2>0. /\ CaptureInv' /\ FirstInv' /\ ledger' \in Seq(Action) /\ captures' \in [Cells -> Nat]
        /\ captures'[Resolv] > 0
    BY <1>0, <1>10, <1>12, Registered
  <2>1. TypeOK'
    BY <1>0, <1>12, <2>0 DEF IInv, TypeOK, ControlOK, WorldOK, LedgerOK, HistoryOK, PlaceInv,
       locals
  <2>2. PlaceInv'
    BY <1>0, <1>12, <2>0 DEF IInv, TypeOK, ControlOK, PlaceInv, locals, CaptureResolv, Calling
  <2>3. UntouchedInv'
    BY <1>0, <1>9, <1>12, CellRegistered
  <2>4. RulesInv' /\ ItemsInv'
    BY <1>0, <1>9, <1>12, RestoreAdded
  <2>5. CellInv' /\ RetainInv'
    BY <1>0, NoneRetained DEF CellInv, IInv, PlaceInv
  <2>. QED
    BY <2>0, <2>1, <2>2, <2>3, <2>4, <2>5 DEF IInv
<1>. QED
  BY <1>11, <1>12 DEF CaptureResolv

\* /etc/resolv.conf is written, for which a restore is registered.
LEMMA WriteResolvPreserves ==
  ASSUME IInv, WriteResolv PROVE IInv'
<1>. USE DEF locals, world, cleanVars, given, histVars
<1>1. TypeOK'
  <2>1. ControlOK'
    <3>1. calls # <<>>
      BY DEF IInv, PlaceInv, WriteResolv
    <3>2. CASE n < Len(Current.hosts)
      BY <3>2 DEF IInv, TypeOK, ControlOK, WriteResolv
    <3>3. CASE ~(n < Len(Current.hosts))
      BY <3>1, <3>3, ReturnedTyped DEF IInv, WriteResolv
    <3>. QED
      BY <3>2, <3>3
  <2>2. WorldOK'
    BY WrittenTyped, NamesTyped DEF IInv, TypeOK, WorldOK, WriteResolv
  <2>3. LedgerOK'
    BY DEF IInv, TypeOK, LedgerOK, WriteResolv
  <2>4. HistoryOK'
    BY DEF IInv, TypeOK, HistoryOK, WriteResolv
  <2>. QED
    BY <2>1, <2>2, <2>3, <2>4 DEF TypeOK
<1>2. PlaceInv'
  BY DEF IInv, TypeOK, ControlOK, PlaceInv, Returned, Left, WriteResolv
<1>3. UntouchedInv'
  <2>1. captures[Resolv] # 0 /\ Written' = {} /\ Written = {}
    BY DEF IInv, PlaceInv, WriteResolv, Written, Returned
  <2>2. \A c \in Cells : c # Resolv => cells'[c] = cells[c]
    BY DEF IInv, TypeOK, WorldOK, WriteResolv
  <2>. QED
    BY <2>1, <2>2 DEF IInv, UntouchedInv, Told, WriteResolv
<1>4. CaptureInv' /\ FirstInv'
  BY SameLedger DEF IInv, WriteResolv, Setup, Returned, Left
<1>5. CellInv'
  BY DEF CellInv, WriteResolv, Returned
<1>6. RetainInv'
  BY NoneRetained DEF IInv, PlaceInv, WriteResolv
<1>7. RulesInv'
  BY SameRules DEF IInv, WriteResolv, Adding, Returned, Left
<1>8. ItemsInv'
  BY SameItems DEF IInv, WriteResolv, Removes, Returned, Left
<1>. QED
  BY <1>1, <1>2, <1>3, <1>4, <1>5, <1>6, <1>7, <1>8 DEF IInv

\* enable_ip_forwarding reads and writes the sysctl.
LEMMA WriteForwardPreserves ==
  ASSUME IInv, WriteForward PROVE IInv'
<1>. USE DEF locals, world, cleanVars, given, histVars
<1>. DEFINE c == Forward
<1>0. c \in Cells /\ cells[c] \in 0..2 /\ calls # <<>>
  BY CurrentEntry, NamesTyped, WrittenTyped DEF IInv, PlaceInv, WriteForward, Calling
<1>1. TypeOK'
  <2>1. ControlOK'
    BY <1>0 DEF IInv, TypeOK, ControlOK, WriteForward, Calling
  <2>2. WorldOK'
    BY <1>0, WrittenTyped DEF IInv, TypeOK, WorldOK, WriteForward, Calling
  <2>3. LedgerOK'
    BY DEF IInv, TypeOK, LedgerOK, WriteForward, Calling
  <2>4. HistoryOK'
    BY DEF IInv, TypeOK, HistoryOK, WriteForward, Calling
  <2>. QED
    BY <2>1, <2>2, <2>3, <2>4 DEF TypeOK
<1>2. PlaceInv'
  BY <1>0 DEF IInv, TypeOK, ControlOK, PlaceInv, Returned, Left, WriteForward, Calling
<1>3. UntouchedInv'
  <2>1. Written = {} /\ Written' = {c}
    BY DEF WriteForward, Calling, Written, Current
  <2>. QED
    BY <1>0, <2>1, CellWritten DEF WriteForward, Calling
<1>4. CaptureInv' /\ FirstInv'
  BY SameLedger DEF IInv, WriteForward, Calling, Setup, Returned, Left
<1>5. CellInv'
  BY DEF CellInv, WriteForward, Calling, Returned
<1>6. RetainInv'
  BY NoneRetained DEF IInv, PlaceInv, WriteForward, Calling
<1>7. RulesInv'
  BY SameRules DEF IInv, WriteForward, Calling, Adding, Returned, Left
<1>8. ItemsInv'
  BY SameItems DEF IInv, WriteForward, Calling, Removes, Returned, Left
<1>. QED
  BY <1>1, <1>2, <1>3, <1>4, <1>5, <1>6, <1>7, <1>8 DEF IInv

\* enable_ip_forwarding registers what it has read.
LEMMA RegisterForwardPreserves ==
  ASSUME IInv, RegisterForward PROVE IInv'
<1>. USE DEF locals, world, cleanVars, given, histVars
<1>. DEFINE c == Forward
<1>0. /\ c \in Cells /\ prior \in 0..2 /\ Register(c, prior) /\ Setup /\ calls # <<>>
      /\ UNCHANGED <<cells, items, rules, before, config, cleanups, gap, cut, dropped>>
      /\ pc # "clean" /\ pc' # "clean" /\ pc' # "up"
  BY CurrentEntry, NamesTyped
     DEF IInv, PlaceInv, TypeOK, ControlOK, Setup, RegisterForward, Returned
<1>9. /\ Written = {c} /\ Written' = {} /\ Adding = {} /\ Adding' = {}
  BY DEF RegisterForward, Returned, Written, Adding
<1>10. c \in Told /\ captures[c] = 0 => prior = before[c]
  BY <1>9 DEF IInv, UntouchedInv
<1>. HIDE DEF c
<1>11. /\ CaptureInv' /\ FirstInv' /\ ledger' \in Seq(Action) /\ captures' \in [Cells -> Nat]
       /\ ledger' # <<>> /\ ledger'[Len(ledger')].kind = "cell"
  BY <1>0, <1>10, Registered
<1>1. TypeOK'
  <2>1. ControlOK'
    BY <1>0, ReturnedTyped DEF IInv, RegisterForward
  <2>2. WorldOK'
    BY <1>0 DEF IInv, TypeOK, WorldOK
  <2>3. LedgerOK'
    BY <1>0, <1>11 DEF IInv, TypeOK, LedgerOK, PlaceInv, RegisterForward
  <2>4. HistoryOK'
    BY <1>11 DEF IInv, TypeOK, HistoryOK, RegisterForward
  <2>. QED
    BY <2>1, <2>2, <2>3, <2>4 DEF TypeOK
<1>2. PlaceInv'
  BY <1>0, <1>11 DEF IInv, TypeOK, ControlOK, PlaceInv, Returned, Left, RegisterForward
<1>3. UntouchedInv'
  BY <1>0, <1>9, CellRegistered
<1>4. CaptureInv' /\ FirstInv'
  BY <1>11
<1>5. CellInv'
  BY <1>0 DEF CellInv
<1>6. RetainInv'
  BY NoneRetained DEF IInv, PlaceInv, RegisterForward
<1>7. RulesInv'
  BY <1>0, <1>9, RestoreAdded
<1>8. ItemsInv'
  BY <1>0, <1>9, RestoreAdded
<1>. QED
  BY <1>1, <1>2, <1>3, <1>4, <1>5, <1>6, <1>7, <1>8 DEF IInv

\* enable_nat begins.
LEMMA BeginNatPreserves ==
  ASSUME IInv, BeginNat PROVE IInv'
<1>. USE DEF locals, world, cleanVars, given, histVars
<1>1. TypeOK'
  <2>1. ControlOK'
    <3>1. CASE UNCHANGED locals /\ pc' = "nat"
      BY <3>1 DEF IInv, TypeOK, ControlOK, BeginNat, Calling
    <3>2. CASE Returned
      BY <3>2, ReturnedTyped DEF IInv, BeginNat, Calling
    <3>. QED
      BY <3>1, <3>2 DEF BeginNat
  <2>2. WorldOK'
    BY DEF IInv, TypeOK, WorldOK, BeginNat, Calling
  <2>3. LedgerOK'
    BY DEF IInv, TypeOK, LedgerOK, BeginNat, Calling
  <2>4. HistoryOK'
    BY DEF IInv, TypeOK, HistoryOK, BeginNat, Calling
  <2>. QED
    BY <2>1, <2>2, <2>3, <2>4 DEF TypeOK
<1>2. PlaceInv'
  BY DEF IInv, TypeOK, ControlOK, PlaceInv, Returned, Left, BeginNat, Calling
<1>3. UntouchedInv'
  BY SameCells DEF IInv, BeginNat, Calling, Written, Returned, Left
<1>4. CaptureInv' /\ FirstInv'
  BY SameLedger DEF IInv, BeginNat, Calling, Setup, Returned, Left
<1>5. CellInv'
  BY DEF CellInv, BeginNat, Calling, Returned
<1>6. RetainInv'
  BY NoneRetained DEF IInv, PlaceInv, BeginNat, Calling
<1>7. RulesInv'
  <2>1. Adding' = {}
    BY DEF IInv, PlaceInv, BeginNat, Calling, Adding, Returned
  <2>. QED
    BY <2>1, SameRules DEF IInv, BeginNat, Calling, Adding, Returned
<1>8. ItemsInv'
  BY SameItems DEF IInv, BeginNat, Calling, Removes, Returned, Left
<1>. QED
  BY <1>1, <1>2, <1>3, <1>4, <1>5, <1>6, <1>7, <1>8 DEF IInv

\* A rule of enable_nat is added.
LEMMA AddRulePreserves ==
  ASSUME IInv, AddRule PROVE IInv'
<1>. USE DEF locals, world, cleanVars, given, histVars
<1>0. /\ Current \in Allconfig /\ n \in 0..3 /\ Current' = Current
      /\ Adding = {Rule(Current, k) : k \in 1..n} /\ Adding \subseteq Rules /\ RulesInv
      /\ \A k \in 1..3 : Rule(Current, k) \in Rules
      /\ \A k, l \in 1..3 : Rule(Current, k) = Rule(Current, l) => k = l
  BY CurrentEntry, NamesTyped, RuleNames, UnregisteredNames
     DEF IInv, TypeOK, ControlOK, PlaceInv, AddRule, Current, Adding
<1>1. TypeOK'
  <2>1. ControlOK'
    BY DEF IInv, TypeOK, ControlOK, AddRule
  <2>2. WorldOK'
    BY <1>0, WrittenTyped DEF IInv, TypeOK, WorldOK, AddRule
  <2>3. LedgerOK'
    BY DEF IInv, TypeOK, LedgerOK, AddRule
  <2>4. HistoryOK'
    BY DEF IInv, TypeOK, HistoryOK, AddRule
  <2>. QED
    BY <2>1, <2>2, <2>3, <2>4 DEF TypeOK
<1>2. PlaceInv'
  BY DEF IInv, TypeOK, ControlOK, PlaceInv, Returned, Left, AddRule
<1>3. UntouchedInv'
  BY SameCells DEF IInv, AddRule, Written, Returned, Left
<1>4. CaptureInv' /\ FirstInv'
  BY SameLedger DEF IInv, AddRule, Setup, Returned, Left
<1>5. CellInv'
  BY DEF CellInv, AddRule, Returned
<1>6. RetainInv'
  BY NoneRetained DEF IInv, PlaceInv, AddRule
<1>7. RulesInv'
  <2>. DEFINE q == Rule(Current, n + 1)
  <2>1. n + 1 \in 1..3 /\ q \in Rules /\ q \notin Adding
    <3>1. n + 1 \in 1..3 /\ \A k \in 1..n : k \in 1..3 /\ k # n + 1
      BY <1>0 DEF AddRule
    <3>. QED
      BY <1>0, <3>1
  <2>2. Adding' = Adding \cup {q}
    <3>1. 1..(n + 1) = 1..n \cup {n + 1}
      BY <1>0
    <3>2. Adding' = {Rule(Current, k) : k \in 1..(n + 1)}
      BY <1>0 DEF AddRule, Adding
    <3>. QED
      BY <1>0, <3>1, <3>2
  <2>3. /\ rules \in [Rules -> Nat] /\ rules' = [rules EXCEPT ![q] = @ + 1]
        /\ UNCHANGED <<ledger, gap, cut>> /\ pc # "clean" /\ pc' # "clean"
    BY DEF IInv, TypeOK, WorldOK, AddRule
  <2>. HIDE DEF q
  <2>4. rules'[q] = rules[q] + 1 /\ \A r \in Rules : r # q => rules'[r] = rules[r]
    BY <2>1, <2>3
  <2>5. ASSUME NEW r \in Adding' PROVE rules'[r] > 0
    BY <2>1, <2>2, <2>3, <2>4, <1>0 DEF RulesInv
  <2>6. ASSUME ~cut, NEW r \in Rules \ gap
        PROVE  rules'[r] = (IF r \in Prior THEN 1 ELSE 0) + (IF r \in Adding' THEN 1 ELSE 0)
                           + Cardinality(DeletesIn(ledger, Len(ledger), r))
    <3>1. Cardinality(DeletesIn(ledger, Len(ledger), r)) \in Nat
      BY DeletesFinite, LedgerTyped DEF IInv
    <3>2. rules[r] = (IF r \in Prior THEN 1 ELSE 0) + (IF r \in Adding THEN 1 ELSE 0)
                     + Cardinality(DeletesIn(ledger, Len(ledger), r))
      BY <1>0, <2>3, <2>6 DEF RulesInv
    <3>. QED
      BY <2>1, <2>2, <2>4, <3>1, <3>2
  <2>. QED
    BY <2>3, <2>5, <2>6 DEF RulesInv, Rules
<1>8. ItemsInv'
  BY SameItems DEF IInv, AddRule, Removes, Returned, Left
<1>. QED
  BY <1>1, <1>2, <1>3, <1>4, <1>5, <1>6, <1>7, <1>8 DEF IInv

\* A rule of enable_nat fails.
LEMMA RuleFailsPreserves ==
  ASSUME IInv, RuleFails PROVE IInv'
<1>. USE DEF locals, world, cleanVars, given, histVars
<1>1. TypeOK'
  <2>1. ControlOK'
    BY DEF IInv, TypeOK, ControlOK, RuleFails
  <2>2. WorldOK'
    BY DEF IInv, TypeOK, WorldOK, RuleFails
  <2>3. LedgerOK'
    BY DEF IInv, TypeOK, LedgerOK, RuleFails
  <2>4. HistoryOK'
    BY DEF IInv, TypeOK, HistoryOK, RuleFails
  <2>. QED
    BY <2>1, <2>2, <2>3, <2>4 DEF TypeOK
<1>2. PlaceInv'
  BY DEF IInv, TypeOK, ControlOK, PlaceInv, Returned, Left, RuleFails
<1>3. UntouchedInv'
  BY SameCells DEF IInv, RuleFails, Written, Returned, Left
<1>4. CaptureInv' /\ FirstInv'
  BY SameLedger DEF IInv, RuleFails, Setup, Returned, Left
<1>5. CellInv'
  BY DEF CellInv, RuleFails, Returned
<1>6. RetainInv'
  BY NoneRetained DEF IInv, PlaceInv, RuleFails
<1>7. RulesInv'
  <2>1. Adding' = Adding
    BY DEF RuleFails, Adding, Current
  <2>2. pc # "clean" /\ pc' # "clean"
    BY DEF RuleFails
  <2>. QED
    BY <2>1, <2>2 DEF IInv, RulesInv, RuleFails
<1>8. ItemsInv'
  BY SameItems DEF IInv, RuleFails, Removes, Returned, Left
<1>. QED
  BY <1>1, <1>2, <1>3, <1>4, <1>5, <1>6, <1>7, <1>8 DEF IInv

\* The rules of enable_nat are deleted again, the last first.
LEMMA UndoRulePreserves ==
  ASSUME IInv, UndoRule PROVE IInv'
<1>. USE DEF locals, world, cleanVars, given, histVars
<1>0. /\ Current \in Allconfig /\ n \in 0..3 /\ Current' = Current
      /\ Adding = {Rule(Current, k) : k \in 1..n} /\ Adding \subseteq Rules /\ RulesInv
      /\ \A k \in 1..3 : Rule(Current, k) \in Rules
      /\ \A k, l \in 1..3 : Rule(Current, k) = Rule(Current, l) => k = l
  BY CurrentEntry, NamesTyped, RuleNames, UnregisteredNames
     DEF IInv, TypeOK, ControlOK, PlaceInv, UndoRule, Current, Adding
<1>9. Rule(Current, n) \in Rules /\ Rule(Current, n) \in Adding /\ rules[Rule(Current, n)] > 0
  BY <1>0 DEF UndoRule, RulesInv
<1>1. TypeOK'
  <2>1. ControlOK'
    BY DEF IInv, TypeOK, ControlOK, UndoRule
  <2>2. WorldOK'
    BY <1>9, WrittenTyped DEF IInv, TypeOK, WorldOK, UndoRule
  <2>3. LedgerOK'
    BY DEF IInv, TypeOK, LedgerOK, UndoRule
  <2>4. HistoryOK'
    BY <1>9, NamesTyped DEF IInv, TypeOK, HistoryOK, UndoRule
  <2>. QED
    BY <2>1, <2>2, <2>3, <2>4 DEF TypeOK
<1>2. PlaceInv'
  <2>1. Rule(Current, n) # Resolv
    BY <1>0, RuleNames DEF UndoRule
  <2>. QED
    BY <2>1, <1>0 DEF IInv, PlaceInv, UndoRule
<1>3. UntouchedInv'
  BY SameCells DEF IInv, UndoRule, Written, Returned, Left
<1>4. CaptureInv' /\ FirstInv'
  BY SameLedger DEF IInv, UndoRule, Setup, Returned, Left
<1>5. CellInv'
  BY DEF CellInv, UndoRule, Returned
<1>6. RetainInv'
  BY NoneRetained DEF IInv, PlaceInv, UndoRule
<1>7. RulesInv'
  <2>. DEFINE q == Rule(Current, n)
  <2>1. n \in 1..3 /\ q \in Rules /\ q \in Adding /\ rules[q] > 0
    BY <1>0, <1>9 DEF UndoRule
  <2>2. Adding' = Adding \ {q}
    <3>1. 1..n = 1..(n - 1) \cup {n} /\ \A k \in 1..(n - 1) : k \in 1..3 /\ k # n
      BY <2>1
    <3>2. Adding' = {Rule(Current, k) : k \in 1..(n - 1)}
      BY <1>0 DEF UndoRule, Adding
    <3>3. \A k \in 1..(n - 1) : Rule(Current, k) # q
      BY <1>0, <2>1, <3>1
    <3>. QED
      BY <1>0, <3>1, <3>2, <3>3
  <2>3. /\ rules \in [Rules -> Nat] /\ UNCHANGED <<ledger, cut>> /\ pc # "clean" /\ pc' # "clean"
        /\ \/ rules' = [rules EXCEPT ![q] = @ - 1] /\ gap' = gap
           \/ gap' = gap \cup {q} /\ rules' = rules
    BY DEF IInv, TypeOK, WorldOK, UndoRule
  <2>. HIDE DEF q
  <2>4. /\ \A r \in Rules : r # q => rules'[r] = rules[r]
        /\ q \in gap' \/ rules'[q] = rules[q] - 1
        /\ gap \subseteq gap'
    BY <2>1, <2>3
  <2>5. ASSUME NEW r \in Adding' PROVE rules'[r] > 0
    BY <2>2, <2>4, <1>0 DEF RulesInv
  <2>6. ASSUME ~cut, NEW r \in Rules \ gap'
        PROVE  rules'[r] = (IF r \in Prior THEN 1 ELSE 0) + (IF r \in Adding' THEN 1 ELSE 0)
                           + Cardinality(DeletesIn(ledger, Len(ledger), r))
    <3>1. Cardinality(DeletesIn(ledger, Len(ledger), r)) \in Nat
      BY DeletesFinite, LedgerTyped DEF IInv
    <3>2. rules[r] = (IF r \in Prior THEN 1 ELSE 0) + (IF r \in Adding THEN 1 ELSE 0)
                     + Cardinality(DeletesIn(ledger, Len(ledger), r))
      BY <1>0, <2>3, <2>4, <2>6 DEF RulesInv
    <3>. QED
      BY <2>1, <2>2, <2>4, <2>6, <3>1, <3>2
  <2>. QED
    BY <2>3, <2>5, <2>6 DEF RulesInv, Rules
<1>8. ItemsInv'
  BY SameItems DEF IInv, UndoRule, Removes, Returned, Left
<1>. QED
  BY <1>1, <1>2, <1>3, <1>4, <1>5, <1>6, <1>7, <1>8 DEF IInv

\* enable_nat registers the deletion of its three rules.
LEMMA RegisterNatPreserves ==
  ASSUME IInv, RegisterNat PROVE IInv'
<1>. USE DEF locals, world, cleanVars, given, histVars
<1>. DEFINE three == [k \in 1..3 |-> Delete(Rule(Current, k))]
<1>0. /\ Setup /\ calls # <<>> /\ TypeOK /\ PlaceInv /\ Returned /\ RulesInv /\ n = 3
      /\ UNCHANGED <<cells, items, rules, before, config, cleanups, captures, gap, cut, dropped, j, retained>>
      /\ pc = "nat" /\ pc' = "call"
  BY DEF IInv, PlaceInv, Setup, RegisterNat, Returned
<1>1. /\ Adding = {Rule(Current, k) : k \in 1..3} /\ Adding' = {}
      /\ Written = {} /\ Written' = {}
      /\ \A k \in 1..3 : Rule(Current, k) \in Rules
      /\ \A k, l \in 1..3 : Rule(Current, k) = Rule(Current, l) => k = l
  BY <1>0, CurrentEntry, NamesTyped, RuleNames DEF PlaceInv, Adding, Written
<1>2. \A k \in 1..3 : /\ Delete(Rule(Current, k)) \in Action
                       /\ Delete(Rule(Current, k)).kind = "rule"
                       /\ Delete(Rule(Current, k)).what = Rule(Current, k)
  BY <1>1, ActionTyped
<1>3. three \in Seq(Action) /\ Len(three) = 3
  BY <1>2
<1>4. \A k \in 1..3 : three[k].kind = "rule" /\ three[k].what = Rule(Current, k)
  BY <1>2
<1>5. ledger' = ledger \o three
  BY DEF RegisterNat
<1>. HIDE DEF three
<1>6. /\ Len(ledger) \in Nat /\ DOMAIN ledger = 1..Len(ledger)
      /\ ledger' \in Seq(Action) /\ Len(ledger') = Len(ledger) + 3
      /\ DOMAIN ledger' = 1..(Len(ledger) + 3)
      /\ \A k \in 1..Len(ledger) : ledger'[k] = ledger[k]
      /\ \A k \in 1..3 : ledger'[Len(ledger) + k] = three[k]
  <2>1. ledger \in Seq(Action) /\ Len(ledger) \in Nat /\ DOMAIN ledger = 1..Len(ledger)
    BY <1>0 DEF TypeOK, LedgerOK
  <2>2. ASSUME NEW s \in Seq(Action), NEW t \in Seq(Action), Len(t) = 3
        PROVE  /\ s \o t \in Seq(Action) /\ Len(s \o t) = Len(s) + 3
               /\ \A k \in 1..Len(s) : (s \o t)[k] = s[k]
               /\ \A k \in 1..3 : (s \o t)[Len(s) + k] = t[k]
    <3>1. /\ s \o t \in Seq(Action) /\ Len(s \o t) = Len(s) + Len(t) /\ Len(s) \in Nat
          /\ \A i \in 1..(Len(s) + Len(t)) :
               (s \o t)[i] = IF i <= Len(s) THEN s[i] ELSE t[i - Len(s)]
      BY ConcatProperties
    <3>2. ASSUME NEW k \in 1..3 PROVE (s \o t)[Len(s) + k] = t[k]
      <4>1. Len(s) + k \in 1..(Len(s) + Len(t)) /\ ~(Len(s) + k <= Len(s)) /\ (Len(s) + k) - Len(s) = k
        BY <3>1, <2>2
      <4>. QED
        BY <3>1, <4>1
    <3>. QED
      BY <3>1, <3>2, <2>2
  <2>3. /\ ledger' \in Seq(Action) /\ Len(ledger') = Len(ledger) + 3
        /\ \A k \in 1..Len(ledger) : ledger'[k] = ledger[k]
        /\ \A k \in 1..3 : ledger'[Len(ledger) + k] = three[k]
    BY <1>3, <1>5, <2>1, <2>2
  <2>. QED
    BY <2>1, <2>3
<1>7. \A k \in DOMAIN ledger' : k \notin DOMAIN ledger => ledger'[k].kind = "rule"
  <2>. SUFFICES ASSUME NEW k \in DOMAIN ledger', k \notin DOMAIN ledger
                PROVE  ledger'[k].kind = "rule"
    OBVIOUS
  <2>1. k - Len(ledger) \in 1..3 /\ Len(ledger) + (k - Len(ledger)) = k
    BY <1>6
  <2>. QED
    BY <1>4, <1>6, <2>1
<1>8. TypeOK'
  BY <1>0, <1>6, ReturnedTyped DEF TypeOK, WorldOK, LedgerOK, HistoryOK, PlaceInv
<1>9. PlaceInv'
  BY <1>0 DEF PlaceInv, Returned
<1>10. UntouchedInv'
  BY <1>0, <1>1, SameCells
<1>11. CaptureInv' /\ FirstInv'
  BY <1>0, <1>6, <1>7, OthersAdded
<1>12. CellInv' /\ RetainInv'
  BY <1>0, NoneRetained DEF CellInv, PlaceInv
<1>13. ItemsInv'
  <2>1. /\ \A k \in DOMAIN ledger : \A x : Removes(k, x) => k \in DOMAIN ledger' /\ Removes(k, x)'
        /\ \A k \in DOMAIN ledger' : \A x : Removes(k, x)' => k \in DOMAIN ledger /\ Removes(k, x)
    BY <1>6, <1>7 DEF Removes
  <2>. QED
    BY <1>0, <2>1, SameItems
<1>14. ASSUME NEW r
       PROVE  Cardinality(DeletesIn(ledger', Len(ledger'), r)) =
                Cardinality(DeletesIn(ledger, Len(ledger), r)) + (IF r \in Adding THEN 1 ELSE 0)
  <2>. DEFINE m == Len(ledger)
              One(k) == IF Rule(Current, k) = r THEN 1 ELSE 0
  <2>1. /\ m \in Nat /\ m + 1 \in Nat /\ m + 2 \in Nat /\ (m + 1) + 1 = m + 2
        /\ (m + 2) + 1 = m + 3 /\ Len(ledger') = m + 3
    BY <1>6
  <2>2. \A k \in 1..3 : ledger'[m + k].kind = "rule" /\ ledger'[m + k].what = Rule(Current, k)
    BY <1>4, <1>6
  <2>3. DeletesIn(ledger', m, r) = DeletesIn(ledger, m, r)
    BY <1>6, DeletesSame
  <2>. HIDE DEF m
  <2>4. Cardinality(DeletesIn(ledger', m + 1, r)) = Cardinality(DeletesIn(ledger', m, r)) + One(1)
    BY <2>1, <2>2, DeletesNext
  <2>5. Cardinality(DeletesIn(ledger', m + 2, r)) = Cardinality(DeletesIn(ledger', m + 1, r)) + One(2)
    <3>1. ledger'[(m + 1) + 1].kind = "rule" /\ ledger'[(m + 1) + 1].what = Rule(Current, 2)
      BY <2>1, <2>2
    <3>2. Cardinality(DeletesIn(ledger', (m + 1) + 1, r)) =
            Cardinality(DeletesIn(ledger', m + 1, r)) + One(2)
      BY <2>1, <3>1, DeletesNext
    <3>. QED
      BY <2>1, <3>2
  <2>6. Cardinality(DeletesIn(ledger', m + 3, r)) = Cardinality(DeletesIn(ledger', m + 2, r)) + One(3)
    <3>1. ledger'[(m + 2) + 1].kind = "rule" /\ ledger'[(m + 2) + 1].what = Rule(Current, 3)
      BY <2>1, <2>2
    <3>2. Cardinality(DeletesIn(ledger', (m + 2) + 1, r)) =
            Cardinality(DeletesIn(ledger', m + 2, r)) + One(3)
      BY <2>1, <3>1, DeletesNext
    <3>. QED
      BY <2>1, <3>2
  <2>7. One(1) + One(2) + One(3) = (IF r \in Adding THEN 1 ELSE 0)
    <3>1. /\ Rule(Current, 1) # Rule(Current, 2) /\ Rule(Current, 1) # Rule(Current, 3)
          /\ Rule(Current, 2) # Rule(Current, 3)
      BY <1>1
    <3>2. r \in Adding <=> r \in {Rule(Current, 1), Rule(Current, 2), Rule(Current, 3)}
      BY <1>1
    <3>. QED
      BY <3>1, <3>2
  <2>8. Cardinality(DeletesIn(ledger, m, r)) \in Nat
    BY <2>1, DeletesFinite
  <2>9. One(1) \in Nat /\ One(2) \in Nat /\ One(3) \in Nat
    OBVIOUS
  <2>. HIDE DEF One
  <2>. QED
    BY <2>1, <2>3, <2>4, <2>5, <2>6, <2>7, <2>8, <2>9 DEF m
<1>15. RulesInv'
  <2>1. ASSUME ~cut, NEW r \in Rules \ gap
        PROVE  rules[r] = (IF r \in Prior THEN 1 ELSE 0) + 0
                          + Cardinality(DeletesIn(ledger', Len(ledger'), r))
    <3>1. Cardinality(DeletesIn(ledger, Len(ledger), r)) \in Nat
      BY <1>6, DeletesFinite
    <3>2. rules[r] = (IF r \in Prior THEN 1 ELSE 0) + (IF r \in Adding THEN 1 ELSE 0)
                     + Cardinality(DeletesIn(ledger, Len(ledger), r))
      BY <1>0, <2>1 DEF RulesInv
    <3>. QED
      BY <1>14, <3>1, <3>2
  <2>. QED
    BY <1>0, <1>1, <2>1 DEF RulesInv, Rules
<1>. QED
  BY <1>8, <1>9, <1>10, <1>11, <1>12, <1>13, <1>15 DEF IInv

\* enable_proxy_arp reads and writes the sysctl of the interface.
LEMMA WriteIfacePreserves ==
  ASSUME IInv, WriteIface PROVE IInv'
<1>. USE DEF locals, world, cleanVars, given, histVars
<1>. DEFINE c == IfaceArp(Current)
<1>0. c \in Cells /\ cells[c] \in 0..2 /\ calls # <<>>
  BY CurrentEntry, NamesTyped, WrittenTyped DEF IInv, PlaceInv, WriteIface, Calling
<1>1. TypeOK'
  <2>1. ControlOK'
    BY <1>0 DEF IInv, TypeOK, ControlOK, WriteIface, Calling
  <2>2. WorldOK'
    BY <1>0, WrittenTyped DEF IInv, TypeOK, WorldOK, WriteIface, Calling
  <2>3. LedgerOK'
    BY DEF IInv, TypeOK, LedgerOK, WriteIface, Calling
  <2>4. HistoryOK'
    BY DEF IInv, TypeOK, HistoryOK, WriteIface, Calling
  <2>. QED
    BY <2>1, <2>2, <2>3, <2>4 DEF TypeOK
<1>2. PlaceInv'
  BY <1>0 DEF IInv, TypeOK, ControlOK, PlaceInv, Returned, Left, WriteIface, Calling
<1>3. UntouchedInv'
  <2>1. Written = {} /\ Written' = {c}
    BY DEF WriteIface, Calling, Written, Current
  <2>. QED
    BY <1>0, <2>1, CellWritten DEF WriteIface, Calling
<1>4. CaptureInv' /\ FirstInv'
  BY SameLedger DEF IInv, WriteIface, Calling, Setup, Returned, Left
<1>5. CellInv'
  BY DEF CellInv, WriteIface, Calling, Returned
<1>6. RetainInv'
  BY NoneRetained DEF IInv, PlaceInv, WriteIface, Calling
<1>7. RulesInv'
  BY SameRules DEF IInv, WriteIface, Calling, Adding, Returned, Left
<1>8. ItemsInv'
  BY SameItems DEF IInv, WriteIface, Calling, Removes, Returned, Left
<1>. QED
  BY <1>1, <1>2, <1>3, <1>4, <1>5, <1>6, <1>7, <1>8 DEF IInv

\* enable_proxy_arp registers what it has read.
LEMMA RegisterIfacePreserves ==
  ASSUME IInv, RegisterIface PROVE IInv'
<1>. USE DEF locals, world, cleanVars, given, histVars
<1>. DEFINE c == IfaceArp(Current)
<1>0. /\ c \in Cells /\ prior \in 0..2 /\ Register(c, prior) /\ Setup /\ calls # <<>>
      /\ UNCHANGED <<cells, items, rules, before, config, cleanups, gap, cut, dropped>>
      /\ pc # "clean" /\ pc' # "clean" /\ pc' # "up"
  BY CurrentEntry, NamesTyped
     DEF IInv, PlaceInv, TypeOK, ControlOK, Setup, RegisterIface, Returned
<1>9. /\ Written = {c} /\ Written' = {} /\ Adding = {} /\ Adding' = {}
  BY DEF RegisterIface, Returned, Written, Adding
<1>10. c \in Told /\ captures[c] = 0 => prior = before[c]
  BY <1>9 DEF IInv, UntouchedInv
<1>. HIDE DEF c
<1>11. /\ CaptureInv' /\ FirstInv' /\ ledger' \in Seq(Action) /\ captures' \in [Cells -> Nat]
       /\ ledger' # <<>> /\ ledger'[Len(ledger')].kind = "cell"
  BY <1>0, <1>10, Registered
<1>1. TypeOK'
  <2>1. ControlOK'
    BY DEF IInv, TypeOK, ControlOK, RegisterIface
  <2>2. WorldOK'
    BY <1>0 DEF IInv, TypeOK, WorldOK
  <2>3. LedgerOK'
    BY <1>0, <1>11 DEF IInv, TypeOK, LedgerOK, PlaceInv, RegisterIface
  <2>4. HistoryOK'
    BY <1>11 DEF IInv, TypeOK, HistoryOK, RegisterIface
  <2>. QED
    BY <2>1, <2>2, <2>3, <2>4 DEF TypeOK
<1>2. PlaceInv'
  BY <1>0, <1>11 DEF IInv, TypeOK, ControlOK, PlaceInv, Returned, Left, RegisterIface
<1>3. UntouchedInv'
  BY <1>0, <1>9, CellRegistered
<1>4. CaptureInv' /\ FirstInv'
  BY <1>11
<1>5. CellInv'
  BY <1>0 DEF CellInv
<1>6. RetainInv'
  BY NoneRetained DEF IInv, PlaceInv, RegisterIface
<1>7. RulesInv'
  BY <1>0, <1>9, RestoreAdded
<1>8. ItemsInv'
  BY <1>0, <1>9, RestoreAdded
<1>. QED
  BY <1>1, <1>2, <1>3, <1>4, <1>5, <1>6, <1>7, <1>8 DEF IInv

\* enable_proxy_arp reads and writes the sysctl of all interfaces.
LEMMA WriteAllPreserves ==
  ASSUME IInv, WriteAll PROVE IInv'
<1>. USE DEF locals, world, cleanVars, given, histVars
<1>. DEFINE c == AllArp
<1>0. c \in Cells /\ cells[c] \in 0..2 /\ calls # <<>>
  BY CurrentEntry, NamesTyped, WrittenTyped DEF IInv, PlaceInv, WriteAll, Calling
<1>1. TypeOK'
  <2>1. ControlOK'
    BY <1>0 DEF IInv, TypeOK, ControlOK, WriteAll
  <2>2. WorldOK'
    BY <1>0, WrittenTyped DEF IInv, TypeOK, WorldOK, WriteAll
  <2>3. LedgerOK'
    BY DEF IInv, TypeOK, LedgerOK, WriteAll
  <2>4. HistoryOK'
    BY DEF IInv, TypeOK, HistoryOK, WriteAll
  <2>. QED
    BY <2>1, <2>2, <2>3, <2>4 DEF TypeOK
<1>2. PlaceInv'
  BY <1>0 DEF IInv, TypeOK, ControlOK, PlaceInv, Returned, Left, WriteAll
<1>3. UntouchedInv'
  <2>1. Written = {} /\ Written' = {c}
    BY DEF WriteAll, Written, Current
  <2>. QED
    BY <1>0, <2>1, CellWritten DEF WriteAll
<1>4. CaptureInv' /\ FirstInv'
  BY SameLedger DEF IInv, WriteAll, Setup, Returned, Left
<1>5. CellInv'
  BY DEF CellInv, WriteAll, Returned
<1>6. RetainInv'
  BY NoneRetained DEF IInv, PlaceInv, WriteAll
<1>7. RulesInv'
  BY SameRules DEF IInv, WriteAll, Adding, Returned, Left
<1>8. ItemsInv'
  BY SameItems DEF IInv, WriteAll, Removes, Returned, Left
<1>. QED
  BY <1>1, <1>2, <1>3, <1>4, <1>5, <1>6, <1>7, <1>8 DEF IInv

\* enable_proxy_arp registers the second value.
LEMMA RegisterAllPreserves ==
  ASSUME IInv, RegisterAll PROVE IInv'
<1>. USE DEF locals, world, cleanVars, given, histVars
<1>. DEFINE c == AllArp
<1>0. /\ c \in Cells /\ prior \in 0..2 /\ Register(c, prior) /\ Setup /\ calls # <<>>
      /\ UNCHANGED <<cells, items, rules, before, config, cleanups, gap, cut, dropped>>
      /\ pc # "clean" /\ pc' # "clean" /\ pc' # "up"
  BY CurrentEntry, NamesTyped
     DEF IInv, PlaceInv, TypeOK, ControlOK, Setup, RegisterAll, Returned
<1>9. /\ Written = {c} /\ Written' = {} /\ Adding = {} /\ Adding' = {}
  BY DEF RegisterAll, Returned, Written, Adding
<1>10. c \in Told /\ captures[c] = 0 => prior = before[c]
  BY <1>9 DEF IInv, UntouchedInv
<1>. HIDE DEF c
<1>11. /\ CaptureInv' /\ FirstInv' /\ ledger' \in Seq(Action) /\ captures' \in [Cells -> Nat]
       /\ ledger' # <<>> /\ ledger'[Len(ledger')].kind = "cell"
  BY <1>0, <1>10, Registered
<1>1. TypeOK'
  <2>1. ControlOK'
    BY <1>0, ReturnedTyped DEF IInv, RegisterAll
  <2>2. WorldOK'
    BY <1>0 DEF IInv, TypeOK, WorldOK
  <2>3. LedgerOK'
    BY <1>0, <1>11 DEF IInv, TypeOK, LedgerOK, PlaceInv, RegisterAll
  <2>4. HistoryOK'
    BY <1>11 DEF IInv, TypeOK, HistoryOK, RegisterAll
  <2>. QED
    BY <2>1, <2>2, <2>3, <2>4 DEF TypeOK
<1>2. PlaceInv'
  BY <1>0, <1>11 DEF IInv, TypeOK, ControlOK, PlaceInv, Returned, Left, RegisterAll
<1>3. UntouchedInv'
  BY <1>0, <1>9, CellRegistered
<1>4. CaptureInv' /\ FirstInv'
  BY <1>11
<1>5. CellInv'
  BY <1>0 DEF CellInv
<1>6. RetainInv'
  BY NoneRetained DEF IInv, PlaceInv, RegisterAll
<1>7. RulesInv'
  BY <1>0, <1>9, RestoreAdded
<1>8. ItemsInv'
  BY <1>0, <1>9, RestoreAdded
<1>. QED
  BY <1>1, <1>2, <1>3, <1>4, <1>5, <1>6, <1>7, <1>8 DEF IInv

\* The second write of enable_proxy_arp fails: the restore of the interface is taken
\* out of the ledger only when the interface has its value again.
LEMMA AllFailsPreserves ==
  ASSUME IInv, AllFails PROVE IInv'
<1>. USE DEF locals, world, cleanVars, given, histVars
<1>. DEFINE m == Len(ledger)
            a == ledger[m]
<1>0. /\ Setup /\ TypeOK /\ PlaceInv /\ Left /\ UntouchedInv /\ CaptureInv /\ FirstInv /\ ItemsInv
      /\ UNCHANGED <<items, rules, before, config, cleanups, captures, gap, cut, dropped, j, retained>>
      /\ pc = "all" /\ pc' = "up" /\ cleanups = 0 /\ j = 0 /\ calls' = <<>> /\ n' = 0
      /\ m \in Nat \ {0} /\ DOMAIN ledger = 1..m /\ a \in Action
      /\ a.kind = "cell" /\ a.what \in Cells /\ a.value \in 0..2
  <2>1. TypeOK /\ ledger # <<>> /\ ledger[Len(ledger)].kind = "cell"
    BY DEF IInv, PlaceInv, AllFails
  <2>2. m \in Nat \ {0} /\ DOMAIN ledger = 1..m
    BY <2>1 DEF TypeOK, LedgerOK
  <2>3. a \in Action
    BY <2>2, LedgerTyped, <2>1
  <2>. QED
    BY <2>1, <2>2, <2>3, ActionTyped DEF IInv, PlaceInv, Setup, AllFails, Left
<1>. HIDE DEF m, a
<1>1. /\ Adding = {} /\ Adding' = {} /\ Written = {} /\ Written' = {} /\ Told' = Told
  BY <1>0 DEF Adding, Written, Told, Cells
<1>2. ControlOK' /\ HistoryOK'
  BY <1>0, LeftTyped DEF TypeOK, HistoryOK
<1>3. PlaceInv'
  BY <1>0 DEF PlaceInv
<1>4. RetainInv'
  BY <1>0, NoneRetained DEF PlaceInv
<1>5. CASE UNCHANGED <<cells, ledger>>
  <2>1. TypeOK'
    BY <1>0, <1>2, <1>5 DEF TypeOK, WorldOK, LedgerOK
  <2>2. CaptureInv' /\ FirstInv'
    BY <1>0, <1>5, SameLedger DEF Setup
  <2>3. RulesInv' /\ ItemsInv'
    BY <1>0, <1>1, <1>5, SameRules, SameItems DEF Removes
  <2>4. CellInv' /\ UntouchedInv'
    BY <1>0, <1>1, <1>5, LeavesSetup
  <2>. QED
    BY <1>3, <1>4, <2>1, <2>2, <2>3, <2>4 DEF IInv
<1>6. CASE /\ cells' = [cells EXCEPT ![a.what] = a.value]
           /\ ledger' = SubSeq(ledger, 1, m - 1)
  <2>1. /\ ledger' \in Seq(Action) /\ Len(ledger') = m - 1 /\ DOMAIN ledger' = 1..(m - 1)
        /\ \A k \in 1..(m - 1) : ledger'[k] = ledger[k]
    <3>1. ledger \in Seq(Action) /\ m - 1 \in 0..m /\ m - 1 \in Nat
      BY <1>0 DEF TypeOK, LedgerOK
    <3>2. \A k \in 1..(m - 1) : k \in 1..m
      BY <1>0
    <3>3. 1 + (m - 1) - 1 = m - 1 /\ (m - 1) - 1 + 1 = m - 1 /\ 1 \in 1..(Len(ledger) + 1)
      BY <1>0 DEF m
    <3>. QED
      BY <1>0, <1>6, <3>1, <3>2, <3>3, SubSeqProperties DEF m
  <2>2. TypeOK'
    BY <1>0, <1>2, <1>6, <2>1, WrittenTyped DEF TypeOK, WorldOK, LedgerOK
  <2>3. /\ \A k \in DOMAIN ledger' : k \in DOMAIN ledger /\ k # m /\ k \in Nat
        /\ \A k \in DOMAIN ledger : k \in DOMAIN ledger' \/ k = m
        /\ \A k \in DOMAIN ledger' : \A c : Restores(ledger', k, c) <=> Restores(ledger, k, c)
        /\ \A c : Restores(ledger, m, c) <=> c = a.what
    BY <1>0, <2>1 DEF Restores, a
  <2>4. CaptureInv'
    <3>1. ASSUME NEW c \in Told
          PROVE  /\ captures[c] = 0 => \A k \in DOMAIN ledger' : ~Restores(ledger', k, c)
                 /\ captures[c] <= 1 => \A k, l \in DOMAIN ledger' :
                      Restores(ledger', k, c) /\ Restores(ledger', l, c) => k = l
      BY <1>0, <2>3 DEF CaptureInv
    <3>. QED
      BY <1>0, <1>1, <3>1 DEF CaptureInv
  <2>5. ASSUME NEW c \in Told, NEW k \in DOMAIN ledger', Restores(ledger', k, c)
        PROVE  \E i \in 1..k :
                 /\ Restores(ledger', i, c) /\ ledger'[i].value = before[c]
                 /\ \A l \in 1..(i - 1) : ~Restores(ledger', l, c)
    <3>1. PICK i \in 1..k :
            /\ Restores(ledger, i, c) /\ ledger[i].value = before[c]
            /\ \A l \in 1..(i - 1) : ~Restores(ledger, l, c)
      BY <1>0, <2>3, <2>5 DEF FirstInv, Fresh
    <3>2. i \in DOMAIN ledger' /\ \A l \in 1..(i - 1) : l \in DOMAIN ledger'
      BY <1>0, <2>1
    <3>. QED
      BY <3>1, <3>2, <2>1, <2>3
  <2>6. FirstInv'
    BY <1>0, <1>1, <2>5 DEF FirstInv
  <2>7. UntouchedInv'
    <3>1. \A c \in Told : captures[c] = 0 => c # a.what
      BY <1>0, <2>3 DEF CaptureInv
    <3>2. \A c \in Told : c # a.what => cells'[c] = cells[c]
      BY <1>0, <1>6 DEF TypeOK, WorldOK, Told
    <3>. QED
      BY <1>0, <1>1, <3>1, <3>2 DEF UntouchedInv
  <2>8. ASSUME NEW c \in Told PROVE cells'[c] = before[c] \/ Restorable(c)'
    <3>1. c \in Cells /\ cells \in [Cells -> 0..2] /\ captures[c] \in Nat
      BY <1>0 DEF TypeOK, WorldOK, HistoryOK, Told
    <3>2. CASE captures[c] = 0
      BY <1>0, <1>1, <2>7, <3>2 DEF UntouchedInv
    <3>3. CASE captures[c] # 0
      <4>1. PICK k \in DOMAIN ledger : Restores(ledger, k, c)
        BY <1>0, <3>1, <3>3 DEF CaptureInv, Setup
      <4>2. PICK i \in 1..k : Restores(ledger, i, c) /\ ledger[i].value = before[c]
        BY <1>0, <4>1 DEF FirstInv, Fresh
      <4>3. i \in DOMAIN ledger
        BY <1>0, <4>1
      <4>4. CASE i = m
        <5>1. c = a.what /\ a.value = before[c]
          BY <2>3, <4>2, <4>4 DEF a
        <5>. QED
          BY <1>6, <3>1, <5>1
      <4>5. CASE i # m
        BY <2>1, <2>3, <4>2, <4>3, <4>5, <1>0 DEF Restorable, Restores
      <4>. QED
        BY <4>4, <4>5
    <3>. QED
      BY <3>2, <3>3
  <2>9. CellInv'
    BY <1>0, <1>1, <2>8 DEF CellInv
  <2>10. \A r : Cardinality(DeletesIn(ledger', Len(ledger'), r)) =
                 Cardinality(DeletesIn(ledger, Len(ledger), r))
    <3>. SUFFICES ASSUME NEW r
                  PROVE  DeletesIn(ledger', m - 1, r) = DeletesIn(ledger, m, r)
      BY <2>1 DEF m
    <3>. QED
      BY <1>0, <2>1 DEF DeletesIn, a
  <2>11. RulesInv'
    BY <1>0, <1>1, <2>10, SameRules
  <2>12. ItemsInv'
    <3>1. /\ \A k \in DOMAIN ledger : \A x : Removes(k, x) => k \in DOMAIN ledger' /\ Removes(k, x)'
          /\ \A k \in DOMAIN ledger' : \A x : Removes(k, x)' => k \in DOMAIN ledger /\ Removes(k, x)
      BY <1>0, <2>1, <2>3 DEF Removes, a
    <3>. QED
      BY <1>0, <3>1, SameItems
  <2>. QED
    BY <1>3, <1>4, <2>2, <2>4, <2>6, <2>7, <2>9, <2>11, <2>12 DEF IInv
<1>. QED
  BY <1>5, <1>6 DEF AllFails, a, m

\* setup_bridges is left by an exception.
LEMMA SetupRaisesPreserves ==
  ASSUME IInv, SetupRaises PROVE IInv'
<1>. USE DEF locals, world, cleanVars, given, histVars
<1>0. /\ Setup /\ TypeOK /\ PlaceInv /\ Left /\ ItemsInv /\ gap' = gap \cup Unregistered
      /\ UNCHANGED <<cells, rules, ledger, before, config, cleanups, captures, cut, j, retained>>
      /\ pc # "clean" /\ pc' = "up" /\ calls' = <<>> /\ n' = 0
  BY DEF IInv, PlaceInv, Setup, SetupRaises, Left, Calling
<1>1. /\ Adding' = {} /\ Written \subseteq Unregistered /\ Adding \subseteq Unregistered
      /\ Unregistered \subseteq Pairs /\ Resolv \notin Unregistered
  BY <1>0, UnregisteredNames DEF Adding
<1>2. \/ UNCHANGED <<items, dropped>>
      \/ \E x \in Pairs : items' = items \cup {x} /\ dropped' = dropped \cup {x}
  <2>1. calls # <<>> => Head(calls).what \in Pairs
    BY <1>0, HeadTyped
  <2>. QED
    BY <2>1 DEF SetupRaises, Calling
<1>3. TypeOK'
  <2>1. ControlOK'
    BY <1>0, LeftTyped
  <2>2. WorldOK' /\ LedgerOK'
    BY <1>0, <1>2 DEF TypeOK, WorldOK, LedgerOK
  <2>3. HistoryOK'
    BY <1>0, <1>1, <1>2 DEF TypeOK, HistoryOK
  <2>. QED
    BY <2>1, <2>2, <2>3 DEF TypeOK
<1>4. PlaceInv'
  BY <1>0, <1>1 DEF PlaceInv
<1>5. CaptureInv' /\ FirstInv'
  BY <1>0, SameLedger DEF Setup
<1>6. CellInv' /\ UntouchedInv'
  BY <1>0, <1>1, LeavesSetup
<1>7. RetainInv'
  BY <1>0, NoneRetained DEF PlaceInv
<1>8. RulesInv'
  BY <1>0, <1>1, SameRules
<1>9. ItemsInv'
  BY <1>0, <1>2 DEF ItemsInv, Removes
<1>. QED
  BY <1>3, <1>4, <1>5, <1>6, <1>7, <1>8, <1>9 DEF IInv

\* cleanup() begins with the last action.
LEMMA BeginCleanupPreserves ==
  ASSUME IInv, BeginCleanup PROVE IInv'
<1>. USE DEF locals, world, cleanVars, given, histVars
<1>0. /\ TypeOK /\ PlaceInv /\ CaptureInv /\ FirstInv /\ CellInv /\ RulesInv /\ ItemsInv
      /\ UNCHANGED <<locals, world, ledger, histVars>>
      /\ UNCHANGED <<config, entry, calls, n, prior, cells, items, rules, before, captures, gap, dropped, cut>>
      /\ pc = "up" /\ pc' = "clean" /\ j' = Len(ledger) /\ retained' = <<>>
      /\ cleanups' = cleanups + 1 /\ cleanups \in Nat /\ captures \in [Cells -> Nat]
      /\ Len(ledger) \in Nat /\ DOMAIN ledger = 1..Len(ledger)
  BY LedgerTyped DEF IInv, TypeOK, LedgerOK, HistoryOK, BeginCleanup
<1>1. /\ Adding = {} /\ Adding' = {} /\ Written = {} /\ Written' = {} /\ Told' = Told
      /\ Told \subseteq Cells
  BY <1>0 DEF Adding, Written, Told, Cells
<1>2. TypeOK'
  BY <1>0 DEF TypeOK, ControlOK, WorldOK, LedgerOK, HistoryOK
<1>3. PlaceInv'
  BY <1>0 DEF PlaceInv
<1>4. UntouchedInv'
  BY <1>0, <1>1, SameCells
<1>5. CaptureInv'
  BY <1>0, <1>1 DEF CaptureInv
<1>6. \A c \in Told : Fresh(c)' => Fresh(c) /\ (captures[c] <= 1 \/ cleanups = 0)
  BY <1>0, <1>1 DEF Fresh
<1>7. FirstInv'
  BY <1>0, <1>1, <1>6 DEF FirstInv
<1>8. CellInv'
  <2>1. ASSUME NEW c \in Told, Fresh(c)'
        PROVE  cells[c] = before[c] \/ \E k \in 1..Len(ledger) : Restores(ledger, k, c)
    <3>1. cells[c] = before[c] \/ Restorable(c) \/ (cleanups > 1 /\ captures[c] > 1)
      BY <1>0 DEF CellInv
    <3>2. ~(cleanups > 1 /\ captures[c] > 1)
      BY <1>0, <1>1, <1>6, <2>1
    <3>. QED
      BY <1>0, <3>1, <3>2 DEF Restorable, Restores
  <2>. QED
    BY <1>0, <1>1, <2>1 DEF CellInv
<1>9. RetainInv'
  BY <1>0, NoneRetained
<1>10. RulesInv'
  <2>1. Len(retained') = 0
    BY <1>0
  <2>2. ASSUME ~cut, NEW r \in Rules \ gap
        PROVE  rules[r] = (IF r \in Prior THEN 1 ELSE 0) + 0
                          + (Cardinality(DeletesIn(ledger, Len(ledger), r))
                             + Cardinality(DeletesIn(retained', Len(retained'), r)))
    <3>1. /\ Cardinality(DeletesIn(retained', Len(retained'), r)) = 0
          /\ Cardinality(DeletesIn(ledger, Len(ledger), r)) \in Nat
      BY <1>0, <2>1, DeletesFinite
    <3>. QED
      BY <1>0, <1>1, <2>2, <3>1 DEF RulesInv
  <2>. QED
    BY <1>0, <1>1, <2>2 DEF RulesInv, Rules
<1>11. ItemsInv'
  BY <1>0 DEF ItemsInv, Removes
<1>. QED
  BY <1>2, <1>3, <1>4, <1>5, <1>7, <1>8, <1>9, <1>10, <1>11 DEF IInv

\* An action is tried.  Of the actions for a cell the first is tried last, so the
\* original value is written last or retained.
LEMMA CleanActionPreserves ==
  ASSUME IInv, CleanAction PROVE IInv'
<1>. USE DEF locals, world, cleanVars, given, histVars
<1>. DEFINE a == ledger[j]
<1>0. /\ TypeOK /\ PlaceInv /\ UntouchedInv /\ CaptureInv /\ FirstInv /\ CellInv /\ RetainInv
      /\ RulesInv /\ ItemsInv
      /\ UNCHANGED <<config, entry, calls, n, prior, pc, ledger, before, captures, gap, cut, cleanups>>
      /\ pc = "clean" /\ j \in 1..Len(ledger) /\ j' = j - 1
      /\ Len(ledger) \in Nat /\ DOMAIN ledger = 1..Len(ledger) /\ a \in Action
      /\ Len(retained) \in Nat /\ DOMAIN retained = 1..Len(retained) /\ retained \in Seq(Action)
  <2>1. TypeOK /\ j \in 1..Len(ledger)
    BY DEF IInv, TypeOK, LedgerOK, CleanAction
  <2>. QED
    BY <2>1, LedgerTyped DEF IInv, TypeOK, LedgerOK, CleanAction
<1>1. /\ \/ Undone(a) /\ UNCHANGED <<retained, dropped>>
         \/ /\ NotUndone(a)
            /\ IF a.kind = "item"
                 THEN dropped' = dropped \cup {a.what} /\ UNCHANGED retained
                 ELSE retained' = <<a>> \o retained /\ UNCHANGED dropped
  BY DEF CleanAction
<1>2. /\ a.kind \in {"cell", "item", "rule"} /\ a.what \in Pairs /\ a.value \in 0..2
      /\ a.kind = "cell" => a.what \in Cells
      /\ a.kind = "rule" => a.what \in Rules
  BY <1>0, ActionTyped
<1>3. /\ \A c : Restores(ledger, j, c) <=> a.kind = "cell" /\ a.what = c
      /\ \A x : Removes(j, x) <=> a.kind = "item" /\ a.what = x
  BY DEF Restores, Removes
<1>. HIDE DEF a
<1>4. /\ Adding = {} /\ Adding' = {} /\ Written = {} /\ Written' = {} /\ Told' = Told
      /\ Told \subseteq Cells
  BY <1>0 DEF Adding, Written, Told, Cells
<1>5. WorldOK' /\ \A c \in Told : ~(a.kind = "cell" /\ a.what = c) => cells'[c] = cells[c]
  BY <1>0, <1>1, <1>4, Attempted
<1>6. retained' = <<a>> \o retained =>
        /\ retained' \in Seq(Action) /\ DOMAIN retained' = 1..(Len(retained) + 1)
        /\ 1 \in DOMAIN retained' /\ retained'[1] = a
        /\ \A k \in DOMAIN retained : k + 1 \in DOMAIN retained' /\ retained'[k + 1] = retained[k]
        /\ \A k \in DOMAIN retained' :
             k = 1 \/ (k - 1 \in DOMAIN retained /\ retained'[k] = retained[k - 1])
  <2>. SUFFICES ASSUME retained' = <<a>> \o retained
                PROVE  /\ retained' \in Seq(Action) /\ DOMAIN retained' = 1..(Len(retained) + 1)
                       /\ retained'[1] = a
                       /\ \A k \in 2..(Len(retained) + 1) : retained'[k] = retained[k - 1]
    BY <1>0
  <2>1. <<a>> \in Seq(Action) /\ Len(<<a>>) = 1 /\ <<a>>[1] = a
    BY <1>0
  <2>2. /\ retained' \in Seq(Action) /\ Len(retained') = Len(<<a>>) + Len(retained)
        /\ \A k \in 1..(Len(<<a>>) + Len(retained)) :
             retained'[k] = IF k <= Len(<<a>>) THEN <<a>>[k] ELSE retained[k - Len(<<a>>)]
    BY <1>0, <2>1, ConcatProperties
  <2>. QED
    BY <1>0, <2>1, <2>2
<1>7. TypeOK'
  <2>1. ControlOK'
    BY <1>0 DEF TypeOK, ControlOK
  <2>2. LedgerOK'
    BY <1>0, <1>1, <1>6 DEF TypeOK, LedgerOK
  <2>3. HistoryOK'
    BY <1>0, <1>1, <1>2 DEF TypeOK, HistoryOK
  <2>. QED
    BY <1>5, <2>1, <2>2, <2>3 DEF TypeOK
<1>8. PlaceInv'
  BY <1>0 DEF PlaceInv
<1>9. UntouchedInv'
  <2>1. \A c \in Told : captures[c] = 0 => ~(a.kind = "cell" /\ a.what = c)
    BY <1>0, <1>3 DEF CaptureInv
  <2>. QED
    BY <1>0, <1>4, <1>5, <2>1 DEF UntouchedInv
<1>10. CaptureInv' /\ FirstInv'
  BY <1>0, SameLedger DEF Setup
<1>11. CellInv'
  <2>1. ASSUME NEW c \in Told, Fresh(c)
        PROVE  \/ cells'[c] = before[c]
               \/ \E k \in 1..(j - 1) : Restores(ledger, k, c)
               \/ \E k \in DOMAIN retained' :
                    Restores(retained', k, c) /\ retained'[k].value = before[c]
    <3>1. CASE a.kind = "cell" /\ a.what = c
      <4>1. PICK i \in 1..j : Restores(ledger, i, c) /\ ledger[i].value = before[c]
        BY <1>0, <1>3, <2>1, <3>1 DEF FirstInv
      <4>2. CASE i = j
        <5>1. a.value = before[c]
          BY <4>1, <4>2 DEF a
        <5>2. CASE Undone(a)
          BY <1>0, <1>4, <3>1, <5>1, <5>2 DEF Undone, TypeOK, WorldOK
        <5>3. CASE retained' = <<a>> \o retained
          BY <1>6, <3>1, <5>1, <5>3 DEF Restores
        <5>. QED
          BY <1>1, <3>1, <5>2, <5>3
      <4>3. CASE i # j
        BY <1>0, <4>1, <4>3
      <4>. QED
        BY <4>2, <4>3
    <3>2. CASE ~(a.kind = "cell" /\ a.what = c)
      <4>1. cells'[c] = cells[c] /\ ~Restores(ledger, j, c)
        BY <1>3, <1>5, <3>2
      <4>2. CASE \E k \in 1..j : Restores(ledger, k, c)
        BY <1>0, <4>1, <4>2
      <4>3. ASSUME NEW k \in DOMAIN retained, Restores(retained, k, c), retained[k].value = before[c]
            PROVE  \E l \in DOMAIN retained' :
                     Restores(retained', l, c) /\ retained'[l].value = before[c]
        <5>1. CASE retained' = retained
          BY <4>3, <5>1
        <5>2. CASE retained' = <<a>> \o retained
          <6>1. k + 1 \in DOMAIN retained' /\ retained'[k + 1] = retained[k]
            BY <1>6, <5>2
          <6>2. Restores(retained', k + 1, c) /\ retained'[k + 1].value = before[c]
            BY <4>3, <6>1 DEF Restores
          <6>. QED
            BY <6>1, <6>2
        <5>. QED
          BY <1>1, <5>1, <5>2
      <4>. QED
        BY <1>0, <2>1, <4>1, <4>2, <4>3 DEF CellInv
    <3>. QED
      BY <3>1, <3>2
  <2>2. \A c \in Told : Fresh(c)' <=> Fresh(c)
    BY <1>0 DEF Fresh
  <2>. QED
    BY <1>0, <1>4, <2>1, <2>2 DEF CellInv
<1>12. RetainInv'
  <2>1. CASE retained' = retained
    BY <1>0, <1>4, <2>1 DEF RetainInv
  <2>2. CASE retained' = <<a>> \o retained /\ a.kind # "item"
    <3>1. \A k \in DOMAIN retained' : retained'[k].kind # "item"
      BY <1>0, <1>6, <2>2 DEF RetainInv
    <3>2. /\ \A c : Restores(retained', 1, c) <=> Restores(ledger, j, c)
          /\ \A k \in DOMAIN retained' : k # 1 =>
               \A c : Restores(retained', k, c) <=> Restores(retained, k - 1, c)
      BY <1>3, <1>6, <2>2 DEF Restores
    <3>3. ASSUME NEW c \in Told, NEW k \in DOMAIN retained', Restores(retained', k, c)
          PROVE  /\ captures[c] > 0 /\ \E l \in DOMAIN ledger : Restores(ledger, l, c)
                 /\ captures[c] = 1 =>
                      /\ retained'[k].value = before[c]
                      /\ \A l \in DOMAIN retained' : Restores(retained', l, c) => l = k
                      /\ \A l \in 1..(j - 1) : ~Restores(ledger, l, c)
      <4>1. captures[c] \in Nat
        BY <1>0, <1>4 DEF TypeOK, HistoryOK
      <4>2. CASE k = 1
        <5>1. Restores(ledger, j, c) /\ j \in DOMAIN ledger
          BY <1>0, <3>2, <3>3, <4>2
        <5>2. captures[c] > 0
          BY <1>0, <4>1, <5>1 DEF CaptureInv
        <5>3. ASSUME captures[c] = 1
              PROVE  \A l \in DOMAIN ledger : Restores(ledger, l, c) => l = j
          BY <1>0, <5>1, <5>3 DEF CaptureInv
        <5>4. ASSUME captures[c] = 1 PROVE a.value = before[c]
          <6>1. PICK i \in 1..j : Restores(ledger, i, c) /\ ledger[i].value = before[c]
            BY <1>0, <5>1, <5>4 DEF FirstInv, Fresh
          <6>. QED
            BY <1>0, <5>3, <5>4, <6>1 DEF a
        <5>5. ASSUME captures[c] = 1, NEW l \in DOMAIN retained', Restores(retained', l, c)
              PROVE  l = 1
          <6>1. l # 1 => l - 1 \in DOMAIN retained /\ Restores(retained, l - 1, c)
            BY <1>6, <2>2, <3>2, <5>5
          <6>2. l # 1 => ~Restores(ledger, j, c)
            BY <1>0, <5>5, <6>1 DEF RetainInv
          <6>. QED
            BY <5>1, <6>2
        <5>6. captures[c] = 1 => \A l \in 1..(j - 1) : ~Restores(ledger, l, c)
          BY <1>0, <5>3
        <5>. QED
          BY <1>6, <2>2, <4>2, <5>1, <5>2, <5>4, <5>5, <5>6
      <4>3. CASE k # 1
        <5>1. k - 1 \in DOMAIN retained /\ Restores(retained, k - 1, c) /\ retained'[k] = retained[k - 1]
          BY <1>6, <2>2, <3>2, <3>3, <4>3
        <5>2. /\ captures[c] > 0 /\ \E l \in DOMAIN ledger : Restores(ledger, l, c)
              /\ captures[c] = 1 =>
                   /\ retained[k - 1].value = before[c]
                   /\ \A l \in DOMAIN retained : Restores(retained, l, c) => l = k - 1
                   /\ \A l \in 1..j : ~Restores(ledger, l, c)
          BY <1>0, <5>1 DEF RetainInv
        <5>3. ASSUME captures[c] = 1, NEW l \in DOMAIN retained', Restores(retained', l, c)
              PROVE  l = k
          <6>1. l # 1
            BY <1>0, <3>2, <5>2, <5>3
          <6>2. l - 1 \in DOMAIN retained /\ Restores(retained, l - 1, c)
            BY <1>6, <2>2, <3>2, <5>3, <6>1
          <6>3. l - 1 = k - 1
            BY <5>2, <5>3, <6>2
          <6>. QED
            BY <1>6, <2>2, <6>3, <1>0
        <5>4. \A l \in 1..(j - 1) : l \in 1..j
          BY <1>0
        <5>. QED
          BY <5>1, <5>2, <5>3, <5>4
      <4>. QED
        BY <4>2, <4>3
    <3>. QED
      BY <1>0, <1>4, <3>1, <3>3 DEF RetainInv
  <2>. QED
    BY <1>1, <2>1, <2>2
<1>13. RulesInv'
  <2>1. ASSUME ~cut, NEW r \in Rules \ gap
        PROVE  rules'[r] = (IF r \in Prior THEN 1 ELSE 0) + 0
                           + (Cardinality(DeletesIn(ledger, j - 1, r))
                              + Cardinality(DeletesIn(retained', Len(retained'), r)))
    <3>. DEFINE one == IF a.kind = "rule" /\ a.what = r THEN 1 ELSE 0
    <3>1. Cardinality(DeletesIn(ledger, j, r)) = Cardinality(DeletesIn(ledger, j - 1, r)) + one
      <4>1. j - 1 \in Nat /\ (j - 1) + 1 = j
        BY <1>0
      <4>2. Cardinality(DeletesIn(ledger, (j - 1) + 1, r)) =
              Cardinality(DeletesIn(ledger, j - 1, r))
              + (IF ledger[(j - 1) + 1].kind = "rule" /\ ledger[(j - 1) + 1].what = r THEN 1 ELSE 0)
        BY <4>1, DeletesNext
      <4>. QED
        BY <4>1, <4>2 DEF a
    <3>2. /\ Cardinality(DeletesIn(ledger, j - 1, r)) \in Nat
          /\ Cardinality(DeletesIn(retained, Len(retained), r)) \in Nat
      <4>1. j - 1 \in Nat
        BY <1>0
      <4>. QED
        BY <1>0, <4>1, DeletesFinite
    <3>3. rules[r] = (IF r \in Prior THEN 1 ELSE 0) + 0
                     + (Cardinality(DeletesIn(ledger, j, r))
                        + Cardinality(DeletesIn(retained, Len(retained), r)))
      BY <1>0, <1>4, <2>1 DEF RulesInv
    <3>4. CASE Undone(a) /\ retained' = retained
      <4>1. rules'[r] = rules[r] - one /\ rules[r] \in Nat
        BY <1>0, <1>2, <3>4 DEF Undone, TypeOK, WorldOK
      <4>. QED
        BY <3>1, <3>2, <3>3, <3>4, <4>1
    <3>5. CASE NotUndone(a) /\ a.kind = "item" /\ retained' = retained
      <4>1. one = 0 /\ rules' = rules
        BY <3>5 DEF NotUndone
      <4>. QED
        BY <3>1, <3>2, <3>3, <3>5, <4>1
    <3>6. CASE NotUndone(a) /\ retained' = <<a>> \o retained
      <4>1. rules' = rules
        BY <3>6 DEF NotUndone
      <4>2. Cardinality(DeletesIn(retained', Len(retained'), r)) =
              Cardinality(DeletesIn(retained, Len(retained), r)) + one
        BY <1>0, <3>6, DeletesPrepended
      <4>3. one \in {0, 1}
        OBVIOUS
      <4>. HIDE DEF one
      <4>. QED
        BY <3>1, <3>2, <3>3, <4>1, <4>2, <4>3
    <3>. QED
      BY <1>1, <3>4, <3>5, <3>6
  <2>. QED
    BY <1>0, <1>4, <2>1 DEF RulesInv, Rules
<1>14. ItemsInv'
  <2>1. /\ a.kind = "item" /\ Undone(a) => items' = items \ {a.what}
        /\ ~(a.kind = "item" /\ Undone(a)) => items' = items
        /\ a.kind = "item" /\ ~Undone(a) => a.what \in dropped'
        /\ dropped \subseteq dropped'
    BY <1>1 DEF Undone, NotUndone
  <2>2. ASSUME NEW x \in Prior \ Rules
        PROVE  Overwrites(x) \/ (x \in items' /\ \A k \in DOMAIN ledger : ~Removes(k, x))
    <3>1. Overwrites(x) \/ (x \in items /\ \A k \in DOMAIN ledger : ~Removes(k, x))
      BY <1>0 DEF ItemsInv
    <3>. QED
      BY <1>0, <1>3, <2>1, <3>1
  <2>3. ASSUME NEW x \in items' \ (Prior \cup dropped')
        PROVE  \E k \in DOMAIN ledger : Removes(k, x) /\ k <= j - 1
    <3>1. PICK k \in DOMAIN ledger : Removes(k, x) /\ k <= j
      BY <1>0, <2>1 DEF ItemsInv
    <3>2. k # j
      BY <1>3, <2>1, <3>1
    <3>. QED
      BY <1>0, <3>1, <3>2
  <2>4. \A k, x : Removes(k, x)' <=> Removes(k, x)
    BY <1>0 DEF Removes
  <2>. QED
    BY <1>0, <2>2, <2>3, <2>4 DEF ItemsInv, Rules, Overwrites
<1>. QED
  BY <1>7, <1>8, <1>9, <1>10, <1>11, <1>12, <1>13, <1>14 DEF IInv

\* cleanup() keeps what it has retained.
LEMMA CleanDonePreserves ==
  ASSUME IInv, CleanDone PROVE IInv'
<1>. USE DEF locals, world, cleanVars, given, histVars
<1>0. /\ TypeOK /\ PlaceInv /\ UntouchedInv /\ CaptureInv /\ FirstInv /\ CellInv /\ RetainInv
      /\ RulesInv /\ ItemsInv
      /\ UNCHANGED <<config, entry, calls, n, prior, cells, items, rules, j, before, captures, gap,
                     dropped, cut, cleanups>>
      /\ pc = "clean" /\ pc' = "up" /\ j = 0 /\ ledger' = retained /\ retained' = <<>>
      /\ Len(retained) \in Nat /\ DOMAIN retained = 1..Len(retained) /\ cleanups \in Nat
      /\ captures \in [Cells -> Nat]
  BY LedgerTyped DEF IInv, TypeOK, LedgerOK, HistoryOK, CleanDone
<1>1. /\ Adding = {} /\ Adding' = {} /\ Written = {} /\ Written' = {} /\ Told' = Told
      /\ Told \subseteq Cells
  BY <1>0 DEF Adding, Written, Told, Cells
<1>2. TypeOK'
  BY <1>0 DEF TypeOK, ControlOK, WorldOK, LedgerOK, HistoryOK
<1>3. PlaceInv'
  BY <1>0 DEF PlaceInv
<1>4. UntouchedInv'
  BY <1>0, <1>1, SameCells
<1>5. CaptureInv'
  <2>1. ASSUME NEW c \in Told
        PROVE  /\ captures[c] = 0 => \A k \in DOMAIN retained : ~Restores(retained, k, c)
               /\ captures[c] <= 1 => \A k, l \in DOMAIN retained :
                    Restores(retained, k, c) /\ Restores(retained, l, c) => k = l
    <3>1. captures[c] \in Nat
      BY <1>0, <1>1
    <3>. QED
      BY <1>0, <3>1 DEF RetainInv
  <2>. QED
    BY <1>0, <1>1, <2>1 DEF CaptureInv
<1>6. FirstInv'
  <2>1. ASSUME NEW c \in Told, Fresh(c)', NEW k \in DOMAIN retained, Restores(retained, k, c)
        PROVE  \E i \in 1..k :
                 /\ Restores(retained, i, c) /\ retained[i].value = before[c]
                 /\ \A m \in 1..(i - 1) : ~Restores(retained, m, c)
    <3>1. captures[c] \in Nat
      BY <1>0, <1>1
    <3>2. CASE captures[c] <= 1
      <4>1. /\ retained[k].value = before[c]
            /\ \A l \in DOMAIN retained : Restores(retained, l, c) => l = k
        BY <1>0, <2>1, <3>1, <3>2 DEF RetainInv
      <4>2. k \in 1..k /\ \A m \in 1..(k - 1) : m \in DOMAIN retained /\ m # k
        BY <1>0
      <4>. QED
        BY <2>1, <4>1, <4>2
    <3>3. CASE captures[c] > 1
      <4>1. cleanups = 0
        BY <1>0, <2>1, <3>1, <3>3 DEF Fresh
      <4>. QED
        BY <1>0, <4>1 DEF PlaceInv
    <3>. QED
      BY <3>1, <3>2, <3>3
  <2>. QED
    BY <1>0, <1>1, <2>1 DEF FirstInv
<1>7. CellInv'
  <2>1. ASSUME NEW c \in Told
        PROVE  cells[c] = before[c] \/ Restorable(c)' \/ (cleanups > 1 /\ captures[c] > 1)
    <3>1. captures[c] \in Nat /\ 1..j = {}
      BY <1>0, <1>1
    <3>2. CASE Fresh(c)
      BY <1>0, <3>1, <3>2 DEF CellInv, Restorable, Restores
    <3>3. CASE ~Fresh(c)
      BY <1>0, <3>1, <3>3 DEF Fresh
    <3>. QED
      BY <3>2, <3>3
  <2>. QED
    BY <1>0, <1>1, <2>1 DEF CellInv
<1>8. RetainInv'
  BY <1>0, NoneRetained
<1>9. RulesInv'
  <2>1. ASSUME ~cut, NEW r \in Rules \ gap
        PROVE  rules[r] = (IF r \in Prior THEN 1 ELSE 0) + 0
                          + Cardinality(DeletesIn(retained, Len(retained), r))
    <3>1. /\ Cardinality(DeletesIn(ledger, j, r)) = 0
          /\ Cardinality(DeletesIn(retained, Len(retained), r)) \in Nat
      BY <1>0, DeletesFinite
    <3>. QED
      BY <1>0, <1>1, <2>1, <3>1 DEF RulesInv
  <2>. QED
    BY <1>0, <1>1, <2>1 DEF RulesInv, Rules
<1>10. ItemsInv'
  <2>1. \A x \in items \ (Prior \cup dropped) : FALSE
    BY <1>0, LedgerTyped DEF ItemsInv
  <2>2. \A k \in DOMAIN retained : retained[k].kind # "item"
    BY <1>0 DEF RetainInv
  <2>. QED
    BY <1>0, <2>1, <2>2 DEF ItemsInv, Removes, Rules, Overwrites
<1>. QED
  BY <1>2, <1>3, <1>4, <1>5, <1>6, <1>7, <1>8, <1>9, <1>10 DEF IInv

\* cleanup() is interrupted and keeps the whole ledger.
LEMMA CleanInterruptedPreserves ==
  ASSUME IInv, CleanInterrupted PROVE IInv'
<1>. USE DEF locals, world, cleanVars, given, histVars
<1>. DEFINE a == ledger[j]
<1>0. /\ TypeOK /\ PlaceInv /\ UntouchedInv /\ CaptureInv /\ FirstInv /\ CellInv /\ ItemsInv
      /\ UNCHANGED <<config, entry, calls, n, prior, ledger, before, captures, gap, dropped, cleanups>>
      /\ pc = "clean" /\ pc' = "up" /\ j \in 1..Len(ledger) /\ j' = 0 /\ retained' = <<>>
      /\ cut' = TRUE /\ cleanups \in Nat /\ captures \in [Cells -> Nat]
      /\ Len(ledger) \in Nat /\ DOMAIN ledger = 1..Len(ledger) /\ a \in Action
      /\ Undone(a) \/ NotUndone(a)
  <2>1. TypeOK /\ j \in 1..Len(ledger)
    BY DEF IInv, TypeOK, LedgerOK, CleanInterrupted
  <2>. QED
    BY <2>1, LedgerTyped DEF IInv, TypeOK, LedgerOK, HistoryOK, CleanInterrupted
<1>1. /\ Adding' = {} /\ Written = {} /\ Written' = {} /\ Told' = Told /\ Told \subseteq Cells
  BY <1>0 DEF Adding, Written, Told, Cells
<1>2. /\ \A c : Restores(ledger, j, c) <=> a.kind = "cell" /\ a.what = c
      /\ \A x : Removes(j, x) <=> a.kind = "item" /\ a.what = x
  BY DEF Restores, Removes
<1>. HIDE DEF a
<1>3. /\ WorldOK'
      /\ \A c \in Told : ~(a.kind = "cell" /\ a.what = c) => cells'[c] = cells[c]
      /\ items' = items \/ (a.kind = "item" /\ items' = items \ {a.what})
  BY <1>0, <1>1, Attempted
<1>4. TypeOK'
  BY <1>0, <1>3 DEF TypeOK, ControlOK, LedgerOK, HistoryOK
<1>5. PlaceInv'
  BY <1>0 DEF PlaceInv
<1>6. UntouchedInv'
  <2>1. \A c \in Told : captures[c] = 0 => ~(a.kind = "cell" /\ a.what = c)
    BY <1>0, <1>2 DEF CaptureInv
  <2>. QED
    BY <1>0, <1>1, <1>3, <2>1 DEF UntouchedInv
<1>7. CaptureInv' /\ FirstInv'
  BY <1>0, SameLedger DEF Setup
<1>8. CellInv'
  <2>1. ASSUME NEW c \in Told
        PROVE  cells'[c] = before[c] \/ Restorable(c) \/ (cleanups > 1 /\ captures[c] > 1)
    <3>1. captures[c] \in Nat /\ cleanups > 0
      BY <1>0, <1>1 DEF PlaceInv
    <3>2. CASE ~Fresh(c)
      BY <1>0, <3>1, <3>2 DEF Fresh
    <3>3. CASE Fresh(c) /\ \E k \in DOMAIN ledger : Restores(ledger, k, c)
      <4>1. PICK k \in DOMAIN ledger : Restores(ledger, k, c)
        BY <3>3
      <4>2. PICK i \in 1..k : Restores(ledger, i, c) /\ ledger[i].value = before[c]
        BY <1>0, <3>3, <4>1 DEF FirstInv
      <4>3. i \in DOMAIN ledger
        BY <1>0, <4>1
      <4>. QED
        BY <4>2, <4>3 DEF Restorable, Restores
    <3>4. CASE Fresh(c) /\ ~ \E k \in DOMAIN ledger : Restores(ledger, k, c)
      <4>1. cells'[c] = cells[c]
        BY <1>0, <1>2, <1>3, <3>4
      <4>2. /\ ~ \E k \in 1..j : Restores(ledger, k, c)
            /\ ~ \E k \in DOMAIN retained : Restores(retained, k, c)
        BY <1>0, <3>4 DEF IInv, RetainInv
      <4>. QED
        BY <1>0, <3>4, <4>1, <4>2 DEF CellInv
    <3>. QED
      BY <3>2, <3>3, <3>4
  <2>2. \A c : Restorable(c) => Restorable(c)'
    BY <1>0 DEF Restorable
  <2>. QED
    BY <1>0, <1>1, <2>1, <2>2 DEF CellInv
<1>9. RetainInv'
  BY <1>0, NoneRetained
<1>10. RulesInv'
  BY <1>0, <1>1 DEF RulesInv
<1>11. ItemsInv'
  <2>1. \A k, x : Removes(k, x)' <=> Removes(k, x)
    BY <1>0 DEF Removes
  <2>2. ASSUME NEW x \in Prior \ Rules
        PROVE  Overwrites(x) \/ (x \in items' /\ \A k \in DOMAIN ledger : ~Removes(k, x))
    <3>1. Overwrites(x) \/ (x \in items /\ \A k \in DOMAIN ledger : ~Removes(k, x))
      BY <1>0 DEF ItemsInv
    <3>. QED
      BY <1>0, <1>2, <1>3, <3>1
  <2>3. ASSUME NEW x \in items' \ (Prior \cup dropped')
        PROVE  \E k \in DOMAIN ledger : Removes(k, x)
    BY <1>0, <1>3 DEF ItemsInv
  <2>. QED
    BY <1>0, <2>1, <2>2, <2>3 DEF ItemsInv, Rules, Overwrites
<1>. QED
  BY <1>4, <1>5, <1>6, <1>7, <1>8, <1>9, <1>10, <1>11 DEF IInv

-----------------------------------------------------------------------------
(* The theorems. *)

\* Nothing has been changed at first.
LEMMA InitHolds == Init => IInv
<1>. SUFFICES ASSUME Init PROVE IInv
  OBVIOUS
<1>1. /\ cells \in [Cells -> 0..2] /\ rules \in [Rules -> Nat] /\ captures \in [Cells -> Nat]
      /\ before = cells
  BY DEF Init
<1>2. config \in Seq(Entry) /\ Len(config) \in Nat
  BY BridgeAssumption DEF Init
<1>3. Prior \subseteq Pairs
  BY BridgeAssumption DEF Names, Pairs, Words
<1>4. TypeOK
  <2>1. ControlOK
    BY <1>2 DEF Init, ControlOK
  <2>2. WorldOK
    BY <1>1, <1>3 DEF Init, WorldOK
  <2>3. LedgerOK
    BY DEF Init, LedgerOK
  <2>4. HistoryOK
    BY <1>1 DEF Init, HistoryOK
  <2>. QED
    BY <2>1, <2>2, <2>3, <2>4 DEF TypeOK
<1>5. PlaceInv
  BY DEF Init, PlaceInv
<1>6. UntouchedInv
  BY <1>1 DEF Init, UntouchedInv, Written, Told
<1>7. CaptureInv /\ FirstInv /\ CellInv /\ RetainInv
  BY DEF Init, CaptureInv, FirstInv, CellInv, RetainInv, Told
<1>8. RulesInv
  <2>1. Adding = {} /\ Len(ledger) = 0 /\ pc # "clean"
    BY DEF Init, Adding
  <2>2. \A r \in Rules : rules[r] = IF r \in Prior THEN 1 ELSE 0
    BY DEF Init
  <2>3. \A r : Cardinality(DeletesIn(ledger, Len(ledger), r)) = 0
    BY <2>1, DeletesFinite
  <2>. QED
    BY <2>1, <2>2, <2>3 DEF RulesInv
<1>9. ItemsInv
  BY DEF Init, ItemsInv, Removes
<1>. QED
  BY <1>4, <1>5, <1>6, <1>7, <1>8, <1>9 DEF IInv

\* Every step of setup_bridges and of cleanup() keeps the invariant.
LEMMA NextPreserves == IInv /\ [Next]_vars => IInv'
<1>. SUFFICES ASSUME IInv, [Next]_vars PROVE IInv'
  OBVIOUS
<1>1. CASE UNCHANGED vars
  <2>1. UNCHANGED <<config, entry, calls, n, prior, pc, cells, items, rules, ledger, j, retained,
                    cleanups, before, captures, gap, dropped, cut>>
    BY <1>1 DEF vars, locals, world, cleanVars, histVars, given
  <2>2. TypeOK' /\ PlaceInv'
    BY <2>1 DEF IInv, TypeOK, ControlOK, WorldOK, LedgerOK, HistoryOK, PlaceInv
  <2>3. /\ Told' = Told /\ Written' = Written /\ Adding' = Adding
        /\ \A c : Fresh(c)' <=> Fresh(c)
        /\ \A c : Restorable(c)' <=> Restorable(c)
        /\ \A k, x : Removes(k, x)' <=> Removes(k, x)
    BY <2>1 DEF Told, Cells, Written, Current, Adding, Fresh, Restorable, Removes
  <2>4. UntouchedInv' /\ CaptureInv' /\ FirstInv'
    BY <2>1, <2>3 DEF IInv, UntouchedInv, CaptureInv, FirstInv
  <2>5. CellInv' /\ RetainInv'
    BY <2>1, <2>3 DEF IInv, CellInv, RetainInv
  <2>6. RulesInv' /\ ItemsInv'
    BY <2>1, <2>3 DEF IInv, RulesInv, ItemsInv
  <2>. QED
    BY <2>2, <2>4, <2>5, <2>6 DEF IInv
<1>2. CASE Next
  BY <1>2, NextEntryPreserves, AddItemPreserves, CaptureResolvPreserves, WriteResolvPreserves,
     WriteForwardPreserves, RegisterForwardPreserves, BeginNatPreserves, AddRulePreserves,
     RuleFailsPreserves, UndoRulePreserves, RegisterNatPreserves, WriteIfacePreserves,
     RegisterIfacePreserves, WriteAllPreserves, RegisterAllPreserves, AllFailsPreserves,
     SetupRaisesPreserves, BeginCleanupPreserves, CleanActionPreserves, CleanDonePreserves,
     CleanInterruptedPreserves DEF Next
<1>. QED
  BY <1>1, <1>2

\* The invariant holds in every state of setup_bridges and of cleanup().
THEOREM InvariantHolds == Spec => []IInv
  BY InitHolds, NextPreserves, PTL DEF Spec

\* The ledger holds cleanup actions of the three kinds, each for a cell, item or rule.
THEOREM TypeCorrect == Spec => []TypeOK
<1>1. IInv => TypeOK
  BY DEF IInv
<1>. QED
  BY <1>1, InvariantHolds, PTL

\* Whatever fails and whenever it is interrupted, a setting that setup_bridges has
\* changed has its original value after cleanup() or the ledger still holds it.
THEOREM RecoverableTheorem == Spec => []Recoverable
<1>1. IInv => Recoverable
  BY DEF IInv, PlaceInv, CellInv, Told, Recoverable
<1>. QED
  BY <1>1, InvariantHolds, PTL

\* enable_nat and cleanup() leave as many iptables rules as were there before and as
\* the ledger has deletions for.
THEOREM RulesTheorem == Spec => []RulesBalanced
<1>1. ASSUME IInv PROVE RulesBalanced
  <2>1. \A r : {k \in DOMAIN ledger : ledger[k].kind = "rule" /\ ledger[k].what = r}
                 = DeletesIn(ledger, Len(ledger), r)
    BY <1>1, LedgerTyped DEF IInv, DeletesIn
  <2>2. \A r : DeletesOf(r) = Cardinality(DeletesIn(ledger, Len(ledger), r))
    BY <2>1 DEF DeletesOf
  <2>3. ASSUME pc = "up", ~cut, NEW r \in Rules \ gap
        PROVE  rules[r] = (IF r \in Prior THEN 1 ELSE 0) + DeletesOf(r)
    <3>1. Adding = {} /\ pc # "clean"
      BY <2>3 DEF Adding
    <3>2. Cardinality(DeletesIn(ledger, Len(ledger), r)) \in Nat
      BY <1>1, LedgerTyped, DeletesFinite DEF IInv
    <3>3. rules[r] = (IF r \in Prior THEN 1 ELSE 0) + 0
                     + Cardinality(DeletesIn(ledger, Len(ledger), r))
      BY <1>1, <2>3, <3>1 DEF IInv, RulesInv
    <3>. QED
      BY <2>2, <3>2, <3>3
  <2>. QED
    BY <2>3 DEF RulesBalanced
<1>. QED
  BY <1>1, InvariantHolds, PTL

\* No route of the operator is deleted, and each route or flow that was added is in
\* the ledger, or its removal has failed.
THEOREM ItemsTheorem == Spec => []ItemsOwned
<1>1. IInv => ItemsOwned
  BY DEF IInv, ItemsInv, Removes, ItemsOwned
<1>. QED
  BY <1>1, InvariantHolds, PTL

=============================================================================
