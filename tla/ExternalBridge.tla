--------------------------- MODULE ExternalBridge ---------------------------
(***************************************************************************)
(* attach_external_via_bridge and cleanup_external_bridges                 *)
(* (src/src/runtime/bridge_external.py): a physical NIC of the operator's  *)
(* machine is put on a Linux bridge, and a veth pair leads from the bridge *)
(* into the namespace of a host.  A record of flags remembers what has     *)
(* been changed; rollback and cleanup undo what the flags say.             *)
(*                                                                         *)
(* A step is named after the flag it sets; "host_up", "bridge_mtu" and     *)
(* "root_mtu" set none.  A command that fails has changed nothing; an      *)
(* interrupt may arrive before a command or between it and the flag.       *)
(***************************************************************************)
EXTENDS Naturals, Sequences, FiniteSets

CONSTANTS
  Requests,     \* the lists of ext arguments to consider
  Nics,         \* physical interfaces
  MaxCleanups   \* bound: calls of cleanup_external_bridges

\* The master of an interface: "none", a bridge of somebody else's, or the
\* bridge of a host, which is named by the host.
Foreign == "operator"
HostNames == STRING \ {"none", Foreign}

\* "found": the host exists; "mtu": one is given.
Request == [host : HostNames, nic : Nics, found : BOOLEAN, mtu : BOOLEAN]

ASSUME ExternalAssumption ==
  /\ Requests \subseteq Seq(Request)
  /\ MaxCleanups \in Nat

VARIABLES
  requests, r,  \* the ext arguments and the one being attached
  phase,        \* "next", "attach", "abort", "up" or "clean"
  step,         \* the step of the attachment
  undo,         \* rollback_actions
  records,      \* _created_bridges, in the order of insertion
  nics,         \* administrative state and master of every interface
  objects,      \* bridges and veth pairs
  todo,         \* the records cleanup still visits
  gates,        \* the steps cleanup still has for the first of them
  cleanups,     \* history: cleanups begun
  before,       \* history: nics before the first attachment
  gap,          \* history: changes an interrupt kept out of the record
  stale,        \* history: hosts whose record names something already undone
  faults        \* history: commands of this rollback or cleanup that failed
                \* although their object was there, or an interrupt

world == <<nics, objects>>
given == <<requests, before>>
extVars == <<given, r, phase, step, undo, records, world, todo, gates, cleanups,
             gap, stale, faults>>

-----------------------------------------------------------------------------
\* What ip(8) does to a link.

Bridge(h) == <<"bridge", h>>
Veth(h) == <<"veth", h>>

CanSet(f, h) ==
  CASE f = "bridge_created" -> Bridge(h) \notin objects
    [] f = "veth_created" -> Veth(h) \notin objects
    [] OTHER -> TRUE

SetLink(f, h, nic) ==
  CASE f = "bridge_created" -> objects' = objects \cup {Bridge(h)} /\ UNCHANGED nics
    [] f = "veth_created" -> objects' = objects \cup {Veth(h)} /\ UNCHANGED nics
    [] f = "phy_up_changed" -> nics' = [nics EXCEPT ![nic].up = TRUE] /\ UNCHANGED objects
    [] f = "phy_enslaved" -> nics' = [nics EXCEPT ![nic].master = h] /\ UNCHANGED objects
    [] OTHER -> UNCHANGED world

CanUnset(f, h) ==
  CASE f \in {"bridge_created", "bridge_up"} -> Bridge(h) \in objects
    [] f = "veth_created" -> Veth(h) \in objects
    [] OTHER -> TRUE

\* Deleting a bridge frees the interfaces on it.
UnsetLink(f, h, nic) ==
  CASE f = "bridge_created" ->
         /\ objects' = objects \ {Bridge(h)}
         /\ nics' = [k \in Nics |-> IF nics[k].master = h
                                      THEN [nics[k] EXCEPT !.master = "none"] ELSE nics[k]]
    [] f = "veth_created" -> objects' = objects \ {Veth(h)} /\ UNCHANGED nics
    [] f = "phy_up_changed" -> nics' = [nics EXCEPT ![nic].up = FALSE] /\ UNCHANGED objects
    [] f = "phy_enslaved" -> nics' = [nics EXCEPT ![nic].master = "none"] /\ UNCHANGED objects
    [] OTHER -> UNCHANGED world

-----------------------------------------------------------------------------
\* Records.

VethFlags == {"veth_created", "veth_root_mastered", "veth_root_up",
              "veth_host_ns_moved", "veth_host_up", "mtu_set", "ip_assigned"}
OutstandingFlags == {"bridge_created", "bridge_up", "phy_up_changed", "phy_enslaved"}
                    \cup VethFlags

\* The flags an undo step clears when its command succeeds.
Clears(f) ==
  CASE f = "veth_created" -> VethFlags
    [] f = "bridge_created" -> {"bridge_created", "bridge_up"}
    [] OTHER -> {f}

Pos(h) == CHOOSE k \in DOMAIN records : records[k].host = h
Has(h) == \E k \in DOMAIN records : records[k].host = h
Rec(h) == records[Pos(h)]
Without(h) == [k \in 1..(Len(records) - 1) |-> records[IF k < Pos(h) THEN k ELSE k + 1]]
WithFlags(h, flags) == [records EXCEPT ![Pos(h)].flags = flags]

Popped_Always(h) == Without(h)

\* _record_has_outstanding_state decides whether the record is kept.
Popped(h) == IF Rec(h).flags \cap OutstandingFlags = {} THEN Without(h) ELSE records

-----------------------------------------------------------------------------
ExtInit ==
  /\ requests \in Requests /\ r = 1 /\ phase = "next" /\ step = 0 /\ undo = <<>>
  /\ records = <<>> /\ objects = {} /\ todo = <<>> /\ gates = <<>>
  /\ nics \in [Nics -> [up : BOOLEAN, master : {"none", Foreign}, addressed : BOOLEAN]]
  /\ cleanups = 0 /\ before = nics /\ gap = {} /\ stale = {} /\ faults = 0

If(b, s) == IF b THEN s ELSE <<>>

\* The commands of an attachment, in their order.
Steps(q, prior_up) ==
  <<"bridge_created", "bridge_up">>
  \o If(~prior_up, <<"phy_up_changed">>)
  \o <<"phy_enslaved", "veth_created", "veth_root_mastered", "veth_root_up",
       "host_up", "veth_host_ns_moved", "veth_host_up">>
  \o If(q.mtu, <<"bridge_mtu", "root_mtu", "mtu_set">>)
  \o <<"ip_assigned">>

Undoable == {"bridge_created", "phy_up_changed", "phy_enslaved", "veth_created"}
Q == requests[r]

\* _apply_bw_ext is through, or an exception has left it.
Leave == phase' = "up" /\ step' = 0 /\ undo' = <<>> /\ UNCHANGED <<requests, before, r>>

\* What inspection finds: the interface is in somebody else's use.
InUse(nic) == nics[nic].master # "none" \/ nics[nic].addressed

Rejected_Uninspected(q) ==
  Has(q.host) \/ \E k \in DOMAIN records : records[k].nic = q.nic

Rejected(q) ==
  \/ Has(q.host)
  \/ \E k \in DOMAIN records : records[k].nic = q.nic
  \/ InUse(q.nic)

\* Everything that is checked before the first change.  An interface may also
\* resist inspection; an unknown host is skipped.
BeginAttach ==
  /\ phase = "next" /\ r <= Len(requests)
  /\ \/ /\ Leave                                        \* an exception is raised
        /\ UNCHANGED records
     \/ /\ ~Q.found /\ ~Has(Q.host)
        /\ \A k \in DOMAIN records : records[k].nic # Q.nic
        /\ r' = r + 1 /\ UNCHANGED <<phase, step, undo, records, given>>
     \/ /\ Q.found /\ ~Rejected(Q)
        /\ phase' = "attach" /\ step' = 1 /\ undo' = <<>>
        /\ records' = Append(records, [host |-> Q.host, nic |-> Q.nic,
                                       prior_up |-> nics[Q.nic].up, flags |-> {}])
        /\ UNCHANGED <<r, given>>
  /\ UNCHANGED <<world, todo, gates, cleanups, gap, stale, faults>>

Flow == Steps(Q, Rec(Q.host).prior_up)
Flag == Flow[step]

StepSucceeds_LateUndo ==
  /\ phase = "attach" /\ step <= Len(Flow) /\ CanSet(Flag, Q.host)
  /\ SetLink(Flag, Q.host, Q.nic)
  /\ records' = WithFlags(Q.host, Rec(Q.host).flags \cup ({Flag} \cap OutstandingFlags))
  /\ undo' = IF Flag = "phy_enslaved" /\ "phy_up_changed" \in Rec(Q.host).flags
               THEN undo \o <<"phy_up_changed", Flag>>
             ELSE IF Flag \in Undoable \ {"phy_up_changed"} THEN Append(undo, Flag)
             ELSE undo
  /\ step' = step + 1
  /\ UNCHANGED <<given, r, phase, todo, gates, cleanups, gap, stale, faults>>

\* The command succeeds, its flag is set and its inverse registered.
StepSucceeds ==
  /\ phase = "attach" /\ step <= Len(Flow) /\ CanSet(Flag, Q.host)
  /\ SetLink(Flag, Q.host, Q.nic)
  /\ records' = WithFlags(Q.host, Rec(Q.host).flags \cup ({Flag} \cap OutstandingFlags))
  /\ undo' = IF Flag \in Undoable THEN Append(undo, Flag) ELSE undo
  /\ step' = step + 1
  /\ UNCHANGED <<given, r, phase, todo, gates, cleanups, gap, stale, faults>>

\* The command fails.  Without a bridge there is nothing to roll back.
StepFails ==
  /\ phase = "attach" /\ step <= Len(Flow)
  /\ IF Flag = "bridge_created"
       THEN Leave /\ records' = Without(Q.host) /\ UNCHANGED faults
       ELSE phase' = "abort" /\ faults' = 0 /\ UNCHANGED <<step, undo, records, given, r>>
  /\ UNCHANGED <<world, todo, gates, cleanups, gap, stale>>

\* _commit_record; the next request follows.
Attached ==
  /\ phase = "attach" /\ step > Len(Flow)
  /\ r' = r + 1 /\ phase' = "next" /\ step' = 0 /\ undo' = <<>>
  /\ UNCHANGED <<given, records, world, todo, gates, cleanups, gap, stale, faults>>

AllAttached ==
  /\ phase = "next" /\ r > Len(requests)
  /\ Leave
  /\ UNCHANGED <<records, world, todo, gates, cleanups, gap, stale, faults>>

\* What a command changes that only its own flag would undo (deleting the bridge
\* frees the interface).
Lost(f) == CASE f = "bridge_created" -> {Bridge(Q.host)}
             [] f = "veth_created" -> {Veth(Q.host)}
             [] f = "phy_up_changed" -> {<<"nic", Q.nic>>}
             [] OTHER -> {}

\* KeyboardInterrupt is no Exception: nothing is rolled back, the record stays.
AttachInterrupted ==
  /\ phase = "attach" /\ step <= Len(Flow)
  /\ \/ UNCHANGED <<world, gap>>
     \/ /\ CanSet(Flag, Q.host) /\ SetLink(Flag, Q.host, Q.nic)
        /\ gap' = gap \cup Lost(Flag)
  /\ faults' = 1
  /\ Leave
  /\ UNCHANGED <<records, todo, gates, cleanups, stale>>

-----------------------------------------------------------------------------
\* _rollback, from the last action to the first.

Last(s) == s[Len(s)]
Front(s) == SubSeq(s, 1, Len(s) - 1)

RollbackStep ==
  /\ phase = "abort" /\ undo # <<>>
  /\ LET f == Last(undo) IN
     \/ /\ CanUnset(f, Q.host) /\ UnsetLink(f, Q.host, Q.nic)
        /\ records' = WithFlags(Q.host, Rec(Q.host).flags \ Clears(f))
        /\ UNCHANGED faults
     \/ faults' = faults + 1 /\ UNCHANGED <<world, records>>
  /\ undo' = Front(undo)
  /\ UNCHANGED <<given, r, phase, step, todo, gates, cleanups, gap, stale>>

RollbackEnds ==
  /\ phase = "abort" /\ undo = <<>>
  /\ records' = Popped(Q.host)
  /\ Leave
  /\ UNCHANGED <<world, todo, gates, cleanups, gap, stale, faults>>

\* An interrupt leaves the rollback, before a command or between it and the flags.
RollbackInterrupted ==
  /\ phase = "abort" /\ undo # <<>>
  /\ LET f == Last(undo) IN
     \/ UNCHANGED <<world, stale>>
     \/ /\ CanUnset(f, Q.host) /\ UnsetLink(f, Q.host, Q.nic)
        /\ stale' = IF f \in {"bridge_created", "veth_created"}
                      THEN stale \cup {Q.host} ELSE stale
  /\ faults' = faults + 1
  /\ Leave
  /\ UNCHANGED <<records, todo, gates, cleanups, gap>>

-----------------------------------------------------------------------------
\* cleanup_external_bridges.

Gates == <<"veth_created", "phy_enslaved", "phy_up_changed", "bridge_up", "bridge_created">>

BeginCleanup ==
  /\ phase = "up" /\ cleanups < MaxCleanups
  /\ cleanups' = cleanups + 1 /\ faults' = 0
  /\ phase' = "clean"
  /\ todo' = [k \in DOMAIN records |-> records[k].host]
  /\ gates' = Gates
  /\ UNCHANGED <<given, r, step, undo, records, world, gap, stale>>

Target == Rec(Head(todo))

\* One gate: skipped if its flag is not set; a failure does not stop the others.
CleanStep ==
  /\ phase = "clean" /\ todo # <<>> /\ gates # <<>>
  /\ LET f == Head(gates)
         h == Head(todo)
     IN  \/ f \notin Target.flags /\ UNCHANGED <<world, records, faults>>
         \/ /\ f \in Target.flags /\ CanUnset(f, h)
            /\ UnsetLink(f, h, Target.nic)
            /\ records' = WithFlags(h, Target.flags \ Clears(f))
            /\ UNCHANGED faults
         \/ /\ f \in Target.flags
            /\ faults' = IF CanUnset(f, h) THEN faults + 1 ELSE faults
            /\ UNCHANGED <<world, records>>
  /\ gates' = Tail(gates)
  /\ UNCHANGED <<given, r, phase, step, undo, todo, cleanups, gap, stale>>

CleanNext ==
  /\ phase = "clean" /\ todo # <<>> /\ gates = <<>>
  /\ records' = Popped(Head(todo))
  /\ todo' = Tail(todo) /\ gates' = Gates
  /\ UNCHANGED <<given, r, phase, step, undo, world, cleanups, gap, stale, faults>>

\* The failures, if any, are raised and noted by teardown_scenario.
CleanEnds ==
  /\ phase = "clean" /\ todo = <<>>
  /\ phase' = "up" /\ gates' = <<>>
  /\ UNCHANGED <<given, r, step, undo, records, world, todo, cleanups, gap, stale, faults>>

CleanInterrupted ==
  /\ phase = "clean" /\ todo # <<>> /\ gates # <<>>
  /\ LET f == Head(gates)
         h == Head(todo)
     IN  \/ UNCHANGED <<world, stale>>
         \/ /\ f \in Target.flags /\ CanUnset(f, h)
            /\ UnsetLink(f, h, Target.nic)
            /\ stale' = IF f \in {"bridge_created", "veth_created"}
                          THEN stale \cup {h} ELSE stale
  /\ phase' = "up" /\ todo' = <<>> /\ gates' = <<>> /\ faults' = faults + 1
  /\ UNCHANGED <<given, r, step, undo, records, cleanups, gap>>

-----------------------------------------------------------------------------
ExtNext ==
  \/ BeginAttach \/ StepSucceeds \/ StepFails \/ Attached \/ AllAttached
  \/ AttachInterrupted
  \/ RollbackStep \/ RollbackEnds \/ RollbackInterrupted
  \/ BeginCleanup \/ CleanStep \/ CleanNext \/ CleanEnds \/ CleanInterrupted

ExtSpec == ExtInit /\ [][ExtNext]_extVars

-----------------------------------------------------------------------------
\* Between calls, an interface that no record names is exactly as the operator
\* left it, and every bridge and veth pair belongs to a record, so that a failed
\* attachment or a partial cleanup never loses sight of a change.  Only what an
\* interrupt cut off between a command and its flag is outside.
Restored ==
  phase = "up" =>
    /\ \A k \in Nics :
         \/ nics[k] = before[k]
         \/ <<"nic", k>> \in gap
         \/ \E i \in DOMAIN records : records[i].nic = k
    /\ \A o \in objects : o \in gap \/ Has(o[2])

\* An interface that was in somebody's use when the emulator started, on another
\* bridge or with an address of its own, is never changed, not even for a moment:
\* inspection comes before the first command, whatever was asked for before.
Taken(n) == before[n].master # "none" \/ before[n].addressed
Untouched == \A n \in Nics : Taken(n) => nics[n] = before[n]

\* Attaching is transactional: as long as no undo command fails and no interrupt
\* arrives, the only records there are before cleanup are those of attachments
\* that went through; whatever step failed, its attachment left nothing behind.
Transactional ==
  (phase = "up" /\ cleanups = 0 /\ faults = 0) =>
    \A k \in DOMAIN records : "ip_assigned" \in records[k].flags

\* A cleanup none of whose commands failed on an existing object, and which was
\* not interrupted, leaves no record: what rollbacks and earlier cleanups left
\* behind can always be finished.  The exception are records that an interrupt
\* made stale: they name an object that is gone, and no retry clears them.
Discharged ==
  (phase = "up" /\ cleanups > 0 /\ faults = 0) =>
    \A k \in DOMAIN records : records[k].host \in stale

\* Where no undo command failed and no interrupt came, nothing is left to undo:
\* neither by an attachment that failed, nor by a cleanup that follows others.
NothingLeft == Transactional /\ Discharged
=============================================================================
