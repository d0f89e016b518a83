--------------------------- MODULE HostAppContract ---------------------------
(***************************************************************************)
(* What the host_apps fleet promises to the experiment, without threads,   *)
(* locks or bookkeeping: a process of an application is launched only      *)
(* while the application has none, and once shutdown has closed the fleet  *)
(* nothing is launched any more.                                           *)
(***************************************************************************)
CONSTANT Apps       \* one element per (host_apps entry, host) pair

VARIABLES
  up,               \* the live processes, each a life of an application
  closed            \* has shutdown closed the fleet?

vars == <<up, closed>>

Init ==
  /\ up = {}
  /\ closed = FALSE

Launch(p) ==
  /\ ~closed
  /\ p.app \in Apps
  /\ \A q \in up : q.app # p.app
  /\ up' = up \cup {p}
  /\ UNCHANGED closed

\* The process ends: killed by the fleet, or on its own.
End(p) ==
  /\ up' = up \ {p}
  /\ UNCHANGED closed

Close ==
  /\ ~closed
  /\ closed' = TRUE
  /\ UNCHANGED up

Next ==
  \/ \E p \in up' : Launch(p)
  \/ \E p \in up : End(p)
  \/ Close

Spec == Init /\ [][Next]_vars
=============================================================================
