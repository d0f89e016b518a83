----------------------------- MODULE MCHostApps -----------------------------
(* Instances of HostApps for TLC. *)
EXTENDS HostApps

\* Two applications on host 0, the second logging to exactly the file the
\* first one's life 3 would use; on host 1 one without a log and one of
\* another entry with the first one's log file.
MCApps == {"sub", "log", "idle", "twin"}
MCHosts == {0, 1}
MCHostOf == [a \in MCApps |-> IF a \in {"idle", "twin"} THEN 1 ELSE 0]
MCBaseLog == [a \in MCApps |-> CASE a \in {"sub", "twin"} -> <<1>>
                                 [] a = "log" -> <<1, 3>>
                                 [] a = "idle" -> NoLog]
=============================================================================
