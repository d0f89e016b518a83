---------------------- MODULE ScenarioLifecycleProofs ----------------------
(***************************************************************************)
(* Proofs about what a run sets up and must take down again: in the first  *)
(* part ScenarioLifecycle, for any number of hosts, any placement of       *)
(* caches, any set of the user's directories and any number of runs; in    *)
(* the second ExternalBridge, whose cleanup teardown_scenario calls, for   *)
(* any requests, any interfaces and any number of cleanups.                *)
(***************************************************************************)
EXTENDS ScenarioLifecycle, ExternalBridge, SequenceTheorems, TLAPS

Provisioning == {"provision", "stamp", "config", "rollback"}
Trying == Provisioning \cup {"net", "start", "setup", "csmgrd", "cefnetd",
                             "experiment"}
Ending == {"results", "propagate", "end"}

\* The directories: the user's are never among those registered, and what this
\* run has finished is registered with the scenario or removed.
DirInv ==
  /\ \A h \in created : dirs[h] # "foreign"
  /\ generated \subseteq created
  /\ pc \in {"stamp", "config"} => i \in Hosts /\ dirs[i] # "foreign"
  /\ pc \in {"provision", "stamp"} => \A h \in created : h < i
  /\ pc = "config" => \A h \in created : h <= i
  /\ torn => pc \notin Trying /\ generated = {}
  /\ pc \in Provisioning => generated = {} /\ \A h \in created : dirs[h] = "made"
  /\ pc \notin Provisioning /\ ~torn /\ <<"cleanup_all", 0>> \notin failures =>
       \A h \in created : dirs[h] = "none" \/ (h \in generated /\ dirs[h] = "made")
  /\ pc \in Ending /\ ~torn /\ <<"cleanup_all", 0>> \notin failures =>
       \A h \in created : dirs[h] = "none"

\* The loops over the hosts: hosts before i are done.
LoopInv ==
  /\ pc = "stop_cefnetd" =>
       \A h \in cefnetd : h < i => <<"stop_cefnetd", h>> \in failures \cup deaf
  /\ pc = "kill" => \A h \in csmgrd \cup cefnetd : h < i => h \in skipped

\* What is left of the bridges has a failed stage to explain it, is a route, or
\* an external interface that the scenario does not clean up.
BridgeLeft ==
  /\ "mandatory" \in bridge => <<"bridge", 0>> \in failures
  /\ "external" \in bridge /\ external => <<"external", 0>> \in failures

\* Daemons, bridges and the network exist only together, and end in this order.
DaemonInv ==
  /\ net = "none" => csmgrd = {} /\ cefnetd = {} /\ bridge = {}
  /\ pc \in Provisioning \cup {"net"} => net = "none"
  /\ pc \in {"start", "setup", "csmgrd", "cefnetd", "experiment"} => net # "none"
  /\ pc \in {"pre", "stop_cefnetd", "stop_csmgrd", "bridge", "external", "post",
            "logs", "kill"} => net # "none"
  /\ pc = "external" /\ "mandatory" \in bridge => <<"bridge", 0>> \in failures
  /\ pc \in {"post", "logs", "kill"} => BridgeLeft
  /\ pc \in {"rmdirs"} \cup Ending /\ <<"cleanup_all", 0>> \notin failures =>
       /\ net \in {"none", "stopped"}
       /\ csmgrd \cup cefnetd \subseteq skipped
       /\ BridgeLeft

IInv == TypeOK /\ DirInv /\ LoopInv /\ CefnetdStopped /\ DaemonInv

-----------------------------------------------------------------------------
\* The initial state satisfies the invariant.
LEMMA InitIInv == Init => IInv
<1>. SUFFICES ASSUME Init PROVE IInv
  OBVIOUS
<1>. USE LifecycleAssumption DEF Init, Hosts, Provisioning, Trying, Ending
<1>0. kept \in BOOLEAN /\ external \in BOOLEAN /\ torn \in BOOLEAN
  BY Zenon
<1>1. TypeOK
  BY <1>0 DEF TypeOK
<1>2. DirInv
  BY DEF DirInv
<1>3. LoopInv /\ CefnetdStopped /\ DaemonInv
  BY DEF LoopInv, CefnetdStopped, DaemonInv, BridgeLeft
<1>. QED
  BY <1>1, <1>2, <1>3 DEF IInv

\* Types are preserved.
LEMMA NextTypeOK == IInv /\ [Next]_vars => TypeOK'
<1>. SUFFICES ASSUME IInv, [Next]_vars PROVE TypeOK'
  OBVIOUS
<1>. USE LifecycleAssumption DEF IInv, Hosts, dirVars, daemonVars, endVars, histVars, TypeOK
<1>1. CASE CopyDir
  BY <1>1 DEF CopyDir
<1>2. CASE CopyDirRaises
  BY <1>2 DEF CopyDirRaises
<1>3. CASE Stamp
  BY <1>3 DEF Stamp, DirInv
<1>4. CASE ConfigDir
  BY <1>4 DEF ConfigDir, DirInv
<1>5. CASE StampOrConfigRaises
  BY <1>5 DEF StampOrConfigRaises
<1>6. CASE Rollback
  BY <1>6 DEF Rollback, Removed, Raised, Raisable
<1>7. CASE BuildTopo
  BY <1>7 DEF BuildTopo, Then
<1>8. CASE BuildTopoRaises
  BY <1>8 DEF BuildTopoRaises, Raised, RemoveDirs, RemoveDirsRaises, Removed, Raisable
<1>9. CASE CreateNet
  BY <1>9 DEF CreateNet, Then
<1>10. CASE StartNet
  BY <1>10 DEF StartNet, Then
<1>11. CASE Setup
  BY <1>11 DEF Setup, Then
<1>12. CASE StartCsmgrd
  <2>1. external' \in BOOLEAN /\ kept' \in BOOLEAN /\ torn' \in BOOLEAN
    BY <1>12, Zenon DEF StartCsmgrd
  <2>2. csmgrd' \subseteq Hosts /\ started' \subseteq Hosts
    BY <1>12 DEF StartCsmgrd
  <2>. QED
    BY <1>12, <2>1, <2>2 DEF StartCsmgrd
<1>13. CASE CsmgrdDone
  BY <1>13 DEF CsmgrdDone, Then
<1>14. CASE StartCefnetd
  BY <1>14 DEF StartCefnetd
<1>15. CASE Configured
  BY <1>15 DEF Configured, Then
<1>16. CASE Experiment
  BY <1>16 DEF Experiment, Then
<1>17. CASE StageRaises
  BY <1>17 DEF StageRaises, Raised, Raisable
<1>18. CASE Shutdown
  BY <1>18 DEF Shutdown, Guarded
<1>19. CASE CollectPre
  BY <1>19 DEF CollectPre, Guarded
<1>20. CASE StopCefnetd
  <2>1. external' \in BOOLEAN /\ kept' \in BOOLEAN /\ torn' \in BOOLEAN
    BY <1>20, Zenon DEF StopCefnetd
  <2>2. CASE i = HostCount
    <3>1. /\ pc' = "stop_csmgrd" /\ i' = 0 /\ UNCHANGED <<cefnetd, failures, deaf>>
          /\ UNCHANGED <<dirVars, net, csmgrd, started, bridge, primary, outcome, run,
                         skipped>>
      BY <1>20, <2>2 DEF StopCefnetd
    <3>. QED
      BY <2>1, <3>1
  <2>3. CASE i < HostCount
    <3>1. /\ pc' = pc /\ i' \in 0..HostCount
          /\ Stopping("stop_cefnetd", cefnetd, cefnetd')
          /\ UNCHANGED <<dirVars, net, csmgrd, started, bridge, primary, outcome, run,
                         skipped>>
      BY <1>20, <2>3 DEF StopCefnetd
    <3>2. cefnetd' \subseteq Hosts
      BY <3>1 DEF Stopping
    <3>3. <<"stop_cefnetd", i>> \in {"stop_cefnetd", "stop_csmgrd"} \X Hosts
      BY <2>3
    <3>4. deaf' \subseteq {"stop_cefnetd", "stop_csmgrd"} \X Hosts
      BY <3>1, <3>3 DEF Stopping
    <3>5. failures' \subseteq {"hook", "stop_cefnetd", "stop_csmgrd", "bridge",
                              "external", "cleanup_all"} \X (0..HostCount)
      BY <3>1 DEF Stopping
    <3>. QED
      BY <2>1, <3>1, <3>2, <3>4, <3>5
  <2>. QED
    BY <1>20, <2>2, <2>3 DEF StopCefnetd
<1>21. CASE StopCsmgrd
  <2>1. external' \in BOOLEAN /\ kept' \in BOOLEAN /\ torn' \in BOOLEAN
    BY <1>21, Zenon DEF StopCsmgrd
  <2>2. CASE UNCHANGED <<csmgrd, failures, deaf>>
    BY <1>21, <2>1, <2>2 DEF StopCsmgrd
  <2>3. CASE i < HostCount /\ Stopping("stop_csmgrd", csmgrd, csmgrd')
    <3>1. /\ pc' \in {pc, "bridge"} /\ i' \in 0..HostCount
          /\ UNCHANGED <<dirVars, net, cefnetd, started, bridge, primary, outcome, run,
                         skipped>>
      BY <1>21, <2>3 DEF StopCsmgrd
    <3>2. csmgrd' \subseteq Hosts
      BY <2>3 DEF Stopping
    <3>3. <<"stop_csmgrd", i>> \in {"stop_cefnetd", "stop_csmgrd"} \X Hosts
      BY <2>3
    <3>4. deaf' \subseteq {"stop_cefnetd", "stop_csmgrd"} \X Hosts
      BY <2>3, <3>3 DEF Stopping
    <3>5. failures' \subseteq {"hook", "stop_cefnetd", "stop_csmgrd", "bridge",
                              "external", "cleanup_all"} \X (0..HostCount)
      BY <2>3 DEF Stopping
    <3>. QED
      BY <2>1, <3>1, <3>2, <3>4, <3>5
  <2>. QED
    BY <1>21, <2>2, <2>3 DEF StopCsmgrd
<1>22. CASE CleanBridges
  <2>1. external' \in BOOLEAN /\ kept' \in BOOLEAN /\ torn' \in BOOLEAN
    BY <1>22, Zenon DEF CleanBridges
  <2>2. /\ pc' = "external" /\ i' = 0 /\ UNCHANGED <<primary, outcome>>
        /\ failures' = failures \/ failures' = failures \cup {<<"bridge", 0>>}
        /\ bridge' \subseteq Parts
        /\ UNCHANGED <<dirVars, net, csmgrd, cefnetd, started, histVars>>
    BY <1>22 DEF CleanBridges, Guarded
  <2>. QED
    BY <2>1, <2>2
<1>23. CASE CollectPost
  BY <1>23 DEF CollectPost, Guarded
<1>24. CASE Kill
  BY <1>24 DEF Kill
<1>25. CASE StopNet
  BY <1>25 DEF StopNet, Then
<1>26. CASE RmDirs
  BY <1>26 DEF RmDirs, Then, RemoveDirs, Removed
<1>27. CASE CleanupRaises
  BY <1>27 DEF CleanupRaises, RemoveDirsRaises, Removed
<1>28. CASE Results
  BY <1>28 DEF Results, Guarded
<1>29. CASE Propagate
  BY <1>29 DEF Propagate, Outcome
<1>30. CASE Rerun
  <2>1. kept' \in BOOLEAN /\ external' \in BOOLEAN /\ torn' \in BOOLEAN
    BY <1>30, Zenon DEF Rerun
  <2>. QED
    BY <1>30, <2>1 DEF Rerun
<1>31. CASE UNCHANGED vars
  BY <1>31 DEF vars
<1>32. CASE CleanExternal
  <2>1. external' \in BOOLEAN /\ kept' \in BOOLEAN /\ torn' \in BOOLEAN
    BY <1>32, Zenon DEF CleanExternal
  <2>2. /\ pc' = "post" /\ i' = 0 /\ UNCHANGED <<primary, outcome>>
        /\ failures' = failures \/ failures' = failures \cup {<<"external", 0>>}
        /\ bridge' \subseteq Parts
        /\ UNCHANGED <<dirVars, net, csmgrd, cefnetd, started, histVars>>
    BY <1>32 DEF CleanExternal, Guarded
  <2>. QED
    BY <2>1, <2>2
<1>. QED
  BY <1>1, <1>2, <1>3, <1>4, <1>5, <1>6, <1>7, <1>8, <1>9, <1>10, <1>11,
     <1>12, <1>13, <1>14, <1>15, <1>16, <1>17, <1>18, <1>19, <1>20, <1>21,
     <1>22, <1>23, <1>24, <1>25, <1>26, <1>27, <1>28, <1>29, <1>30, <1>31, <1>32 DEF Next

\* What is known of the directories is preserved.
LEMMA NextDirInv == IInv /\ [Next]_vars => DirInv'
<1>. SUFFICES ASSUME IInv, [Next]_vars PROVE DirInv'
  OBVIOUS
<1>. USE LifecycleAssumption
         DEF IInv, Hosts, dirVars, daemonVars, endVars, histVars, TypeOK,
             DirInv, Provisioning, Trying, Ending
<1>1. CASE CopyDir
  BY <1>1 DEF CopyDir
<1>2. CASE CopyDirRaises
  BY <1>2 DEF CopyDirRaises
<1>3. CASE Stamp
  BY <1>3 DEF Stamp
<1>4. CASE ConfigDir
  BY <1>4 DEF ConfigDir
<1>5. CASE StampOrConfigRaises
  BY <1>5 DEF StampOrConfigRaises
<1>6. CASE Rollback
  BY <1>6 DEF Rollback, Removed, Raised, Raisable
<1>7. CASE BuildTopo
  BY <1>7 DEF BuildTopo, Then
<1>8. CASE BuildTopoRaises
  BY <1>8 DEF BuildTopoRaises, Raised, RemoveDirs, RemoveDirsRaises, Removed, Raisable
<1>9. CASE CreateNet
  BY <1>9 DEF CreateNet, Then
<1>10. CASE StartNet
  BY <1>10 DEF StartNet, Then
<1>11. CASE Setup
  BY <1>11 DEF Setup, Then
<1>12. CASE StartCsmgrd
  BY <1>12 DEF StartCsmgrd
<1>13. CASE CsmgrdDone
  BY <1>13 DEF CsmgrdDone, Then
<1>14. CASE StartCefnetd
  BY <1>14 DEF StartCefnetd
<1>15. CASE Configured
  BY <1>15 DEF Configured, Then
<1>16. CASE Experiment
  BY <1>16 DEF Experiment, Then
<1>17. CASE StageRaises
  BY <1>17 DEF StageRaises, Raised, Raisable
<1>18. CASE Shutdown
  BY <1>18 DEF Shutdown, Guarded
<1>19. CASE CollectPre
  BY <1>19 DEF CollectPre, Guarded
<1>20. CASE StopCefnetd
  BY <1>20 DEF StopCefnetd, Stopping
<1>21. CASE StopCsmgrd
  BY <1>21 DEF StopCsmgrd, Stopping
<1>22. CASE CleanBridges
  BY <1>22 DEF CleanBridges, Guarded
<1>23. CASE CollectPost
  BY <1>23 DEF CollectPost, Guarded
<1>24. CASE Kill
  BY <1>24 DEF Kill
<1>25. CASE StopNet
  BY <1>25 DEF StopNet, Then
<1>26. CASE RmDirs
  BY <1>26 DEF RmDirs, Then, RemoveDirs, Removed
<1>27. CASE CleanupRaises
  BY <1>27 DEF CleanupRaises, RemoveDirsRaises, Removed
<1>28. CASE Results
  BY <1>28 DEF Results, Guarded
<1>29. CASE Propagate
  BY <1>29 DEF Propagate, Outcome
<1>30. CASE Rerun
  BY <1>30 DEF Rerun
<1>31. CASE UNCHANGED vars
  BY <1>31 DEF vars
<1>32. CASE CleanExternal
  BY <1>32 DEF CleanExternal, Guarded
<1>. QED
  BY <1>1, <1>2, <1>3, <1>4, <1>5, <1>6, <1>7, <1>8, <1>9, <1>10, <1>11,
     <1>12, <1>13, <1>14, <1>15, <1>16, <1>17, <1>18, <1>19, <1>20, <1>21,
     <1>22, <1>23, <1>24, <1>25, <1>26, <1>27, <1>28, <1>29, <1>30, <1>31, <1>32 DEF Next

\* The loops' invariant and CefnetdStopped are preserved.
LEMMA NextLoopInv == IInv /\ [Next]_vars => (LoopInv' /\ CefnetdStopped')
<1>. SUFFICES ASSUME IInv, [Next]_vars PROVE LoopInv' /\ CefnetdStopped'
  OBVIOUS
<1>. USE LifecycleAssumption
         DEF IInv, Hosts, dirVars, daemonVars, endVars, histVars, TypeOK,
             LoopInv, CefnetdStopped
<1>1. CASE CopyDir
  BY <1>1 DEF CopyDir
<1>2. CASE CopyDirRaises
  BY <1>2 DEF CopyDirRaises
<1>3. CASE Stamp
  BY <1>3 DEF Stamp
<1>4. CASE ConfigDir
  BY <1>4 DEF ConfigDir
<1>5. CASE StampOrConfigRaises
  BY <1>5 DEF StampOrConfigRaises
<1>6. CASE Rollback
  BY <1>6 DEF Rollback, Removed, Raised, Raisable
<1>7. CASE BuildTopo
  BY <1>7 DEF BuildTopo, Then
<1>8. CASE BuildTopoRaises
  BY <1>8 DEF BuildTopoRaises, Raised, RemoveDirs, RemoveDirsRaises, Removed, Raisable
<1>9. CASE CreateNet
  BY <1>9 DEF CreateNet, Then
<1>10. CASE StartNet
  BY <1>10 DEF StartNet, Then
<1>11. CASE Setup
  BY <1>11 DEF Setup, Then
<1>12. CASE StartCsmgrd
  BY <1>12 DEF StartCsmgrd
<1>13. CASE CsmgrdDone
  BY <1>13 DEF CsmgrdDone, Then
<1>14. CASE StartCefnetd
  BY <1>14 DEF StartCefnetd
<1>15. CASE Configured
  BY <1>15 DEF Configured, Then
<1>16. CASE Experiment
  BY <1>16 DEF Experiment, Then
<1>17. CASE StageRaises
  BY <1>17 DEF StageRaises, Raised, Raisable
<1>18. CASE Shutdown
  BY <1>18 DEF Shutdown, Guarded
<1>19. CASE CollectPre
  BY <1>19 DEF CollectPre, Guarded
<1>20. CASE StopCefnetd
  <2>1. CASE i = HostCount
    <3>1. pc' = "stop_csmgrd" /\ UNCHANGED <<cefnetd, failures, deaf>>
      BY <1>20, <2>1 DEF StopCefnetd
    <3>2. \A h \in cefnetd : h < i
      BY <2>1
    <3>. QED
      BY <1>20, <3>1, <3>2 DEF StopCefnetd
  <2>2. CASE i < HostCount
    <3>1. pc' = "stop_cefnetd" /\ pc = "stop_cefnetd" /\ i' = i + 1
          /\ Stopping("stop_cefnetd", cefnetd, cefnetd')
      BY <1>20, <2>2 DEF StopCefnetd
    <3>2. ASSUME NEW h \in cefnetd', h < i'
          PROVE <<"stop_cefnetd", h>> \in failures' \cup deaf'
      <4>0. h \in cefnetd
        BY <3>1, <3>2 DEF Stopping
      <4>1. h \in cefnetd /\ h \in Nat /\ (h < i \/ h = i)
        BY <3>1, <3>2, <4>0
      <4>2. failures \cup deaf \subseteq failures' \cup deaf'
        BY <3>1 DEF Stopping
      <4>3. CASE h < i
        BY <3>1, <4>1, <4>2, <4>3
      <4>4. CASE h = i
        BY <3>1, <3>2, <4>4 DEF Stopping
      <4>. QED
        BY <4>1, <4>3, <4>4
    <3>. QED
      BY <3>1, <3>2
  <2>. QED
    BY <1>20, <2>1, <2>2 DEF StopCefnetd
<1>21. CASE StopCsmgrd
  BY <1>21 DEF StopCsmgrd, Stopping
<1>22. CASE CleanBridges
  BY <1>22 DEF CleanBridges, Guarded
<1>23. CASE CollectPost
  BY <1>23 DEF CollectPost, Guarded
<1>24. CASE Kill
  BY <1>24 DEF Kill
<1>25. CASE StopNet
  BY <1>25 DEF StopNet, Then
<1>26. CASE RmDirs
  BY <1>26 DEF RmDirs, Then, RemoveDirs, Removed
<1>27. CASE CleanupRaises
  BY <1>27 DEF CleanupRaises, RemoveDirsRaises, Removed
<1>28. CASE Results
  BY <1>28 DEF Results, Guarded
<1>29. CASE Propagate
  BY <1>29 DEF Propagate, Outcome
<1>30. CASE Rerun
  BY <1>30 DEF Rerun
<1>31. CASE UNCHANGED vars
  BY <1>31 DEF vars
<1>32. CASE CleanExternal
  BY <1>32 DEF CleanExternal, Guarded
<1>. QED
  BY <1>1, <1>2, <1>3, <1>4, <1>5, <1>6, <1>7, <1>8, <1>9, <1>10, <1>11,
     <1>12, <1>13, <1>14, <1>15, <1>16, <1>17, <1>18, <1>19, <1>20, <1>21,
     <1>22, <1>23, <1>24, <1>25, <1>26, <1>27, <1>28, <1>29, <1>30, <1>31, <1>32 DEF Next

\* What is known of daemons, bridges and the network is preserved.
LEMMA NextDaemonInv == IInv /\ [Next]_vars => DaemonInv'
<1>. SUFFICES ASSUME IInv, [Next]_vars PROVE DaemonInv'
  OBVIOUS
<1>. USE LifecycleAssumption
         DEF IInv, Hosts, dirVars, daemonVars, endVars, histVars, TypeOK,
             DaemonInv, BridgeLeft, LoopInv, Provisioning, Ending
<1>1. CASE CopyDir
  BY <1>1 DEF CopyDir
<1>2. CASE CopyDirRaises
  BY <1>2 DEF CopyDirRaises
<1>3. CASE Stamp
  BY <1>3 DEF Stamp
<1>4. CASE ConfigDir
  BY <1>4 DEF ConfigDir
<1>5. CASE StampOrConfigRaises
  BY <1>5 DEF StampOrConfigRaises
<1>6. CASE Rollback
  BY <1>6 DEF Rollback, Removed, Raised, Raisable
<1>7. CASE BuildTopo
  BY <1>7 DEF BuildTopo, Then
<1>8. CASE BuildTopoRaises
  BY <1>8 DEF BuildTopoRaises, Raised, RemoveDirs, RemoveDirsRaises, Removed, Raisable
<1>9. CASE CreateNet
  BY <1>9 DEF CreateNet, Then
<1>10. CASE StartNet
  BY <1>10 DEF StartNet, Then
<1>11. CASE Setup
  BY <1>11 DEF Setup, Then
<1>12. CASE StartCsmgrd
  BY <1>12 DEF StartCsmgrd
<1>13. CASE CsmgrdDone
  BY <1>13 DEF CsmgrdDone, Then
<1>14. CASE StartCefnetd
  BY <1>14 DEF StartCefnetd
<1>15. CASE Configured
  BY <1>15 DEF Configured, Then
<1>16. CASE Experiment
  BY <1>16 DEF Experiment, Then
<1>17. CASE StageRaises
  BY <1>17 DEF StageRaises, Raised, Raisable
<1>18. CASE Shutdown
  BY <1>18 DEF Shutdown, Guarded
<1>19. CASE CollectPre
  BY <1>19 DEF CollectPre, Guarded
<1>20. CASE StopCefnetd
  BY <1>20 DEF StopCefnetd, Stopping
<1>21. CASE StopCsmgrd
  BY <1>21 DEF StopCsmgrd, Stopping
<1>22. CASE CleanBridges
  BY <1>22 DEF CleanBridges, Guarded
<1>23. CASE CollectPost
  BY <1>23 DEF CollectPost, Guarded
<1>24. CASE Kill
  BY <1>24 DEF Kill
<1>25. CASE StopNet
  BY <1>25 DEF StopNet, Then
<1>26. CASE RmDirs
  BY <1>26 DEF RmDirs, Then, RemoveDirs, Removed
<1>27. CASE CleanupRaises
  BY <1>27 DEF CleanupRaises, RemoveDirsRaises, Removed
<1>28. CASE Results
  BY <1>28 DEF Results, Guarded
<1>29. CASE Propagate
  BY <1>29 DEF Propagate, Outcome
<1>30. CASE Rerun
  BY <1>30 DEF Rerun
<1>31. CASE UNCHANGED vars
  BY <1>31 DEF vars
<1>32. CASE CleanExternal
  BY <1>32 DEF CleanExternal, Guarded
<1>. QED
  BY <1>1, <1>2, <1>3, <1>4, <1>5, <1>6, <1>7, <1>8, <1>9, <1>10, <1>11,
     <1>12, <1>13, <1>14, <1>15, <1>16, <1>17, <1>18, <1>19, <1>20, <1>21,
     <1>22, <1>23, <1>24, <1>25, <1>26, <1>27, <1>28, <1>29, <1>30, <1>31, <1>32 DEF Next

\* No action touches a directory that is not the emulator's: what it removes is
\* registered, and only what it has copied itself is.
LEMMA KeepsForeignStep == IInv /\ [Next]_vars => [KeepsForeign]_vars
<1>. SUFFICES ASSUME IInv, Next PROVE KeepsForeign
  BY DEF vars
<1>. USE LifecycleAssumption DEF IInv, TypeOK, DirInv, Hosts, KeepsForeign, dirVars
<1>1. CASE CopyDir
  BY <1>1 DEF CopyDir
<1>2. CASE CopyDirRaises
  BY <1>2 DEF CopyDirRaises
<1>3. CASE Stamp
  BY <1>3 DEF Stamp
<1>4. CASE Rollback
  BY <1>4 DEF Rollback, Removed, Raised
<1>5. CASE BuildTopoRaises
  BY <1>5 DEF BuildTopoRaises, RemoveDirs, RemoveDirsRaises, Removed
<1>6. CASE RmDirs
  BY <1>6 DEF RmDirs, RemoveDirs, Removed
<1>7. CASE CleanupRaises
  BY <1>7 DEF CleanupRaises, RemoveDirsRaises, Removed
<1>8. ASSUME UNCHANGED dirs PROVE KeepsForeign
  BY <1>8
<1>9. CASE ConfigDir
  BY <1>8, <1>9 DEF ConfigDir
<1>10. CASE StampOrConfigRaises
  BY <1>8, <1>10 DEF StampOrConfigRaises
<1>11. CASE BuildTopo
  BY <1>8, <1>11 DEF BuildTopo
<1>12. CASE CreateNet
  BY <1>8, <1>12 DEF CreateNet
<1>13. CASE StartNet
  BY <1>8, <1>13 DEF StartNet
<1>14. CASE Setup
  BY <1>8, <1>14 DEF Setup
<1>15. CASE StartCsmgrd
  BY <1>8, <1>15 DEF StartCsmgrd
<1>16. CASE CsmgrdDone
  BY <1>8, <1>16 DEF CsmgrdDone
<1>17. CASE StartCefnetd
  BY <1>8, <1>17 DEF StartCefnetd
<1>18. CASE Configured
  BY <1>8, <1>18 DEF Configured
<1>19. CASE Experiment
  BY <1>8, <1>19 DEF Experiment
<1>20. CASE StageRaises
  BY <1>8, <1>20 DEF StageRaises
<1>21. CASE Shutdown
  BY <1>8, <1>21 DEF Shutdown
<1>22. CASE CollectPre
  BY <1>8, <1>22 DEF CollectPre
<1>23. CASE StopCefnetd
  BY <1>8, <1>23 DEF StopCefnetd
<1>24. CASE StopCsmgrd
  BY <1>8, <1>24 DEF StopCsmgrd
<1>25. CASE CleanBridges
  BY <1>8, <1>25 DEF CleanBridges
<1>26. CASE CollectPost
  BY <1>8, <1>26 DEF CollectPost
<1>27. CASE Kill
  BY <1>8, <1>27 DEF Kill
<1>28. CASE StopNet
  BY <1>8, <1>28 DEF StopNet
<1>29. CASE Results
  BY <1>8, <1>29 DEF Results
<1>30. CASE Propagate
  BY <1>8, <1>30 DEF Propagate
<1>31. CASE Rerun
  BY <1>8, <1>31 DEF Rerun
<1>32. CASE CleanExternal
  BY <1>8, <1>32 DEF CleanExternal
<1>. QED
  BY <1>1, <1>2, <1>3, <1>4, <1>5, <1>6, <1>7, <1>9, <1>10, <1>11, <1>12,
     <1>13, <1>14, <1>15, <1>16, <1>17, <1>18, <1>19, <1>20, <1>21, <1>22,
     <1>23, <1>24, <1>25, <1>26, <1>27, <1>28, <1>29, <1>30, <1>31, <1>32 DEF Next

-----------------------------------------------------------------------------
\* The inductive invariant holds in every state.
THEOREM InvariantHolds == Spec => []IInv
<1>1. IInv /\ [Next]_vars => IInv'
  BY NextTypeOK, NextDirInv, NextLoopInv, NextDaemonInv DEF IInv
<1>. QED
  BY <1>1, InitIInv, PTL DEF Spec

\* Type correctness for any number of hosts and runs.
THEOREM TypeCorrect == Spec => []TypeOK
<1>1. IInv => TypeOK
  BY DEF IInv
<1>. QED
  BY <1>1, InvariantHolds, PTL

\* provision_node_dirs, its rollback and cleanup_node_dirs never touch a
\* directory the user has made, in any sequence of failed and killed runs.
THEOREM ForeignTheorem == Spec => ForeignIntact
<1>1. IInv /\ [Next]_vars => [KeepsForeign]_vars
  BY KeepsForeignStep
<1>. QED
  BY <1>1, InvariantHolds, PTL DEF Spec, ForeignIntact

\* A cefnetd that runs after DaemonFleet.stop_all has failed to stop itself.
THEOREM StoppedTheorem == Spec => []CefnetdStopped
<1>1. IInv => CefnetdStopped
  BY DEF IInv
<1>. QED
  BY <1>1, InvariantHolds, PTL

\* execute() that reports no failed stage leaves nothing behind but routes whose
\* removal it gave up with a warning and external bridges it does not clean up.
THEOREM CleanTheorem == Spec => []CleanEnd
<1>1. IInv => CleanEnd
  BY DEF IInv, TypeOK, Parts, CleanEnd, DaemonInv, BridgeLeft, DirInv, Ending,
     Provisioning
<1>. QED
  BY <1>1, InvariantHolds, PTL

\* The teardown is complete.
THEOREM EndsCleanTheorem == Spec => []EndsClean
BY StoppedTheorem, CleanTheorem, PTL DEF EndsClean

-----------------------------------------------------------------------------
(***************************************************************************)
(* The second part: ExternalBridge.                                        *)
(***************************************************************************)

\* The phases in which requests are attached, those in which one is in hand, and
\* the flags that cleanup looks at.
Attaching == {"next", "attach", "abort"}
InHand == {"attach", "abort"}
GateFlags == {"veth_created", "phy_enslaved", "phy_up_changed", "bridge_up",
              "bridge_created"}

Nic == [up : BOOLEAN, master : HostNames \cup {"none", Foreign}, addressed : BOOLEAN]
Record == [host : HostNames, nic : Nics, prior_up : BOOLEAN,
           flags : SUBSET OutstandingFlags]

\* Types: the calls, the records, the operator's machine, the history.
ExtTypeOK ==
  /\ requests \in Requests /\ r \in Nat \ {0} /\ step \in Nat
  /\ phase \in Attaching \cup {"up", "clean"}
  /\ undo \in Seq(Undoable) /\ todo \in Seq(HostNames) /\ gates \in Seq(GateFlags)
  /\ records \in Seq(Record)
  /\ nics \in [Nics -> Nic] /\ before \in [Nics -> Nic]
  /\ objects \subseteq {"bridge", "veth"} \X HostNames
  /\ cleanups \in Nat /\ faults \in Nat /\ stale \subseteq HostNames

\* A host and an interface have at most one record.
Distinct ==
  \A k, l \in DOMAIN records :
    records[k].host = records[l].host \/ records[k].nic = records[l].nic => k = l

\* What the flags of a record mean: a change that stands is flagged, a flag whose
\* change is gone belongs to a host that an interrupt made stale, and what undoing
\* a flag restores is what the operator had.
FlagsSound(e) ==
  /\ e.prior_up = before[e.nic].up /\ ~Taken(e.nic)
  /\ "phy_up_changed" \in e.flags => ~e.prior_up
  /\ \/ "phy_up_changed" \in e.flags
     \/ <<"nic", e.nic>> \in gap
     \/ nics[e.nic].up = e.prior_up
  /\ nics[e.nic].master \in {"none", e.host}
  /\ nics[e.nic].master = e.host => e.flags \cap {"phy_enslaved", "bridge_created"} # {}
  /\ e.flags \cap VethFlags # {} => "veth_created" \in e.flags
  /\ "bridge_up" \in e.flags => "bridge_created" \in e.flags
  /\ "bridge_created" \in e.flags => Bridge(e.host) \in objects \/ e.host \in stale
  /\ "veth_created" \in e.flags => Veth(e.host) \in objects \/ e.host \in stale

RecordsSound == \A k \in DOMAIN records : FlagsSound(records[k])

\* An interface without a record is as the operator left it, and only the bridge
\* of its own record ever holds an interface.
NicsSound ==
  \A n \in Nics :
    /\ nics[n].addressed = before[n].addressed
    /\ \/ \E k \in DOMAIN records : records[k].nic = n
       \/ /\ nics[n].master = before[n].master
          /\ nics[n].up = before[n].up \/ <<"nic", n>> \in gap
    /\ Taken(n) => nics[n].master = before[n].master /\ nics[n].up = before[n].up
    /\ \/ nics[n].master \in {"none", Foreign}
       \/ \E k \in DOMAIN records : records[k].nic = n /\ records[k].host = nics[n].master

\* A bridge or a veth pair is flagged by the record of its host, or in the gap.
Flagged(o, e) ==
  \/ o = Bridge(e.host) /\ "bridge_created" \in e.flags
  \/ o = Veth(e.host) /\ "veth_created" \in e.flags

ObjectsSound ==
  \A o \in objects : o \in gap \/ \E k \in DOMAIN records : Flagged(o, records[k])

\* Requests are attached before anything is interrupted or cleaned up.
Fresh ==
  /\ phase \in Attaching => gap = {} /\ stale = {} /\ cleanups = 0
  /\ phase = "clean" => cleanups > 0

\* The record in hand is that of the request, and its attachment has come to "step".
HandSound ==
  phase \in InHand =>
    /\ r <= Len(requests) /\ Has(Q.host)
    /\ \A k \in DOMAIN records : records[k].host = Q.host =>
         /\ records[k].nic = Q.nic
         /\ \A j \in DOMAIN undo : undo[j] = "phy_up_changed" => ~records[k].prior_up
         /\ phase = "attach" \/ faults = 0 =>
              \A f \in Undoable \cap records[k].flags : \E j \in DOMAIN undo : undo[j] = f

StepSound ==
  phase = "attach" =>
    \A k \in DOMAIN records : records[k].host = Q.host =>
      LET flow == Steps(Q, records[k].prior_up) IN
      /\ step \in 1..(Len(flow) + 1)
      /\ step = 1 => records[k].flags = {}
      /\ \A j \in 1..(step - 1) : flow[j] \in OutstandingFlags => flow[j] \in records[k].flags

\* The records of finished attachments.
WholeSound ==
  phase \in Attaching =>
    \A k \in DOMAIN records :
      \/ "ip_assigned" \in records[k].flags
      \/ phase \in InHand /\ records[k].host = Q.host

\* The loop of cleanup_external_bridges.
CleanSound ==
  phase = "clean" =>
    /\ \A j, l \in DOMAIN todo : todo[j] = todo[l] => j = l
    /\ \A j \in DOMAIN todo : Has(todo[j])
    /\ faults = 0 =>
         \A k \in DOMAIN records :
           \/ records[k].host \in stale
           \/ /\ \E j \in DOMAIN todo : todo[j] = records[k].host
              /\ records[k].host = todo[1] =>
                   \A f \in GateFlags \cap records[k].flags :
                     \E j \in DOMAIN gates : gates[j] = f

WorldSound == Distinct /\ RecordsSound /\ NicsSound /\ ObjectsSound

ExtInv ==
  /\ ExtTypeOK /\ WorldSound /\ Fresh
  /\ HandSound /\ StepSound /\ WholeSound /\ CleanSound
  /\ Transactional /\ Discharged

-----------------------------------------------------------------------------
\* The steps of an attachment.
StepNames == OutstandingFlags \cup {"host_up", "bridge_mtu", "root_mtu"}

\* The names are different.
LEMMA ExtNames ==
  /\ Undoable \subseteq GateFlags /\ GateFlags \subseteq OutstandingFlags
  /\ VethFlags \cap GateFlags = {"veth_created"} /\ VethFlags \subseteq OutstandingFlags
  /\ OutstandingFlags = GateFlags \cup VethFlags
BY DEF Undoable, GateFlags, OutstandingFlags, VethFlags

\* A host that has a record has one, at Pos.
LEMMA ExtPos ==
  ASSUME records \in Seq(Record), Distinct, NEW h, Has(h)
  PROVE  /\ Pos(h) \in DOMAIN records /\ Pos(h) \in 1..Len(records)
         /\ Rec(h) = records[Pos(h)] /\ Rec(h) \in Record /\ Rec(h).host = h
         /\ \A k \in DOMAIN records : records[k].host = h => k = Pos(h)
<1>1. PICK p \in DOMAIN records : records[p].host = h
  BY DEF Has
<1>2. Pos(h) \in DOMAIN records /\ records[Pos(h)].host = h
  BY <1>1 DEF Pos
<1>3. \A k \in DOMAIN records : records[k] \in Record
  OBVIOUS
<1>4. \A k \in DOMAIN records : records[k].host = h => k = Pos(h)
  BY <1>2 DEF Distinct
<1>5. DOMAIN records = 1..Len(records)
  OBVIOUS
<1>. QED
  BY <1>2, <1>3, <1>4, <1>5 DEF Rec

\* The records s differ from the records in the flags of one host.
WithFlagsEffect(s, h, flags) ==
  /\ s \in Seq(Record) /\ DOMAIN s = DOMAIN records
  /\ \A k \in DOMAIN records :
       /\ s[k].host = records[k].host /\ s[k].nic = records[k].nic
       /\ s[k].prior_up = records[k].prior_up
       /\ s[k].flags = IF records[k].host = h THEN flags ELSE records[k].flags
       /\ records[k].host # h => s[k] = records[k]

\* WithFlags changes the flags of one record.
LEMMA ExtWithFlags ==
  ASSUME records \in Seq(Record), Distinct, NEW h, Has(h),
         NEW flags \in SUBSET OutstandingFlags, NEW s, s = WithFlags(h, flags)
  PROVE  WithFlagsEffect(s, h, flags)
<1>. USE DEF WithFlagsEffect
<1>. DEFINE p == Pos(h)
<1>1. p \in DOMAIN records /\ \A k \in DOMAIN records : records[k].host = h => k = p
  BY ExtPos
<1>2. records[p].host = h
  BY ExtPos DEF Rec
<1>3. records[p] \in Record
  BY <1>1
<1>4. s = [records EXCEPT ![p] = [records[p] EXCEPT !.flags = flags]]
  BY DEF WithFlags
<1>. HIDE DEF p
<1>. DEFINE e == [records[p] EXCEPT !.flags = flags]
<1>5. /\ e \in Record /\ e.host = records[p].host /\ e.nic = records[p].nic
      /\ e.prior_up = records[p].prior_up /\ e.flags = flags
  BY <1>3 DEF Record
<1>6. s = [records EXCEPT ![p] = e]
  BY <1>4
<1>. HIDE DEF e
<1>7. s \in Seq(Record) /\ DOMAIN s = DOMAIN records
  BY <1>1, <1>5, <1>6
<1>8. s[p] = e /\ \A k \in DOMAIN records : k # p => s[k] = records[k]
  BY <1>1, <1>6
<1>. QED
  BY <1>1, <1>2, <1>5, <1>7, <1>8

\* Without drops one record and keeps the others.
LEMMA ExtWithout ==
  ASSUME records \in Seq(Record), Distinct, NEW h, Has(h), NEW s, s = Without(h)
  PROVE  /\ s \in Seq(Record)
         /\ \A k \in DOMAIN s : s[k].host # h /\ \E l \in DOMAIN records : s[k] = records[l]
         /\ \A l \in DOMAIN records : records[l].host # h => \E k \in DOMAIN s : s[k] = records[l]
         /\ \A k, l \in DOMAIN s : s[k].host = s[l].host \/ s[k].nic = s[l].nic => k = l
<1>. DEFINE p == Pos(h)
            at(k) == IF k < p THEN k ELSE k + 1
<1>1. /\ p \in 1..Len(records)
      /\ \A k \in DOMAIN records : records[k].host = h => k = p
  BY ExtPos
<1>2. records[p].host = h
  BY ExtPos DEF Rec
<1>3. DOMAIN records = 1..Len(records) /\ Len(records) \in Nat
  OBVIOUS
<1>4. s = [k \in 1..(Len(records) - 1) |-> records[at(k)]]
  BY DEF Without
<1>. HIDE DEF p
<1>5. \A k \in 1..(Len(records) - 1) : at(k) \in 1..Len(records) /\ at(k) # p
  BY <1>1, <1>3
<1>6. \A k, l \in 1..(Len(records) - 1) : at(k) = at(l) => k = l
  BY <1>1, <1>3
<1>7. \A l \in 1..Len(records) : l # p => \E k \in 1..(Len(records) - 1) : at(k) = l
  <2>. SUFFICES ASSUME NEW l \in 1..Len(records), l # p
                PROVE  \E k \in 1..(Len(records) - 1) : at(k) = l
    OBVIOUS
  <2>1. CASE l < p
    BY <2>1, <1>1, <1>3
  <2>2. CASE l > p
    <3>1. l - 1 \in 1..(Len(records) - 1) /\ at(l - 1) = l
      BY <2>2, <1>1, <1>3
    <3>. QED
      BY <3>1
  <2>. QED
    BY <2>1, <2>2, <1>1, <1>3
<1>. HIDE DEF at
<1>8. DOMAIN s = 1..(Len(records) - 1) /\ Len(records) - 1 \in Nat
  BY <1>1, <1>3, <1>4
<1>9. \A k \in 1..Len(records) : records[k] \in Record
  OBVIOUS
<1>10. s \in Seq(Record)
  BY <1>4, <1>5, <1>8, <1>9
<1>11. \A k \in DOMAIN s : s[k] = records[at(k)] /\ at(k) \in DOMAIN records /\ at(k) # p
  BY <1>3, <1>4, <1>5, <1>8
<1>12. \A l \in DOMAIN records : records[l].host # h => \E k \in DOMAIN s : s[k] = records[l]
  BY ZenonT(40), <1>2, <1>3, <1>7, <1>8, <1>11
<1>13. \A k, l \in DOMAIN s : s[k].host = s[l].host \/ s[k].nic = s[l].nic => k = l
  BY <1>6, <1>8, <1>11 DEF Distinct
<1>. QED
  BY <1>1, <1>10, <1>11, <1>12, <1>13

\* Concatenation by position.
LEMMA ExtConcat ==
  ASSUME NEW S, NEW a \in Seq(S), NEW b \in Seq(S)
  PROVE  /\ a \o b \in Seq(S) /\ Len(a \o b) = Len(a) + Len(b)
         /\ Len(a) \in Nat /\ Len(b) \in Nat
         /\ \A k \in 1..Len(a) : (a \o b)[k] = a[k]
         /\ \A k \in (Len(a) + 1)..(Len(a) + Len(b)) :
              (a \o b)[k] = b[k - Len(a)] /\ k - Len(a) \in 1..Len(b)
<1>1. /\ a \o b \in Seq(S) /\ Len(a \o b) = Len(a) + Len(b)
      /\ \A k \in 1..(Len(a) + Len(b)) :
           (a \o b)[k] = IF k <= Len(a) THEN a[k] ELSE b[k - Len(a)]
  BY ConcatProperties
<1>2. Len(a) \in Nat /\ Len(b) \in Nat
  OBVIOUS
<1>. QED
  BY <1>1, <1>2

\* The commands of an attachment: the bridge first, the address last, the
\* interface brought up only if it was down, a veth pair before its ends.
LEMMA ExtSteps ==
  ASSUME NEW q \in Request, NEW up \in BOOLEAN, NEW s, s = Steps(q, up)
  PROVE  /\ s \in Seq(StepNames) /\ Len(s) \in Nat \ {0}
         /\ s[1] = "bridge_created" /\ s[Len(s)] = "ip_assigned"
         /\ \A k \in 1..Len(s) :
              /\ s[k] \in StepNames
              /\ s[k] = "bridge_created" => k = 1
              /\ s[k] = "phy_up_changed" => ~up
              /\ s[k] \in VethFlags \ {"veth_created"} =>
                   \E j \in 1..(k - 1) : s[j] = "veth_created"
<1>. DEFINE A == <<"bridge_created", "bridge_up">>
            B == If(~up, <<"phy_up_changed">>)
            C == <<"phy_enslaved", "veth_created", "veth_root_mastered",
                   "veth_root_up", "host_up", "veth_host_ns_moved", "veth_host_up">>
            D == If(q.mtu, <<"bridge_mtu", "root_mtu", "mtu_set">>)
            E == <<"ip_assigned">>
            ab == A \o B
            abc == ab \o C
            abcd == abc \o D
            Late == VethFlags \ {"veth_created"}
<1>0. s = abcd \o E
  BY DEF Steps
<1>1. A \in Seq(StepNames) /\ Len(A) = 2 /\ A[1] = "bridge_created" /\ A[2] = "bridge_up"
  BY DEF StepNames, OutstandingFlags
<1>2. /\ B \in Seq(StepNames) /\ Len(B) \in Nat
      /\ \A k \in 1..Len(B) : B[k] = "phy_up_changed" /\ ~up
  <2>1. B = IF up THEN <<>> ELSE <<"phy_up_changed">>
    BY DEF If
  <2>. HIDE DEF B
  <2>2. CASE up
    BY <2>1, <2>2
  <2>3. CASE ~up
    BY <2>1, <2>3 DEF StepNames, OutstandingFlags
  <2>. QED
    BY <2>2, <2>3
<1>3. /\ C \in Seq(StepNames) /\ Len(C) = 7 /\ C[1] = "phy_enslaved" /\ C[2] = "veth_created"
      /\ \A k \in 3..7 : C[k] \in Late \cup {"host_up"}
  BY DEF StepNames, OutstandingFlags, VethFlags
<1>4. /\ D \in Seq(StepNames) /\ Len(D) \in Nat
      /\ \A k \in 1..Len(D) : D[k] \in Late \cup {"bridge_mtu", "root_mtu"}
  <2>1. D = IF q.mtu THEN <<"bridge_mtu", "root_mtu", "mtu_set">> ELSE <<>>
    BY DEF If
  <2>. HIDE DEF D
  <2>2. CASE ~q.mtu
    BY <2>1, <2>2
  <2>3. CASE q.mtu
    <3>1. D \in Seq(StepNames) /\ Len(D) = 3
      BY <2>1, <2>3 DEF StepNames, OutstandingFlags, VethFlags
    <3>2. D[1] = "bridge_mtu" /\ D[2] = "root_mtu" /\ D[3] = "mtu_set"
      BY <2>1, <2>3
    <3>. QED
      BY <3>1, <3>2 DEF VethFlags
  <2>. QED
    BY <2>2, <2>3
<1>5. E \in Seq(StepNames) /\ Len(E) = 1 /\ E[1] = "ip_assigned"
  BY DEF StepNames, OutstandingFlags, VethFlags
<1>. HIDE DEF A, B, C, D, E
<1>. DEFINE m == Len(ab)
<1>6. /\ ab \in Seq(StepNames) /\ m \in Nat /\ m >= 2
      /\ ab[1] = "bridge_created" /\ ab[2] = "bridge_up"
      /\ \A k \in 3..m : ab[k] = "phy_up_changed" /\ ~up
  <2>1. /\ ab \in Seq(StepNames) /\ Len(ab) = Len(A) + Len(B)
        /\ Len(A) \in Nat /\ Len(B) \in Nat
        /\ \A k \in 1..Len(A) : ab[k] = A[k]
        /\ \A k \in (Len(A) + 1)..(Len(A) + Len(B)) :
             ab[k] = B[k - Len(A)] /\ k - Len(A) \in 1..Len(B)
    BY <1>1, <1>2, ExtConcat, Zenon
  <2>. HIDE DEF ab
  <2>. QED
    BY <1>1, <1>2, <2>1
<1>. HIDE DEF ab
<1>7. /\ abc \in Seq(StepNames) /\ Len(abc) = m + 7
      /\ \A k \in 1..m : abc[k] = ab[k]
      /\ abc[m + 1] = "phy_enslaved" /\ abc[m + 2] = "veth_created"
      /\ \A k \in (m + 3)..(m + 7) : abc[k] \in Late \cup {"host_up"}
  <2>1. /\ abc \in Seq(StepNames) /\ Len(abc) = Len(ab) + Len(C)
        /\ Len(ab) \in Nat /\ Len(C) \in Nat
        /\ \A k \in 1..Len(ab) : abc[k] = ab[k]
        /\ \A k \in (Len(ab) + 1)..(Len(ab) + Len(C)) :
             abc[k] = C[k - Len(ab)] /\ k - Len(ab) \in 1..Len(C)
    BY <1>3, <1>6, ExtConcat, Zenon
  <2>. HIDE DEF abc, Late
  <2>2. \A k \in (m + 3)..(m + 7) : abc[k] = C[k - m] /\ k - m \in 3..7
    BY <1>3, <1>6, <2>1
  <2>3. abc[m + 1] = C[1] /\ abc[m + 2] = C[2]
    <3>1. /\ m + 1 \in (m + 1)..(m + 7) /\ m + 2 \in (m + 1)..(m + 7)
          /\ (m + 1) - m = 1 /\ (m + 2) - m = 2
      BY <1>6
    <3>. QED
      BY <1>3, <2>1, <3>1
  <2>. QED
    BY <1>3, <2>1, <2>2, <2>3
<1>. HIDE DEF abc
<1>8. /\ abcd \in Seq(StepNames) /\ Len(abcd) = m + 7 + Len(D)
      /\ \A k \in 1..(m + 7) : abcd[k] = abc[k]
      /\ \A k \in (m + 8)..(m + 7 + Len(D)) : abcd[k] \in Late \cup {"bridge_mtu", "root_mtu"}
  <2>1. /\ abcd \in Seq(StepNames) /\ Len(abcd) = Len(abc) + Len(D)
        /\ Len(abc) \in Nat /\ Len(D) \in Nat
        /\ \A k \in 1..Len(abc) : abcd[k] = abc[k]
        /\ \A k \in (Len(abc) + 1)..(Len(abc) + Len(D)) :
             abcd[k] = D[k - Len(abc)] /\ k - Len(abc) \in 1..Len(D)
    BY <1>4, <1>7, ExtConcat, Zenon
  <2>. HIDE DEF abcd, m, Late
  <2>2. m + 7 + 1 = m + 8
    BY <1>6
  <2>. QED
    BY ZenonT(40), <1>4, <1>7, <2>1, <2>2
<1>. HIDE DEF abcd
<1>. DEFINE n == m + 7 + Len(D) + 1
<1>9. /\ s \in Seq(StepNames) /\ Len(s) = n /\ n \in Nat
      /\ \A k \in 1..(n - 1) : s[k] = abcd[k]
      /\ s[n] = "ip_assigned"
  <2>. DEFINE all == abcd \o E
  <2>1. /\ all \in Seq(StepNames) /\ Len(all) = Len(abcd) + Len(E)
        /\ Len(abcd) \in Nat /\ Len(E) \in Nat
        /\ \A k \in 1..Len(abcd) : all[k] = abcd[k]
        /\ \A k \in (Len(abcd) + 1)..(Len(abcd) + Len(E)) :
             all[k] = E[k - Len(abcd)] /\ k - Len(abcd) \in 1..Len(E)
    BY <1>5, <1>8, ExtConcat, Zenon
  <2>. HIDE DEF all
  <2>. HIDE DEF m
  <2>2. Len(abcd) = n - 1 /\ n \in Nat /\ n - (n - 1) = 1 /\ (n - 1) + 1 = n
    BY <1>4, <1>6, <1>8
  <2>. HIDE DEF n
  <2>3. n \in (Len(abcd) + 1)..(Len(abcd) + Len(E))
    BY <1>5, <2>2
  <2>. QED
    BY <1>0, <1>5, <2>1, <2>2, <2>3 DEF all
<1>. HIDE DEF m, n
<1>10. n >= m + 8 /\ n - 1 = m + 7 + Len(D)
  BY <1>4, <1>6 DEF n
<1>11. /\ s[1] = "bridge_created" /\ s[2] = "bridge_up"
       /\ \A k \in 3..m : s[k] = "phy_up_changed" /\ ~up
       /\ s[m + 1] = "phy_enslaved" /\ s[m + 2] = "veth_created"
       /\ \A k \in (m + 3)..n : s[k] \in Late \cup {"host_up", "bridge_mtu", "root_mtu"}
  <2>1. \A k \in (m + 3)..n : k \in (m + 3)..(m + 7) \/ k \in (m + 8)..(n - 1) \/ k = n
    BY <1>6, <1>9, <1>10
  <2>2. "ip_assigned" \in Late
    BY DEF VethFlags
  <2>3. /\ \A k \in 1..(m + 7) : s[k] = abc[k]
        /\ \A k \in 1..m : s[k] = ab[k]
    BY <1>6, <1>7, <1>8, <1>9, <1>10
  <2>4. \A k \in (m + 8)..(n - 1) : s[k] = abcd[k]
    BY <1>6, <1>9, <1>10
  <2>5. \A k \in (m + 3)..(m + 7) : s[k] = abc[k]
    BY <1>6, <2>3
  <2>6. s[m + 1] = abc[m + 1] /\ s[m + 2] = abc[m + 2] /\ s[1] = ab[1] /\ s[2] = ab[2]
    BY <1>6, <2>3
  <2>. HIDE DEF Late
  <2>7. \A k \in 3..m : s[k] = ab[k]
    BY <1>6, <2>3
  <2>8. \A k \in (m + 3)..n : s[k] \in Late \cup {"host_up", "bridge_mtu", "root_mtu"}
    BY <1>7, <1>8, <1>9, <1>10, <2>1, <2>2, <2>4, <2>5
  <2>9. \A k \in 3..m : s[k] = "phy_up_changed" /\ ~up
    BY <1>6, <2>7
  <2>. QED
    BY <1>6, <1>7, <2>6, <2>8, <2>9
<1>12. \A k \in 1..n : k = 1 \/ k = 2 \/ k \in 3..m \/ k = m + 1 \/ k = m + 2 \/ k \in (m + 3)..n
  BY <1>6, <1>9
<1>13. ASSUME NEW k \in 1..n
       PROVE  /\ s[k] = "bridge_created" => k = 1
              /\ s[k] = "phy_up_changed" => ~up
              /\ s[k] \in Late => k >= m + 3
  <2>1. \A x \in Late \cup {"host_up", "bridge_mtu", "root_mtu"} :
          x \notin {"bridge_created", "phy_up_changed"}
    BY DEF VethFlags
  <2>2. \A x \in {"bridge_created", "bridge_up", "phy_up_changed", "phy_enslaved", "veth_created"} :
          x \notin Late
    BY DEF VethFlags
  <2>. HIDE DEF Late
  <2>3. CASE k \in (m + 3)..n
    BY <1>6, <1>9, <1>11, <2>1, <2>3
  <2>4. CASE k \notin (m + 3)..n
    BY <1>11, <1>12, <2>2, <2>4
  <2>. QED
    BY <2>3, <2>4
<1>14. ASSUME NEW k \in 1..n, s[k] \in Late
       PROVE  \E j \in 1..(k - 1) : s[j] = "veth_created"
  <2>1. m + 2 \in 1..(k - 1)
    BY <1>6, <1>9, <1>13, <1>14
  <2>. QED
    BY <1>11, <2>1
<1>15. \A k \in 1..n : s[k] \in StepNames
  BY <1>9
<1>16. n # 0
  BY <1>6, <1>9, <1>10
<1>. QED
  BY <1>9, <1>11, <1>13, <1>14, <1>15, <1>16

\* What undoing a link does.
UnsetEffect(f, h, n) ==
  /\ nics' \in [Nics -> Nic]
  /\ objects' = objects \ (IF f = "bridge_created" THEN {Bridge(h)}
                           ELSE IF f = "veth_created" THEN {Veth(h)} ELSE {})
  /\ \A k \in Nics :
       /\ nics'[k].addressed = nics[k].addressed
       /\ nics'[k].up = IF k = n /\ f = "phy_up_changed" THEN FALSE ELSE nics[k].up
       /\ nics'[k].master =
            IF (k = n /\ f = "phy_enslaved") \/ (nics[k].master = h /\ f = "bridge_created")
              THEN "none" ELSE nics[k].master

\* Undoing a link does that.
LEMMA ExtUnsetLink ==
  ASSUME nics \in [Nics -> Nic], NEW h, NEW n \in Nics, NEW f \in GateFlags,
         UnsetLink(f, h, n)
  PROVE  UnsetEffect(f, h, n)
<1>. USE DEF UnsetEffect
<1>0. \A k \in Nics : nics[k] \in Nic
  OBVIOUS
<1>1. CASE f = "bridge_created"
  <2>1. /\ objects' = objects \ {Bridge(h)}
        /\ nics' = [k \in Nics |-> IF nics[k].master = h
                                     THEN [nics[k] EXCEPT !.master = "none"] ELSE nics[k]]
    BY <1>1 DEF UnsetLink
  <2>2. \A k \in Nics :
          LET e == [nics[k] EXCEPT !.master = "none"]
          IN  e \in Nic /\ e.up = nics[k].up /\ e.addressed = nics[k].addressed
              /\ e.master = "none"
    BY <1>0 DEF Nic
  <2>. QED
    BY <1>0, <1>1, <2>1, <2>2
<1>2. CASE f = "veth_created"
  <2>1. objects' = objects \ {Veth(h)} /\ nics' = nics
    BY <1>2 DEF UnsetLink
  <2>. QED
    BY <1>2, <2>1
<1>3. CASE f = "phy_up_changed"
  <2>. DEFINE e == [nics[n] EXCEPT !.up = FALSE]
  <2>1. objects' = objects /\ nics' = [nics EXCEPT ![n] = e]
    BY <1>3 DEF UnsetLink
  <2>2. e \in Nic /\ e.up = FALSE /\ e.addressed = nics[n].addressed /\ e.master = nics[n].master
    BY <1>0 DEF Nic
  <2>. HIDE DEF e
  <2>. QED
    BY <1>0, <1>3, <2>1, <2>2
<1>4. CASE f = "phy_enslaved"
  <2>. DEFINE e == [nics[n] EXCEPT !.master = "none"]
  <2>1. objects' = objects /\ nics' = [nics EXCEPT ![n] = e]
    BY <1>4 DEF UnsetLink
  <2>2. e \in Nic /\ e.up = nics[n].up /\ e.addressed = nics[n].addressed /\ e.master = "none"
    BY <1>0 DEF Nic
  <2>. HIDE DEF e
  <2>. QED
    BY <1>0, <1>4, <2>1, <2>2
<1>5. CASE f = "bridge_up"
  <2>1. objects' = objects /\ nics' = nics
    BY <1>5 DEF UnsetLink, world
  <2>. QED
    BY <1>5, <2>1
<1>. QED
  BY <1>1, <1>2, <1>3, <1>4, <1>5 DEF GateFlags

\* What a command of an attachment does to the machine.
SetEffect(f, h, n) ==
  /\ nics' \in [Nics -> Nic]
  /\ objects' = objects \cup (IF f = "bridge_created" THEN {Bridge(h)}
                              ELSE IF f = "veth_created" THEN {Veth(h)} ELSE {})
  /\ \A k \in Nics :
       /\ nics'[k].addressed = nics[k].addressed
       /\ nics'[k].up = IF k = n /\ f = "phy_up_changed" THEN TRUE ELSE nics[k].up
       /\ nics'[k].master = IF k = n /\ f = "phy_enslaved" THEN h ELSE nics[k].master

\* A command of an attachment does that.
LEMMA ExtSetLink ==
  ASSUME nics \in [Nics -> Nic], NEW h \in HostNames, NEW n \in Nics, NEW f \in StepNames,
         SetLink(f, h, n)
  PROVE  SetEffect(f, h, n)
<1>. USE DEF SetEffect
<1>0. \A k \in Nics : nics[k] \in Nic
  OBVIOUS
<1>1. CASE f = "bridge_created"
  <2>1. objects' = objects \cup {Bridge(h)} /\ nics' = nics
    BY <1>1 DEF SetLink
  <2>. QED
    BY <1>1, <2>1
<1>2. CASE f = "veth_created"
  <2>1. objects' = objects \cup {Veth(h)} /\ nics' = nics
    BY <1>2 DEF SetLink
  <2>. QED
    BY <1>2, <2>1
<1>3. CASE f = "phy_up_changed"
  <2>. DEFINE e == [nics[n] EXCEPT !.up = TRUE]
  <2>1. objects' = objects /\ nics' = [nics EXCEPT ![n] = e]
    BY <1>3 DEF SetLink
  <2>2. e \in Nic /\ e.up = TRUE /\ e.addressed = nics[n].addressed /\ e.master = nics[n].master
    BY <1>0 DEF Nic
  <2>. HIDE DEF e
  <2>. QED
    BY <1>0, <1>3, <2>1, <2>2
<1>4. CASE f = "phy_enslaved"
  <2>. DEFINE e == [nics[n] EXCEPT !.master = h]
  <2>1. objects' = objects /\ nics' = [nics EXCEPT ![n] = e]
    BY <1>4 DEF SetLink
  <2>2. e \in Nic /\ e.up = nics[n].up /\ e.addressed = nics[n].addressed /\ e.master = h
    BY <1>0 DEF Nic
  <2>. HIDE DEF e
  <2>. QED
    BY <1>0, <1>4, <2>1, <2>2
<1>5. CASE f \notin {"bridge_created", "veth_created", "phy_up_changed", "phy_enslaved"}
  <2>1. objects' = objects /\ nics' = nics
    BY <1>5 DEF SetLink, world
  <2>. QED
    BY <1>5, <2>1
<1>. QED
  BY <1>1, <1>2, <1>3, <1>4, <1>5

\* Bridges and veth pairs are told apart by their kind and their host.
LEMMA ExtObjectNames ==
  \A g, h :
    /\ Bridge(g) = Bridge(h) => g = h
    /\ Veth(g) = Veth(h) => g = h
    /\ Bridge(g) # Veth(h)
    /\ Bridge(h)[2] = h /\ Veth(h)[2] = h
BY DEF Bridge, Veth

\* Hosts are no markers.
LEMMA ExtHostNames == \A h \in HostNames : h # "none" /\ h # Foreign
BY DEF HostNames, Foreign

\* Nothing happens to the machine and the records; the history may grow.
LEMMA ExtWorldStays ==
  ASSUME WorldSound, UNCHANGED <<records, nics, objects, before>>,
         gap \subseteq gap', stale \subseteq stale'
  PROVE  WorldSound'
<1>. USE DEF WorldSound
<1>1. Distinct'
  BY DEF Distinct
<1>2. RecordsSound'
  BY DEF RecordsSound, FlagsSound, Bridge, Veth, Taken
<1>3. NicsSound'
  BY DEF NicsSound, Taken
<1>4. ObjectsSound'
  BY DEF ObjectsSound, Flagged, Bridge, Veth
<1>. QED
  BY <1>1, <1>2, <1>3, <1>4

\* A link is undone and the flags of its step are cleared.
LEMMA ExtUnset ==
  ASSUME ExtTypeOK, WorldSound, NEW h, Has(h), NEW f \in GateFlags,
         UnsetLink(f, h, Rec(h).nic),
         f = "phy_up_changed" => ~Rec(h).prior_up,
         records' = WithFlags(h, Rec(h).flags \ Clears(f)),
         UNCHANGED <<before, gap, stale>>
  PROVE  WorldSound' /\ nics' \in [Nics -> Nic] /\ records' \in Seq(Record)
         /\ objects' \subseteq objects
<1>. DEFINE p == Pos(h)
            e == Rec(h)
            flags == e.flags \ Clears(f)
<1>1. /\ p \in DOMAIN records /\ e = records[p] /\ e \in Record /\ e.host = h
      /\ \A k \in DOMAIN records : records[k].host = h => k = p
  BY ExtPos DEF WorldSound, ExtTypeOK
<1>2. h \in HostNames /\ e.nic \in Nics /\ flags \in SUBSET OutstandingFlags
  BY <1>1 DEF Record
<1>3. /\ records' \in Seq(Record) /\ DOMAIN records' = DOMAIN records
      /\ \A k \in DOMAIN records :
           /\ records'[k].host = records[k].host /\ records'[k].nic = records[k].nic
           /\ records'[k].prior_up = records[k].prior_up
           /\ records'[k].flags = IF records[k].host = h THEN flags ELSE records[k].flags
           /\ records[k].host # h => records'[k] = records[k]
  <2>1. records' = WithFlags(h, flags) /\ Distinct /\ records \in Seq(Record)
    BY DEF WorldSound, ExtTypeOK
  <2>. HIDE DEF flags
  <2>2. PICK fs \in SUBSET OutstandingFlags : fs = flags
    BY <1>2
  <2>3. records' = WithFlags(h, fs)
    BY <2>1, <2>2
  <2>4. WithFlagsEffect(records', h, fs)
    BY <2>1, <2>3, ExtWithFlags
  <2>. QED
    BY <2>2, <2>4 DEF WithFlagsEffect
<1>4. /\ nics' \in [Nics -> Nic]
      /\ objects' = objects \ (IF f = "bridge_created" THEN {Bridge(h)}
                               ELSE IF f = "veth_created" THEN {Veth(h)} ELSE {})
      /\ \A k \in Nics :
           /\ nics'[k].addressed = nics[k].addressed
           /\ nics'[k].up = IF k = e.nic /\ f = "phy_up_changed" THEN FALSE ELSE nics[k].up
           /\ nics'[k].master =
                IF (k = e.nic /\ f = "phy_enslaved") \/ (nics[k].master = h /\ f = "bridge_created")
                  THEN "none" ELSE nics[k].master
  <2>1. UnsetLink(f, h, e.nic) /\ nics \in [Nics -> Nic]
    BY DEF ExtTypeOK
  <2>. HIDE DEF e
  <2>2. PICK n \in Nics : n = e.nic
    BY <1>2
  <2>3. UnsetLink(f, h, n)
    BY <2>1, <2>2
  <2>4. UnsetEffect(f, h, n)
    BY <2>1, <2>3, ExtUnsetLink
  <2>. QED
    BY <2>2, <2>4 DEF UnsetEffect
<1>5. \A k \in DOMAIN records : records[k] \in Record
  BY DEF ExtTypeOK
<1>6. Distinct'
  <2>1. Distinct
    BY DEF WorldSound
  <2>. SUFFICES ASSUME NEW k \in DOMAIN records, NEW l \in DOMAIN records,
                       records'[k].host = records'[l].host \/ records'[k].nic = records'[l].nic
                PROVE  k = l
    BY <1>3 DEF Distinct
  <2>. QED
    BY <1>3, <2>1 DEF Distinct
<1>7. \A k \in DOMAIN records : records[k].nic = e.nic \/ records[k].host = h => k = p
  BY <1>1 DEF Distinct, WorldSound
<1>. HIDE DEF p, e
<1>8. RecordsSound'
  <2>. SUFFICES ASSUME NEW k \in DOMAIN records PROVE FlagsSound(records[k])'
    BY <1>3 DEF RecordsSound
  <2>1. FlagsSound(records[k]) /\ FlagsSound(e)
    BY <1>1 DEF WorldSound, RecordsSound
  <2>2. CASE k # p
    <3>1. records'[k] = records[k] /\ records[k].host # h /\ records[k].nic # e.nic
      BY <1>1, <1>3, <1>7, <2>2
    <3>2. records[k].nic \in Nics /\ records[k].host \in HostNames
      BY <1>5 DEF Record
    <3>3. nics[records[k].nic].master # h
      BY <1>2, <2>1, <3>1, ExtHostNames DEF FlagsSound
    <3>4. /\ nics'[records[k].nic].up = nics[records[k].nic].up
          /\ nics'[records[k].nic].master = nics[records[k].nic].master
      BY <1>4, <3>1, <3>2, <3>3
    <3>5. /\ Bridge(records[k].host) \in objects => Bridge(records[k].host) \in objects'
          /\ Veth(records[k].host) \in objects => Veth(records[k].host) \in objects'
      BY <1>4, <3>1, ExtObjectNames
    <3>. QED
      BY <2>1, <3>1, <3>4, <3>5 DEF FlagsSound, Bridge, Veth, Taken
  <2>3. CASE k = p
    <3>1. /\ records'[k].host = h /\ records'[k].nic = e.nic
          /\ records'[k].prior_up = e.prior_up /\ records'[k].flags = flags
      BY <1>1, <1>3, <2>3
    <3>2. /\ before' = before /\ gap' = gap /\ stale' = stale
          /\ e.prior_up = before[e.nic].up /\ ~Taken(e.nic)
          /\ "phy_up_changed" \in e.flags => ~e.prior_up
          /\ \/ "phy_up_changed" \in e.flags
             \/ <<"nic", e.nic>> \in gap
             \/ nics[e.nic].up = e.prior_up
          /\ nics[e.nic].master \in {"none", h}
          /\ nics[e.nic].master = h => e.flags \cap {"phy_enslaved", "bridge_created"} # {}
          /\ e.flags \cap VethFlags # {} => "veth_created" \in e.flags
          /\ "bridge_up" \in e.flags => "bridge_created" \in e.flags
          /\ "bridge_created" \in e.flags => Bridge(h) \in objects \/ h \in stale
          /\ "veth_created" \in e.flags => Veth(h) \in objects \/ h \in stale
      BY <1>1, <2>1 DEF FlagsSound
    <3>3. f = "phy_up_changed" => ~e.prior_up
      BY DEF e
    <3>4. \/ "phy_up_changed" \in flags
          \/ <<"nic", e.nic>> \in gap
          \/ nics'[e.nic].up = e.prior_up
      <4>1. e.prior_up \in BOOLEAN
        BY <1>1 DEF Record
      <4>. QED
        BY <1>2, <1>4, <3>2, <3>3, <4>1 DEF Clears, VethFlags, GateFlags
    <3>5. nics'[e.nic].master \in {"none", h}
      BY <1>2, <1>4, <3>2
    <3>6. nics'[e.nic].master = h => flags \cap {"phy_enslaved", "bridge_created"} # {}
      BY <1>2, <1>4, <3>2, ExtHostNames DEF Clears, VethFlags, GateFlags
    <3>7. flags \cap VethFlags # {} => "veth_created" \in flags
      BY <3>2 DEF Clears, VethFlags, GateFlags
    <3>8. "bridge_up" \in flags => "bridge_created" \in flags
      BY <3>2 DEF Clears, VethFlags, GateFlags
    <3>9. /\ "bridge_created" \in flags => Bridge(h) \in objects' \/ h \in stale
          /\ "veth_created" \in flags => Veth(h) \in objects' \/ h \in stale
      BY <1>4, <3>2, ExtObjectNames DEF Clears, VethFlags, GateFlags
    <3>. HIDE DEF flags
    <3>10. "phy_up_changed" \in flags => ~e.prior_up
      BY <3>2 DEF flags
    <3>. QED
      BY <3>1, <3>2, <3>4, <3>5, <3>6, <3>7, <3>8, <3>9, <3>10 DEF FlagsSound, Bridge, Veth, Taken
  <2>. QED
    BY <2>2, <2>3
<1>9. NicsSound'
  <2>. SUFFICES ASSUME NEW n \in Nics
                PROVE  /\ nics'[n].addressed = before[n].addressed
                       /\ \/ \E k \in DOMAIN records : records'[k].nic = n
                          \/ /\ nics'[n].master = before[n].master
                             /\ nics'[n].up = before[n].up \/ <<"nic", n>> \in gap
                       /\ Taken(n) => /\ nics'[n].master = before[n].master
                                      /\ nics'[n].up = before[n].up
                       /\ \/ nics'[n].master \in {"none", Foreign}
                          \/ \E k \in DOMAIN records :
                               records'[k].nic = n /\ records'[k].host = nics'[n].master
    BY ZenonT(40), <1>3 DEF NicsSound, Taken
  <2>1. /\ nics[n].addressed = before[n].addressed
        /\ \/ \E k \in DOMAIN records : records[k].nic = n
           \/ /\ nics[n].master = before[n].master
              /\ nics[n].up = before[n].up \/ <<"nic", n>> \in gap
        /\ Taken(n) => nics[n].master = before[n].master /\ nics[n].up = before[n].up
        /\ \/ nics[n].master \in {"none", Foreign}
           \/ \E k \in DOMAIN records : records[k].nic = n /\ records[k].host = nics[n].master
    BY DEF WorldSound, NicsSound
  <2>2. nics'[n].addressed = before[n].addressed
    BY <1>4, <2>1
  <2>3. CASE n = e.nic
    <3>0. ~Taken(n)
      BY <1>1, <2>3 DEF WorldSound, RecordsSound, FlagsSound
    <3>1. nics'[n].master \in {"none", nics[n].master}
      BY <1>4
    <3>2. \E k \in DOMAIN records : records'[k].nic = n
      BY <1>1, <1>3, <2>3
    <3>. QED
      BY ZenonT(40), <1>3, <2>1, <2>2, <3>0, <3>1, <3>2
  <2>4. CASE n # e.nic
    <3>1. nics[n].master # h
      BY <1>1, <1>2, <1>7, <2>1, <2>4, ExtHostNames
    <3>2. nics'[n].master = nics[n].master /\ nics'[n].up = nics[n].up
      BY <1>4, <2>4, <3>1
    <3>. QED
      BY <1>3, <2>1, <2>2, <3>2
  <2>. QED
    BY <2>3, <2>4
<1>10. ObjectsSound'
  <2>. SUFFICES ASSUME NEW o \in objects'
                PROVE  o \in gap \/ \E k \in DOMAIN records : Flagged(o, records'[k])
    BY <1>3 DEF ObjectsSound, Flagged, Bridge, Veth
  <2>1. o \in objects
    BY <1>4
  <2>2. CASE o \in gap
    BY <2>2
  <2>3. CASE o \notin gap
    <3>1. PICK k \in DOMAIN records : Flagged(o, records[k])
      BY <2>1, <2>3 DEF WorldSound, ObjectsSound
    <3>2. CASE records[k].host # h
      BY <1>3, <3>1, <3>2
    <3>3. CASE records[k].host = h
      <4>1. records[k].flags = e.flags
        BY <1>1, <3>3
      <4>2. Flagged(o, records'[k])
        BY ZenonT(40), <1>3, <1>4, <3>1, <3>3, <4>1 DEF Flagged, Clears, VethFlags, GateFlags
      <4>. QED
        BY <4>2
    <3>. QED
      BY <3>2, <3>3
  <2>. QED
    BY <2>2, <2>3
<1>. QED
  BY <1>3, <1>4, <1>6, <1>8, <1>9, <1>10 DEF WorldSound

\* An interrupt comes between an undo command and the flags.
LEMMA ExtUnsetStale ==
  ASSUME ExtTypeOK, WorldSound, NEW h, Has(h), NEW f \in GateFlags,
         UnsetLink(f, h, Rec(h).nic),
         f = "phy_up_changed" => ~Rec(h).prior_up,
         stale' = IF f \in {"bridge_created", "veth_created"} THEN stale \cup {h} ELSE stale,
         UNCHANGED <<before, gap, records>>
  PROVE  WorldSound' /\ nics' \in [Nics -> Nic] /\ objects' \subseteq objects
<1>. DEFINE p == Pos(h)
            e == Rec(h)
<1>1. /\ p \in DOMAIN records /\ e = records[p] /\ e \in Record /\ e.host = h
      /\ \A k \in DOMAIN records : records[k].host = h => k = p
  BY ExtPos DEF WorldSound, ExtTypeOK
<1>2. h \in HostNames /\ e.nic \in Nics
  BY <1>1 DEF Record
<1>3. records' = records /\ stale \subseteq stale'
  OBVIOUS
<1>4. /\ nics' \in [Nics -> Nic]
      /\ objects' = objects \ (IF f = "bridge_created" THEN {Bridge(h)}
                               ELSE IF f = "veth_created" THEN {Veth(h)} ELSE {})
      /\ \A k \in Nics :
           /\ nics'[k].addressed = nics[k].addressed
           /\ nics'[k].up = IF k = e.nic /\ f = "phy_up_changed" THEN FALSE ELSE nics[k].up
           /\ nics'[k].master =
                IF (k = e.nic /\ f = "phy_enslaved") \/ (nics[k].master = h /\ f = "bridge_created")
                  THEN "none" ELSE nics[k].master
  <2>1. UnsetLink(f, h, e.nic) /\ nics \in [Nics -> Nic]
    BY DEF ExtTypeOK
  <2>. HIDE DEF e
  <2>2. PICK n \in Nics : n = e.nic
    BY <1>2
  <2>3. UnsetLink(f, h, n)
    BY <2>1, <2>2
  <2>4. UnsetEffect(f, h, n)
    BY <2>1, <2>3, ExtUnsetLink
  <2>. QED
    BY <2>2, <2>4 DEF UnsetEffect
<1>5. \A k \in DOMAIN records : records[k] \in Record
  BY DEF ExtTypeOK
<1>6. Distinct'
  BY <1>3 DEF Distinct, WorldSound
<1>7. \A k \in DOMAIN records : records[k].nic = e.nic \/ records[k].host = h => k = p
  BY <1>1 DEF Distinct, WorldSound
<1>. HIDE DEF p, e
<1>8. RecordsSound'
  <2>. SUFFICES ASSUME NEW k \in DOMAIN records PROVE FlagsSound(records[k])'
    BY <1>3 DEF RecordsSound
  <2>1. FlagsSound(records[k]) /\ FlagsSound(e)
    BY <1>1 DEF WorldSound, RecordsSound
  <2>2. CASE k # p
    <3>1. records'[k] = records[k] /\ records[k].host # h /\ records[k].nic # e.nic
      BY <1>1, <1>3, <1>7, <2>2
    <3>2. records[k].nic \in Nics /\ records[k].host \in HostNames
      BY <1>5 DEF Record
    <3>3. nics[records[k].nic].master # h
      BY <1>2, <2>1, <3>1, ExtHostNames DEF FlagsSound
    <3>4. /\ nics'[records[k].nic].up = nics[records[k].nic].up
          /\ nics'[records[k].nic].master = nics[records[k].nic].master
      BY <1>4, <3>1, <3>2, <3>3
    <3>5. /\ Bridge(records[k].host) \in objects => Bridge(records[k].host) \in objects'
          /\ Veth(records[k].host) \in objects => Veth(records[k].host) \in objects'
      BY <1>4, <3>1, ExtObjectNames
    <3>. QED
      BY <1>3, <2>1, <3>1, <3>4, <3>5 DEF FlagsSound, Bridge, Veth, Taken
  <2>3. CASE k = p
    <3>1. /\ records'[k].host = h /\ records'[k].nic = e.nic
          /\ records'[k].prior_up = e.prior_up /\ records'[k].flags = e.flags
      BY <1>1, <1>3, <2>3
    <3>2. /\ before' = before /\ gap' = gap
          /\ e.prior_up = before[e.nic].up /\ ~Taken(e.nic)
          /\ "phy_up_changed" \in e.flags => ~e.prior_up
          /\ \/ "phy_up_changed" \in e.flags
             \/ <<"nic", e.nic>> \in gap
             \/ nics[e.nic].up = e.prior_up
          /\ nics[e.nic].master \in {"none", h}
          /\ nics[e.nic].master = h => e.flags \cap {"phy_enslaved", "bridge_created"} # {}
          /\ e.flags \cap VethFlags # {} => "veth_created" \in e.flags
          /\ "bridge_up" \in e.flags => "bridge_created" \in e.flags
          /\ "bridge_created" \in e.flags => Bridge(h) \in objects \/ h \in stale
          /\ "veth_created" \in e.flags => Veth(h) \in objects \/ h \in stale
      BY <1>1, <2>1 DEF FlagsSound
    <3>3. f = "phy_up_changed" => ~e.prior_up
      BY DEF e
    <3>4. \/ "phy_up_changed" \in e.flags
          \/ <<"nic", e.nic>> \in gap
          \/ nics'[e.nic].up = e.prior_up
      <4>1. e.prior_up \in BOOLEAN
        BY <1>1 DEF Record
      <4>. QED
        BY <1>2, <1>4, <3>2, <3>3, <4>1
    <3>5. nics'[e.nic].master \in {"none", h}
      BY <1>2, <1>4, <3>2
    <3>6. nics'[e.nic].master = h => e.flags \cap {"phy_enslaved", "bridge_created"} # {}
      BY <1>2, <1>4, <3>2, ExtHostNames
    <3>7. /\ "bridge_created" \in e.flags => Bridge(h) \in objects' \/ h \in stale'
          /\ "veth_created" \in e.flags => Veth(h) \in objects' \/ h \in stale'
      BY <1>4, <3>2, ExtObjectNames
    <3>. QED
      BY <3>1, <3>2, <3>4, <3>5, <3>6, <3>7 DEF FlagsSound, Bridge, Veth, Taken
  <2>. QED
    BY <2>2, <2>3
<1>9. NicsSound'
  <2>. SUFFICES ASSUME NEW n \in Nics
                PROVE  /\ nics'[n].addressed = before[n].addressed
                       /\ \/ \E k \in DOMAIN records : records'[k].nic = n
                          \/ /\ nics'[n].master = before[n].master
                             /\ nics'[n].up = before[n].up \/ <<"nic", n>> \in gap
                       /\ Taken(n) => /\ nics'[n].master = before[n].master
                                      /\ nics'[n].up = before[n].up
                       /\ \/ nics'[n].master \in {"none", Foreign}
                          \/ \E k \in DOMAIN records :
                               records'[k].nic = n /\ records'[k].host = nics'[n].master
    BY <1>3 DEF NicsSound, Taken
  <2>1. /\ nics[n].addressed = before[n].addressed
        /\ \/ \E k \in DOMAIN records : records[k].nic = n
           \/ /\ nics[n].master = before[n].master
              /\ nics[n].up = before[n].up \/ <<"nic", n>> \in gap
        /\ Taken(n) => nics[n].master = before[n].master /\ nics[n].up = before[n].up
        /\ \/ nics[n].master \in {"none", Foreign}
           \/ \E k \in DOMAIN records : records[k].nic = n /\ records[k].host = nics[n].master
    BY DEF WorldSound, NicsSound
  <2>2. nics'[n].addressed = before[n].addressed
    BY <1>4, <2>1
  <2>3. CASE n = e.nic
    <3>0. ~Taken(n)
      BY <1>1, <2>3 DEF WorldSound, RecordsSound, FlagsSound
    <3>1. nics'[n].master \in {"none", nics[n].master}
      BY <1>4
    <3>2. \E k \in DOMAIN records : records'[k].nic = n
      BY <1>1, <1>3, <2>3
    <3>. QED
      BY <1>3, <2>1, <2>2, <3>0, <3>1, <3>2
  <2>4. CASE n # e.nic
    <3>1. nics[n].master # h
      BY <1>1, <1>2, <1>7, <2>1, <2>4, ExtHostNames
    <3>2. nics'[n].master = nics[n].master /\ nics'[n].up = nics[n].up
      BY <1>4, <2>4, <3>1
    <3>. QED
      BY <1>3, <2>1, <2>2, <3>2
  <2>. QED
    BY <2>3, <2>4
<1>10. ObjectsSound'
  <2>. SUFFICES ASSUME NEW o \in objects'
                PROVE  o \in gap \/ \E k \in DOMAIN records : Flagged(o, records'[k])
    BY <1>3 DEF ObjectsSound, Flagged, Bridge, Veth
  <2>. QED
    BY <1>3, <1>4 DEF WorldSound, ObjectsSound
<1>. QED
  BY <1>3, <1>4, <1>6, <1>8, <1>9, <1>10 DEF WorldSound

\* A command of an attachment succeeds and its flag is set.
LEMMA ExtSet ==
  ASSUME ExtTypeOK, WorldSound, NEW h, Has(h), NEW f \in StepNames,
         SetLink(f, h, Rec(h).nic),
         f = "phy_up_changed" => ~Rec(h).prior_up,
         f \in VethFlags \ {"veth_created"} => "veth_created" \in Rec(h).flags,
         f = "bridge_up" => "bridge_created" \in Rec(h).flags,
         records' = WithFlags(h, Rec(h).flags \cup ({f} \cap OutstandingFlags)),
         UNCHANGED <<before, gap, stale>>
  PROVE  WorldSound' /\ nics' \in [Nics -> Nic] /\ records' \in Seq(Record)
         /\ objects' \subseteq objects \cup {Bridge(h), Veth(h)}
<1>. DEFINE p == Pos(h)
            e == Rec(h)
            flags == e.flags \cup ({f} \cap OutstandingFlags)
<1>1. /\ p \in DOMAIN records /\ e = records[p] /\ e \in Record /\ e.host = h
      /\ \A k \in DOMAIN records : records[k].host = h => k = p
  BY ExtPos DEF WorldSound, ExtTypeOK
<1>2. h \in HostNames /\ e.nic \in Nics /\ flags \in SUBSET OutstandingFlags
  BY <1>1 DEF Record
<1>3. /\ records' \in Seq(Record) /\ DOMAIN records' = DOMAIN records
      /\ \A k \in DOMAIN records :
           /\ records'[k].host = records[k].host /\ records'[k].nic = records[k].nic
           /\ records'[k].prior_up = records[k].prior_up
           /\ records'[k].flags = IF records[k].host = h THEN flags ELSE records[k].flags
           /\ records[k].host # h => records'[k] = records[k]
  <2>1. records' = WithFlags(h, flags) /\ Distinct /\ records \in Seq(Record)
    BY DEF WorldSound, ExtTypeOK
  <2>. HIDE DEF flags
  <2>2. PICK fs \in SUBSET OutstandingFlags : fs = flags
    BY <1>2
  <2>3. records' = WithFlags(h, fs)
    BY <2>1, <2>2
  <2>4. WithFlagsEffect(records', h, fs)
    BY <2>1, <2>3, ExtWithFlags
  <2>. QED
    BY <2>2, <2>4 DEF WithFlagsEffect
<1>4. /\ nics' \in [Nics -> Nic]
      /\ objects' = objects \cup (IF f = "bridge_created" THEN {Bridge(h)}
                                  ELSE IF f = "veth_created" THEN {Veth(h)} ELSE {})
      /\ \A k \in Nics :
           /\ nics'[k].addressed = nics[k].addressed
           /\ nics'[k].up = IF k = e.nic /\ f = "phy_up_changed" THEN TRUE ELSE nics[k].up
           /\ nics'[k].master = IF k = e.nic /\ f = "phy_enslaved" THEN h ELSE nics[k].master
  <2>1. SetLink(f, h, e.nic) /\ nics \in [Nics -> Nic]
    BY DEF ExtTypeOK
  <2>. HIDE DEF e
  <2>2. PICK n \in Nics : n = e.nic
    BY <1>2
  <2>3. SetLink(f, h, n)
    BY <2>1, <2>2
  <2>4. SetEffect(f, h, n)
    BY <1>2, <2>1, <2>3, ExtSetLink
  <2>. QED
    BY <2>2, <2>4 DEF SetEffect
<1>5. \A k \in DOMAIN records : records[k] \in Record
  BY DEF ExtTypeOK
<1>6. Distinct'
  <2>1. Distinct
    BY DEF WorldSound
  <2>. SUFFICES ASSUME NEW k \in DOMAIN records, NEW l \in DOMAIN records,
                       records'[k].host = records'[l].host \/ records'[k].nic = records'[l].nic
                PROVE  k = l
    BY <1>3 DEF Distinct
  <2>. QED
    BY <1>3, <2>1 DEF Distinct
<1>7. \A k \in DOMAIN records : records[k].nic = e.nic \/ records[k].host = h => k = p
  BY <1>1 DEF Distinct, WorldSound
<1>. HIDE DEF p, e
<1>8. RecordsSound'
  <2>. SUFFICES ASSUME NEW k \in DOMAIN records PROVE FlagsSound(records[k])'
    BY <1>3 DEF RecordsSound
  <2>1. FlagsSound(records[k]) /\ FlagsSound(e)
    BY <1>1 DEF WorldSound, RecordsSound
  <2>2. CASE k # p
    <3>1. records'[k] = records[k] /\ records[k].nic # e.nic
      BY <1>1, <1>3, <1>7, <2>2
    <3>2. records[k].nic \in Nics
      BY <1>5 DEF Record
    <3>3. /\ nics'[records[k].nic].up = nics[records[k].nic].up
          /\ nics'[records[k].nic].master = nics[records[k].nic].master
      BY <1>4, <3>1, <3>2
    <3>4. objects \subseteq objects'
      BY <1>4
    <3>. QED
      BY <2>1, <3>1, <3>3, <3>4 DEF FlagsSound, Bridge, Veth, Taken
  <2>3. CASE k = p
    <3>1. /\ records'[k].host = h /\ records'[k].nic = e.nic
          /\ records'[k].prior_up = e.prior_up /\ records'[k].flags = flags
      BY <1>1, <1>3, <2>3
    <3>2. /\ before' = before /\ gap' = gap /\ stale' = stale
          /\ e.prior_up = before[e.nic].up /\ ~Taken(e.nic)
          /\ "phy_up_changed" \in e.flags => ~e.prior_up
          /\ \/ "phy_up_changed" \in e.flags
             \/ <<"nic", e.nic>> \in gap
             \/ nics[e.nic].up = e.prior_up
          /\ nics[e.nic].master \in {"none", h}
          /\ nics[e.nic].master = h => e.flags \cap {"phy_enslaved", "bridge_created"} # {}
          /\ e.flags \cap VethFlags # {} => "veth_created" \in e.flags
          /\ "bridge_up" \in e.flags => "bridge_created" \in e.flags
          /\ "bridge_created" \in e.flags => Bridge(h) \in objects \/ h \in stale
          /\ "veth_created" \in e.flags => Veth(h) \in objects \/ h \in stale
      BY <1>1, <2>1 DEF FlagsSound
    <3>3. f = "phy_up_changed" => ~e.prior_up
      BY DEF e
    <3>4. \/ "phy_up_changed" \in flags
          \/ <<"nic", e.nic>> \in gap
          \/ nics'[e.nic].up = e.prior_up
      BY <1>2, <1>4, <3>2 DEF OutstandingFlags
    <3>5. nics'[e.nic].master \in {"none", h}
      BY <1>2, <1>4, <3>2
    <3>6. nics'[e.nic].master = h => flags \cap {"phy_enslaved", "bridge_created"} # {}
      BY <1>2, <1>4, <3>2 DEF OutstandingFlags
    <3>7. flags \cap VethFlags # {} => "veth_created" \in flags
      BY <3>2 DEF e, OutstandingFlags, VethFlags
    <3>8. "bridge_up" \in flags => "bridge_created" \in flags
      BY <3>2 DEF e
    <3>9. /\ "bridge_created" \in flags => Bridge(h) \in objects' \/ h \in stale
          /\ "veth_created" \in flags => Veth(h) \in objects' \/ h \in stale
      BY <1>4, <3>2
    <3>10. "phy_up_changed" \in flags => ~e.prior_up
      BY <3>2, <3>3
    <3>. HIDE DEF flags
    <3>. QED
      BY <3>1, <3>2, <3>4, <3>5, <3>6, <3>7, <3>8, <3>9, <3>10 DEF FlagsSound, Bridge, Veth, Taken
  <2>. QED
    BY <2>2, <2>3
<1>9. NicsSound'
  <2>. SUFFICES ASSUME NEW n \in Nics
                PROVE  /\ nics'[n].addressed = before[n].addressed
                       /\ \/ \E k \in DOMAIN records : records'[k].nic = n
                          \/ /\ nics'[n].master = before[n].master
                             /\ nics'[n].up = before[n].up \/ <<"nic", n>> \in gap'
                       /\ Taken(n) => /\ nics'[n].master = before[n].master
                                      /\ nics'[n].up = before[n].up
                       /\ \/ nics'[n].master \in {"none", Foreign}
                          \/ \E k \in DOMAIN records :
                               records'[k].nic = n /\ records'[k].host = nics'[n].master
    BY ZenonT(40), <1>3 DEF NicsSound, Taken
  <2>1. /\ nics[n].addressed = before[n].addressed
        /\ \/ \E k \in DOMAIN records : records[k].nic = n
           \/ /\ nics[n].master = before[n].master
              /\ nics[n].up = before[n].up \/ <<"nic", n>> \in gap
        /\ Taken(n) => nics[n].master = before[n].master /\ nics[n].up = before[n].up
        /\ \/ nics[n].master \in {"none", Foreign}
           \/ \E k \in DOMAIN records : records[k].nic = n /\ records[k].host = nics[n].master
    BY DEF WorldSound, NicsSound
  <2>2. nics'[n].addressed = before[n].addressed
    BY <1>4, <2>1
  <2>3. CASE n = e.nic
    <3>0. ~Taken(n)
      BY <1>1, <2>3 DEF WorldSound, RecordsSound, FlagsSound
    <3>1. nics'[n].master \in {h, nics[n].master}
      BY <1>4
    <3>2. records'[p].nic = n /\ records'[p].host = h
      BY <1>1, <1>3, <2>3
    <3>3. \A k \in DOMAIN records :
            records'[k].nic = records[k].nic /\ records'[k].host = records[k].host
      BY <1>3
    <3>4. \E k \in DOMAIN records : records'[k].nic = n
      BY <1>1, <3>2
    <3>5. CASE nics'[n].master = h
      BY ZenonT(40), <1>1, <2>2, <3>0, <3>2, <3>4, <3>5
    <3>6. CASE nics'[n].master = nics[n].master
      BY <2>1, <2>2, <3>0, <3>3, <3>4, <3>6
    <3>. QED
      BY <3>1, <3>5, <3>6
  <2>4. CASE n # e.nic
    <3>1. nics'[n].master = nics[n].master /\ nics'[n].up = nics[n].up
      BY <1>4, <2>4
    <3>. QED
      BY <1>3, <2>1, <2>2, <3>1
  <2>. QED
    BY <2>3, <2>4
<1>10. ObjectsSound'
  <2>. SUFFICES ASSUME NEW o \in objects'
                PROVE  o \in gap \/ \E k \in DOMAIN records : Flagged(o, records'[k])
    BY <1>3 DEF ObjectsSound, Flagged, Bridge, Veth
  <2>1. CASE o \notin objects
    <3>1. records'[p].host = h /\ records'[p].flags = flags
      BY <1>1, <1>3
    <3>2. Flagged(o, records'[p])
      BY <1>4, <2>1, <3>1 DEF Flagged, OutstandingFlags, VethFlags
    <3>. QED
      BY <1>1, <3>2
  <2>2. CASE o \in gap
    BY <2>2
  <2>3. CASE o \in objects /\ o \notin gap
    <3>1. PICK k \in DOMAIN records : Flagged(o, records[k])
      BY <2>3 DEF WorldSound, ObjectsSound
    <3>2. records'[k].host = records[k].host /\ records[k].flags \subseteq records'[k].flags
      BY ZenonT(40), <1>1, <1>3
    <3>3. Flagged(o, records'[k])
      BY <3>1, <3>2 DEF Flagged
    <3>. QED
      BY <3>3
  <2>. QED
    BY <2>1, <2>2, <2>3
<1>. QED
  BY <1>3, <1>4, <1>6, <1>8, <1>9, <1>10 DEF WorldSound

\* An interrupt comes between a command and its flag.
LEMMA ExtSetLost ==
  ASSUME ExtTypeOK, WorldSound, NEW h, Has(h), NEW f \in StepNames,
         SetLink(f, h, Rec(h).nic),
         f = "phy_enslaved" => "bridge_created" \in Rec(h).flags,
         f = "bridge_created" => gap' = gap \cup {Bridge(h)},
         f = "veth_created" => gap' = gap \cup {Veth(h)},
         f = "phy_up_changed" => gap' = gap \cup {<<"nic", Rec(h).nic>>},
         gap \subseteq gap', UNCHANGED <<before, stale, records>>
  PROVE  WorldSound' /\ nics' \in [Nics -> Nic]
         /\ objects' \subseteq objects \cup {Bridge(h), Veth(h)}
<1>. DEFINE p == Pos(h)
            e == Rec(h)
<1>1. /\ p \in DOMAIN records /\ e = records[p] /\ e \in Record /\ e.host = h
      /\ \A k \in DOMAIN records : records[k].host = h => k = p
  BY ExtPos DEF WorldSound, ExtTypeOK
<1>2. h \in HostNames /\ e.nic \in Nics
  BY <1>1 DEF Record
<1>3. records' = records /\ gap \subseteq gap'
  OBVIOUS
<1>4. /\ nics' \in [Nics -> Nic]
      /\ objects' = objects \cup (IF f = "bridge_created" THEN {Bridge(h)}
                                  ELSE IF f = "veth_created" THEN {Veth(h)} ELSE {})
      /\ \A k \in Nics :
           /\ nics'[k].addressed = nics[k].addressed
           /\ nics'[k].up = IF k = e.nic /\ f = "phy_up_changed" THEN TRUE ELSE nics[k].up
           /\ nics'[k].master = IF k = e.nic /\ f = "phy_enslaved" THEN h ELSE nics[k].master
  <2>1. SetLink(f, h, e.nic) /\ nics \in [Nics -> Nic]
    BY DEF ExtTypeOK
  <2>. HIDE DEF e
  <2>2. PICK n \in Nics : n = e.nic
    BY <1>2
  <2>3. SetLink(f, h, n)
    BY <2>1, <2>2
  <2>4. SetEffect(f, h, n)
    BY <1>2, <2>1, <2>3, ExtSetLink
  <2>. QED
    BY <2>2, <2>4 DEF SetEffect
<1>5. \A k \in DOMAIN records : records[k] \in Record
  BY DEF ExtTypeOK
<1>6. Distinct'
  BY <1>3 DEF Distinct, WorldSound
<1>7. \A k \in DOMAIN records : records[k].nic = e.nic \/ records[k].host = h => k = p
  BY <1>1 DEF Distinct, WorldSound
<1>. HIDE DEF p, e
<1>8. RecordsSound'
  <2>. SUFFICES ASSUME NEW k \in DOMAIN records PROVE FlagsSound(records[k])'
    BY <1>3 DEF RecordsSound
  <2>1. FlagsSound(records[k]) /\ FlagsSound(e)
    BY <1>1 DEF WorldSound, RecordsSound
  <2>2. CASE k # p
    <3>1. records'[k] = records[k] /\ records[k].nic # e.nic
      BY <1>1, <1>3, <1>7, <2>2
    <3>2. records[k].nic \in Nics
      BY <1>5 DEF Record
    <3>3. /\ nics'[records[k].nic].up = nics[records[k].nic].up
          /\ nics'[records[k].nic].master = nics[records[k].nic].master
      BY <1>4, <3>1, <3>2
    <3>4. objects \subseteq objects'
      BY <1>4
    <3>. QED
      BY <1>3, <2>1, <3>1, <3>3, <3>4 DEF FlagsSound, Bridge, Veth, Taken
  <2>3. CASE k = p
    <3>1. /\ records'[k].host = h /\ records'[k].nic = e.nic
          /\ records'[k].prior_up = e.prior_up /\ records'[k].flags = e.flags
      BY <1>1, <1>3, <2>3
    <3>2. /\ before' = before /\ stale' = stale
          /\ e.prior_up = before[e.nic].up /\ ~Taken(e.nic)
          /\ "phy_up_changed" \in e.flags => ~e.prior_up
          /\ \/ "phy_up_changed" \in e.flags
             \/ <<"nic", e.nic>> \in gap
             \/ nics[e.nic].up = e.prior_up
          /\ nics[e.nic].master \in {"none", h}
          /\ nics[e.nic].master = h => e.flags \cap {"phy_enslaved", "bridge_created"} # {}
          /\ e.flags \cap VethFlags # {} => "veth_created" \in e.flags
          /\ "bridge_up" \in e.flags => "bridge_created" \in e.flags
          /\ "bridge_created" \in e.flags => Bridge(h) \in objects \/ h \in stale
          /\ "veth_created" \in e.flags => Veth(h) \in objects \/ h \in stale
      BY <1>1, <2>1 DEF FlagsSound
    <3>3. f = "phy_up_changed" => <<"nic", e.nic>> \in gap'
      BY DEF e
    <3>4. \/ "phy_up_changed" \in e.flags
          \/ <<"nic", e.nic>> \in gap'
          \/ nics'[e.nic].up = e.prior_up
      BY <1>2, <1>3, <1>4, <3>2, <3>3
    <3>5. nics'[e.nic].master \in {"none", h}
      BY <1>2, <1>4, <3>2
    <3>6. nics'[e.nic].master = h => e.flags \cap {"phy_enslaved", "bridge_created"} # {}
      BY <1>2, <1>4, <3>2 DEF e
    <3>7. /\ "bridge_created" \in e.flags => Bridge(h) \in objects' \/ h \in stale
          /\ "veth_created" \in e.flags => Veth(h) \in objects' \/ h \in stale
      BY <1>4, <3>2
    <3>. QED
      BY <3>1, <3>2, <3>4, <3>5, <3>6, <3>7 DEF FlagsSound, Bridge, Veth, Taken
  <2>. QED
    BY <2>2, <2>3
<1>9. NicsSound'
  <2>. SUFFICES ASSUME NEW n \in Nics
                PROVE  /\ nics'[n].addressed = before[n].addressed
                       /\ \/ \E k \in DOMAIN records : records'[k].nic = n
                          \/ /\ nics'[n].master = before[n].master
                             /\ nics'[n].up = before[n].up \/ <<"nic", n>> \in gap'
                       /\ Taken(n) => /\ nics'[n].master = before[n].master
                                      /\ nics'[n].up = before[n].up
                       /\ \/ nics'[n].master \in {"none", Foreign}
                          \/ \E k \in DOMAIN records :
                               records'[k].nic = n /\ records'[k].host = nics'[n].master
    BY <1>3 DEF NicsSound, Taken
  <2>1. /\ nics[n].addressed = before[n].addressed
        /\ \/ \E k \in DOMAIN records : records[k].nic = n
           \/ /\ nics[n].master = before[n].master
              /\ nics[n].up = before[n].up \/ <<"nic", n>> \in gap
        /\ Taken(n) => nics[n].master = before[n].master /\ nics[n].up = before[n].up
        /\ \/ nics[n].master \in {"none", Foreign}
           \/ \E k \in DOMAIN records : records[k].nic = n /\ records[k].host = nics[n].master
    BY DEF WorldSound, NicsSound
  <2>2. nics'[n].addressed = before[n].addressed
    BY <1>4, <2>1
  <2>3. CASE n = e.nic
    <3>0. ~Taken(n)
      BY <1>1, <2>3 DEF WorldSound, RecordsSound, FlagsSound
    <3>1. nics'[n].master \in {h, nics[n].master}
      BY <1>4
    <3>2. records'[p].nic = n /\ records'[p].host = h
      BY <1>1, <1>3, <2>3
    <3>. QED
      BY <1>1, <1>3, <2>1, <2>2, <3>0, <3>1, <3>2
  <2>4. CASE n # e.nic
    <3>1. nics'[n].master = nics[n].master /\ nics'[n].up = nics[n].up
      BY <1>4, <2>4
    <3>. QED
      BY <1>3, <2>1, <2>2, <3>1
  <2>. QED
    BY <2>3, <2>4
<1>10. ObjectsSound'
  <2>. SUFFICES ASSUME NEW o \in objects'
                PROVE  o \in gap' \/ \E k \in DOMAIN records : Flagged(o, records[k])
    BY <1>3 DEF ObjectsSound, Flagged, Bridge, Veth
  <2>1. CASE o \notin objects
    BY <1>4, <2>1
  <2>2. CASE o \in objects
    BY <1>3, <2>2 DEF WorldSound, ObjectsSound
  <2>. QED
    BY <2>1, <2>2
<1>. QED
  BY <1>3, <1>4, <1>6, <1>8, <1>9, <1>10 DEF WorldSound

\* A record without flags is added for an interface that nobody uses.
LEMMA ExtAdd ==
  ASSUME ExtTypeOK, WorldSound, NEW h \in HostNames, NEW n \in Nics, ~Has(h),
         \A k \in DOMAIN records : records[k].nic # n,
         nics[n].master = "none", ~nics[n].addressed, gap = {},
         records' = Append(records, [host |-> h, nic |-> n, prior_up |-> nics[n].up,
                                     flags |-> {}]),
         UNCHANGED <<nics, objects, before, gap, stale>>
  PROVE  WorldSound' /\ records' \in Seq(Record)
<1>. DEFINE e == [host |-> h, nic |-> n, prior_up |-> nics[n].up, flags |-> {}]
            m == Len(records) + 1
<1>1. nics[n] \in Nic
  BY DEF ExtTypeOK
<1>2. /\ e \in Record /\ e.host = h /\ e.nic = n /\ e.prior_up = nics[n].up
      /\ e.flags = {}
  BY <1>1 DEF Record, Nic
<1>3. records \in Seq(Record) /\ records' = Append(records, e)
  BY DEF ExtTypeOK
<1>. HIDE DEF e
<1>4. /\ records' \in Seq(Record)
      /\ DOMAIN records = 1..Len(records) /\ Len(records) \in Nat
      /\ DOMAIN records' = DOMAIN records \cup {m} /\ m \notin DOMAIN records
      /\ \A k \in DOMAIN records : records'[k] = records[k]
      /\ records'[m] = e
  BY <1>2, <1>3
<1>. HIDE DEF m
<1>5. Distinct'
  <2>. SUFFICES ASSUME NEW k \in DOMAIN records', NEW l \in DOMAIN records',
                       records'[k].host = records'[l].host \/ records'[k].nic = records'[l].nic
                PROVE  k = l
    BY DEF Distinct
  <2>1. \A j \in DOMAIN records : records[j].host # h /\ records[j].nic # n
    BY DEF Has
  <2>2. CASE k \in DOMAIN records /\ l \in DOMAIN records
    BY <1>4, <2>2 DEF Distinct, WorldSound
  <2>3. CASE k = m \/ l = m
    BY <1>2, <1>4, <2>1, <2>3
  <2>. QED
    BY <1>4, <2>2, <2>3
<1>6. nics[n].up = before[n].up /\ ~Taken(n)
  BY DEF WorldSound, NicsSound, Taken
<1>7. RecordsSound'
  <2>. SUFFICES ASSUME NEW k \in DOMAIN records' PROVE FlagsSound(records[k])'
    BY DEF RecordsSound
  <2>1. CASE k \in DOMAIN records
    BY <1>4, <2>1 DEF WorldSound, RecordsSound, FlagsSound, Bridge, Veth, Taken
  <2>2. CASE k = m
    <3>1. h # "none"
      BY ExtHostNames
    <3>. QED
      BY <1>2, <1>4, <1>6, <2>2, <3>1 DEF FlagsSound, Taken
  <2>. QED
    BY <1>4, <2>1, <2>2
<1>8. NicsSound'
  BY <1>4 DEF WorldSound, NicsSound, Taken
<1>9. ObjectsSound'
  BY <1>4 DEF WorldSound, ObjectsSound, Flagged, Bridge, Veth
<1>. QED
  BY <1>4, <1>5, <1>7, <1>8, <1>9 DEF WorldSound

\* A record without flags is dropped.
LEMMA ExtPop ==
  ASSUME ExtTypeOK, WorldSound, NEW h, Has(h), Rec(h).flags = {},
         records' = Without(h),
         UNCHANGED <<nics, objects, before, gap, stale>>
  PROVE  WorldSound' /\ records' \in Seq(Record)
<1>. DEFINE p == Pos(h)
            e == Rec(h)
<1>1. /\ p \in DOMAIN records /\ e = records[p] /\ e \in Record /\ e.host = h
      /\ \A k \in DOMAIN records : records[k].host = h => k = p
  BY ExtPos DEF WorldSound, ExtTypeOK
<1>2. /\ records' \in Seq(Record)
      /\ \A k \in DOMAIN records' :
           records'[k].host # h /\ \E l \in DOMAIN records : records'[k] = records[l]
      /\ \A l \in DOMAIN records :
           records[l].host # h => \E k \in DOMAIN records' : records'[k] = records[l]
      /\ \A k, l \in DOMAIN records' :
           records'[k].host = records'[l].host \/ records'[k].nic = records'[l].nic => k = l
  <2>1. records \in Seq(Record) /\ Distinct
    BY DEF WorldSound, ExtTypeOK
  <2>2. PICK s : s = Without(h)
    OBVIOUS
  <2>3. /\ s \in Seq(Record)
        /\ \A k \in DOMAIN s : s[k].host # h /\ \E l \in DOMAIN records : s[k] = records[l]
        /\ \A l \in DOMAIN records :
             records[l].host # h => \E k \in DOMAIN s : s[k] = records[l]
        /\ \A k, l \in DOMAIN s : s[k].host = s[l].host \/ s[k].nic = s[l].nic => k = l
    BY SMTT(30), <2>1, <2>2, ExtWithout
  <2>4. records' = s
    BY <2>2
  <2>. QED
    BY <2>3, <2>4
<1>3. e.flags = {}
  OBVIOUS
<1>4. e.nic \in Nics /\ h \in HostNames /\ FlagsSound(e)
  BY <1>1 DEF Record, WorldSound, RecordsSound
<1>. HIDE DEF p, e
<1>5. Distinct'
  BY <1>2 DEF Distinct
<1>6. RecordsSound'
  BY <1>2 DEF WorldSound, RecordsSound, FlagsSound, Bridge, Veth, Taken
<1>7. NicsSound'
  <2>. SUFFICES ASSUME NEW n \in Nics
                PROVE  /\ nics[n].addressed = before[n].addressed
                       /\ \/ \E k \in DOMAIN records' : records'[k].nic = n
                          \/ /\ nics[n].master = before[n].master
                             /\ nics[n].up = before[n].up \/ <<"nic", n>> \in gap
                       /\ Taken(n) => /\ nics[n].master = before[n].master
                                      /\ nics[n].up = before[n].up
                       /\ \/ nics[n].master \in {"none", Foreign}
                          \/ \E k \in DOMAIN records' :
                               records'[k].nic = n /\ records'[k].host = nics[n].master
    BY DEF NicsSound, Taken
  <2>1. /\ nics[n].addressed = before[n].addressed
        /\ \/ \E k \in DOMAIN records : records[k].nic = n
           \/ /\ nics[n].master = before[n].master
              /\ nics[n].up = before[n].up \/ <<"nic", n>> \in gap
        /\ Taken(n) => nics[n].master = before[n].master /\ nics[n].up = before[n].up
        /\ \/ nics[n].master \in {"none", Foreign}
           \/ \E k \in DOMAIN records : records[k].nic = n /\ records[k].host = nics[n].master
    BY DEF WorldSound, NicsSound
  <2>2. CASE n = e.nic
    <3>1. /\ nics[n].master = before[n].master /\ nics[n].master = "none"
          /\ nics[n].up = before[n].up \/ <<"nic", n>> \in gap
          /\ ~Taken(n)
      BY <1>1, <1>3, <1>4, <2>2 DEF FlagsSound, Taken
    <3>. QED
      BY <2>1, <3>1
  <2>3. CASE n # e.nic
    <3>1. \A k \in DOMAIN records : records[k].nic = n => records[k].host # h
      BY <1>1, <2>3
    <3>. QED
      BY <1>2, <2>1, <3>1
  <2>. QED
    BY <2>2, <2>3
<1>8. ObjectsSound'
  <2>. SUFFICES ASSUME NEW o \in objects, o \notin gap
                PROVE  \E k \in DOMAIN records' : Flagged(o, records'[k])
    BY DEF ObjectsSound, Flagged, Bridge, Veth
  <2>1. PICK l \in DOMAIN records : Flagged(o, records[l])
    BY DEF WorldSound, ObjectsSound
  <2>2. records[l].host # h
    BY <1>1, <1>3, <2>1 DEF Flagged
  <2>. QED
    BY <1>2, <2>1, <2>2
<1>. QED
  BY <1>2, <1>5, <1>6, <1>7, <1>8 DEF WorldSound

\* Most parts of the invariant are about one part of the program only.
LEMMA ExtQuiet ==
  /\ phase' # "clean" => CleanSound'
  /\ phase' \notin InHand => HandSound' /\ StepSound'
  /\ phase' \notin Attaching => WholeSound'
  /\ phase' # "up" => Transactional' /\ Discharged'
  /\ phase' = "up" => Fresh'
BY DEF CleanSound, HandSound, StepSound, WholeSound, Transactional, Discharged, Fresh,
       InHand, Attaching

\* The request in hand.
LEMMA ExtRequest ==
  ASSUME ExtTypeOK, r <= Len(requests)
  PROVE  Q \in Request /\ Q.host \in HostNames /\ Q.nic \in Nics
<1>1. requests \in Seq(Request) /\ r \in 1..Len(requests)
  BY ExternalAssumption DEF ExtTypeOK
<1>2. Q \in Request
  BY <1>1 DEF Q
<1>. QED
  BY <1>2 DEF Request

\* The record in hand.
LEMMA ExtHand ==
  ASSUME ExtInv, phase \in InHand
  PROVE  /\ r <= Len(requests) /\ Q \in Request /\ Q.host \in HostNames /\ Q.nic \in Nics
         /\ Has(Q.host) /\ Rec(Q.host) \in Record /\ Rec(Q.host).nic = Q.nic
         /\ Pos(Q.host) \in DOMAIN records /\ Rec(Q.host) = records[Pos(Q.host)]
         /\ Rec(Q.host).host = Q.host
         /\ \A k \in DOMAIN records : records[k].host = Q.host => k = Pos(Q.host)
         /\ \A j \in DOMAIN undo : undo[j] = "phy_up_changed" => ~Rec(Q.host).prior_up
         /\ phase = "attach" \/ faults = 0 =>
              \A f \in Undoable \cap Rec(Q.host).flags : \E j \in DOMAIN undo : undo[j] = f
         /\ FlagsSound(Rec(Q.host))
<1>1. r <= Len(requests) /\ Has(Q.host)
  BY DEF ExtInv, HandSound
<1>2. Q \in Request /\ Q.host \in HostNames /\ Q.nic \in Nics
  BY <1>1, ExtRequest DEF ExtInv
<1>3. /\ Pos(Q.host) \in DOMAIN records /\ Rec(Q.host) = records[Pos(Q.host)]
      /\ Rec(Q.host) \in Record /\ Rec(Q.host).host = Q.host
      /\ \A k \in DOMAIN records : records[k].host = Q.host => k = Pos(Q.host)
  BY <1>1, ExtPos DEF ExtInv, ExtTypeOK, WorldSound
<1>4. FlagsSound(Rec(Q.host))
  BY <1>3 DEF ExtInv, WorldSound, RecordsSound
<1>5. /\ Rec(Q.host).nic = Q.nic
      /\ \A j \in DOMAIN undo : undo[j] = "phy_up_changed" => ~Rec(Q.host).prior_up
      /\ phase = "attach" \/ faults = 0 =>
           \A f \in Undoable \cap Rec(Q.host).flags : \E j \in DOMAIN undo : undo[j] = f
  BY <1>3 DEF ExtInv, HandSound
<1>. QED
  BY <1>1, <1>2, <1>3, <1>4, <1>5

\* Where an attachment is, and what its next command may rely on.
LEMMA ExtFlow ==
  ASSUME ExtInv, phase = "attach"
  PROVE  /\ Flow \in Seq(StepNames) /\ Len(Flow) \in Nat \ {0}
         /\ step \in 1..(Len(Flow) + 1)
         /\ step = 1 => Rec(Q.host).flags = {}
         /\ \A j \in 1..(step - 1) :
              Flow[j] \in OutstandingFlags => Flow[j] \in Rec(Q.host).flags
         /\ step > Len(Flow) => "ip_assigned" \in Rec(Q.host).flags
         /\ step <= Len(Flow) =>
              /\ Flag \in StepNames
              /\ Flag = "bridge_created" => step = 1
              /\ Flag = "phy_up_changed" => ~Rec(Q.host).prior_up
              /\ Flag \in VethFlags \ {"veth_created"} => "veth_created" \in Rec(Q.host).flags
              /\ Flag \in {"bridge_up", "phy_enslaved"} =>
                   "bridge_created" \in Rec(Q.host).flags
<1>1. /\ Q \in Request /\ Rec(Q.host) \in Record
      /\ Pos(Q.host) \in DOMAIN records /\ Rec(Q.host) = records[Pos(Q.host)]
      /\ Rec(Q.host).host = Q.host
  BY ExtHand DEF InHand
<1>2. PICK q \in Request : q = Q
  BY <1>1
<1>3. PICK up \in BOOLEAN : up = Rec(Q.host).prior_up
  BY <1>1 DEF Record
<1>4. Flow = Steps(q, up)
  BY <1>2, <1>3 DEF Flow
<1>5. PICK s : s = Steps(q, up)
  OBVIOUS
<1>6. /\ s \in Seq(StepNames) /\ Len(s) \in Nat \ {0}
      /\ s[1] = "bridge_created" /\ s[Len(s)] = "ip_assigned"
      /\ \A k \in 1..Len(s) :
           /\ s[k] \in StepNames
           /\ s[k] = "bridge_created" => k = 1
           /\ s[k] = "phy_up_changed" => ~up
           /\ s[k] \in VethFlags \ {"veth_created"} =>
                \E j \in 1..(k - 1) : s[j] = "veth_created"
  BY <1>5, ExtSteps
<1>7. Flow = s
  BY <1>4, <1>5
<1>8. /\ step \in 1..(Len(s) + 1)
      /\ step = 1 => Rec(Q.host).flags = {}
      /\ \A j \in 1..(step - 1) : s[j] \in OutstandingFlags => s[j] \in Rec(Q.host).flags
  BY <1>1, <1>7 DEF ExtInv, StepSound, Flow
<1>9. {"bridge_created", "veth_created", "ip_assigned"} \subseteq OutstandingFlags
  BY DEF OutstandingFlags, VethFlags
<1>10. step > 1 => "bridge_created" \in Rec(Q.host).flags
  <2>1. step > 1 => 1 \in 1..(step - 1)
    BY <1>6, <1>8
  <2>. QED
    BY <1>6, <1>8, <1>9, <2>1
<1>11. step > Len(s) => "ip_assigned" \in Rec(Q.host).flags
  <2>1. step > Len(s) => Len(s) \in 1..(step - 1)
    BY <1>6, <1>8
  <2>. QED
    BY <1>6, <1>8, <1>9, <2>1
<1>12. ASSUME step <= Len(s)
       PROVE  /\ s[step] \in StepNames
              /\ s[step] = "bridge_created" => step = 1
              /\ s[step] = "phy_up_changed" => ~up
              /\ s[step] \in VethFlags \ {"veth_created"} =>
                   "veth_created" \in Rec(Q.host).flags
              /\ s[step] \in {"bridge_up", "phy_enslaved"} =>
                   "bridge_created" \in Rec(Q.host).flags
  <2>1. step \in 1..Len(s)
    BY <1>6, <1>8, <1>12
  <2>2. s[step] \in VethFlags \ {"veth_created"} => "veth_created" \in Rec(Q.host).flags
    BY <1>6, <1>8, <1>9, <2>1
  <2>3. s[step] \in {"bridge_up", "phy_enslaved"} => step > 1
    BY <1>6, <1>8, <2>1
  <2>. QED
    BY <1>6, <1>10, <2>1, <2>2, <2>3
<1>. QED
  BY <1>3, <1>6, <1>7, <1>8, <1>11, <1>12 DEF Flag

\* The checks before an attachment.
LEMMA ExtBeginAttach == ASSUME ExtInv, BeginAttach PROVE ExtInv'
<1>0. /\ phase = "next" /\ r <= Len(requests) /\ Q \in Request /\ Q.host \in HostNames
      /\ Q.nic \in Nics /\ ExtTypeOK /\ WorldSound
      /\ gap = {} /\ stale = {} /\ cleanups = 0
      /\ UNCHANGED <<nics, objects, todo, gates, cleanups, gap, stale, faults>>
  BY ExtRequest DEF ExtInv, BeginAttach, world, Fresh, Attaching
<1>1. \A k \in DOMAIN records : "ip_assigned" \in records[k].flags
  BY <1>0 DEF ExtInv, WholeSound, Attaching, InHand
<1>2. CASE Leave /\ UNCHANGED records
  <2>1. phase' = "up" /\ step' = 0 /\ undo' = <<>> /\ UNCHANGED <<requests, before, r>>
    BY <1>2 DEF Leave
  <2>2. ExtTypeOK'
    BY <1>0, <1>2, <2>1 DEF ExtTypeOK
  <2>3. WorldSound'
    BY <1>0, <1>2, <2>1, ExtWorldStays
  <2>4. Transactional' /\ Discharged'
    BY <1>0, <1>1, <1>2, <2>1 DEF Transactional, Discharged
  <2>. QED
    BY <2>1, <2>2, <2>3, <2>4, ExtQuiet DEF ExtInv, InHand, Attaching
<1>3. CASE r' = r + 1 /\ UNCHANGED <<phase, step, undo, records, given>>
  <2>0. UNCHANGED <<requests, before>>
    BY <1>3 DEF given
  <2>1. ExtTypeOK'
    BY <1>0, <1>3, <2>0 DEF ExtTypeOK
  <2>2. WorldSound'
    BY <1>0, <1>3, <2>0, ExtWorldStays
  <2>3. Fresh' /\ WholeSound'
    BY <1>0, <1>1, <1>3 DEF Fresh, WholeSound
  <2>. QED
    BY <1>0, <1>3, <2>1, <2>2, <2>3, ExtQuiet DEF ExtInv, InHand, Attaching
<1>4. CASE /\ ~Rejected(Q) /\ phase' = "attach" /\ step' = 1 /\ undo' = <<>>
           /\ records' = Append(records, [host |-> Q.host, nic |-> Q.nic,
                                          prior_up |-> nics[Q.nic].up, flags |-> {}])
           /\ UNCHANGED <<r, given>>
  <2>0. UNCHANGED <<requests, before, r>> /\ Q' = Q
    BY <1>4 DEF given, Q
  <2>1. PICK h \in HostNames, n \in Nics : h = Q.host /\ n = Q.nic
    BY <1>0
  <2>. DEFINE e == [host |-> h, nic |-> n, prior_up |-> nics[n].up, flags |-> {}]
  <2>2. /\ ~Has(h) /\ \A k \in DOMAIN records : records[k].nic # n
        /\ nics[n].master = "none" /\ ~nics[n].addressed
    BY <1>4, <2>1 DEF Rejected, InUse
  <2>3. records' = Append(records, e)
    BY <1>4, <2>1
  <2>4. WorldSound' /\ records' \in Seq(Record)
    BY <1>0, <2>0, <2>2, <2>3, ExtAdd
  <2>5. ExtTypeOK'
    BY <1>0, <1>4, <2>0, <2>4 DEF ExtTypeOK, Attaching
  <2>6. e.host = h /\ e.nic = n /\ e.flags = {} /\ e.prior_up \in BOOLEAN
    <3>1. nics[n] \in Nic
      BY <1>0 DEF ExtTypeOK
    <3>. QED
      BY <3>1 DEF Nic
  <2>. HIDE DEF e
  <2>. DEFINE m == Len(records) + 1
  <2>7. /\ DOMAIN records' = DOMAIN records \cup {m}
        /\ \A k \in DOMAIN records : records'[k] = records[k] /\ records[k].host # h
        /\ records'[m] = e
    <3>1. records \in Seq(Record)
      BY <1>0 DEF ExtTypeOK
    <3>. QED
      BY <2>2, <2>3, <3>1 DEF Has
  <2>. HIDE DEF m
  <2>8. Q'.host = h /\ Q'.nic = n
    BY <2>0, <2>1
  <2>9. Fresh'
    BY <1>0, <1>4 DEF Fresh
  <2>10. HandSound'
    <3>1. Has(Q.host)'
      BY <2>6, <2>7, <2>8 DEF Has
    <3>2. \A k \in DOMAIN records' : records'[k].host = h => records'[k] = e
      BY <2>7
    <3>3. undo' = <<>> /\ DOMAIN undo' = {}
      BY <1>4
    <3>. QED
      BY <1>0, <2>0, <2>6, <2>8, <3>1, <3>2, <3>3 DEF HandSound
  <2>11. StepSound'
    <3>1. PICK q \in Request : q = Q
      BY <1>0
    <3>2. PICK up \in BOOLEAN : up = e.prior_up
      BY <2>6
    <3>3. Len(Steps(q, up)) \in Nat \ {0}
      BY ExtSteps
    <3>4. \A k \in DOMAIN records' : records'[k].host = h => records'[k] = e
      BY <2>7
    <3>5. ASSUME NEW k \in DOMAIN records', records'[k].host = h
          PROVE  LET flow == Steps(Q, records[k].prior_up)' IN
                 /\ 1 \in 1..(Len(flow) + 1)
                 /\ records'[k].flags = {}
                 /\ \A j \in 1..(1 - 1) : flow[j] \in OutstandingFlags => flow[j] \in records'[k].flags
      <4>1. Steps(Q, records[k].prior_up)' = Steps(q, up)
        BY <2>0, <3>1, <3>2, <3>4, <3>5 DEF Steps, If
      <4>. QED
        BY <2>6, <3>3, <3>4, <3>5, <4>1
    <3>. QED
      BY <1>4, <2>8, <3>5 DEF StepSound
  <2>12. WholeSound'
    BY <1>1, <1>4, <2>6, <2>7, <2>8 DEF WholeSound, InHand
  <2>. QED
    BY <1>4, <2>4, <2>5, <2>9, <2>10, <2>11, <2>12, ExtQuiet DEF ExtInv, InHand, Attaching
<1>. QED
  BY <1>2, <1>3, <1>4 DEF BeginAttach

\* A command succeeds.
LEMMA ExtStepSucceeds == ASSUME ExtInv, StepSucceeds PROVE ExtInv'
<1>0. /\ phase = "attach" /\ step <= Len(Flow) /\ SetLink(Flag, Q.host, Q.nic)
      /\ records' = WithFlags(Q.host, Rec(Q.host).flags \cup ({Flag} \cap OutstandingFlags))
      /\ undo' = IF Flag \in Undoable THEN Append(undo, Flag) ELSE undo
      /\ step' = step + 1 /\ phase' = phase
      /\ UNCHANGED <<requests, before, r, todo, gates, cleanups, gap, stale, faults>>
      /\ ExtTypeOK /\ WorldSound /\ gap = {} /\ stale = {} /\ cleanups = 0
  BY DEF StepSucceeds, given, ExtInv, Fresh, Attaching
<1>1. PICK h \in HostNames : h = Q.host
  BY <1>0, ExtHand DEF InHand
<1>2. PICK f \in StepNames : f = Flag
  BY <1>0, ExtFlow
<1>3. /\ Has(h) /\ Rec(h) \in Record /\ Rec(h).nic = Q.nic
      /\ Pos(h) \in DOMAIN records /\ Rec(h) = records[Pos(h)] /\ Rec(h).host = h
      /\ \A k \in DOMAIN records : records[k].host = h => k = Pos(h)
      /\ \A j \in DOMAIN undo : undo[j] = "phy_up_changed" => ~Rec(h).prior_up
      /\ \A g \in Undoable \cap Rec(h).flags : \E j \in DOMAIN undo : undo[j] = g
      /\ r <= Len(requests)
  BY <1>0, <1>1, ExtHand DEF InHand
<1>4. /\ step \in 1..Len(Flow)
      /\ \A j \in 1..(step - 1) : Flow[j] \in OutstandingFlags => Flow[j] \in Rec(h).flags
      /\ f = Flow[step]
      /\ f = "phy_up_changed" => ~Rec(h).prior_up
      /\ f \in VethFlags \ {"veth_created"} => "veth_created" \in Rec(h).flags
      /\ f = "bridge_up" => "bridge_created" \in Rec(h).flags
      /\ Len(Flow) \in Nat
  BY <1>0, <1>1, <1>2, ExtFlow DEF Flag
<1>5. /\ SetLink(f, h, Rec(h).nic)
      /\ records' = WithFlags(h, Rec(h).flags \cup ({f} \cap OutstandingFlags))
  BY <1>0, <1>1, <1>2, <1>3
<1>6. /\ WorldSound' /\ nics' \in [Nics -> Nic] /\ records' \in Seq(Record)
      /\ objects' \subseteq objects \cup {Bridge(h), Veth(h)}
  BY <1>0, <1>3, <1>4, <1>5, ExtSet
<1>7. /\ DOMAIN records' = DOMAIN records
      /\ \A k \in DOMAIN records :
           /\ records'[k].host = records[k].host /\ records'[k].nic = records[k].nic
           /\ records'[k].prior_up = records[k].prior_up
           /\ records'[k].flags = IF records[k].host = h
                                    THEN Rec(h).flags \cup ({f} \cap OutstandingFlags)
                                    ELSE records[k].flags
  <2>1. Rec(h).flags \cup ({f} \cap OutstandingFlags) \in SUBSET OutstandingFlags
    BY <1>3 DEF Record
  <2>2. PICK fs \in SUBSET OutstandingFlags : fs = Rec(h).flags \cup ({f} \cap OutstandingFlags)
    BY <2>1
  <2>3. WithFlagsEffect(records', h, fs)
    <3>1. records' = WithFlags(h, fs) /\ records \in Seq(Record) /\ Distinct
      BY <1>0, <1>5, <2>2 DEF ExtTypeOK, WorldSound
    <3>. QED
      BY <1>3, <3>1, ExtWithFlags
  <2>. QED
    BY <2>2, <2>3 DEF WithFlagsEffect
<1>8. Q' = Q /\ Q'.host = h
  BY <1>0, <1>1 DEF Q
<1>9. /\ undo' \in Seq(Undoable)
      /\ \A j \in DOMAIN undo : j \in DOMAIN undo' /\ undo'[j] = undo[j]
      /\ \A j \in DOMAIN undo' : j \in DOMAIN undo \/ undo'[j] = f
      /\ f \in Undoable => \E j \in DOMAIN undo' : undo'[j] = f
  <2>1. undo \in Seq(Undoable)
    BY <1>0 DEF ExtTypeOK
  <2>2. CASE f \notin Undoable
    BY <1>0, <1>2, <2>1, <2>2
  <2>3. CASE f \in Undoable
    <3>1. undo' = Append(undo, f)
      BY <1>0, <1>2, <2>3
    <3>2. /\ undo' \in Seq(Undoable) /\ DOMAIN undo' = DOMAIN undo \cup {Len(undo) + 1}
          /\ undo'[Len(undo) + 1] = f
          /\ \A j \in DOMAIN undo : undo'[j] = undo[j]
      BY <2>1, <2>3, <3>1
    <3>. QED
      BY <3>2
  <2>. QED
    BY <2>2, <2>3
<1>10. ExtTypeOK'
  <2>1. objects' \subseteq {"bridge", "veth"} \X HostNames
    BY <1>0, <1>6 DEF ExtTypeOK, Bridge, Veth
  <2>. QED
    BY <1>0, <1>6, <1>9, <2>1 DEF ExtTypeOK
<1>11. Fresh'
  BY <1>0 DEF Fresh
<1>12. HandSound'
  <2>1. Has(Q.host)'
    BY <1>3, <1>7, <1>8 DEF Has
  <2>2. ASSUME NEW k \in DOMAIN records, records'[k].host = h
        PROVE  /\ records'[k].nic = Q'.nic
               /\ \A j \in DOMAIN undo' : undo'[j] = "phy_up_changed" => ~records'[k].prior_up
               /\ \A g \in Undoable \cap records'[k].flags : \E j \in DOMAIN undo' : undo'[j] = g
    <3>1. /\ records[k] = Rec(h) /\ records'[k].nic = Q'.nic
          /\ records'[k].prior_up = Rec(h).prior_up
          /\ records'[k].flags \subseteq Rec(h).flags \cup {f}
      BY <1>3, <1>7, <1>8, <2>2
    <3>2. \A j \in DOMAIN undo' : undo'[j] = "phy_up_changed" => ~records'[k].prior_up
      BY <1>3, <1>4, <1>9, <3>1
    <3>3. \A g \in Undoable \cap records'[k].flags : \E j \in DOMAIN undo' : undo'[j] = g
      BY <1>3, <1>9, <3>1
    <3>. QED
      BY <3>1, <3>2, <3>3
  <2>. QED
    BY <1>0, <1>3, <1>7, <1>8, <2>1, <2>2 DEF HandSound
<1>13. StepSound'
  <2>1. ASSUME NEW k \in DOMAIN records, records'[k].host = h
        PROVE  LET flow == Steps(Q, records[k].prior_up)' IN
               /\ step + 1 \in 1..(Len(flow) + 1)
               /\ step + 1 # 1
               /\ \A j \in 1..((step + 1) - 1) :
                    flow[j] \in OutstandingFlags => flow[j] \in records'[k].flags
    <3>1. records[k] = Rec(h) /\ records'[k].prior_up = Rec(h).prior_up
      BY <1>3, <1>7, <2>1
    <3>2. Steps(Q, records[k].prior_up)' = Flow
      BY <1>1, <1>8, <3>1 DEF Flow, Steps, If
    <3>3. records'[k].flags = Rec(h).flags \cup ({f} \cap OutstandingFlags)
      BY <1>3, <1>7, <2>1
    <3>4. \A j \in 1..((step + 1) - 1) : j \in 1..(step - 1) \/ j = step
      BY <1>4
    <3>5. step + 1 \in 1..(Len(Flow) + 1) /\ step + 1 # 1
      BY <1>4
    <3>6. \A j \in 1..((step + 1) - 1) :
            Flow[j] \in OutstandingFlags => Flow[j] \in records'[k].flags
      BY <1>4, <3>3, <3>4
    <3>. QED
      BY <3>2, <3>5, <3>6
  <2>. QED
    BY <1>0, <1>7, <1>8, <2>1 DEF StepSound
<1>14. WholeSound'
  <2>1. \A k \in DOMAIN records : "ip_assigned" \in records[k].flags \/ records[k].host = h
    BY <1>0, <1>1 DEF ExtInv, WholeSound, Attaching
  <2>. QED
    BY <1>0, <1>7, <1>8, <2>1 DEF WholeSound, InHand
<1>. QED
  BY <1>0, <1>6, <1>10, <1>11, <1>12, <1>13, <1>14, ExtQuiet DEF ExtInv, InHand, Attaching

\* A command fails.
LEMMA ExtStepFails == ASSUME ExtInv, StepFails PROVE ExtInv'
<1>0. /\ phase = "attach" /\ step <= Len(Flow)
      /\ UNCHANGED <<nics, objects, todo, gates, cleanups, gap, stale>>
      /\ ExtTypeOK /\ WorldSound /\ gap = {} /\ stale = {} /\ cleanups = 0
      /\ \A k \in DOMAIN records : "ip_assigned" \in records[k].flags \/ records[k].host = Q.host
  BY DEF StepFails, world, ExtInv, Fresh, Attaching, WholeSound
<1>1. CASE Flag = "bridge_created" /\ Leave /\ records' = Without(Q.host) /\ UNCHANGED faults
  <2>1. PICK h \in HostNames : h = Q.host
    BY <1>0, ExtHand DEF InHand
  <2>2. Has(h) /\ Rec(h).flags = {} /\ records' = Without(h)
    BY <1>0, <1>1, <2>1, ExtHand, ExtFlow DEF InHand
  <2>3. phase' = "up" /\ step' = 0 /\ undo' = <<>> /\ UNCHANGED <<requests, before, r>>
    BY <1>1 DEF Leave
  <2>4. WorldSound' /\ records' \in Seq(Record)
    BY <1>0, <2>2, <2>3, ExtPop
  <2>5. ExtTypeOK'
    BY <1>0, <1>1, <2>3, <2>4 DEF ExtTypeOK
  <2>6. Transactional' /\ Discharged'
    <3>1. \A k \in DOMAIN records' :
            records'[k].host # h /\ \E l \in DOMAIN records : records'[k] = records[l]
      BY <1>0, <2>2, ExtWithout DEF ExtTypeOK, WorldSound
    <3>. QED
      BY <1>0, <2>1, <3>1 DEF Transactional, Discharged
  <2>. QED
    BY <2>3, <2>4, <2>5, <2>6, ExtQuiet DEF ExtInv, InHand, Attaching
<1>2. CASE phase' = "abort" /\ faults' = 0 /\ UNCHANGED <<step, undo, records, given, r>>
  <2>0. UNCHANGED <<requests, before>> /\ Q' = Q
    BY <1>2 DEF given, Q
  <2>1. ExtTypeOK'
    BY <1>0, <1>2, <2>0 DEF ExtTypeOK, Attaching
  <2>2. WorldSound'
    BY <1>0, <1>2, <2>0, ExtWorldStays
  <2>3. Fresh'
    BY <1>0, <1>2 DEF Fresh
  <2>4. HandSound'
    BY <1>0, <1>2, <2>0 DEF ExtInv, HandSound, Has, InHand
  <2>5. StepSound' /\ WholeSound'
    BY <1>0, <1>2, <2>0 DEF StepSound, WholeSound, InHand
  <2>. QED
    BY <1>2, <2>1, <2>2, <2>3, <2>4, <2>5, ExtQuiet DEF ExtInv, InHand, Attaching
<1>. QED
  BY <1>1, <1>2 DEF StepFails

\* An attachment is through.
LEMMA ExtAttached == ASSUME ExtInv, Attached PROVE ExtInv'
<1>0. /\ phase = "attach" /\ step > Len(Flow)
      /\ phase' = "next" /\ r' = r + 1 /\ step' = 0 /\ undo' = <<>>
      /\ UNCHANGED <<requests, before, records, nics, objects, todo, gates, cleanups, gap,
                     stale, faults>>
      /\ ExtTypeOK /\ WorldSound /\ gap = {} /\ stale = {} /\ cleanups = 0
      /\ \A k \in DOMAIN records : "ip_assigned" \in records[k].flags \/ records[k].host = Q.host
  BY DEF Attached, given, world, ExtInv, Fresh, Attaching, WholeSound
<1>1. ExtTypeOK'
  BY <1>0 DEF ExtTypeOK, Attaching
<1>2. WorldSound'
  BY <1>0, ExtWorldStays
<1>3. Fresh'
  BY <1>0 DEF Fresh
<1>4. \A k \in DOMAIN records : "ip_assigned" \in records[k].flags
  BY <1>0, ExtHand, ExtFlow DEF InHand
<1>5. WholeSound'
  BY <1>0, <1>4 DEF WholeSound
<1>. QED
  BY <1>0, <1>1, <1>2, <1>3, <1>5, ExtQuiet DEF ExtInv, InHand, Attaching

\* All requests are attached.
LEMMA ExtAllAttached == ASSUME ExtInv, AllAttached PROVE ExtInv'
<1>0. /\ phase = "next"
      /\ phase' = "up" /\ step' = 0 /\ undo' = <<>>
      /\ UNCHANGED <<requests, before, r, records, nics, objects, todo, gates, cleanups, gap,
                     stale, faults>>
      /\ ExtTypeOK /\ WorldSound /\ cleanups = 0
      /\ \A k \in DOMAIN records : "ip_assigned" \in records[k].flags
  BY DEF AllAttached, Leave, world, ExtInv, Fresh, Attaching, WholeSound, InHand
<1>1. ExtTypeOK'
  BY <1>0 DEF ExtTypeOK
<1>2. WorldSound'
  BY <1>0, ExtWorldStays
<1>3. Transactional' /\ Discharged'
  BY <1>0 DEF Transactional, Discharged
<1>. QED
  BY <1>0, <1>1, <1>2, <1>3, ExtQuiet DEF ExtInv, InHand, Attaching

\* An interrupt leaves an attachment.
LEMMA ExtAttachInterrupted == ASSUME ExtInv, AttachInterrupted PROVE ExtInv'
<1>0. /\ phase = "attach" /\ step <= Len(Flow) /\ faults' = 1
      /\ phase' = "up" /\ step' = 0 /\ undo' = <<>>
      /\ UNCHANGED <<requests, before, r, records, todo, gates, cleanups, stale>>
      /\ ExtTypeOK /\ WorldSound /\ cleanups = 0
  BY DEF AttachInterrupted, Leave, ExtInv, Fresh, Attaching
<1>1. Transactional' /\ Discharged'
  BY <1>0 DEF Transactional, Discharged
<1>2. CASE UNCHANGED <<world, gap>>
  <2>0. UNCHANGED <<nics, objects, gap>>
    BY <1>2 DEF world
  <2>1. ExtTypeOK'
    BY <1>0, <2>0 DEF ExtTypeOK
  <2>2. WorldSound'
    BY <1>0, <2>0, ExtWorldStays
  <2>. QED
    BY <1>0, <1>1, <2>1, <2>2, ExtQuiet DEF ExtInv, InHand, Attaching
<1>3. CASE SetLink(Flag, Q.host, Q.nic) /\ gap' = gap \cup Lost(Flag)
  <2>1. PICK h \in HostNames : h = Q.host
    BY <1>0, ExtHand DEF InHand
  <2>2. PICK f \in StepNames : f = Flag
    BY <1>0, ExtFlow
  <2>3. /\ Has(h) /\ Rec(h).nic = Q.nic /\ SetLink(f, h, Rec(h).nic)
        /\ f = "phy_enslaved" => "bridge_created" \in Rec(h).flags
    BY <1>0, <1>3, <2>1, <2>2, ExtHand, ExtFlow DEF InHand
  <2>4. /\ gap \subseteq gap'
        /\ f = "bridge_created" => gap' = gap \cup {Bridge(h)}
        /\ f = "veth_created" => gap' = gap \cup {Veth(h)}
        /\ f = "phy_up_changed" => gap' = gap \cup {<<"nic", Rec(h).nic>>}
    BY <1>3, <2>1, <2>2, <2>3 DEF Lost
  <2>5. /\ WorldSound' /\ nics' \in [Nics -> Nic]
        /\ objects' \subseteq objects \cup {Bridge(h), Veth(h)}
    BY <1>0, <2>3, <2>4, ExtSetLost
  <2>6. ExtTypeOK'
    <3>1. objects' \subseteq {"bridge", "veth"} \X HostNames
      BY <1>0, <2>5 DEF ExtTypeOK, Bridge, Veth
    <3>. QED
      BY <1>0, <2>5, <3>1 DEF ExtTypeOK
  <2>. QED
    BY <1>0, <1>1, <2>5, <2>6, ExtQuiet DEF ExtInv, InHand, Attaching
<1>. QED
  BY <1>2, <1>3 DEF AttachInterrupted

\* The last of the undo steps, and what is left of them.
LEMMA ExtLast ==
  ASSUME NEW S, NEW s \in Seq(S), s # <<>>
  PROVE  /\ Front(s) \in Seq(S) /\ Last(s) \in S
         /\ \A j \in DOMAIN Front(s) : j \in DOMAIN s /\ Front(s)[j] = s[j]
         /\ \A j \in DOMAIN s : j \in DOMAIN Front(s) \/ s[j] = Last(s)
         /\ \E j \in DOMAIN s : s[j] = Last(s)
<1>1. PICK n \in Nat : n = Len(s) /\ n >= 1 /\ DOMAIN s = 1..n
  OBVIOUS
<1>2. /\ Front(s) \in Seq(S) /\ DOMAIN Front(s) = 1..(n - 1)
      /\ \A j \in 1..(n - 1) : Front(s)[j] = s[j]
  BY <1>1 DEF Front
<1>3. /\ \A j \in 1..n : j \in 1..(n - 1) \/ j = n
      /\ \A j \in 1..(n - 1) : j \in 1..n
      /\ n \in 1..n
  BY <1>1
<1>4. Last(s) = s[n] /\ s[n] \in S
  BY <1>1, <1>3 DEF Last
<1>. QED
  BY <1>1, <1>2, <1>3, <1>4

\* One step of a rollback.
LEMMA ExtRollbackStep == ASSUME ExtInv, RollbackStep PROVE ExtInv'
<1>0. /\ phase = "abort" /\ undo # <<>> /\ undo' = Front(undo) /\ phase' = phase
      /\ UNCHANGED <<requests, before, r, step, todo, gates, cleanups, gap, stale>>
      /\ ExtTypeOK /\ WorldSound /\ gap = {} /\ stale = {} /\ cleanups = 0
      /\ \A k \in DOMAIN records : "ip_assigned" \in records[k].flags \/ records[k].host = Q.host
  BY DEF RollbackStep, given, ExtInv, Fresh, Attaching, WholeSound
<1>1. PICK h \in HostNames : h = Q.host
  BY <1>0, ExtHand DEF InHand
<1>2. /\ Has(h) /\ Rec(h) \in Record /\ Rec(h).nic = Q.nic
      /\ Pos(h) \in DOMAIN records /\ Rec(h) = records[Pos(h)] /\ Rec(h).host = h
      /\ \A k \in DOMAIN records : records[k].host = h => k = Pos(h)
      /\ \A j \in DOMAIN undo : undo[j] = "phy_up_changed" => ~Rec(h).prior_up
      /\ faults = 0 =>
           \A g \in Undoable \cap Rec(h).flags : \E j \in DOMAIN undo : undo[j] = g
      /\ r <= Len(requests)
  BY <1>0, <1>1, ExtHand DEF InHand
<1>3. /\ undo' \in Seq(Undoable) /\ Last(undo) \in Undoable
      /\ \A j \in DOMAIN undo' : j \in DOMAIN undo /\ undo'[j] = undo[j]
      /\ \A j \in DOMAIN undo : j \in DOMAIN undo' \/ undo[j] = Last(undo)
      /\ \E j \in DOMAIN undo : undo[j] = Last(undo)
  <2>1. undo \in Seq(Undoable)
    BY <1>0 DEF ExtTypeOK
  <2>. QED
    BY <1>0, <2>1, ExtLast
<1>4. PICK f \in Undoable : f = Last(undo)
  BY <1>3
<1>5. f \in GateFlags /\ (f = "phy_up_changed" => ~Rec(h).prior_up)
  BY <1>2, <1>3, <1>4, ExtNames
<1>6. Q' = Q /\ Q'.host = h
  BY <1>0, <1>1 DEF Q
<1>7. Fresh' /\ StepSound'
  BY <1>0 DEF Fresh, StepSound
<1>8. CASE /\ UnsetLink(f, h, Rec(h).nic)
           /\ records' = WithFlags(h, Rec(h).flags \ Clears(f)) /\ UNCHANGED faults
  <2>1. /\ WorldSound' /\ nics' \in [Nics -> Nic] /\ records' \in Seq(Record)
        /\ objects' \subseteq objects
    BY <1>0, <1>2, <1>5, <1>8, ExtUnset
  <2>2. PICK fs \in SUBSET OutstandingFlags : fs = Rec(h).flags \ Clears(f)
    BY <1>2 DEF Record
  <2>3. WithFlagsEffect(records', h, fs)
    <3>1. records' = WithFlags(h, fs) /\ records \in Seq(Record) /\ Distinct
      BY <1>0, <1>8, <2>2 DEF ExtTypeOK, WorldSound
    <3>. QED
      BY <1>2, <3>1, ExtWithFlags
  <2>4. /\ DOMAIN records' = DOMAIN records
        /\ \A k \in DOMAIN records :
             /\ records'[k].host = records[k].host /\ records'[k].nic = records[k].nic
             /\ records'[k].prior_up = records[k].prior_up
             /\ records'[k].flags = IF records[k].host = h THEN fs ELSE records[k].flags
    BY <2>3 DEF WithFlagsEffect
  <2>5. ExtTypeOK'
    BY <1>0, <1>3, <1>8, <2>1 DEF ExtTypeOK
  <2>6. HandSound'
    <3>1. Has(Q.host)'
      BY <1>2, <1>6, <2>4 DEF Has
    <3>2. ASSUME NEW k \in DOMAIN records, records'[k].host = h
          PROVE  /\ records'[k].nic = Q'.nic
                 /\ \A j \in DOMAIN undo' : undo'[j] = "phy_up_changed" => ~records'[k].prior_up
                 /\ faults' = 0 =>
                      \A g \in Undoable \cap records'[k].flags :
                        \E j \in DOMAIN undo' : undo'[j] = g
      <4>1. /\ records[k] = Rec(h) /\ records'[k].nic = Q'.nic
            /\ records'[k].prior_up = Rec(h).prior_up /\ records'[k].flags = fs
        BY <1>2, <1>6, <2>4, <3>2
      <4>2. \A j \in DOMAIN undo' : undo'[j] = "phy_up_changed" => ~records'[k].prior_up
        BY <1>2, <1>3, <4>1
      <4>3. f \in Clears(f)
        BY DEF Clears, VethFlags
      <4>4. ASSUME faults' = 0, NEW g \in Undoable \cap records'[k].flags
            PROVE  \E j \in DOMAIN undo' : undo'[j] = g
        <5>1. g \in Rec(h).flags /\ g # f
          BY <2>2, <4>1, <4>3
        <5>2. PICK j \in DOMAIN undo : undo[j] = g
          BY <1>2, <1>8, <4>4, <5>1
        <5>. QED
          BY <1>3, <1>4, <5>1, <5>2
      <4>. QED
        BY <4>1, <4>2, <4>4
    <3>. QED
      BY <1>0, <1>2, <1>6, <2>4, <3>1, <3>2 DEF HandSound
  <2>7. WholeSound'
    BY <1>0, <1>1, <1>6, <2>4 DEF WholeSound, InHand
  <2>. QED
    BY <1>0, <1>7, <2>1, <2>5, <2>6, <2>7, ExtQuiet DEF ExtInv, InHand, Attaching
<1>9. CASE faults' = faults + 1 /\ UNCHANGED <<world, records>>
  <2>0. UNCHANGED <<nics, objects>> /\ faults \in Nat
    BY <1>0, <1>9 DEF world, ExtTypeOK
  <2>1. WorldSound'
    BY <1>0, <1>9, <2>0, ExtWorldStays
  <2>2. ExtTypeOK'
    BY <1>0, <1>3, <1>9, <2>0 DEF ExtTypeOK
  <2>3. HandSound'
    <3>1. faults' # 0
      BY <1>9, <2>0
    <3>2. Has(Q.host)'
      BY <1>2, <1>6, <1>9 DEF Has
    <3>3. \A k \in DOMAIN records : records[k].host = h =>
            records[k].nic = Q'.nic /\ records[k].prior_up = Rec(h).prior_up
      BY <1>2, <1>6
    <3>4. \A j \in DOMAIN undo' : undo'[j] = "phy_up_changed" => ~Rec(h).prior_up
      BY <1>2, <1>3
    <3>. QED
      BY <1>0, <1>2, <1>6, <1>9, <3>1, <3>2, <3>3, <3>4 DEF HandSound
  <2>4. WholeSound'
    BY <1>0, <1>1, <1>6, <1>9 DEF WholeSound, InHand
  <2>. QED
    BY <1>0, <1>7, <2>1, <2>2, <2>3, <2>4, ExtQuiet DEF ExtInv, InHand, Attaching
<1>. QED
  BY <1>1, <1>2, <1>4, <1>8, <1>9 DEF RollbackStep

\* The record is dropped or kept.
LEMMA ExtPopped ==
  ASSUME ExtTypeOK, WorldSound, NEW h, Has(h), records' = Popped(h),
         UNCHANGED <<nics, objects, before, gap, stale>>
  PROVE  /\ WorldSound' /\ records' \in Seq(Record)
         /\ \A k \in DOMAIN records' : \E l \in DOMAIN records : records'[k] = records[l]
         /\ \A l \in DOMAIN records : records[l].host # h =>
              \E k \in DOMAIN records' : records'[k] = records[l]
         /\ Rec(h).flags = {} => \A k \in DOMAIN records' : records'[k].host # h
<1>1. Rec(h) \in Record
  BY ExtPos DEF ExtTypeOK, WorldSound
<1>2. CASE Rec(h).flags = {}
  <2>1. records' = Without(h)
    BY <1>2 DEF Popped
  <2>2. WorldSound' /\ records' \in Seq(Record)
    BY <1>2, <2>1, ExtPop
  <2>3. /\ \A k \in DOMAIN records' :
             records'[k].host # h /\ \E l \in DOMAIN records : records'[k] = records[l]
        /\ \A l \in DOMAIN records :
             records[l].host # h => \E k \in DOMAIN records' : records'[k] = records[l]
    BY <2>1, ExtWithout DEF ExtTypeOK, WorldSound
  <2>. QED
    BY <2>2, <2>3
<1>3. CASE Rec(h).flags # {}
  <2>1. records' = records
    BY <1>1, <1>3 DEF Popped, Record
  <2>2. WorldSound'
    BY <2>1, ExtWorldStays
  <2>. QED
    BY <1>3, <2>1, <2>2 DEF ExtTypeOK
<1>. QED
  BY <1>2, <1>3

\* A rollback is through.
LEMMA ExtRollbackEnds == ASSUME ExtInv, RollbackEnds PROVE ExtInv'
<1>0. /\ phase = "abort" /\ undo = <<>> /\ records' = Popped(Q.host)
      /\ phase' = "up" /\ step' = 0 /\ undo' = <<>>
      /\ UNCHANGED <<requests, before, r, nics, objects, todo, gates, cleanups, gap, stale, faults>>
      /\ ExtTypeOK /\ WorldSound /\ cleanups = 0
      /\ \A k \in DOMAIN records : "ip_assigned" \in records[k].flags \/ records[k].host = Q.host
  BY DEF RollbackEnds, Leave, world, ExtInv, Fresh, Attaching, WholeSound
<1>1. PICK h \in HostNames : h = Q.host
  BY <1>0, ExtHand DEF InHand
<1>2. /\ Has(h) /\ Rec(h) \in Record /\ FlagsSound(Rec(h))
      /\ faults = 0 =>
           \A g \in Undoable \cap Rec(h).flags : \E j \in DOMAIN undo : undo[j] = g
  BY <1>0, <1>1, ExtHand DEF InHand
<1>3. records' = Popped(h)
  BY <1>0, <1>1
<1>4. /\ WorldSound' /\ records' \in Seq(Record)
      /\ \A k \in DOMAIN records' : \E l \in DOMAIN records : records'[k] = records[l]
      /\ Rec(h).flags = {} => \A k \in DOMAIN records' : records'[k].host # h
  BY <1>0, <1>2, <1>3, ExtPopped
<1>5. faults = 0 => Rec(h).flags = {}
  <2>1. DOMAIN undo = {}
    BY <1>0
  <2>2. faults = 0 => Undoable \cap Rec(h).flags = {}
    BY <1>2, <2>1
  <2>3. /\ Rec(h).flags \cap VethFlags # {} => "veth_created" \in Rec(h).flags
        /\ "bridge_up" \in Rec(h).flags => "bridge_created" \in Rec(h).flags
        /\ Rec(h).flags \subseteq OutstandingFlags
    BY <1>2 DEF FlagsSound, Record
  <2>. QED
    BY <2>2, <2>3 DEF Undoable, OutstandingFlags
<1>6. ExtTypeOK'
  BY <1>0, <1>4 DEF ExtTypeOK
<1>7. Transactional' /\ Discharged'
  BY <1>0, <1>1, <1>4, <1>5 DEF Transactional, Discharged
<1>. QED
  BY <1>0, <1>4, <1>6, <1>7, ExtQuiet DEF ExtInv, InHand, Attaching

\* An interrupt leaves a rollback.
LEMMA ExtRollbackInterrupted == ASSUME ExtInv, RollbackInterrupted PROVE ExtInv'
<1>0. /\ phase = "abort" /\ undo # <<>> /\ faults' = faults + 1
      /\ phase' = "up" /\ step' = 0 /\ undo' = <<>>
      /\ UNCHANGED <<requests, before, r, records, todo, gates, cleanups, gap>>
      /\ ExtTypeOK /\ WorldSound /\ cleanups = 0 /\ faults \in Nat
  BY DEF RollbackInterrupted, Leave, ExtInv, Fresh, Attaching, ExtTypeOK
<1>1. Transactional' /\ Discharged'
  BY <1>0 DEF Transactional, Discharged
<1>2. CASE UNCHANGED <<world, stale>>
  <2>0. UNCHANGED <<nics, objects, stale>>
    BY <1>2 DEF world
  <2>1. ExtTypeOK'
    BY <1>0, <2>0 DEF ExtTypeOK
  <2>2. WorldSound'
    BY <1>0, <2>0, ExtWorldStays
  <2>. QED
    BY <1>0, <1>1, <2>1, <2>2, ExtQuiet DEF ExtInv, InHand, Attaching
<1>3. CASE /\ UnsetLink(Last(undo), Q.host, Q.nic)
           /\ stale' = IF Last(undo) \in {"bridge_created", "veth_created"}
                         THEN stale \cup {Q.host} ELSE stale
  <2>1. PICK h \in HostNames : h = Q.host
    BY <1>0, ExtHand DEF InHand
  <2>2. /\ Has(h) /\ Rec(h).nic = Q.nic
        /\ \A j \in DOMAIN undo : undo[j] = "phy_up_changed" => ~Rec(h).prior_up
    BY <1>0, <2>1, ExtHand DEF InHand
  <2>3. Last(undo) \in Undoable /\ \E j \in DOMAIN undo : undo[j] = Last(undo)
    <3>1. undo \in Seq(Undoable)
      BY <1>0 DEF ExtTypeOK
    <3>. QED
      BY <1>0, <3>1, ExtLast
  <2>4. PICK f \in Undoable : f = Last(undo)
    BY <2>3
  <2>5. f \in GateFlags /\ (f = "phy_up_changed" => ~Rec(h).prior_up)
    BY <2>2, <2>3, <2>4, ExtNames
  <2>6. /\ UnsetLink(f, h, Rec(h).nic)
        /\ stale' = IF f \in {"bridge_created", "veth_created"} THEN stale \cup {h} ELSE stale
    BY <1>3, <2>1, <2>2, <2>4
  <2>7. WorldSound' /\ nics' \in [Nics -> Nic] /\ objects' \subseteq objects
    BY <1>0, <2>2, <2>5, <2>6, ExtUnsetStale
  <2>8. ExtTypeOK'
    BY <1>0, <2>6, <2>7 DEF ExtTypeOK
  <2>. QED
    BY <1>0, <1>1, <2>7, <2>8, ExtQuiet DEF ExtInv, InHand, Attaching
<1>. QED
  BY <1>2, <1>3 DEF RollbackInterrupted

\* The head of a sequence and its tail.
LEMMA ExtTail ==
  ASSUME NEW S, NEW s \in Seq(S), s # <<>>
  PROVE  /\ Tail(s) \in Seq(S) /\ Head(s) = s[1] /\ s[1] \in S /\ 1 \in DOMAIN s
         /\ \A j \in DOMAIN Tail(s) : j + 1 \in DOMAIN s /\ Tail(s)[j] = s[j + 1] /\ j \in Nat
         /\ \A j \in DOMAIN s : j = 1 \/ \E l \in DOMAIN Tail(s) : Tail(s)[l] = s[j]
<1>1. PICK n \in Nat : n = Len(s) /\ n >= 1 /\ DOMAIN s = 1..n
  OBVIOUS
<1>2. /\ Tail(s) \in Seq(S) /\ DOMAIN Tail(s) = 1..(n - 1)
      /\ \A j \in 1..(n - 1) : Tail(s)[j] = s[j + 1]
      /\ Head(s) = s[1]
  BY <1>1
<1>3. /\ \A j \in 1..(n - 1) : j + 1 \in 1..n /\ j \in Nat
      /\ \A j \in 1..n : j = 1 \/ (j - 1 \in 1..(n - 1) /\ (j - 1) + 1 = j)
      /\ 1 \in 1..n
  BY <1>1
<1>4. s[1] \in S
  BY <1>1, <1>3
<1>5. \A j \in 1..n : j = 1 \/ \E l \in 1..(n - 1) : Tail(s)[l] = s[j]
  <2>. SUFFICES ASSUME NEW j \in 1..n, j # 1 PROVE \E l \in 1..(n - 1) : Tail(s)[l] = s[j]
    OBVIOUS
  <2>1. j - 1 \in 1..(n - 1) /\ (j - 1) + 1 = j
    BY <1>3
  <2>2. Tail(s)[j - 1] = s[j]
    BY <1>2, <2>1
  <2>. QED
    BY <2>1, <2>2
<1>. QED
  BY <1>1, <1>2, <1>3, <1>4, <1>5

\* The gates are all there.
LEMMA ExtGates ==
  Gates \in Seq(GateFlags) /\ \A f \in GateFlags : \E j \in DOMAIN Gates : Gates[j] = f
<1>1. Gates \in Seq(GateFlags) /\ DOMAIN Gates = 1..5
  BY DEF Gates, GateFlags
<1>2. /\ Gates[1] = "veth_created" /\ Gates[2] = "phy_enslaved" /\ Gates[3] = "phy_up_changed"
      /\ Gates[4] = "bridge_up" /\ Gates[5] = "bridge_created"
  BY DEF Gates
<1>. QED
  BY <1>1, <1>2 DEF GateFlags

\* A cleanup begins.
LEMMA ExtBeginCleanup == ASSUME ExtInv, BeginCleanup PROVE ExtInv'
<1>0. /\ phase = "up" /\ phase' = "clean" /\ cleanups' = cleanups + 1 /\ faults' = 0
      /\ todo' = [k \in DOMAIN records |-> records[k].host] /\ gates' = Gates
      /\ UNCHANGED <<requests, before, r, step, undo, records, nics, objects, gap, stale>>
      /\ ExtTypeOK /\ WorldSound /\ cleanups \in Nat
  BY DEF BeginCleanup, given, world, ExtInv, ExtTypeOK
<1>1. DOMAIN todo' = DOMAIN records /\ \A k \in DOMAIN records : todo'[k] = records[k].host
  BY <1>0
<1>2. todo' \in Seq(HostNames)
  <2>1. records \in Seq(Record) /\ DOMAIN records = 1..Len(records) /\ Len(records) \in Nat
    BY <1>0 DEF ExtTypeOK
  <2>2. \A k \in DOMAIN records : records[k] \in Record
    BY <2>1
  <2>3. \A k \in DOMAIN records : records[k].host \in HostNames
    BY <2>2 DEF Record
  <2>. QED
    BY <1>0, <2>1, <2>3
<1>3. ExtTypeOK'
  BY <1>0, <1>2, ExtGates DEF ExtTypeOK
<1>4. WorldSound'
  BY <1>0, ExtWorldStays
<1>5. Fresh'
  BY <1>0 DEF Fresh, Attaching
<1>6. CleanSound'
  <2>1. \A j, l \in DOMAIN todo' : todo'[j] = todo'[l] => j = l
    BY <1>0, <1>1 DEF WorldSound, Distinct
  <2>2. (\A j \in DOMAIN todo : Has(todo[j]))'
    BY <1>0, <1>1 DEF Has
  <2>3. \A k \in DOMAIN records' : \E j \in DOMAIN todo' : todo'[j] = records'[k].host
    BY <1>0, <1>1
  <2>4. \A f \in GateFlags : \E j \in DOMAIN gates' : gates'[j] = f
    BY <1>0, ExtGates
  <2>. QED
    BY <2>1, <2>2, <2>3, <2>4 DEF CleanSound
<1>. QED
  BY <1>0, <1>3, <1>4, <1>5, <1>6, ExtQuiet DEF ExtInv, InHand, Attaching

\* The record that cleanup is at.
LEMMA ExtTarget ==
  ASSUME ExtInv, phase = "clean", todo # <<>>
  PROVE  \E h \in HostNames :
           /\ h = Head(todo) /\ h = todo[1] /\ Has(h) /\ Target = Rec(h) /\ Rec(h) \in Record
           /\ Pos(h) \in DOMAIN records /\ Rec(h) = records[Pos(h)] /\ Rec(h).host = h
           /\ \A k \in DOMAIN records : records[k].host = h => k = Pos(h)
           /\ FlagsSound(Rec(h))
<1>1. todo \in Seq(HostNames) /\ records \in Seq(Record) /\ Distinct
  BY DEF ExtInv, ExtTypeOK, WorldSound
<1>2. Head(todo) = todo[1] /\ todo[1] \in HostNames /\ 1 \in DOMAIN todo
  BY <1>1, ExtTail
<1>3. PICK h \in HostNames : h = todo[1]
  BY <1>2
<1>4. Has(h)
  BY <1>2, <1>3 DEF ExtInv, CleanSound
<1>5. /\ Pos(h) \in DOMAIN records /\ Rec(h) = records[Pos(h)] /\ Rec(h).host = h
      /\ Rec(h) \in Record
      /\ \A k \in DOMAIN records : records[k].host = h => k = Pos(h)
  BY <1>1, <1>4, ExtPos
<1>6. FlagsSound(Rec(h))
  BY <1>5 DEF ExtInv, WorldSound, RecordsSound
<1>7. Target = Rec(h)
  BY <1>2, <1>3 DEF Target
<1>. QED
  BY <1>2, <1>3, <1>4, <1>5, <1>6, <1>7

\* One gate of a cleanup.
LEMMA ExtCleanStep == ASSUME ExtInv, CleanStep PROVE ExtInv'
<1>0. /\ phase = "clean" /\ todo # <<>> /\ gates # <<>> /\ gates' = Tail(gates)
      /\ phase' = phase
      /\ UNCHANGED <<requests, before, r, step, undo, todo, cleanups, gap, stale>>
      /\ ExtTypeOK /\ WorldSound /\ cleanups > 0 /\ faults \in Nat
  BY DEF CleanStep, given, ExtInv, ExtTypeOK, Fresh
<1>1. PICK h \in HostNames :
        /\ h = Head(todo) /\ h = todo[1] /\ Has(h) /\ Target = Rec(h) /\ Rec(h) \in Record
        /\ Pos(h) \in DOMAIN records /\ Rec(h) = records[Pos(h)] /\ Rec(h).host = h
        /\ \A k \in DOMAIN records : records[k].host = h => k = Pos(h)
        /\ FlagsSound(Rec(h))
  BY <1>0, ExtTarget
<1>2. /\ Head(gates) = gates[1] /\ gates[1] \in GateFlags /\ gates' \in Seq(GateFlags)
      /\ \A j \in DOMAIN gates : j = 1 \/ \E l \in DOMAIN gates' : gates'[l] = gates[j]
  <2>1. gates \in Seq(GateFlags)
    BY <1>0 DEF ExtTypeOK
  <2>. QED
    BY <1>0, <2>1, ExtTail
<1>3. PICK f \in GateFlags : f = Head(gates)
  BY <1>2
<1>4. \A g \in GateFlags : g # f /\ (\E j \in DOMAIN gates : gates[j] = g) =>
        \E j \in DOMAIN gates' : gates'[j] = g
  BY <1>2, <1>3
<1>5. Fresh'
  BY <1>0 DEF Fresh, Attaching
<1>6. /\ \A j, l \in DOMAIN todo : todo[j] = todo[l] => j = l
      /\ \A j \in DOMAIN todo : Has(todo[j])
      /\ faults = 0 =>
           \A k \in DOMAIN records :
             \/ records[k].host \in stale
             \/ /\ \E j \in DOMAIN todo : todo[j] = records[k].host
                /\ records[k].host = h =>
                     \A g \in GateFlags \cap records[k].flags :
                       \E j \in DOMAIN gates : gates[j] = g
  BY <1>0, <1>1 DEF ExtInv, CleanSound
<1>7. CASE f \notin Rec(h).flags /\ UNCHANGED <<world, records, faults>>
  <2>0. UNCHANGED <<nics, objects>>
    BY <1>7 DEF world
  <2>1. ExtTypeOK'
    BY <1>0, <1>2, <1>7, <2>0 DEF ExtTypeOK
  <2>2. WorldSound'
    BY <1>0, <1>7, <2>0, ExtWorldStays
  <2>3. \A k \in DOMAIN records : records[k].host = h => f \notin records[k].flags
    BY <1>1, <1>7
  <2>4. CleanSound'
    BY <1>0, <1>1, <1>4, <1>6, <1>7, <2>3 DEF CleanSound, Has
  <2>. QED
    BY <1>0, <1>5, <2>1, <2>2, <2>4, ExtQuiet DEF ExtInv, InHand, Attaching
<1>8. CASE /\ f \in Rec(h).flags /\ UnsetLink(f, h, Rec(h).nic)
           /\ records' = WithFlags(h, Rec(h).flags \ Clears(f)) /\ UNCHANGED faults
  <2>0. f = "phy_up_changed" => ~Rec(h).prior_up
    BY <1>1, <1>8 DEF FlagsSound
  <2>1. /\ WorldSound' /\ nics' \in [Nics -> Nic] /\ records' \in Seq(Record)
        /\ objects' \subseteq objects
    BY <1>0, <1>1, <1>8, <2>0, ExtUnset
  <2>2. PICK fs \in SUBSET OutstandingFlags : fs = Rec(h).flags \ Clears(f)
    BY <1>1 DEF Record
  <2>3. WithFlagsEffect(records', h, fs)
    <3>1. records' = WithFlags(h, fs) /\ records \in Seq(Record) /\ Distinct
      BY <1>0, <1>8, <2>2 DEF ExtTypeOK, WorldSound
    <3>. QED
      BY <1>1, <3>1, ExtWithFlags
  <2>4. /\ DOMAIN records' = DOMAIN records
        /\ \A k \in DOMAIN records :
             /\ records'[k].host = records[k].host
             /\ records'[k].flags = IF records[k].host = h THEN fs ELSE records[k].flags
    BY <2>3 DEF WithFlagsEffect
  <2>5. ExtTypeOK'
    BY <1>0, <1>2, <1>8, <2>1 DEF ExtTypeOK
  <2>6. f \notin fs /\ fs \subseteq Rec(h).flags
    BY <2>2 DEF Clears, VethFlags
  <2>7. \A k \in DOMAIN records : records[k].host = h => records[k].flags = Rec(h).flags
    BY <1>1
  <2>8. (\A j \in DOMAIN todo : Has(todo[j]))'
    BY <1>0, <1>6, <2>4 DEF Has
  <2>9. ASSUME faults = 0, NEW k \in DOMAIN records
        PROVE  \/ records'[k].host \in stale
               \/ /\ \E j \in DOMAIN todo : todo[j] = records'[k].host
                  /\ records'[k].host = h =>
                       \A g \in GateFlags \cap records'[k].flags :
                         \E j \in DOMAIN gates' : gates'[j] = g
    BY <1>4, <1>6, <2>4, <2>6, <2>7, <2>9
  <2>10. CleanSound'
    BY ZenonT(40), <1>0, <1>1, <1>6, <1>8, <2>4, <2>8, <2>9 DEF CleanSound
  <2>. QED
    BY <1>0, <1>5, <2>1, <2>5, <2>10, ExtQuiet DEF ExtInv, InHand, Attaching
<1>9. CASE /\ f \in Rec(h).flags
           /\ faults' = IF CanUnset(f, h) THEN faults + 1 ELSE faults
           /\ UNCHANGED <<world, records>>
  <2>0. UNCHANGED <<nics, objects>>
    BY <1>9 DEF world
  <2>1. ExtTypeOK'
    BY <1>0, <1>2, <1>9, <2>0 DEF ExtTypeOK
  <2>2. WorldSound'
    BY <1>0, <1>9, <2>0, ExtWorldStays
  <2>3. faults' = 0 => faults = 0 /\ ~CanUnset(f, h)
    BY <1>0, <1>9
  <2>4. ~CanUnset(f, h) => h \in stale
    BY <1>1, <1>9 DEF CanUnset, FlagsSound
  <2>5. CleanSound'
    BY <1>0, <1>1, <1>6, <1>9, <2>3, <2>4 DEF CleanSound, Has
  <2>. QED
    BY <1>0, <1>5, <2>1, <2>2, <2>5, ExtQuiet DEF ExtInv, InHand, Attaching
<1>. QED
  BY <1>1, <1>3, <1>7, <1>8, <1>9 DEF CleanStep

\* The next record of a cleanup.
LEMMA ExtCleanNext == ASSUME ExtInv, CleanNext PROVE ExtInv'
<1>0. /\ phase = "clean" /\ todo # <<>> /\ gates = <<>> /\ phase' = phase
      /\ records' = Popped(Head(todo)) /\ todo' = Tail(todo) /\ gates' = Gates
      /\ UNCHANGED <<requests, before, r, step, undo, nics, objects, cleanups, gap, stale, faults>>
      /\ ExtTypeOK /\ WorldSound /\ cleanups > 0
  BY DEF CleanNext, given, world, ExtInv, Fresh
<1>1. PICK h \in HostNames :
        /\ h = Head(todo) /\ h = todo[1] /\ Has(h) /\ Target = Rec(h) /\ Rec(h) \in Record
        /\ Pos(h) \in DOMAIN records /\ Rec(h) = records[Pos(h)] /\ Rec(h).host = h
        /\ \A k \in DOMAIN records : records[k].host = h => k = Pos(h)
        /\ FlagsSound(Rec(h))
  BY <1>0, ExtTarget
<1>2. records' = Popped(h)
  BY <1>0, <1>1
<1>3. /\ WorldSound' /\ records' \in Seq(Record)
      /\ \A k \in DOMAIN records' : \E l \in DOMAIN records : records'[k] = records[l]
      /\ \A l \in DOMAIN records : records[l].host # h =>
           \E k \in DOMAIN records' : records'[k] = records[l]
      /\ Rec(h).flags = {} => \A k \in DOMAIN records' : records'[k].host # h
  BY <1>0, <1>1, <1>2, ExtPopped
<1>4. /\ todo' \in Seq(HostNames) /\ 1 \in DOMAIN todo
      /\ \A j \in DOMAIN todo' : j + 1 \in DOMAIN todo /\ todo'[j] = todo[j + 1] /\ j \in Nat
      /\ \A j \in DOMAIN todo : j = 1 \/ \E l \in DOMAIN todo' : todo'[l] = todo[j]
  <2>1. todo \in Seq(HostNames)
    BY <1>0 DEF ExtTypeOK
  <2>. QED
    BY <1>0, <2>1, ExtTail
<1>5. /\ \A j, l \in DOMAIN todo : todo[j] = todo[l] => j = l
      /\ \A j \in DOMAIN todo : Has(todo[j])
      /\ faults = 0 =>
           \A k \in DOMAIN records :
             \/ records[k].host \in stale
             \/ /\ \E j \in DOMAIN todo : todo[j] = records[k].host
                /\ records[k].host = h =>
                     \A g \in GateFlags \cap records[k].flags :
                       \E j \in DOMAIN gates : gates[j] = g
  BY <1>0, <1>1 DEF ExtInv, CleanSound
<1>6. ExtTypeOK'
  BY <1>0, <1>3, <1>4, ExtGates DEF ExtTypeOK
<1>7. Fresh'
  BY <1>0 DEF Fresh, Attaching
<1>8. CleanSound'
  <2>1. \A j, l \in DOMAIN todo' : todo'[j] = todo'[l] => j = l
    <3>. SUFFICES ASSUME NEW j \in DOMAIN todo', NEW l \in DOMAIN todo', todo'[j] = todo'[l]
                  PROVE  j = l
      OBVIOUS
    <3>1. j + 1 = l + 1 /\ j \in Nat /\ l \in Nat
      BY <1>4, <1>5
    <3>. QED
      BY <3>1
  <2>2. \A j \in DOMAIN todo' : todo'[j] # h
    <3>. SUFFICES ASSUME NEW j \in DOMAIN todo', todo'[j] = h PROVE FALSE
      OBVIOUS
    <3>1. j + 1 = 1 /\ j \in Nat
      BY <1>1, <1>4, <1>5
    <3>2. j \in 1..Len(todo')
      BY <1>4
    <3>. QED
      BY <3>1, <3>2
  <2>3. (\A j \in DOMAIN todo : Has(todo[j]))'
    <3>1. ASSUME NEW j \in DOMAIN todo'
          PROVE  \E k \in DOMAIN records' : records'[k].host = todo'[j]
      <4>1. PICK l \in DOMAIN records : records[l].host = todo'[j]
        BY <1>4, <1>5 DEF Has
      <4>. QED
        BY <1>3, <2>2, <4>1
    <3>. QED
      BY <3>1 DEF Has
  <2>4. faults = 0 => h \in stale \/ Rec(h).flags = {}
    <3>1. DOMAIN gates = {}
      BY <1>0
    <3>2. faults = 0 => h \in stale \/ GateFlags \cap Rec(h).flags = {}
      BY <1>1, <1>5, <3>1
    <3>3. /\ Rec(h).flags \cap VethFlags # {} => "veth_created" \in Rec(h).flags
          /\ Rec(h).flags \subseteq OutstandingFlags
      BY <1>1 DEF FlagsSound, Record
    <3>. QED
      BY <3>2, <3>3, ExtNames
  <2>5. ASSUME faults' = 0, NEW k \in DOMAIN records'
        PROVE  records'[k].host \in stale \/ \E j \in DOMAIN todo' : todo'[j] = records'[k].host
    <3>1. PICK l \in DOMAIN records : records'[k] = records[l]
      BY <1>3
    <3>2. faults = 0
      BY <1>0, <2>5
    <3>3. CASE records'[k].host = h
      BY <1>3, <2>4, <3>2, <3>3
    <3>4. CASE records'[k].host # h
      <4>1. records[l].host \in stale \/ \E j \in DOMAIN todo : todo[j] = records[l].host
        BY <1>5, <3>2
      <4>. QED
        BY <1>1, <1>4, <3>1, <3>4, <4>1
    <3>. QED
      BY <3>3, <3>4
  <2>6. \A f \in GateFlags : \E j \in DOMAIN gates' : gates'[j] = f
    BY <1>0, ExtGates
  <2>. QED
    BY <1>0, <2>1, <2>3, <2>5, <2>6 DEF CleanSound
<1>. QED
  BY <1>0, <1>3, <1>6, <1>7, <1>8, ExtQuiet DEF ExtInv, InHand, Attaching

\* A cleanup is through.
LEMMA ExtCleanEnds == ASSUME ExtInv, CleanEnds PROVE ExtInv'
<1>0. /\ phase = "clean" /\ todo = <<>> /\ phase' = "up" /\ gates' = <<>>
      /\ UNCHANGED <<requests, before, r, step, undo, records, nics, objects, todo, cleanups,
                     gap, stale, faults>>
      /\ ExtTypeOK /\ WorldSound /\ cleanups > 0 /\ cleanups \in Nat
  BY DEF CleanEnds, given, world, ExtInv, Fresh, ExtTypeOK
<1>1. ExtTypeOK'
  BY <1>0 DEF ExtTypeOK
<1>2. WorldSound'
  BY <1>0, ExtWorldStays
<1>3. Transactional'
  BY <1>0 DEF Transactional
<1>4. Discharged'
  <2>1. DOMAIN todo = {}
    BY <1>0
  <2>. QED
    BY <1>0, <2>1 DEF ExtInv, CleanSound, Discharged
<1>. QED
  BY <1>0, <1>1, <1>2, <1>3, <1>4, ExtQuiet DEF ExtInv, InHand, Attaching

\* An interrupt leaves a cleanup.
LEMMA ExtCleanInterrupted == ASSUME ExtInv, CleanInterrupted PROVE ExtInv'
<1>0. /\ phase = "clean" /\ todo # <<>> /\ gates # <<>>
      /\ phase' = "up" /\ todo' = <<>> /\ gates' = <<>> /\ faults' = faults + 1
      /\ UNCHANGED <<requests, before, r, step, undo, records, cleanups, gap>>
      /\ ExtTypeOK /\ WorldSound /\ faults \in Nat
  BY DEF CleanInterrupted, given, ExtInv, ExtTypeOK
<1>1. Transactional' /\ Discharged'
  BY <1>0 DEF Transactional, Discharged
<1>2. PICK h \in HostNames :
        /\ h = Head(todo) /\ h = todo[1] /\ Has(h) /\ Target = Rec(h) /\ Rec(h) \in Record
        /\ Pos(h) \in DOMAIN records /\ Rec(h) = records[Pos(h)] /\ Rec(h).host = h
        /\ \A k \in DOMAIN records : records[k].host = h => k = Pos(h)
        /\ FlagsSound(Rec(h))
  BY <1>0, ExtTarget
<1>3. PICK f \in GateFlags : f = Head(gates)
  <2>1. gates \in Seq(GateFlags)
    BY <1>0 DEF ExtTypeOK
  <2>. QED
    BY <1>0, <2>1, ExtTail
<1>4. CASE UNCHANGED <<world, stale>>
  <2>0. UNCHANGED <<nics, objects, stale>>
    BY <1>4 DEF world
  <2>1. ExtTypeOK'
    BY <1>0, <2>0 DEF ExtTypeOK
  <2>2. WorldSound'
    BY <1>0, <2>0, ExtWorldStays
  <2>. QED
    BY <1>0, <1>1, <2>1, <2>2, ExtQuiet DEF ExtInv, InHand, Attaching
<1>5. CASE /\ f \in Rec(h).flags /\ UnsetLink(f, h, Rec(h).nic)
           /\ stale' = IF f \in {"bridge_created", "veth_created"} THEN stale \cup {h} ELSE stale
  <2>1. f = "phy_up_changed" => ~Rec(h).prior_up
    BY <1>2, <1>5 DEF FlagsSound
  <2>2. WorldSound' /\ nics' \in [Nics -> Nic] /\ objects' \subseteq objects
    BY <1>0, <1>2, <1>5, <2>1, ExtUnsetStale
  <2>3. ExtTypeOK'
    BY <1>0, <1>5, <2>2 DEF ExtTypeOK
  <2>. QED
    BY <1>0, <1>1, <2>2, <2>3, ExtQuiet DEF ExtInv, InHand, Attaching
<1>. QED
  BY <1>2, <1>3, <1>4, <1>5 DEF CleanInterrupted

\* The initial states satisfy the invariant.
LEMMA ExtInitInv == ExtInit => ExtInv
<1>. SUFFICES ASSUME ExtInit PROVE ExtInv
  OBVIOUS
<1>0. /\ requests \in Requests /\ r = 1 /\ phase = "next" /\ step = 0 /\ undo = <<>>
      /\ records = <<>> /\ objects = {} /\ todo = <<>> /\ gates = <<>>
      /\ nics \in [Nics -> [up : BOOLEAN, master : {"none", Foreign}, addressed : BOOLEAN]]
      /\ cleanups = 0 /\ before = nics /\ gap = {} /\ stale = {} /\ faults = 0
  BY DEF ExtInit
<1>1. DOMAIN records = {} /\ records \in Seq(Record)
  BY <1>0
<1>2. nics \in [Nics -> Nic]
  BY <1>0 DEF Nic
<1>3. ExtTypeOK
  BY <1>0, <1>1, <1>2 DEF ExtTypeOK, Attaching
<1>4. \A n \in Nics : nics[n].master \in {"none", Foreign}
  BY <1>0
<1>5. WorldSound
  BY <1>0, <1>1, <1>4 DEF WorldSound, Distinct, RecordsSound, NicsSound, ObjectsSound
<1>6. Fresh /\ HandSound /\ StepSound /\ WholeSound /\ CleanSound /\ Transactional /\ Discharged
  BY <1>0, <1>1 DEF Fresh, HandSound, StepSound, WholeSound, CleanSound, Transactional,
                    Discharged, InHand
<1>. QED
  BY <1>3, <1>5, <1>6 DEF ExtInv

\* Nothing changes.
LEMMA ExtStutter == ASSUME ExtInv, UNCHANGED extVars PROVE ExtInv'
<1>0. /\ UNCHANGED <<requests, before, r, phase, step, undo, records, nics, objects, todo, gates,
                     cleanups, gap, stale, faults>>
      /\ ExtTypeOK /\ WorldSound
  BY DEF extVars, given, world, ExtInv
<1>1. ExtTypeOK'
  BY <1>0 DEF ExtTypeOK
<1>2. WorldSound'
  BY <1>0, ExtWorldStays
<1>3. Fresh' /\ HandSound' /\ StepSound'
  BY <1>0 DEF ExtInv, Fresh, HandSound, StepSound, Has, Q, Steps, If
<1>4. WholeSound' /\ CleanSound'
  BY <1>0 DEF ExtInv, WholeSound, CleanSound, Has, Q
<1>5. Transactional' /\ Discharged'
  BY <1>0 DEF ExtInv, Transactional, Discharged
<1>. QED
  BY <1>1, <1>2, <1>3, <1>4, <1>5 DEF ExtInv

\* The records of external bridges are sound in every reachable state, whatever
\* is asked for, whichever command fails and wherever an interrupt arrives.
THEOREM ExternalInvariant == ExtSpec => []ExtInv
<1>1. ExtInv /\ [ExtNext]_extVars => ExtInv'
  <2>. SUFFICES ASSUME ExtInv, [ExtNext]_extVars PROVE ExtInv'
    OBVIOUS
  <2>1. CASE BeginAttach
    BY <2>1, ExtBeginAttach
  <2>2. CASE StepSucceeds
    BY <2>2, ExtStepSucceeds
  <2>3. CASE StepFails
    BY <2>3, ExtStepFails
  <2>4. CASE Attached
    BY <2>4, ExtAttached
  <2>5. CASE AllAttached
    BY <2>5, ExtAllAttached
  <2>6. CASE AttachInterrupted
    BY <2>6, ExtAttachInterrupted
  <2>7. CASE RollbackStep
    BY <2>7, ExtRollbackStep
  <2>8. CASE RollbackEnds
    BY <2>8, ExtRollbackEnds
  <2>9. CASE RollbackInterrupted
    BY <2>9, ExtRollbackInterrupted
  <2>10. CASE BeginCleanup
    BY <2>10, ExtBeginCleanup
  <2>11. CASE CleanStep
    BY <2>11, ExtCleanStep
  <2>12. CASE CleanNext
    BY <2>12, ExtCleanNext
  <2>13. CASE CleanEnds
    BY <2>13, ExtCleanEnds
  <2>14. CASE CleanInterrupted
    BY <2>14, ExtCleanInterrupted
  <2>15. CASE UNCHANGED extVars
    BY <2>15, ExtStutter
  <2>. QED
    BY <2>1, <2>2, <2>3, <2>4, <2>5, <2>6, <2>7, <2>8, <2>9, <2>10, <2>11, <2>12, <2>13,
       <2>14, <2>15 DEF ExtNext
<1>. QED
  BY <1>1, ExtInitInv, PTL DEF ExtSpec

\* Restored: what rollbacks and cleanups leave of an operator's machine is what a
\* record names; everything else is as it was, but for what an interrupt cut off
\* between a command and its flag.
THEOREM ExternalRestored == ExtSpec => []Restored
<1>1. ExtInv => Restored
  <2>. SUFFICES ASSUME ExtInv
                PROVE  /\ \A n \in Nics :
                            \/ nics[n] = before[n]
                            \/ <<"nic", n>> \in gap
                            \/ \E k \in DOMAIN records : records[k].nic = n
                       /\ \A o \in objects : o \in gap \/ Has(o[2])
    BY DEF Restored
  <2>1. ASSUME NEW n \in Nics
        PROVE  \/ nics[n] = before[n]
               \/ <<"nic", n>> \in gap
               \/ \E k \in DOMAIN records : records[k].nic = n
    <3>1. nics[n] \in Nic /\ before[n] \in Nic
      BY DEF ExtInv, ExtTypeOK
    <3>2. /\ nics[n].addressed = before[n].addressed
          /\ \/ \E k \in DOMAIN records : records[k].nic = n
             \/ /\ nics[n].master = before[n].master
                /\ nics[n].up = before[n].up \/ <<"nic", n>> \in gap
      BY DEF ExtInv, WorldSound, NicsSound
    <3>3. \A a, b \in Nic :
            a.up = b.up /\ a.master = b.master /\ a.addressed = b.addressed => a = b
      BY DEF Nic
    <3>. QED
      BY <3>1, <3>2, <3>3
  <2>2. ASSUME NEW o \in objects, o \notin gap PROVE Has(o[2])
    <3>1. PICK k \in DOMAIN records : Flagged(o, records[k])
      BY <2>2 DEF ExtInv, WorldSound, ObjectsSound
    <3>2. o[2] = records[k].host
      BY <3>1, ExtObjectNames DEF Flagged
    <3>. QED
      BY <3>2 DEF Has
  <2>. QED
    BY <2>1, <2>2
<1>. QED
  BY <1>1, ExternalInvariant, PTL

\* NothingLeft: before cleanup, a record that is there although no undo command
\* failed and no interrupt came belongs to an attachment that went through; and a
\* cleanup in which nothing failed leaves no record but those that an interrupt
\* made stale, whatever earlier rollbacks and cleanups left behind.
THEOREM ExternalNothingLeft == ExtSpec => []NothingLeft
<1>1. ExtInv => NothingLeft
  BY DEF ExtInv, NothingLeft
<1>. QED
  BY <1>1, ExternalInvariant, PTL

\* Untouched: an interface that was in somebody's use is as it was in every state,
\* in the middle of attachments, rollbacks and cleanups too.
THEOREM ExternalUntouched == ExtSpec => []Untouched
<1>1. ExtInv => Untouched
  <2>. SUFFICES ASSUME ExtInv, NEW n \in Nics, Taken(n) PROVE nics[n] = before[n]
    BY DEF Untouched
  <2>1. nics[n] \in Nic /\ before[n] \in Nic
    BY DEF ExtInv, ExtTypeOK
  <2>2. /\ nics[n].addressed = before[n].addressed
        /\ nics[n].master = before[n].master /\ nics[n].up = before[n].up
    BY DEF ExtInv, WorldSound, NicsSound
  <2>3. \A a, b \in Nic :
          a.up = b.up /\ a.master = b.master /\ a.addressed = b.addressed => a = b
    BY DEF Nic
  <2>. QED
    BY <2>1, <2>2, <2>3
<1>. QED
  BY <1>1, ExternalInvariant, PTL
=============================================================================
