------------------------- MODULE ScenarioLifecycle -------------------------
(***************************************************************************)
(* BaseScenario.execute (src/src/scenarios/base.py) for a mesh scenario:   *)
(* the node directories are provisioned, the network is built and started, *)
(* the Cefore daemons are started (DaemonFleet), the experiment runs, and  *)
(* staged cleanup undoes all of it whatever has raised before.             *)
(*                                                                         *)
(* Any stage may raise an error, SystemExit or KeyboardInterrupt.  The     *)
(* process may also be killed; the next run finds the directories it left. *)
(* What runs inside the experiment is modelled in HostApps,                *)
(* EventScheduler, ContentRunner and HostFlap.                             *)
(***************************************************************************)
EXTENDS Naturals, FiniteSets

CONSTANTS
  HostCount,   \* args.hosts
  CacheNodes,  \* what cache_strategy.place returns
  Policy,      \* readiness_policy
  Runs         \* bound: executions one after another

Hosts == 0..(HostCount - 1)

ASSUME LifecycleAssumption ==
  /\ HostCount \in Nat
  /\ CacheNodes \subseteq Hosts
  /\ Policy \in {"warn", "raise"}
  /\ Runs \in Nat

VARIABLES
  pc, i,       \* the main thread, and the host at which a loop is
  dirs,        \* the directory hN of each host; "made" has the stamp file,
               \* "foreign" was there before the emulator first ran
  created,     \* provision_node_dirs.generated
  generated,   \* self.generated_node_dirs
  net,         \* the Mininet object
  csmgrd,      \* hosts on which csmgrd runs
  cefnetd,     \* hosts on which cefnetd runs
  started,     \* started_csmgrd of the fleet that setup_scenario has built
  kept,        \* self.daemon_fleet is that fleet
  bridge,      \* what setup has left on the machine: state whose undo is
               \* mandatory, routes and flows, bridges to external interfaces
  external,    \* TeardownSpec.cleanup_external_bridges (disaster only)
  primary,     \* primary_exc
  failures,    \* cleanup_failures, by the kind of stage and the host
  outcome,     \* what execute() raises
  run,         \* history: executions begun
  skipped,     \* history: hosts on which a pkill was skipped
  deaf,        \* history: stop commands that returned but stopped nothing
  torn         \* history: this run may have left directories it was making

daemonVars == <<csmgrd, cefnetd, started, kept, bridge, external>>
dirVars == <<dirs, created, generated>>
endVars == <<primary, failures, outcome>>
histVars == <<run, skipped, deaf, torn>>
vars == <<pc, i, dirVars, net, daemonVars, endVars, histVars>>

Init ==
  /\ pc = "provision" /\ i = 0
  /\ dirs \in [Hosts -> {"none", "foreign"}]
  /\ created = {} /\ generated = {}
  /\ net = "none"
  /\ csmgrd = {} /\ cefnetd = {} /\ started = {} /\ kept = FALSE
  /\ bridge = {} /\ external \in BOOLEAN
  /\ primary = "none" /\ failures = {} /\ outcome = "running"
  /\ run = 1 /\ skipped = {} /\ deaf = {} /\ torn = FALSE

-----------------------------------------------------------------------------
\* The try block of execute().

Raisable == {"error", "exit", "interrupt"}

\* An exception leaves the try block; KeyboardInterrupt is not kept.
Raised ==
  /\ \E e \in Raisable : primary' = IF e = "interrupt" THEN "none" ELSE e
  /\ pc' = "shutdown"
  /\ UNCHANGED <<i, failures, outcome>>

\* A stage succeeds and the next begins.
Then(stage) == pc' = stage /\ i' = 0 /\ UNCHANGED endVars

\* rmtree of a stamped directory, then copytree.
CopyDir ==
  /\ pc = "provision" /\ i < HostCount /\ dirs[i] \in {"none", "made"}
  /\ dirs' = [dirs EXCEPT ![i] = "partial"]
  /\ pc' = "stamp"
  /\ UNCHANGED <<i, created, generated, net, daemonVars, endVars, histVars>>

\* A directory without the stamp: NodeDirError.  Or the template is missing, or
\* rmtree or copytree raises after it has removed or copied something.
CopyDirRaises ==
  /\ pc = "provision" /\ i < HostCount
  /\ \/ UNCHANGED dirs
     \/ dirs[i] \in {"none", "made"} /\ dirs' = [dirs EXCEPT ![i] = "partial"]
  /\ pc' = "rollback"
  /\ UNCHANGED <<i, created, generated, net, daemonVars, endVars, histVars>>

\* The stamp is written and the directory registered for the rollback.
Stamp ==
  /\ pc = "stamp"
  /\ dirs' = [dirs EXCEPT ![i] = "made"]
  /\ created' = created \cup {i}
  /\ pc' = "config"
  /\ UNCHANGED <<i, generated, net, daemonVars, endVars, histVars>>

\* LOCAL_SOCK_ID, NODE_NAME and the mirrored configuration of the directory.
ConfigDir ==
  /\ pc = "config"
  /\ pc' = "provision" /\ i' = i + 1
  /\ UNCHANGED <<dirVars, net, daemonVars, endVars, histVars>>

StampOrConfigRaises ==
  /\ pc \in {"stamp", "config"}
  /\ pc' = "rollback"
  /\ UNCHANGED <<i, dirVars, net, daemonVars, endVars, histVars>>

Rollback_All ==
  /\ pc = "rollback"
  /\ dirs' = [h \in Hosts |-> IF h <= i THEN "none" ELSE dirs[h]]
  /\ Raised
  /\ torn' = TRUE
  /\ UNCHANGED <<created, generated, net, daemonVars, run, skipped, deaf>>

\* Some finished directories are removed, others only in part.
Removed(gone, half) ==
  [h \in Hosts |-> IF dirs[h] = "made" /\ h \in gone \cup half
                  THEN IF h \in gone THEN "none" ELSE "partial" ELSE dirs[h]]

\* provision_node_dirs removes what it has registered (rmtree ignores errors) and
\* raises again.
Rollback ==
  /\ pc = "rollback"
  /\ \E gone, half \in SUBSET created : dirs' = Removed(gone, half)
  /\ Raised
  /\ torn' = TRUE
  /\ UNCHANGED <<created, generated, net, daemonVars, run, skipped, deaf>>

\* build_mesh_scenario builds the topology; build_topology keeps the directories.
BuildTopo ==
  /\ pc = "provision" /\ i = HostCount
  /\ generated' = created
  /\ Then("net")
  /\ UNCHANGED <<dirs, created, net, daemonVars, histVars>>

\* cleanup_node_dirs: what has the stamp is removed.
RemoveDirs(S) == dirs' = Removed(S, {})

\* It raises at one directory; those after it are not attempted.
RemoveDirsRaises(S) ==
  \E gone \in SUBSET S, half \in {{}} \cup {{h} : h \in S} :
    dirs' = Removed(gone, half)

\* The topology cannot be built: the seam removes the directories itself, as
\* far as that succeeds; nobody else will.
BuildTopoRaises ==
  /\ pc = "provision" /\ i = HostCount
  /\ \/ RemoveDirs(created) /\ UNCHANGED torn
     \/ RemoveDirsRaises(created) /\ torn' = TRUE
  /\ Raised
  /\ UNCHANGED <<created, generated, net, daemonVars, run, skipped, deaf>>

\* create_mininet and net.start().
CreateNet ==
  /\ pc = "net"
  /\ net' = "created" /\ Then("start")
  /\ UNCHANGED <<dirVars, daemonVars, histVars>>

StartNet ==
  /\ pc = "start"
  /\ net' = "started" /\ Then("setup")
  /\ UNCHANGED <<dirVars, daemonVars, histVars>>

Parts == {"mandatory", "route", "external"}

\* setup_scenario up to the fleet: addresses, bridges, bandwidth, external
\* interfaces, cache placement, forwarding.
Setup ==
  /\ pc = "setup"
  /\ bridge' \in SUBSET Parts /\ Then("csmgrd")
  /\ UNCHANGED <<dirVars, net, csmgrd, cefnetd, started, kept, external, histVars>>

\* DaemonFleet.start_all: csmgrd on the cache nodes, in order.  The exit codes of
\* the start and stop commands are not looked at.
StartCsmgrd ==
  /\ pc = "csmgrd" /\ i < HostCount
  /\ IF i \in CacheNodes
       THEN csmgrd' \in {csmgrd, csmgrd \cup {i}} /\ started' = started \cup {i}
       ELSE UNCHANGED <<csmgrd, started>>
  /\ i' = i + 1
  /\ UNCHANGED <<pc, dirVars, net, cefnetd, kept, bridge, external, endVars,
                 histVars>>

CsmgrdDone ==
  /\ pc = "csmgrd" /\ i = HostCount
  /\ Then("cefnetd")
  /\ UNCHANGED <<dirVars, net, daemonVars, histVars>>

\* Then cefnetd on every host.
StartCefnetd ==
  /\ pc = "cefnetd" /\ i < HostCount
  /\ cefnetd' \in {cefnetd, cefnetd \cup {i}} /\ i' = i + 1
  /\ UNCHANGED <<pc, dirVars, net, csmgrd, started, kept, bridge, external,
                 endVars, histVars>>

\* wait_ready, apply_fib and cefstatus succeed; configure keeps the fleet.
Configured ==
  /\ pc = "cefnetd" /\ i = HostCount
  /\ Policy = "raise" => cefnetd = Hosts
  /\ kept' = TRUE /\ Then("experiment")
  /\ UNCHANGED <<dirVars, net, csmgrd, cefnetd, started, bridge, external,
                 histVars>>

\* run_experiment and run_main.
Experiment ==
  /\ pc = "experiment"
  /\ Then("shutdown")
  /\ UNCHANGED <<dirVars, net, daemonVars, histVars>>

\* A stage raises: before its effect or after it.  A host that is not ready
\* (wait_ready) raises too.
StageRaises ==
  /\ pc \in {"net", "start", "setup", "csmgrd", "cefnetd", "experiment"}
  /\ bridge' \in IF pc = "setup" THEN SUBSET Parts ELSE {bridge}
  /\ csmgrd' \in {csmgrd} \cup IF pc = "csmgrd" /\ i \in CacheNodes
                                 THEN {csmgrd \cup {i}} ELSE {}
  /\ cefnetd' \in {cefnetd} \cup IF pc = "cefnetd" /\ i < HostCount
                                   THEN {cefnetd \cup {i}} ELSE {}
  /\ Raised
  /\ UNCHANGED <<dirVars, net, started, kept, external, histVars>>

-----------------------------------------------------------------------------
\* The finally block: a stage fails or not, the next one begins all the same.

\* The stages that change nothing modelled here all fail as "hook".
Guarded(stage, name, next) ==
  /\ pc = stage
  /\ \/ UNCHANGED failures
     \/ failures' = failures \cup {<<name, 0>>}
  /\ pc' = next /\ i' = 0
  /\ UNCHANGED <<primary, outcome>>

\* shutdown_runtime_resources.
Shutdown ==
  /\ Guarded("shutdown", "hook", IF net = "none" THEN "rmdirs" ELSE "pre")
  /\ UNCHANGED <<dirVars, net, daemonVars, histVars>>

CollectPre ==
  /\ Guarded("pre", "hook", "stop_cefnetd")
  /\ UNCHANGED <<dirVars, net, daemonVars, histVars>>

\* A stop command for host i: it stops the daemon, leaves it running, or raises.
Stopping(stage, running, after) ==
  \/ after = running \ {i} /\ UNCHANGED <<failures, deaf>>
  \/ after = running /\ deaf' = deaf \cup {<<stage, i>>} /\ UNCHANGED failures
  \/ after = running /\ failures' = failures \cup {<<stage, i>>} /\ UNCHANGED deaf

StopCefnetd_Aborts ==
  /\ pc = "stop_cefnetd"
  /\ \/ i = HostCount /\ pc' = "stop_csmgrd" /\ i' = 0 /\ UNCHANGED <<cefnetd, failures>>
     \/ i < HostCount /\ i' = i + 1 /\ cefnetd' = cefnetd \ {i} /\ UNCHANGED <<pc, failures>>
     \/ i < HostCount /\ pc' = "stop_csmgrd" /\ i' = 0
        /\ failures' = failures \cup {<<"stop_cefnetd", i>>} /\ UNCHANGED cefnetd
  /\ UNCHANGED <<dirVars, net, csmgrd, started, kept, bridge, external, primary,
                 outcome, histVars>>

\* teardown_scenario, DaemonFleet.stop_all: each host on its own.
StopCefnetd ==
  /\ pc = "stop_cefnetd"
  /\ \/ /\ i = HostCount /\ pc' = "stop_csmgrd" /\ i' = 0
        /\ UNCHANGED <<cefnetd, failures, deaf>>
     \/ /\ i < HostCount /\ i' = i + 1 /\ UNCHANGED pc
        /\ Stopping("stop_cefnetd", cefnetd, cefnetd')
  /\ UNCHANGED <<dirVars, net, csmgrd, started, kept, bridge, external, primary,
                 outcome, run, skipped, torn>>

\* Then csmgrd, on the hosts where this fleet has started it.  Without the fleet
\* teardown builds a new one, which has started none.
StopCsmgrd ==
  /\ pc = "stop_csmgrd"
  /\ \/ /\ i = HostCount /\ pc' = "bridge" /\ i' = 0
        /\ UNCHANGED <<csmgrd, failures, deaf>>
     \/ /\ i < HostCount /\ i' = i + 1 /\ UNCHANGED pc
        /\ IF kept /\ i \in started
             THEN Stopping("stop_csmgrd", csmgrd, csmgrd')
             ELSE UNCHANGED <<csmgrd, failures, deaf>>
  /\ UNCHANGED <<dirVars, net, cefnetd, started, kept, bridge, external, primary,
                 outcome, run, skipped, torn>>

\* bridge_manager.cleanup raises when a mandatory action fails; the removal of a
\* route or flow that fails is a warning.
CleanBridges ==
  /\ Guarded("bridge", "bridge", "external")
  /\ \E gone \in SUBSET {"mandatory", "route"} :
       /\ failures' = failures => "mandatory" \in gone
       /\ bridge' = bridge \ gone
  /\ UNCHANGED <<dirVars, net, csmgrd, cefnetd, started, kept, external, histVars>>

\* cleanup_external_bridges, for the scenarios that opt in; an external
\* interface of another scenario stays bridged.
CleanExternal ==
  /\ Guarded("external", "external", "post")
  /\ external \/ failures' = failures
  /\ bridge' \in IF ~external THEN {bridge}
               ELSE IF failures' = failures THEN {bridge \ {"external"}}
               ELSE {bridge, bridge \ {"external"}}
  /\ UNCHANGED <<dirVars, net, csmgrd, cefnetd, started, kept, external, histVars>>

\* collect_debug_post_teardown, then collect_daemon_logs.
CollectPost ==
  /\ \/ Guarded("post", "hook", "logs") \/ Guarded("logs", "hook", "kill")
  /\ UNCHANGED <<dirVars, net, daemonVars, histVars>>

\* cleanup_all, kill_cef_processes: pkill -9 for each host and command; a busy
\* shell is skipped.
Kill ==
  /\ pc = "kill" /\ i < HostCount
  /\ \E skip \in BOOLEAN :
       /\ csmgrd' = IF skip THEN csmgrd ELSE csmgrd \ {i}
       /\ cefnetd' = IF skip THEN cefnetd ELSE cefnetd \ {i}
       /\ skipped' = IF skip THEN skipped \cup {i} ELSE skipped
  /\ i' = i + 1
  /\ UNCHANGED <<pc, dirVars, net, started, kept, bridge, external, endVars, run,
                 deaf, torn>>

\* net.stop() and Mininet's own cleanup.
StopNet ==
  /\ pc = "kill" /\ i = HostCount
  /\ net' = "stopped" /\ Then("rmdirs")
  /\ UNCHANGED <<dirVars, daemonVars, histVars>>

\* cleanup_node_dirs, alone if there is no network.
RmDirs ==
  /\ pc = "rmdirs"
  /\ RemoveDirs(generated)
  /\ Then("results")
  /\ UNCHANGED <<created, generated, net, daemonVars, histVars>>

\* cleanup_all or cleanup_node_dirs raises: the rest of it is not attempted.
CleanupRaises ==
  /\ pc \in {"kill", "rmdirs"}
  /\ failures' = failures \cup {<<"cleanup_all", 0>>}
  /\ pc' = "results"
  /\ net' \in IF pc = "kill" /\ i = HostCount THEN {net, "stopped"} ELSE {net}
  /\ IF pc = "rmdirs" THEN RemoveDirsRaises(generated) ELSE UNCHANGED dirs
  /\ UNCHANGED <<i, created, generated, daemonVars, primary, outcome, histVars>>

Results == Guarded("results", "hook", "propagate")
           /\ UNCHANGED <<dirVars, net, daemonVars, histVars>>

\* _propagate_failures: nothing, one exception, or a group of them.
Outcome ==
  IF failures = {} THEN IF primary = "none" THEN "quiet" ELSE "primary"
  ELSE IF primary # "none" THEN "both" ELSE "failures"

Propagate ==
  /\ pc = "propagate"
  /\ pc' = "end" /\ outcome' = Outcome
  /\ UNCHANGED <<i, dirVars, net, daemonVars, primary, failures, histVars>>

-----------------------------------------------------------------------------
\* The next execution in the same directory, of the same or another scenario;
\* before it the process has ended or was killed, and what it left of daemons,
\* network and bridges was cleaned by hand (mn -c).
Rerun ==
  /\ run < Runs /\ run' = run + 1
  /\ pc' = "provision" /\ i' = 0
  /\ created' = {} /\ generated' = {}
  /\ net' = "none"
  /\ csmgrd' = {} /\ cefnetd' = {} /\ started' = {} /\ kept' = FALSE
  /\ bridge' = {} /\ external' \in BOOLEAN
  /\ primary' = "none" /\ failures' = {} /\ outcome' = "running"
  /\ skipped' = {} /\ deaf' = {} /\ torn' = FALSE
  /\ UNCHANGED dirs

Next ==
  \/ CopyDir \/ CopyDirRaises \/ Stamp \/ ConfigDir \/ StampOrConfigRaises
  \/ Rollback \/ BuildTopo \/ BuildTopoRaises \/ CreateNet \/ StartNet \/ Setup
  \/ StartCsmgrd \/ CsmgrdDone \/ StartCefnetd \/ Configured \/ Experiment
  \/ StageRaises
  \/ Shutdown \/ CollectPre \/ StopCefnetd \/ StopCsmgrd \/ CleanBridges
  \/ CleanExternal \/ CollectPost \/ Kill \/ StopNet \/ RmDirs \/ CleanupRaises \/ Results
  \/ Propagate
  \/ Rerun

Spec == Init /\ [][Next]_vars

-----------------------------------------------------------------------------
\* Properties.

\* Types.
TypeOK ==
  /\ pc \in {"provision", "stamp", "config", "rollback", "net", "start", "setup",
             "csmgrd", "cefnetd", "experiment", "shutdown", "pre",
             "stop_cefnetd", "stop_csmgrd", "bridge", "external", "post", "logs",
             "kill", "rmdirs", "results", "propagate", "end"}
  /\ i \in 0..HostCount
  /\ dirs \in [Hosts -> {"none", "foreign", "partial", "made"}]
  /\ created \subseteq Hosts /\ generated \subseteq Hosts
  /\ net \in {"none", "created", "started", "stopped"}
  /\ csmgrd \subseteq Hosts /\ cefnetd \subseteq Hosts /\ started \subseteq Hosts
  /\ kept \in BOOLEAN /\ bridge \subseteq Parts /\ external \in BOOLEAN
  /\ primary \in {"none", "error", "exit"}
  /\ failures \subseteq {"hook", "stop_cefnetd", "stop_csmgrd", "bridge",
                         "external", "cleanup_all"} \X (0..HostCount)
  /\ outcome \in {"running", "quiet", "primary", "failures", "both"}
  /\ run \in Nat /\ skipped \subseteq Hosts /\ torn \in BOOLEAN
  /\ deaf \subseteq {"stop_cefnetd", "stop_csmgrd"} \X Hosts

\* No step of any run, however it ends, removes or changes a directory that the
\* emulator has not made (provision_node_dirs, its rollback, cleanup_node_dirs).
KeepsForeign == \A h \in Hosts : dirs[h] = "foreign" => dirs'[h] = "foreign"
ForeignIntact == [][KeepsForeign]_vars

\* When execute() ends without a failed cleanup stage or a skipped kill, all that
\* is left of the run are routes whose removal was given up with a warning and,
\* in a scenario that does not opt in to their cleanup, the bridges to external
\* interfaces: no daemon, no other bridge state, no network, no directory that
\* provisioning has finished, unless the run itself failed to undo provisioning.
CleanEnd ==
  pc = "end" /\ failures = {} /\ skipped = {} =>
    /\ csmgrd = {} /\ cefnetd = {}
    /\ bridge \subseteq {"route"} \cup (IF external THEN {} ELSE {"external"})
    /\ net \in {"none", "stopped"}
    /\ ~torn => \A h \in created : dirs[h] = "none"

\* After DaemonFleet.stop_all cefnetd runs only where its own stop failed: the
\* failure of one host does not keep another's daemon alive.
CefnetdStopped ==
  pc \in {"stop_csmgrd", "bridge", "external", "post", "logs"} =>
    \A h \in cefnetd : <<"stop_cefnetd", h>> \in failures \cup deaf

\* The teardown of execute() is complete: stage by stage for the daemons, and at
\* its end for everything the run has made.
EndsClean == CleanEnd /\ CefnetdStopped
=============================================================================
