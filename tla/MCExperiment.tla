---------------------------- MODULE MCExperiment ----------------------------
(***************************************************************************)
(* One put, one prefetch, one other content event and one host_app_restart *)
(* in the configurations that differ in what is started and waited for.    *)
(***************************************************************************)
EXTENDS Experiment

With(on) == [f \in {"autotest", "apps", "flaps", "monitoring", "duration",
                    "endless", "cli", "connect"} |-> f \in on]

MCConfigs == { With({"autotest", "apps", "flaps"}),
               With({"autotest", "monitoring", "duration", "endless"}),
               With({"apps", "flaps", "duration", "endless"}),
               With({"monitoring", "endless"}),
               With({"monitoring", "cli"}), With({"connect", "cli"}) }
=============================================================================
