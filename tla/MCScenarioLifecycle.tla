------------------------ MODULE MCScenarioLifecycle ------------------------
(***************************************************************************)
(* Instances of ScenarioLifecycle.                                         *)
(***************************************************************************)
EXTENDS ScenarioLifecycle

FirstHost == {0}
=============================================================================
