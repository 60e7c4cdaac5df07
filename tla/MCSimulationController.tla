------------------------ MODULE MCSimulationController -------------------------
(* One case directory, a definition CaseBuilder accepts and one it rejects  *)
(* (the untitled case has no mesh yet).                                     *)
EXTENDS SimulationController

CONSTANTS good, bad

MCContents  == {good, bad}
MCBuildable == {good}
================================================================================
