---------------------------- MODULE MCProjectRunner ----------------------------
(* A case with every module, solved on the device, and one for the coupled  *)
(* compressible solver on the temperature of the thermal module.            *)
EXTENDS ProjectRunner

MCCases ==
  {[modules |-> Modules, gpu |-> TRUE, coupled |-> FALSE, thermalCoupled |-> TRUE],
   [modules |-> {"thermal", "compressible"}, gpu |-> FALSE, coupled |-> TRUE,
    thermalCoupled |-> TRUE]}
================================================================================
