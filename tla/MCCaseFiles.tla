------------------------------ MODULE MCCaseFiles ------------------------------
EXTENDS CaseFiles, TLC

CONSTANTS d1, d2  \* two directories

Mesh(type, cells, layers, graded, vertices, patches) ==
  [type |-> type, cells |-> cells, layers |-> layers, graded |-> graded,
   vertices |-> vertices, patches |-> patches]

Definition(components, geometry, mesh, modules, gas, coupled, patches, fields, numerics) ==
  [case |-> components, geometry |-> geometry, mesh |-> mesh,
   physics |-> [modules |-> modules, turbulence |-> "absent", gas |-> gas,
                coupled |-> coupled],
   boundaries |-> [p \in patches |-> fields], solver |-> numerics]

Cartesian == Mesh("structured_cartesian", TRUE, FALSE, FALSE, "none", {})

Thermal ==
  Definition(2, "rectangle", [Cartesian EXCEPT !.graded = TRUE], {"thermal"}, "none",
             FALSE, FourSides, {"temperature"}, "chosen")
Channel ==
  Definition(0, "rectangle", Cartesian, {}, "isothermal", TRUE, FourSides, {}, "default")
Box ==
  Definition(3, "box", [Cartesian EXCEPT !.layers = TRUE], {}, "none", FALSE, SixSides,
             {}, "default")
Blocks ==
  Definition(2, "mesh_defined",
             Mesh("multiblock", FALSE, FALSE, FALSE, "fit", {"wall", "inlet"}),
             {"species"}, "none", FALSE, {"wall", "inlet"}, {"species"}, "default")
Quad ==
  Definition(2, "rectangle", Mesh("structured_quad", TRUE, FALSE, FALSE, "fit", {}),
             {"multiphase"}, "none", FALSE, FourSides, {"alpha"}, "chosen")

MCDisks ==
  {d1 :> pair[1] @@ d2 :> pair[2] :
     pair \in {<<Thermal, Box>>, <<Blocks, Channel>>, <<Quad, Thermal>>}}

MCUntitled ==
  Definition(0, "rectangle", [Cartesian EXCEPT !.cells = FALSE], {}, "none", FALSE,
             {}, {}, "default")

\* The patches of a rectangle, plain or thermal, and with one of them missing.
MCBoundaryMaps ==
  {[p \in FourSides |-> {}], [p \in FourSides |-> {"temperature"}],
   [p \in FourSides \ {"top"} |-> {}]}
================================================================================
