----------------------------- MODULE MCSimpleSolve -----------------------------
(* Every combination of settings, three outer iterations, up to two passes.  *)
EXTENDS SimpleSolve

MCCorrections == 0 .. 2
================================================================================
