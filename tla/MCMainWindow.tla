----------------------------- MODULE MCMainWindow ------------------------------
(* One case directory and one definition.                                   *)
EXTENDS MainWindow
================================================================================
