------------------------------- MODULE OuterLoop -------------------------------
(***************************************************************************)
(* What a caller of SIMPLE::solve() may rely on, whatever hardware the     *)
(* iterations ran on: src/include/cfd/pressure_velocity/SIMPLEResult.hpp.  *)
(* The solve completes one outer iteration after another, at most          *)
(* MaxIterations of them; it stops with one status, and the velocity, the  *)
(* pressure and the mass flux it returns all come from the last iteration  *)
(* it completed.  Only after NonFiniteState may the fields be torn, and    *)
(* only a system nobody can represent ends the solve by an exception.      *)
(***************************************************************************)
EXTENDS Naturals

CONSTANT MaxIterations, Torn

VARIABLES
  completed,  \* SIMPLEResult::iterations
  fields,     \* the iteration the three fields belong to, or Torn
  status      \* "running", or SIMPLEResult::status

loopVars == <<completed, fields, status>>

\* What the monitor's verdict ends a solve with.
Verdicts == {"Converged", "Stagnated", "Diverging"}
\* Ends that leave an iteration unfinished.
Failures == {"MomentumFailure", "PressureCorrectionFailure", "NonFiniteState", "Exception"}

LoopInit ==
  /\ completed = 0
  /\ fields = 0
  /\ status = "running"

CompleteIteration ==
  /\ status = "running"
  /\ completed < MaxIterations
  /\ completed' = completed + 1
  /\ fields' = completed + 1
  /\ UNCHANGED status

\* The guard of a status is what it tells the caller about the solve.
Stop(s) ==
  /\ status = "running"
  /\ s \in Verdicts => completed > 0
  /\ s = "MaxIterations" => completed = MaxIterations
  /\ s = "Cancelled" => completed < MaxIterations
  /\ s \in Failures \ {"NonFiniteState"} => completed < MaxIterations
  /\ s = "InvalidConfiguration" => completed = 0
  /\ status' = s
  /\ fields' \in {completed} \cup (IF s = "NonFiniteState" THEN {Torn} ELSE {})
  /\ UNCHANGED completed

LoopNext ==
  \/ CompleteIteration
  \/ \E s \in Verdicts \cup Failures \cup {"MaxIterations", "Cancelled", "InvalidConfiguration"} :
       Stop(s)

LoopSpec == LoopInit /\ [][LoopNext]_loopVars /\ WF_loopVars(LoopNext)
================================================================================
