----------------------------- MODULE TransientRun ------------------------------
(***************************************************************************)
(* A transient run with its restart file: TimeController, TransientSolver, *)
(* the PISO step (src/src/pressure_velocity/PISO.cpp), AlePISO with the    *)
(* mesh motion it undoes, RestartSnapshot, RestartWriter and RestartReader. *)
(* The driver is the one of                                                *)
(* src/tests/integration/restart/test_restart_resume.cpp: solve, write a   *)
(* snapshot of the last accepted state, perhaps end, read it back, solve   *)
(* on with the parameters of the original run.                             *)
(*                                                                         *)
(* Time is counted in ticks.  The rounding of startTime + step * deltaT is *)
(* a function of the step, fixed for a run.  The state of a run is the     *)
(* sequence of the steps it went through, each with what it depended on.   *)
(***************************************************************************)
EXTENDS Integers, Sequences

CONSTANTS
  Ends,       \* the end times tried (the start time is 0)
  DeltaT,     \* the nominal time step
  Tolerance,  \* of the snap to the end time
  Roundings,  \* rounding errors of the time of steps 1 .. MaxSteps
  MaxSteps,   \* the step cap of the original run
  Caps,       \* the step caps a leg may be given
  Models,     \* subset of {"laminar", "transport"}
  Meshes,     \* the meshes the driver may build
  Motions,    \* prescribed motions: the vertices' positions at each time since the start
  Fixed,      \* no motion
  Horizon,    \* bound: how far a process's mesh is moved
  Attempts,   \* bound: steps a process attempts with a transport model
  Misfits     \* BOOLEAN if the driver may pass a state of another size

ASSUME TransientAssumption ==
  /\ DeltaT \in Nat /\ Tolerance \in Nat /\ 1 < Tolerance /\ Tolerance + 2 < DeltaT
  /\ \A e \in Ends : e \in Nat /\ e > Tolerance
  /\ MaxSteps \in Nat \ {0} /\ MaxSteps \in Caps /\ Caps \subseteq 1 .. MaxSteps
  /\ Roundings \subseteq [1 .. MaxSteps -> -1 .. 1]
  /\ Models \subseteq {"laminar", "transport"}
  /\ Attempts \in Nat
  /\ Horizon \in Nat /\ Motions \subseteq [0 .. Horizon -> Int] /\ Fixed \notin Motions
  /\ Misfits \subseteq BOOLEAN

VARIABLES
  setup,     \* [end, rounding, model, motion]: the original run
  stage,     \* where the driver or solve() is
  outcome,   \* how the last solve or read ended
  cap,       \* TimeController: maxSteps_
  step,      \* TimeController: step_
  time,      \* TimeController: currentTime_
  accepted,  \* TransientSolver: state, the steps it went through
  fits,      \* whether state has the sizes of the mesh
  history,   \* TransientSolver: history, [step, time, dt] of each record
  trial,     \* the step being solved
  correct,   \* how often the turbulence model's fields were advanced
  mesh,      \* the mesh of the process
  motion,    \* MeshMotion: [time, canRevert, revertTime]
  file       \* the restart file

vars == <<setup, stage, outcome, cap, step, time, accepted, fits, history, trial, correct, mesh,
          motion, file>>
solver == <<cap, step, time, accepted, fits, history>>

NoTrial == [dt |-> 0, passes |-> 0]
NoFile == [whole |-> FALSE, step |-> 0, time |-> 0, dt |-> 0, state |-> <<>>, mesh |-> <<>>]
AtRest == [time |-> 0, canRevert |-> FALSE, revertTime |-> 0]

--------------------------------------------------------------------------------
(* TimeController.  timeAtStep() snaps to the end time.                     *)

Raw(n) == IF n = 0 THEN 0 ELSE n * DeltaT + setup.rounding[n]

\* Mutated form: the end has to be reached exactly.
TimeAtStepNoTolerance(n) == IF Raw(n) >= setup.end THEN setup.end ELSE Raw(n)

TimeAtStep(n) == IF Raw(n) >= setup.end - Tolerance THEN setup.end ELSE Raw(n)

Finished == step >= cap \/ time >= setup.end

StepSize == TimeAtStep(step + 1) - time

--------------------------------------------------------------------------------
(* MeshMotion: an advance can be undone once.                               *)

Moving == setup.motion # Fixed

Advanced(dt) ==
  [time |-> motion.time + dt, canRevert |-> TRUE, revertTime |-> motion.time]

Undone(moved) ==
  IF moved.canRevert THEN [moved EXCEPT !.time = moved.revertTime, !.canRevert = FALSE]
  ELSE moved

\* Where the vertices are.  Two times may have the same positions: a stationary
\* motion's always do, a sinusoidal one's twice a period.
Position == IF Moving THEN setup.motion[motion.time] ELSE 0

\* computeMeshFingerprint() sees the topology and the geometry, and no time.
Fingerprint == <<mesh, Position>>

--------------------------------------------------------------------------------
(* TransientSolver::solve.                                                  *)

\* TransientSolver tells the step solver of every rejection; PISO has nothing
\* to undo, AlePISO reverts the mesh, which changes nothing if solveTimeStep()
\* has reverted it already.
OnStepRejected == IF Moving THEN Undone(motion) ELSE motion

\* Mutated form: only a step that failed is undone, not one rejected for its CFL.
RejectKeepsMesh(status) ==
  /\ stage' = "idle"
  /\ outcome' = status
  /\ trial' = NoTrial
  /\ motion' = IF status = "CFLViolation" THEN motion ELSE OnStepRejected
  /\ UNCHANGED <<setup, mesh, file>>

\* The step in progress is not accepted: solve() returns the last accepted state.
Reject(status) ==
  /\ stage' = "idle"
  /\ outcome' = status
  /\ trial' = NoTrial
  /\ motion' = OnStepRejected
  /\ UNCHANGED <<setup, mesh, file>>

\* An exception leaves solve(); AlePISO has undone its motion on the way.
Throw(undone) ==
  /\ stage' = "idle"
  /\ outcome' = "thrown"
  /\ trial' = NoTrial
  /\ motion' = undone
  /\ UNCHANGED <<setup, mesh, file>>

\* The top of the loop, and the checks that come before anything is changed.
BeginStep ==
  /\ stage = "loop"
  /\ ~Finished
  /\ UNCHANGED <<solver, correct>>
  /\ IF ~fits
     THEN Reject("InvalidConfiguration")
     ELSE /\ trial' = [dt |-> StepSize, passes |-> 0]
          /\ stage' = IF Moving THEN "move" ELSE "predict"
          /\ UNCHANGED <<setup, outcome, mesh, motion, file>>

\* AlePISO moves the mesh first.  The motion throws with the mesh unchanged; a
\* motion the velocity conditions contradict is undone before the throw.
MoveMesh ==
  /\ stage = "move"
  /\ UNCHANGED <<solver, correct>>
  /\ \/ /\ motion.time + trial.dt <= Horizon
        /\ motion' = Advanced(trial.dt)
        /\ stage' = "predict"
        /\ UNCHANGED <<setup, outcome, trial, mesh, file>>
     \/ Throw(motion)
     \/ Throw(Undone(Advanced(trial.dt)))

\* The turbulence model is advanced once per attempted step, then momentum is
\* solved and the predictor's flux formed.
Predict ==
  /\ stage = "predict"
  /\ setup.model = "transport" => correct < Attempts
  /\ UNCHANGED solver
  /\ \/ /\ correct' = correct + (IF setup.model = "transport" THEN 1 ELSE 0)
        /\ \/ /\ stage' = "correct"
              /\ UNCHANGED <<setup, outcome, trial, mesh, motion, file>>
           \/ Reject("MomentumFailure")
           \/ Reject("NonFiniteState")
     \/ /\ setup.model = "transport"   \* it threw before it stored its fields
        /\ correct' = correct
        /\ Reject("NonFiniteState")

\* Mutated form: a third correction.
CorrectPressureThrice ==
  /\ stage = "correct"
  /\ UNCHANGED <<solver, correct>>
  /\ trial' = [trial EXCEPT !.passes = @ + 1]
  /\ stage' = IF trial.passes = 2 THEN "judge" ELSE "correct"
  /\ UNCHANGED <<setup, outcome, mesh, motion, file>>

\* One pressure correction: assemble from the last flux, solve, apply.  Only
\* NumericalError is caught around the assembly; AlePISO undoes its motion
\* before anything else leaves.
CorrectPressure ==
  /\ stage = "correct"
  /\ UNCHANGED <<solver, correct>>
  /\ \/ /\ trial' = [trial EXCEPT !.passes = @ + 1]
        /\ stage' = IF trial.passes = 1 THEN "judge" ELSE "correct"
        /\ UNCHANGED <<setup, outcome, mesh, motion, file>>
     \/ Reject("PressureCorrectionFailure")
     \/ Reject("NonFiniteState")
     \/ Throw(OnStepRejected)

\* The state after the trial step, which took the mesh from one position to another.
Solved == Append(accepted, [dt |-> trial.dt, mesh |-> mesh, model |-> correct,
                            passes |-> trial.passes, to |-> Position,
                            from |-> IF Moving THEN setup.motion[motion.revertTime] ELSE 0])

\* A converged step is accepted unless its CFL number is out of range.
Judge ==
  /\ stage = "judge"
  /\ UNCHANGED <<cap, fits, correct>>
  /\ \/ /\ Reject("CFLViolation")
        /\ UNCHANGED solver
     \/ /\ accepted' = Solved
        /\ step' = step + 1
        /\ time' = TimeAtStep(step + 1)
        /\ history' = Append(history, [step |-> step', time |-> time', dt |-> trial.dt])
        /\ trial' = NoTrial
        /\ stage' = "loop"
        /\ UNCHANGED <<setup, outcome, mesh, motion, file>>

EndSolve ==
  /\ stage = "loop"
  /\ Finished
  /\ stage' = "idle"
  /\ outcome' = IF time >= setup.end THEN "Completed" ELSE "MaxTimeSteps"
  /\ UNCHANGED <<setup, solver, trial, correct, mesh, motion, file>>

--------------------------------------------------------------------------------
(* The driver and the restart file.                                         *)

\* solve(state, TimeController(start, end, deltaT, c, n)) on a new leg.
StartLeg(state, fitting, c, n) ==
  /\ stage' = "loop"
  /\ outcome' = "none"
  /\ cap' = c
  /\ step' = n
  /\ time' = TimeAtStep(n)
  /\ accepted' = state
  /\ fits' = fitting
  /\ history' = <<>>
  /\ UNCHANGED <<setup, trial, correct, mesh, motion, file>>

\* From the initial state, on a mesh that has not moved.
StartFresh(c) ==
  /\ stage = "idle"
  /\ outcome = "none"
  /\ StartLeg(<<>>, TRUE, c, 0)

\* With a state of another mesh's size, at the step the last leg had reached.
StartMisfit(c) ==
  /\ TRUE \in Misfits
  /\ stage = "idle"
  /\ outcome \in {"Completed", "MaxTimeSteps", "CFLViolation"}
  /\ StartLeg(accepted, FALSE, c, step)

\* makeRestartSnapshot() of the last accepted state, then RestartWriter::write():
\* opening the file empties it.
OpenFile ==
  /\ stage = "idle"
  /\ outcome # "thrown"
  /\ history # <<>>
  /\ stage' = "writing"
  /\ file' = NoFile
  /\ UNCHANGED <<setup, outcome, solver, trial, correct, mesh, motion>>

\* The text is written and the stream not looked at: a full disk cuts it short.
WriteFile ==
  /\ stage = "writing"
  /\ stage' = "idle"
  /\ LET last == history[Len(history)]
     IN \E whole \in BOOLEAN :
          file' = [whole |-> whole, step |-> last.step, time |-> last.time, dt |-> last.dt,
                   state |-> accepted, mesh |-> Fingerprint]
  /\ UNCHANGED <<setup, outcome, solver, trial, correct, mesh, motion>>

\* RestartReader::read(): a file cut short is not JSON, and
\* validateRestartSnapshot() wants the cells and faces of this mesh.
Acceptable == file.whole /\ file.mesh = Fingerprint

\* Mutated form: the resumed run counts its own steps.
StartingStepZero == 0

\* The original parameters with startingStep = snapshot.step.
StartingStep == file.step

Resume(c) ==
  /\ stage = "idle"
  /\ Acceptable
  /\ StartLeg(file.state, TRUE, c, StartingStep)

ReadFails ==
  /\ stage = "idle"
  /\ ~Acceptable
  /\ outcome' = "thrown"
  /\ UNCHANGED <<setup, stage, solver, trial, correct, mesh, motion, file>>

\* The process ends; a new one builds a mesh at its reference position.
Restart(m) ==
  /\ \/ stage # "idle"
     \/ outcome # "none"
     \/ mesh # m
  /\ stage' = "idle"
  /\ outcome' = "none"
  /\ cap' = MaxSteps
  /\ step' = 0
  /\ time' = TimeAtStep(0)
  /\ accepted' = <<>>
  /\ fits' = TRUE
  /\ history' = <<>>
  /\ trial' = NoTrial
  /\ correct' = 0
  /\ mesh' = m
  /\ motion' = AtRest
  /\ UNCHANGED <<setup, file>>

Setups == [end : Ends, rounding : Roundings, model : Models, motion : Motions \cup {Fixed}]

TransientInit ==
  /\ setup \in Setups
  /\ Moving => setup.model = "laminar"
  /\ stage = "idle"
  /\ outcome = "none"
  /\ cap = MaxSteps
  /\ step = 0
  /\ time = TimeAtStep(0)
  /\ accepted = <<>>
  /\ fits = TRUE
  /\ history = <<>>
  /\ trial = NoTrial
  /\ correct = 0
  /\ mesh \in Meshes
  /\ motion = AtRest
  /\ file = NoFile

SolverStep == BeginStep \/ MoveMesh \/ Predict \/ CorrectPressure \/ Judge \/ EndSolve

TransientNext ==
  \/ SolverStep
  \/ \E c \in Caps : StartFresh(c) \/ StartMisfit(c) \/ Resume(c)
  \/ OpenFile
  \/ WriteFile
  \/ ReadFails
  \/ \E m \in Meshes : Restart(m)

TransientSpec == TransientInit /\ [][TransientNext]_vars

--------------------------------------------------------------------------------
(* Correctness.                                                             *)

Outcomes == {"none", "Completed", "MaxTimeSteps", "MomentumFailure", "PressureCorrectionFailure",
             "NonFiniteState", "CFLViolation", "InvalidConfiguration", "thrown"}
Stamps == [dt : Int, mesh : Meshes, model : Nat, passes : Nat, to : Int, from : Int]
Files == [whole : BOOLEAN, step : 0 .. MaxSteps, time : Int, dt : Int, state : Seq(Stamps),
          mesh : {<<>>} \cup (Meshes \X Int)]

TransientTypeOK ==
  /\ setup \in Setups
  /\ stage \in {"idle", "loop", "move", "predict", "correct", "judge", "writing"}
  /\ outcome \in Outcomes
  /\ cap \in Caps
  /\ step \in 0 .. MaxSteps
  /\ time \in Int
  /\ accepted \in Seq(Stamps)
  /\ fits \in BOOLEAN
  /\ history \in Seq([step : 1 .. MaxSteps, time : Int, dt : Int])
  /\ trial \in [dt : Int, passes : 0 .. 2]
  /\ correct \in Nat
  /\ mesh \in Meshes
  /\ motion \in [time : 0 .. Horizon, canRevert : BOOLEAN, revertTime : 0 .. Horizon]
  /\ file \in Files

\* However often a run was ended, killed or sent back to its restart file, the
\* state it has at a step went through exactly the steps of the run nobody
\* interrupted, bit for bit the same time steps, all of them on this mesh and
\* with both pressure corrections; and so did the state in a complete file.
\* Where a moving mesh stood is the matter of MeshFollowsState.
Exact(state, n) ==
  /\ Len(state) = n
  /\ \A k \in 1 .. n : /\ state[k].dt = TimeAtStep(k) - TimeAtStep(k - 1)
                       /\ state[k].mesh = mesh
                       /\ state[k].passes = 2

ResumeIsExact ==
  /\ time = TimeAtStep(step)
  /\ Exact(accepted, step)
  /\ Acceptable => Exact(file.state, file.step) /\ file.time = TimeAtStep(file.step)

\* No time step is a sliver left over by rounding, none overshoots, and the end
\* is reached in as few steps as the nominal step allows.
NoSliverStep ==
  /\ \A k \in DOMAIN accepted : /\ accepted[k].dt > Tolerance
                               /\ accepted[k].dt <= DeltaT + Tolerance + 2
  /\ time <= setup.end
  /\ accepted # <<>> => (step - 1) * DeltaT < setup.end

\* Whenever no step is in progress a moving mesh stands where the last accepted
\* state was computed, whatever ended the step before: a failure on either side
\* of the move, an exception, a CFL number found out of range afterwards; and no
\* step ever began with the mesh elsewhere than the step before had left it,
\* across all restarts.  The fingerprint knows positions only: the motion is at
\* the state's time if its positions never recur.  If they do, a restart can be
\* accepted that plays the motion from its start again.
NeverRecurs == \A s, t \in 0 .. Horizon : setup.motion[s] = setup.motion[t] => s = t

LeftAt(state, n) == IF n = 0 THEN setup.motion[0] ELSE state[n].to

MeshFollowsState ==
  Moving =>
    /\ \A k \in DOMAIN accepted : accepted[k].from = LeftAt(accepted, k - 1)
    /\ stage \in {"idle", "loop", "writing"} /\ fits =>
         /\ Position = LeftAt(accepted, Len(accepted))
         /\ NeverRecurs => motion.time = time

================================================================================
