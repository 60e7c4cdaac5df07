# Verification of CFDApp

TLA+ models of CFDApp, checked with TLC and proved about with TLAPS. CFDApp is a
finite-volume flow solver with a command line and a Qt/QML front end around one solver
backend. Most of its lines are floating-point numerics, which are beyond a model checker.
What is within reach is what surrounds and steers them and is hard to test: a window, a
controller and a worker thread that share one session; a run that passes through several
solvers and leaves four files; a case of six files that is edited, saved and read at the
same time; an outer iteration whose fields live on two sides of a bus; a transient run that
is killed and resumed; the verdicts that end a solve; and the bookkeeping of faces, cells
and moving vertices that every solver trusts.

Paths are relative to the repository root (`src/app/...` is the library source).

## 1. Inventory

| Component | State it keeps | Operations | Talks to |
|---|---|---|---|
| **CaseSession** `src/app/CaseSession.cpp` | `state_` and `cancelRequested_` (atomics); directory, definition, last result, last error (one mutex) | newCase, open, reload, save, saveAs, setCaseDefinition, validate, run, requestCancel | CaseReader, CaseWriter, CaseBuilder, ProjectRunner |
| **SimulationController** `apps/gui/SimulationController*.cpp` | `running_` (atomic), `worker_` (thread), `snapshot_` (mutex), progress counters, validation status | open, new, save, edit, validate, run, stop, reload, destructor | owns a CaseSession; runs it on the worker; signals to QML |
| **QML front end** `apps/gui/qml` | what its bindings last read; the unsaved-changes dialog and the action it delays | buttons, dialog buttons | calls the controller on the UI thread; evaluates bindings on `stateChanged` |
| **Case editor pages** `apps/gui/CaseModelAdapter.cpp`, `qml/*Editor.qml` | the map each page shows | commit a mesh, physics, boundary or solver section; validate the draft | the session's definition |
| **Case files** (reader, writer, builder) `src/io` | six JSON files of a case directory | read, check one against another, write in place, build | CaseSession, ProjectRunner |
| **ProjectRunner** `src/app/ProjectRunner.cpp` | locals of `run()`: setup, flow result, shared mass flux, one result per module, status | run: read, solve, modules, compressible, export | all solvers, ResultExporter |
| **ResultExporter**, JSON/CSV/VTK writers `src/io` | the `results/` directory | write: metadata, residuals, fields, vtk, in this order | file system |
| **VisualizationSnapshot** `src/app` | none (returns a snapshot) | buildSnapshot, loadSnapshotFromResults | reads the files the exporter writes |
| **CLI** `apps/cli/main.cpp` | none | run a case, return an exit code | ProjectRunner |
| **SIMPLE** `src/pressure_velocity/SIMPLE.cpp` | fields, iteration and pass counts, residual history; with a GPU, which side owns each field | solve | robustness monitor, linear solvers, GPU backend, turbulence model |
| **GPU backend** `cuda/`, `src/gpu` | device buffers, systems, authority of each field | upload, download, assemble, solve, correct | SIMPLE |
| **Solver robustness** `src/solver/SolverRobustness.cpp` | ring buffers of residuals, relaxation factors, streaks, verdict | record, verdict, reduce, recover | SIMPLE, CompressibleSIMPLE |
| **Linear solvers, fallback** `src/algebra` | iterate, attempts | solve, fall back to the next solver | SIMPLE, modules |
| **CompressibleSIMPLE** `src/compressible` | fields, density, iteration count | solve | started by ProjectRunner on the flow's result |
| **Transient solver, time controller, restart files** | step, time, accepted state, history; the restart file | solve, write, read, resume | a step solver; tests drive them |
| **PISO, AlePISO, mesh motion** | fields of a step; vertices, time and the step that can be undone | solveTimeStep, onStepRejected; advance, revert | transient solver, mesh |
| **Mesh, builders, quality gate** `src/mesh` | cells, faces with owner and neighbour, patches, vertex grids | build one or several blocks, judge, recompute the geometry | case builder, every solver, mesh motion |
| **Thermal, species, volume fraction** | their fields | solve, step | ProjectRunner, with the flow's mass flux |
| **Turbulence models** | k, epsilon, omega, viscosity | correct | SIMPLE, once an iteration |
| **Discretisation, fields, boundaries, physics** | arrays | assembly, interpolation | every solver |
| **Validation studies, viz algorithms, Python tools** | none | offline or pure functions | results files |

**Behaviours that are hard here.** Two threads on one session, with no lock over two
related stores (`state_` and `lastRun_`; `running_` and `state_`). A cancellation flag set
by one thread and cleared by the other. Signals queued to the other thread, and a
destructor that waits on the thread the worker signals to. Files written in place, one
after the other, and read by another part of the program meanwhile. Fields with two copies,
whose current one is known only from the order of the stages. Steps that are rejected after
they moved the mesh. A restart after a kill, from a file that may be cut short. Fallbacks
that continue with an iterate of another solver and another tolerance. Interfaces between
blocks that may be turned in any way. Every such point is listed, with its line, as a
hazard in `PROJECT.json`, with the properties that guard it or the reason why none does.

**What makes each component correct.**

- CaseSession: `Running` never outlives a run; a finished state agrees with the result; a
  request to stop concerns one run and is not left for the next.
- SimulationController: one solve at a time; the UI thread waits for a solve only when the
  application closes; closing always ends, and never with a file half written.
- QML front end: a button settles on what the controller would answer; no edit is discarded
  silently.
- Case files and pages: what the reader accepts the builder can build; what was validated
  and saved whole is what runs; no sequence of edits is a dead end.
- ProjectRunner and ResultExporter: the exit code, the metadata and the files on disk
  describe one and the same run, after any failed, cancelled and killed ones.
- SIMPLE: no stage reads a stale copy; the counts are true; the result is one iterate.
- Robustness monitor: verdicts follow from the history; relaxation factors are safe.
- Linear solvers: the combined result describes one solve, to the caller's accuracy.
- Transient run: a resumed run is the uninterrupted one; no sliver steps; a moving mesh is
  where the accepted state was computed.
- Mesh: the faces are the edges of the cells; no good mesh is refused; a mesh in motion
  keeps its volumes accounted for.

## 2. Modules

```
CaseSession <-- SimulationController <-- MainWindow <-- MainWindowProofs

ProjectRunner <-- ProjectRunnerProofs            CaseFiles <-- CaseFilesProofs

OuterLoop <··INSTANCE·· SimpleSolve <-- SimpleSolveProofs

AdaptiveRelaxation <-- OuterIterationMonitor ··INSTANCE··> ResidualTracker
                                ^
                                +-- OuterIterationMonitorProofs

LinearSolve <-- LinearSolveProofs                TransientRun <-- TransientRunProofs

BlockMesh <-- MovingMesh <-- MovingMeshProofs

A <-- B: B EXTENDS A.   MC<module>: the instance of a module for TLC.
```

### The application: CaseSession, SimulationController, MainWindow

**CaseSession** has the session's members as variables and one action for each part of a
member function that runs under one lock or is one atomic access. `disk` is what the case
files in each directory hold: a definition, `None`, or `Torn` after a save that stopped
between two files. **SimulationController** gives each of these steps a thread. `ui` is the
handler the UI thread is in; a handler is one step unless it does something in the middle
that takes time or that the worker may see (a save, the join before a run, the statements
of `openCase` after the session has changed). `worker` is the program counter of the lambda
started by `run()`, through `CaseSession::run` and the parts of `ProjectRunner::run` the
controller can tell apart. `stopAt`, `stopMidway` and `switched` are
history variables: the iterations begun when the run was first asked to stop in time (after the
clearing of the flag, however many requests were lost before it), whether that was in the
middle of one, and whether another case was opened during the run.
**MainWindow** adds what the user can press. `view` is what the bindings read last,
`pending` a `stateChanged` of the worker that is queued, `dialog` the unsaved-changes
dialog. A signal emitted on the UI thread refreshes the view within the same step (a direct
connection); the worker's waits for `Deliver`.

### The case: CaseFiles

`memory` is the session's definition, `files` what each of the six files of each directory
holds, a section or `Torn`. A definition keeps of each file what another file, a parser or
the builder looks at: which patches carry which fields, which modules are on, whether
there is a turbulence block and whether its model is laminar, whether the
mesh has cells, layers and a vertex grid that fits. The pages' actions rebuild their section
from the map they show, as the adapter does: the mesh page keeps the types it was given, so
that vertices, blocks and layers stay, and whether a vertex grid fits is judged afresh from
the counts. `setBoundaryConfig` is also called with whole maps (`BoundaryMaps`), as
`test_case_editing.cpp:513-604` does to complete a new case. `SaveAs` starts a save; `WriteFile`,
`LoseFile` (the last flush fails unnoticed), `SaveFails` and `Crash` are what can happen to
each file; `ReadFile` parses one file of a reading that may run beside the save. `Accepted`
is the conjunction of the parsers' rules and the rules across files, and a draft is valid when what would be
written of it is accepted. `BuilderFinds` is what `CaseBuilder` looks up in a definition
without a check; that acceptance implies it is a property. The builder's own check of the mesh
(BlockMesh) can still reject such a draft; it would only make fewer drafts valid.

### A run: ProjectRunner

`run()` whole: SIMPLE's loop with every way it ends, the passive modules, the compressible
evaluation or the coupled solver, the export file by file. A file is the number of the run
that wrote it, and is in `torn` when it was cut short; the values in a field are finite or
not. `entries` and `columns` are what `metadata.json` and `fields.csv` say about the
modules. Around it, the environment: a request to cancel at any point, a kill between any
two steps, and a viewer that reads three files one after the other. The controller needs
only how long a solve can go on and how it ends, ProjectRunner all of it but no threads:
the two overlap on purpose.

### A solve: SimpleSolve and OuterLoop

**OuterLoop** is what a caller of `SIMPLE::solve()` may rely on: completed iterations go up
one by one to at most the limit, the solve ends with one status, and the three fields it
returns are those of the last completed iteration, except that they may be torn after
`NonFiniteState`. **SimpleSolve** is the function stage by stage, on the CPU path, on the
device with a host mirror, and in the resident loop. A copy of a field is the iteration
that computed it, a product of a stage (a predictor, a matrix, p') the iteration and the
non-orthogonal pass; `misread` collects every read of one that is not the one the algorithm
asks for, by the stage that read it. `copy`, `authority` and `product` have one entry for
each side of the bus. The instance of OuterLoop maps `completed` to the iteration counter,
`status` to the final status once the solve has returned, and `fields` to the iteration the
three returned fields agree on (`Torn` when they do not).

**ResidualTracker**, **AdaptiveRelaxation** and **OuterIterationMonitor** are the three
classes of `SolverRobustness.cpp`. A tracker is a record with the members of the class and
`Push` its only modifier. `Record` is one call of `record()`: all trackers are pushed, the
verdict is decided in the code's order (converged, diverging, stagnated), and only when the
solve goes on is the relaxation controller given the largest normalized residual (one that
is not finite, or, where `std::max` passes over a NaN, the largest of the others). Residuals
are natural numbers and `Overflow` (a NaN or an infinity); ratios are integer quotients
times `Scale`, those of the distance rounded up, so that a ratio is at most one exactly when
the residual is within its threshold, as it is of doubles. Relaxation factors are members of an ordered set, and multiplication by
1.05, 0.7 and 0.9 is a function on it: the properties and theorems use only that the 0.7 and
0.9 products do not exceed the factor and keep their order, and so do not depend on how a
double rounds. `samples`, `distanceLog`, `kept`, `keptDistances`, `unstable` and `since`
exist for the properties: all residuals and distances, which of them were finite, and what
the controller has done.

**LinearSolve** is one call of `FallbackLinearSolver::solve`. The three Krylov solvers are
modelled by what they count, record and compare: one iteration (or one Arnoldi column) is
one step, whose residual is any norm, and every early return is a disjunct. A vector is
whether its entries are finite and the norm of its true residual; the residual of CG's and
BiCGSTAB's recurrences may differ from it by `Rounding`, GMRES recomputes it. A norm is a
small number, `Infinite` or `NaN`, and `Meets` compares as doubles do. Tolerances are in
hundredths, so that the target `max(absolute, relative * initial)` is exact. The analysis of
the matrix is an operator on integer matrices, where the code's relative tolerance of 1e-12
plays no part. The reference it is compared with is the definition of positive definite:
`Form(m, v) > 0` for every vector of `Vectors` that is not zero.

### A transient run: TransientRun

The driver of the restart tests: solve a leg, write a snapshot, perhaps end, read it back,
solve on. Time is in ticks; `rounding` is how far `startTime + step * deltaT` is off for
each step. `accepted` is the sequence of steps the state went through, each with its size,
the mesh it was computed on, where that mesh stood before and after, the pressure corrections and how often the turbulence model
had been advanced: two runs that agree on it agree on the state. `BeginStep`, `MoveMesh`,
`Predict` and two rounds of `CorrectPressure` are PISO's and AlePISO's stages, each with the
ways it fails (a status, or a throw); `Judge` accepts the step or rejects it for its CFL number, and `OnStepRejected` is the hook
TransientSolver calls. `motion` is MeshMotion seen from outside: its time and whether a
step can be undone. A prescribed motion (`Motions`) is any function from the time since the
start to a position; positions may recur. `file` is the restart file, whole or not; a reading
accepts it only if it is whole and its fingerprint is that of the process's mesh. The
fingerprint is of the geometry, and so of the position and not of the time.

### A mesh: BlockMesh and MovingMesh

**BlockMesh** holds pure operators: `createMultiBlock2D` with its checks in order
(`Builds`) and the mesh it returns (`MeshOf`): the cells by their places (`CellPlaces`), the
edges of the blocks that get a face, in the order of the faces (`FaceEdges`), and of each
edge its geometry, its owner and its neighbour, across an interface where the edge is on
one (`NeighborOf`); the single-block builder
(`StructuredMesh`), the reader's rectangle checks (`FitsRectangle`) and the fatal
conditions of `MeshQuality::evaluate` (`PassesGate`). Points are on an integer lattice and
every quantity is an integer multiple of the real one (twice an area, a first moment for a
centroid), so that every comparison of doubles is exact here. Ids are places in sequences.
`InterfacesFace` says what the code takes for granted of interfaces and does not check
(see the divergences below).
**MovingMesh** is the life of one mesh: `BuildBlocks` or `BuildQuad` with the gate,
`StartMotion` (`structuredTopology` and the constructor of MeshMotion), `Advance` and
`Revert` with the geometry they set, the volumes swept and what is kept for undoing. Where
a prescribed motion puts the vertices is the environment's choice; a step that would fold a
cell throws before anything changes and is therefore no step.

A definition whose comment begins "Mutated form" is not part of a specification. It is the
definition it is named after with a plausible mistake, and is used to confirm that the
property listed with it under `mutants` in `PROJECT.json` fails when the code has that
mistake.

## 3. Runs

| Run (module) | Question | Properties |
|---|---|---|
| **gui_controller** (SimulationController) | every interleaving of UI calls with the worker, over any number of runs | `TypeOK`, `OneRunAtATime`, `FinishedStateMatchesLastRun`, `StopIsExact`, `ResultsStayWhole`; liveness `CloseCompletes`, `RunEnds` |
| **gui_window** (MainWindow) | buttons, dialog and queued signals over it | `StopIsOffered`, `ViewSettles`, `EditIsFlaggedUntilARun` |
| **case_files** (CaseFiles) | five kinds of case opened or made new, edited, validated and saved over one another while a run reads | `CaseTypeOK`, `AcceptedCaseBuilds`, `ValidatedCaseIsRun`, `NoDeadEnd` |
| **project_runner** (ProjectRunner) | two runs of a directory with cancellations, kills, failing exports and a viewer | `RunnerTypeOK`, `ModulesRunIffFlowIsFinite`, `ExitZeroMeansAllFiles`, `ResultFilesAgree`, `QuietReloadShowsLastRun`, `SimpleObeysCancel`; liveness `RunReturns` |
| **simple_solve** (SimpleSolve) | every configuration of the three paths and every failure of a stage | `SimpleTypeOK`, `NoStaleRead`, `AuthorityIsTruthful`, `PassesPerIteration`, `ImplementsOuterLoop` (refinement, termination included) |
| **outer_monitor** (OuterIterationMonitor) | every sequence of up to six iterations' residuals, overflows included | `TrackersMatchHistory`, `VerdictMatchesHistory`, `FactorsStaySafe`, `IncreasesAreSpaced` |
| **linear_solve** (LinearSolve) | every course of the residuals through the primary and its fallbacks | `IterationsAreAccounted`, `RecoveredUnlessOverflowed`, `CgOnlyIfDefinite` |
| **transient_run** (TransientRun) | legs of a run on a mesh that is fixed, stays, moves on or comes back, with failures, exceptions, torn files and kills | `TransientTypeOK`, `ResumeIsExact`, `NoSliverStep`, `MeshFollowsState` |
| **block_mesh** (MovingMesh) | over 1,200 mesh files, their acceptance, faces and motion | `FacesAreTheEdges`, `GateIsExact`, `MotionIsConsistent` |

Three runs must find a violation, each a statement of the documentation or a comment the
code does not keep (quoted under `findings` in `PROJECT.json`):

- **unsaved_edit** (`NoSilentDiscard`): starting or ending a run forgets that the case has
  unsaved edits, and New Case then discards them without asking.
- **round_trip** (`RoundTripKeepsPhysics`): the writer forgets `compressible.coupled`: a
  case opened, validated and saved without an edit reads back without it.
- **gpu_configuration** (`ConfigurationIsReproduced`): the device assembles the momentum
  system without the caller's source terms and gradient scheme, and nothing falls back.

Other divergences the models contain, which no run states on its own:

- A Stop pressed after Run and before the worker reaches `CaseSession.cpp:186` is cleared
  there and the solve runs to its end (`docs/user_guide/gui.md:34-36` promises otherwise);
  `StopIsExact` begins at the clearing, and a Stop repeated in time is held to it.
- A run with a non-finite flow leaves the previous run's field files next to its own
  metadata (`ResultFilesAgree` says what still holds); the coupled compressible solve never
  looks at the cancellation flag; a flow whose absolute pressure is not positive makes the
  compressible evaluation throw out of `run()`.
- With a divergence window of two, which the settings accept, one spike ends a solve as
  diverging (`SpikeNeverTriggers` is about longer windows).
- The header states the rule of the sustained runaway without a floor
  (`SolverRobustness.hpp:389-390`); the code compares with `max(floor, oldest)`
  (`SolverRobustness.cpp:419-420`, with its reason at 407-418). Model and
  `DivergenceMatchesHistory` follow the code.
- From an overflowed initial residual the fallback's target is infinite and its first
  attempt reports Converged at once (excluded by `RecoveredUnlessOverflowed`).
- A turbulence model's fields are not in the restart file, and a resumed run starts its
  model anew (`RestartSnapshot.hpp:57`).
- A state of the wrong size is refused by AlePISO before the mesh is touched
  (`AlePISO.cpp:134-135`), but TransientSolver's hook (`TransientSolver.cpp:65`) then undoes
  the last accepted step's motion; `MeshFollowsState` asks only for states that fit.
- The restart of a moving-mesh run is refused by the fingerprint according to
  `results/p12-mesh-007/summary.md:463` and `architecture.md:57-58` there, but
  `computeMeshFingerprint` knows only positions (`MeshFingerprint.cpp:54-84`): where they
  recur (`StationaryMotion`; `SinusoidalMotion` at half its period, `MeshMotion.cpp:85`) the
  file is accepted, and the new process plays the motion from its start again.
  `MeshFollowsState` therefore claims where the mesh stands, and the time of the motion only
  when no position recurs.
- From its pages alone a new case cannot be completed and a module's fields cannot be
  removed, although `docs/user_guide/gui.md:12` begins the workflow with New: BoundaryEditor
  shows the patches the case has, a new one none, and only ever adds to them
  (`BoundaryEditor.qml:23`, 34-37). `setBoundaryConfig()` can, and `NoDeadEnd` needs it. A
  grading handed to `setMeshAndGeometry()` for a box would be kept for good; only the page
  leaves the keys out.
- With no boundary face at all `createMultiBlock2D` reads the first of no segments
  (`MeshGeometry.cpp:908`), which is undefined; the model refuses such a mesh by its
  winding numbers. No mesh file that is checked has none.
- Blocks that overlap where no cell has its centroid are accepted, although
  `docs/user_guide/case_format.md:285-290` lists overlapping blocks as rejected: the winding
  number is taken at centroids only (`MeshGeometry.cpp:995-1025`). `GateIsExact` therefore
  claims for several blocks only that no centroid lies in another cell.
- Overlapping blocks are accepted even with centroids inside other cells when an interface
  joins two sides that run in the same direction round their blocks, so that both blocks lie
  on the same side of it. `createMultiBlock2D` compares the vertices of the two sides and not
  their directions (`MeshGeometry.cpp:762-786`), and two such overlaps can cancel in the
  winding numbers and pass the gate: `SameSide` in MCMovingMesh, three blocks of one cell,
  is built and judged valid, by the models and by the program. The face between the two
  blocks then points out of the neighbour. What this breaks is stated for interfaces whose
  sides face each other (`InterfacesFace`): the direction into the neighbour in
  `FacesAreTheEdges`, connectedness and centroids in `GateIsExact`, and the conservation law,
  which takes a shared face's swept volume from the neighbour. All else is claimed, and
  proved, of such meshes too.

### Bounds, and why they are enough

- *gui_controller, gui_window.* `Dirs = {d1}`: the directory matters only where the open
  case is not the one being solved, and for that a new, unsaved case or another definition in
  the same directory is enough. `Contents` has a definition that builds and one that does not
  (the window's run: only one that builds). `MaxIterations = 2` (1 in the window's run): a
  request can come before the first check, during and between iterations. The number of runs
  is not bounded: every history variable is reset when a run starts.
- *case_files.* `MaxSteps = 3` cases opened, edits and validations and `MaxSaves = 1`: open,
  edit, validate, save is the whole of the promise that is checked, and a save over another
  case needs no second one. A new case is not counted, so that mesh, boundaries and
  validation can make it valid and it is saved and run. Two directories, of which a save may
  overwrite `d1`; three pairs of cases, in which each of the five kinds (thermal,
  compressible, box, multiblock, quad) is opened, and three are overwritten. `Toggles` is
  the thermal module, the one with a boundary field and a rule against another setting;
  every turbulence block and gas can be chosen. `BoundaryMaps` has four plain patches, four
  thermal ones, and three. 2,861,820 states.
- *project_runner.* `MaxRuns = 2`: the properties relate the last run's files to those of
  one earlier run. Two iterations. Its two cases cover every module, both paths of the
  compressible block and the device's behaviour when an iteration fails.
- *simple_solve.* `MaxIterations = 3`: a copy can be one or two iterations old, and a first,
  a middle and a last iteration exist. `Corrections` 0, 1 and 2: no further pass, the same
  number counted differently, and one further pass. All three optional terms.
  (*gpu_configuration* needs one iteration.)
- *outer_monitor.* Six iterations are twice the divergence window (3) and three times the
  stagnation window (2), so that every ring buffer wraps and a value leaves the window before
  a verdict depends on it. The streak of improvements is 2 instead of 5 and the oscillation
  window 2 ratios instead of 4: both are only compared with a counter. The settings switch
  each criterion on and off. The samples lie around the thresholds: converged, at the
  tolerance, just above it, at and above twice it, and an overflow in a checked and in the
  unchecked residual.
- *linear_solve.* Three iterations and a GMRES cycle of two: a cycle ends before, at and
  after the limit, and a sequence can iterate, restart, iterate and break down. Norms up to
  3 with a rounding of 1 give residuals at, above and below each tolerance. The
  configurations use each solver as the primary, both tolerances and each alone, with and
  without a preconditioner, and 0 to 2 attempts (the longest list of candidates is two).
  Matrices of three rows are the smallest that can be reducible while one block is strictly
  dominant and the other singular. Vectors with entries from -2 to 2 suffice for them: on
  each of the 1,728 matrices `PositiveDefinite` agrees with Sylvester's criterion (vectors
  from -1 to 1 would not).
- *transient_run.* `DeltaT = 10`, `Tolerance = 2`, ends at 25 and 30: the end is met by a
  shortened step and by a whole one whose rounded time is below, at or above it (the times
  of two of the four steps are rounded either way). Caps of 2 and 4: a leg ends before the
  end, then resumes with the original cap or again with 2. Two meshes, so that a file can
  meet the wrong one; four attempted steps with a transport model. Three motions: one that
  stays, one that never returns, and one that is back halfway through its period, at the time
  of the second step. `Horizon = 41` ticks of motion in one process are more than the longest run takes
  and let the third motion return twice. 385,644 states.
- *block_mesh.* 1,221 mesh files: one block of four cells whose inner vertex is on each
  point of a 7 by 7 lattice, in both mesh types, with bent, misordered and short outlines;
  two blocks in four orientations and eight positions (beside, apart, overlapping,
  non-conformal) with no interface or each of the 32 that can be declared; a ring joined to
  itself, filled, and overlapping itself; four blocks round a hole; two blocks under an
  arch whose facing sides bulge apart or over each other; nested folded blocks; malformed
  files; two interfaces whose blocks lie on one side of them. Five of them move, up to three steps ahead of the start, one vertex or all of them
  displaced, including back to where they were and into folded cells. 7,493 states.

### Fairness

`WF(WorkerStep)` and `WF(UiCompletes)`: an operating system thread that can take a step
takes one eventually, and a handler that has begun returns. `WF(RunnerStep)` and weak
fairness of SimpleSolve's next step: the same for the thread that runs a case or a solve.
Nothing is assumed of the user, a reader, the disk or a request to cancel. Iterations are
bounded by the solver's own limit, so that no fairness about the numerics is needed.
`RunEnds` and `CloseCompletes` hold because the worker's signals are queued and nothing the
worker does waits for the UI thread; the mutated forms `PublishesOnUiThread` and
`ClearsOnUiThread` show what a blocking call would do. The other specifications state no
fairness: their properties are about what may not happen.

## 4. Proofs

For all values of the constants, under the named assumption each module makes of them.
Every theorem follows from an inductive invariant: a conjunction of the property with what
keeps it true, proved for the initial states and for each action in turn.

| Theorem | Property | Invariant and why the property is not inductive |
|---|---|---|
| *MainWindowProofs*, the controller (`SessionAssumption`, `MaxIterationsAssumption`) | | |
| `TypeCorrect`, `TypeOKHolds` | `TypeOK` | *TypeInv*: an iteration in progress must have one left, a status must be there to be stored, a worker past its checks must have a directory. |
| `RunningFlagIsExact` | `OneRunAtATime` | *FlagInv*: `running` is equivalent to a position of the worker; only the UI thread starts one. |
| `ResultMatchesState` | `FinishedStateMatchesLastRun` | *ResultInv*: between the two stores the result is the status to be reported, or was emptied by opening another case. |
| `StopIsPrecise` | `StopIsExact` | *StopInv*: a request in time keeps the flag set until the next check, and counts the iterations that have begun; only the worker clears the flag, once. |
| `ResultsAreSettled` | `ResultsStayWhole` | *ExportInv*: a file is half written only while the worker writes it, and a closed window has joined it. |
| *MainWindowProofs*, the window | | |
| `WindowDrivesController` | | The window's steps are the controller's or stutters, so that its theorems hold in the window too. |
| `WindowTypes`, `StopStaysOffered`, `ButtonsSettle`, `EditsAreFlagged` | (types), `StopIsOffered`, `ViewSettles`, `EditIsFlaggedUntilARun` | *WindowInv* = TypeInv, WindowValues, ViewInv, EditIsFlaggedUntilARun. ViewInv: a button that differs from the controller's answer has a signal on its way or a worker that will send one. |
| *CaseFilesProofs* (`CaseFilesAssumption`) | | |
| `CaseTypes`, `WhatIsReadCanBeBuilt`, `WhatIsValidatedIsRun`, `NothingIsADeadEnd` | `CaseTypeOK`, `AcceptedCaseBuilds`, `ValidatedCaseIsRun`, `NoDeadEnd` | *CaseInv* = ShapeInv, MemoryInv, SaveInv, ReadInv. MemoryInv: the open definition has the mesh type its geometry calls for and no key of another type, whatever the pages have done since; NoDeadEnd follows from that (`Completion`). SaveInv: the files before the one being written hold what the writer writes for the open definition; ReadInv: a reading that began after the promise has parsed the promised sections. |
| *ProjectRunnerProofs* (`RunnerAssumption`) | | |
| `RunnerTypes`, `ModulesFollowFlow`, `ZeroMeansComplete`, `FilesTellOneStory`, `QuietViewIsOfLastRun`, `CancelCostsOneIteration` | the six safety properties of the run | *DirectoryInv* = RunnerTypeOK, PathInv, ModuleInv, LateInv, ExportInv, ReaderInv: which modules can have a result at each position, which files are of the running run during an export, and what a viewer may hold while nothing runs. |
| *SimpleSolveProofs* (`SimpleAssumption`) | | |
| `SimpleTypes`, `NothingStaleIsRead`, `AuthorityTellsTheTruth`, `PassesAreCounted` | `SimpleTypeOK`, `NoStaleRead`, `AuthorityIsTruthful`, `PassesPerIteration` | *SolveInv*: for each stage, the copies and products that are current on each side of the bus, and the counts so far. |
| `RefinesOuterLoop` | (safety part of `ImplementsOuterLoop`) | Initial states map to initial states, and each stage to a step of OuterLoop or a stutter, under SolveInv. |
| *OuterIterationMonitorProofs* (`RelaxationAssumption`, `MonitorAssumption`) | | |
| `FactorsAreSafe`, `SpacedIncreases` | `FactorsStaySafe`, `IncreasesAreSpaced` of the controller alone, given any measures | *RelaxationInv*: the ceiling is below every factor that was ever decreased, or at the minimum, and survives an increase because an increase is cut at it; the streak is at most the updates since the factors moved. |
| `TrackersReflectHistory` | `TrackersMatchHistory` | *TrackerInv*, for each tracker: every slot of the ring buffer holds the residual, and the iteration, that lies as many finite residuals back as the slot is away from the head. A value leaves the window only from its own slot, so the slots have to be known, not just their contents. |
| `VerdictIsThatOfHistory` | `VerdictMatchesHistory` | *MonitorInv* = RelaxationInv, TrackerInv of all trackers, and what has been judged: no distance before the last was within one (the solve would have ended), and where divergence is watched no residual has overflowed, so that the windows are the last iterations without a gap. So no best before the window is zero, a case `record()` exempts from stagnation and the header does not. |
| `MonitorDrivesController`, `MonitorKeepsFactorsSafe`, `MonitorSpacesIncreases` | (refinement), `FactorsStaySafe`, `IncreasesAreSpaced` | Under MonitorInv a record is an update with a measure or leaves the controller alone, so that the first two theorems hold of the monitor. |
| *LinearSolveProofs* (`LinearSolveAssumption`) | | |
| `SolveIsAccounted`, `RecoveryIsAccurate` | `IterationsAreAccounted`, `RecoveredUnlessOverflowed` | *PaidInv*: a sequence whose residual has decreased has done an iteration no restart was paid with. *CountInv* follows the history through solvers and sum. *AccuracyInv*: which criterion the running solver has; `TargetIsThePrimarys` is the lemma that meeting the target is meeting the caller's criterion. |
| `CgIsForDefinite` | `CgOnlyIfDefinite` | *CandidateInv*: what is left of the candidates, whichever attempts were taken off, contains CG only if the test of the matrix allowed it. `EligibleIsDefinite` is the lemma of linear algebra, for any finite number of rows, any integer entries and any set of vectors: a symmetric, diagonally dominant, irreducible matrix with one strictly dominant row has a positive form. |
| *TransientRunProofs* (`TransientAssumption`) | | |
| `TransientTypes`, `ResumesExactly`, `NoSlivers`, `MeshFollows` | `TransientTypeOK`, `ResumeIsExact`, `NoSliverStep`, `MeshFollowsState` | *RunInv*: the accepted state and a whole file are the uninterrupted run's at their step; the time is that of the step; the mesh stands where the last step left it, or would after undoing the motion while a step is in progress; a file names the position its state ends at, so that a mesh whose fingerprint it has stands there too, and so at its time if positions never recur. |
| *MovingMeshProofs* (`MovingMeshAssumption`) | | |
| `FacesAreTheEdgesHolds` | `FacesAreTheEdges` | *MotionInv* (`MotionInvHolds`): an accepted mesh is the one of a file that was built (`IsBuilt`: the checks before any face hold, the cells are strictly convex, no face joins a cell to itself), whichever builder made it. The property says nothing of the file that was judged, and so is not inductive: a mesh is not checked again after the gate. |
| `MotionIsConsistentHolds` | `MotionIsConsistent` | The same: a mesh in motion is the built one with the geometry of `current`; what `revert()` keeps is either nothing, with the vertices unchanged, or the geometry of the vertices it keeps; every set of vertices the motion has or may go back to makes strictly convex cells; the last step is from the vertices to go back to. A kept geometry says nothing of its vertices by itself, so that a revert would leave mesh and vertices unrelated. |
| `MotionFollowsVertices` | (`MeshFollowsVertices`) | MotionInv; with it, each cell is strictly convex and of positive volume (`ConvexHasArea`). |
| `RevertUndoes` | (`RevertUndoesStep`, of steps) | Under MotionInv setting the geometry twice is setting the last one (`MeshAtFacts`), and a mesh that has not moved has its vertices' geometry already. |
| `GeometricConservation` | (`CellsGrowBySweptVolumes`) | The law for the four sides of a cell, facing interfaces or not. MotionInv gives the vertices before and after the step; `QuadSweeps` is the identity for one cell, and `SideSweeps` that the faces' formula with its sign conventions is the sweep of the edge taken counter-clockwise. |

What a window holds, what has left it and what is the largest of the first values are facts
about histories of any length. They are proved without induction over data: the invariant
moves one step at a time, and where a set of residuals must have a least or a largest
member, one is found as the least counterexample of the natural numbers' order
(`LeastNatural`, `LargestExists`). The same way sums over the rows get their laws
(`SumRemoves`, `SumAdds`, `ExchangesCancel`): a smallest set of rows for which the law fails
is a contradiction (`SmallestRows`). With these, twice the form is the sum of a gain for each pair of rows
(`FormIsHalfTheGains`): a square times the magnitude of their entry, and on the diagonal
the excess of the row times a square. What a row gives another beyond that the other one
takes, and it cancels. If the form is not positive, every gain is zero; so neighbours have
entries of the same magnitude, by irreducibility all rows have, and the strictly dominant
row makes it zero.

The proofs about a mesh are for any number of blocks of any size, joined in any way; their
sections follow the program's own numbering. First the sequences: that the two recursive
functions exist at all (`FlattenExists`, `WeldExists`), where the members of flattened
sequences are (`FlattenIndex`, `OffsetsCover`, again by a least counterexample), and that
a member that is once in one of them is once in the whole (`FlattenOnce`). So each place of
each block has one cell number and each edge one place among the edges (`CellPlacesFacts`,
`BlockEdgesFacts`, `FaceEdgesFacts`). Then the interfaces: a side is used once (`UsedOnce`),
the faces of two joined sides are paired one to one and have the same vertices, aligned or
reversed (`PartnerFacts`, `SameVertices`), so that exactly one edge with a face *serves*
each edge of each cell: itself, or the one across the interface (`EdgeIsServed`,
`ServedByOne`). The face of an edge lies where the edges are that it serves and nowhere
else (`ServesTouches`, `TouchesServes`): two edges of one strictly convex cell do not have
one midpoint (`MidpointsApart`). This is
`FacesAreTheEdges` (`EveryEdgeIsAFace`, `EveryFaceIsAnEdge`, `PatchCounts`, `PatchMids`);
that `buildStructuredMesh` makes the same mesh of one block, id for id, is
`StructuredIsMeshOf`.

For the motion, `TopologyIs` shows that `structuredTopology` finds the vertices: the welded
vertices of a cell are its corners (`CellIdsAre`), and the side nearest to a face of the
owner is the edge the face is of (`NearestIs`, `FaceSidesAre`). A mesh whose vertices were
moved is compared with a mesh file that has the blocks where they now are (`Rebuilt`): it
has the same numbering and the same sides (`SameCells`, `SameEdges`, `SameNeighbors`), and
its interfaces still meet because joined vertices have one number (`RebuiltIsJoined`), so the
builder would make the moved mesh of it (`RebuiltMesh`, `MovedMesh`). With the file as it
was read this is also why an accepted mesh can always be set in motion (`HomeFacts`). Last,
the faces of a cell are its four edges and no others (`FacesOfCell`), so that the sum over
its faces is the one of its sides (`SumOverFaces`, `MotionConserves`).

Only model-checked: the liveness properties and the termination part of
`ImplementsOuterLoop` (fairness and ENABLED are outside the prover's reach), and
`GateIsExact`, which is about what the boundary curve and the winding number say of
plane regions: a polygonal Jordan curve theorem would have to be proved first.

## 5. What is left out, and why

- The numerical kernels (gradient, convection, diffusion, boundary and physics assembly,
  turbulence closures, thermal, species and volume-fraction solves, the CUDA kernels) are
  straight-line arithmetic on reals. A state machine would say nothing about them; the
  models say when each is called, with which copy of its inputs, and how it may fail. They
  are most of the repository's lines, and the share of lines the models cover stays small
  for that reason. So do the equivalence tools and the copies of sources kept under
  `results/`, and the drawing code of the front end.
- Meshes: graded spacing and the bodies of the three-dimensional builder are real
  arithmetic; the quality metrics and warnings change no decision.
- Controller: `lastError_`, `validationStatus_`, `meshQuality_` and the progress counters
  are read by no guard. `reload()` has no caller. A run that throws ends the process: it is
  in ProjectRunner, and the controller's model has no such step.
- Case files: numbers and texts, the metadata and initial-condition pages, the construction
  of the runtime objects.
- Result files: contents other than which run and which modules they come from; whether a
  module's own solve converged only changes the metadata's text.
- Robustness classes: diagnostic histories and messages, a tracker's best value and mean.
- Linear solvers: the vectors, the GPU solvers, the choice of the backend.
- CompressibleSIMPLE: an iteration is one step that may end the solve.

Components that are not modelled at all are listed with the reason in `PROJECT.json`.

## 6. Plan

Done: session, controller and window; case files and pages; ProjectRunner, exporter and
viewer; SIMPLE stage by stage and its abstract outer loop; the robustness classes; linear
solvers with fallback; transient runs with restart and mesh motion; mesh builders, the
quality gate and the motion of vertices; proofs for ten of the modules, of every safety
property the runs check except `GateIsExact`.

Left, in this order:

1. CompressibleSIMPLE stage by stage, with the density and temperature it shares with the
   flow, as a second implementation of OuterLoop.
2. An abstract specification of a run (requested, in progress, ended with one status, its
   results settled) implemented by both SimulationController and ProjectRunner.
3. The device's residency manager: buffers, generations and streams below SimpleSolve's
   authorities.
4. The three-dimensional builder's numbering on BlockMesh's integer lattice.
5. The half of `GateIsExact` that needs no plane topology: an accepted structured_quad mesh
   tiles its rectangle.
6. Marching squares over a small grid against a reference.
