----------------------------- MODULE ProjectRunner -----------------------------
(***************************************************************************)
(* One case directory and the runs made of it: ProjectRunner::run          *)
(* (src/src/app/ProjectRunner.cpp) solves the flow, then the passive       *)
(* physics modules, then the compressible module, and ResultExporter       *)
(* writes the four result files one after the other over those of the run  *)
(* before.  A viewer may load the directory (loadSnapshotFromResults) at   *)
(* any time, the run may be asked to cancel, and the process may die.      *)
(*                                                                         *)
(* A file is represented by the number of the run that wrote it; field     *)
(* values by whether they are finite.  A module's own fields are finite    *)
(* whatever its status, so only the flow's finiteness is kept.             *)
(***************************************************************************)
EXTENDS Naturals, Sequences

CONSTANTS
  Cases,          \* the cases CaseBuilder accepts
  MaxIterations,  \* the outer-iteration limit of both flow solvers
  MaxRuns,        \* bound: runs made of the directory
  None

Modules == {"thermal", "species", "multiphase", "compressible"}

\* gpu: device discretization; coupled and thermalCoupled: the compressible block's.
CaseType == [modules : SUBSET Modules, gpu : BOOLEAN, coupled : BOOLEAN,
             thermalCoupled : BOOLEAN]

ASSUME RunnerAssumption ==
  /\ Cases \subseteq CaseType
  /\ \A c \in Cases : /\ c.coupled => "compressible" \in c.modules
                      /\ c.thermalCoupled => {"thermal", "compressible"} \subseteq c.modules
  /\ MaxIterations \in Nat \ {0}
  /\ MaxRuns \in Nat \ {0}
  /\ None \notin Nat

FileOrder == <<"metadata", "residuals", "fields", "vtk">>
Files == {"metadata", "residuals", "fields", "vtk"}

VARIABLES
  pc,        \* the stage of the run
  run,       \* its number
  case,      \* setup, the case it solves
  iter,      \* outer iterations the current solver has completed
  finite,    \* whether the fields SIMPLE returned are finite
  massFlux,  \* massFlux.has_value()
  outcome,   \* what each module's metadata will say
  status,    \* out.status; "killed" and "thrown" when run() did not return
  position,      \* the position in FileOrder of the file being exported
  files,     \* results/: the run that wrote each file, 0 if it does not exist
  torn,      \* the files that hold a part of what was to be written
  entries,   \* the module entries inside metadata.json
  columns,   \* the module columns inside fields.csv and solution.vtk
  cancel,    \* what options.cancellationCheck returns
  late,      \* history: outer iterations completed since a cancellation request
  reader,    \* the file the viewer reads next, or "shown"
  seen,      \* the runs whose files the viewer has read
  quiet      \* history: no run was in progress since the viewer began

runVars == <<run, case, iter, finite, massFlux, outcome>>
exportVars == <<position, files, torn, entries, columns>>
readVars == <<reader, seen, quiet>>
vars == <<pc, status, cancel, late, runVars, exportVars, readVars>>

Statuses == {"Converged", "DidNotConverge", "NumericalFailure", "Cancelled",
             "InvalidCase", "ApplicationError"}
SolverFailures == {"MomentumFailure", "PressureCorrectionFailure", "NonFiniteState"}
StartFailures  == {"InvalidConfiguration", "NonFiniteState"}

\* The iterated, module and export stages, in the order a run passes them.
SimplePC == {"checking", "iterating"}
ModulePC == {"thermal", "species", "multiphase", "compressible"}
ExportPC == {"directory", "opening", "writing"}
PC == {"idle", "coupled"} \cup SimplePC \cup ModulePC \cup ExportPC

RunnerTypeOK ==
  /\ pc \in PC
  /\ run \in 0 .. MaxRuns
  /\ case \in Cases \cup {None}
  /\ iter \in 0 .. MaxIterations
  /\ finite \in BOOLEAN
  /\ massFlux \in BOOLEAN
  /\ outcome \in [Modules -> {"absent", "ran", "NotRun"}]
  /\ status \in Statuses \cup {None, "killed", "thrown"}
  /\ position \in 1 .. Len(FileOrder) + 1
  /\ files \in [Files -> 0 .. MaxRuns]
  /\ torn \subseteq Files
  /\ entries \in [Modules -> {"absent", "ran", "NotRun"}]
  /\ columns \subseteq Modules
  /\ cancel \in BOOLEAN
  /\ late \in 0 .. 2 * MaxIterations
  /\ reader \in {"none", "fields", "residuals", "shown"}
  /\ seen \subseteq 1 .. MaxRuns
  /\ quiet \in BOOLEAN

Init ==
  /\ pc = "idle"
  /\ run = 0
  /\ case = None
  /\ iter = 0
  /\ finite = TRUE
  /\ massFlux = FALSE
  /\ outcome = [m \in Modules |-> "absent"]
  /\ status = None
  /\ position = 1
  /\ files = [f \in Files |-> 0]
  /\ torn = {}
  /\ entries = [m \in Modules |-> "absent"]
  /\ columns = {}
  /\ cancel = FALSE
  /\ late = 0
  /\ reader = "none"
  /\ seen = {}
  /\ quiet = FALSE

--------------------------------------------------------------------------------
(* The statuses of the two solvers as a run's status.                       *)

\* Mutated form: the solver's status is passed on as it is.
StatusUntranslated(s) == s

StatusFor(s) ==
  CASE s = "Converged"                     -> "Converged"
    [] s \in {"MaxIterations", "Stagnated"} -> "DidNotConverge"
    [] s = "Cancelled"                     -> "Cancelled"
    [] OTHER                               -> "NumericalFailure"

ExitCodeFor(s) ==
  CASE s = "Converged"        -> 0
    [] s = "ApplicationError" -> 1
    [] s = "InvalidCase"      -> 2
    [] s = "DidNotConverge"   -> 3
    [] s = "NumericalFailure" -> 4
    [] s = "Cancelled"        -> 5

(* The run.                                                                *)

\* The caller has cleared the flag; the case is read and built.
StartRun(c) ==
  /\ pc = "idle"
  /\ run < MaxRuns
  /\ run' = run + 1
  /\ case' = c
  /\ iter' = 0
  /\ finite' = TRUE
  /\ massFlux' = FALSE
  /\ outcome' = [m \in Modules |-> "absent"]
  /\ status' = None
  /\ cancel' = FALSE
  /\ late' = 0
  /\ pc' = "checking"
  /\ quiet' = FALSE
  /\ UNCHANGED <<exportVars, reader, seen>>

RejectCase ==
  /\ pc = "idle"
  /\ status' = "InvalidCase"
  /\ UNCHANGED <<pc, cancel, late, runVars, exportVars, readVars>>

\* Mutated form: the iteration is not counted.
IteratesUncounted == UNCHANGED <<iter, late>>

\* An outer iteration is completed.
Iterates ==
  /\ iter' = iter + 1
  /\ late' = IF cancel THEN late + 1 ELSE late

\* SIMPLE returns: the flow's status, and the mass flux the modules share.
SimpleEnds(s, usable) ==
  /\ finite' = usable
  /\ status' = StatusFor(s)
  /\ massFlux' = (case.modules # {} /\ usable)
  /\ pc' = "thermal"

\* SIMPLE returns before its first iteration, whatever was requested.
SimpleRejects ==
  /\ pc = "checking"
  /\ iter = 0
  /\ \E s \in StartFailures : SimpleEnds(s, TRUE)
  /\ UNCHANGED <<run, case, iter, outcome, cancel, late, exportVars, readVars>>

\* Mutated form: cancellation is looked at before the first iteration only.
ChecksOnce ==
  /\ pc = "checking"
  /\ IF cancel /\ iter = 0
     THEN SimpleEnds("Cancelled", TRUE)
     ELSE pc' = "iterating" /\ UNCHANGED <<finite, status, massFlux>>
  /\ UNCHANGED <<run, case, iter, outcome, cancel, late, exportVars, readVars>>

SimpleChecks ==
  /\ pc = "checking"
  /\ IF cancel
     THEN SimpleEnds("Cancelled", TRUE)
     ELSE pc' = "iterating" /\ UNCHANGED <<finite, status, massFlux>>
  /\ UNCHANGED <<run, case, iter, outcome, cancel, late, exportVars, readVars>>

\* An iteration that is committed, and one that is not. Of the latter the host
\* keeps the fields of the iteration before; the device has overwritten them.
SimpleIterates ==
  /\ pc = "iterating"
  /\ \/ /\ Iterates
        /\ \/ /\ iter' < MaxIterations
              /\ pc' = "checking"
              /\ UNCHANGED <<finite, status, massFlux>>
           \/ /\ iter' = MaxIterations
              /\ SimpleEnds("MaxIterations", TRUE)
           \/ \E s \in {"Converged", "Stagnated", "Diverging"} : SimpleEnds(s, TRUE)
     \/ /\ UNCHANGED <<iter, late>>
        /\ \E s \in SolverFailures, usable \in BOOLEAN :
             /\ ~usable => s = "NonFiniteState" /\ case.gpu /\ iter > 0
             /\ SimpleEnds(s, usable)
  /\ UNCHANGED <<run, case, outcome, cancel, exportVars, readVars>>

\* Mutated form: the modules need a converged flow.
OutcomeIfConverged(m) ==
  IF m \notin case.modules THEN "absent"
  ELSE IF massFlux /\ status = "Converged" THEN "ran" ELSE "NotRun"

\* The passive modules run on a usable flow and are reported NotRun otherwise.
ModuleOutcome(m) ==
  IF m \notin case.modules THEN "absent" ELSE IF massFlux THEN "ran" ELSE "NotRun"

Passive(m, then) ==
  /\ pc = m
  /\ outcome' = [outcome EXCEPT ![m] = ModuleOutcome(m)]
  /\ pc' = then
  /\ UNCHANGED <<run, case, iter, finite, massFlux, status, cancel, late,
                 exportVars, readVars>>

SolveThermal       == Passive("thermal", "species")
SolveSpecies       == Passive("species", "multiphase")
StepVolumeFraction == Passive("multiphase", "compressible")

CanEvaluate ==
  finite /\ (case.thermalCoupled => outcome["thermal"] = "ran")

\* No compressible block, a flow that cannot be evaluated, or the post-hoc pass.
EvaluateCompressible ==
  /\ pc = "compressible"
  /\ ~(case.coupled /\ CanEvaluate)
  /\ outcome' = [outcome EXCEPT !["compressible"] =
       IF "compressible" \notin case.modules THEN "absent"
       ELSE IF CanEvaluate THEN "ran" ELSE "NotRun"]
  /\ pc' = "directory"
  /\ UNCHANGED <<run, case, iter, finite, massFlux, status, cancel, late,
                 exportVars, readVars>>

\* evaluateDensityField rejects an absolute pressure that is not positive, and
\* nobody between there and main() catches the exception.
EvaluateThrows ==
  /\ pc = "compressible"
  /\ "compressible" \in case.modules
  /\ CanEvaluate
  /\ status' = "thrown"
  /\ pc' = "idle"
  /\ UNCHANGED <<cancel, late, runVars, exportVars, readVars>>

StartCoupled ==
  /\ pc = "compressible"
  /\ case.coupled
  /\ CanEvaluate
  /\ pc' = "coupled"
  /\ iter' = 0
  /\ UNCHANGED <<run, case, finite, massFlux, outcome, status, cancel, late,
                 exportVars, readVars>>

\* CompressibleSIMPLE's outcome replaces the status of the run.
CoupledEnds(s) ==
  /\ status' = StatusFor(s)
  /\ outcome' = [outcome EXCEPT !["compressible"] = "ran"]
  /\ pc' = "directory"

\* An outer iteration of CompressibleSIMPLE: no cancellation check.
CoupledIterates ==
  /\ pc = "coupled"
  /\ \/ /\ Iterates
        /\ \/ iter' < MaxIterations /\ UNCHANGED <<pc, status, outcome>>
           \/ iter' = MaxIterations /\ CoupledEnds("MaxIterations")
           \/ \E s \in {"Converged", "Stagnated", "Diverging"} : CoupledEnds(s)
     \/ /\ UNCHANGED <<iter, late>>
        /\ \/ \E s \in SolverFailures : CoupledEnds(s)
           \/ iter = 0 /\ \E s \in StartFailures : CoupledEnds(s)
  /\ UNCHANGED <<run, case, finite, massFlux, cancel, exportVars, readVars>>

--------------------------------------------------------------------------------
(* ResultExporter::write.                                                  *)

\* Mutated form: the exception is swallowed.
ExportFailsSilently == pc' = "idle" /\ UNCHANGED status

ExportFails ==
  /\ status' = "ApplicationError"
  /\ pc' = "idle"

\* Mutated form: the export resumes at the file where the last one stopped.
ResumesExport ==
  /\ pc = "directory"
  /\ \/ pc' = "opening" /\ UNCHANGED status
     \/ ExportFails
  /\ UNCHANGED <<cancel, late, runVars, exportVars, readVars>>

CreateDirectory ==
  /\ pc = "directory"
  /\ position' = 1
  /\ \/ pc' = "opening" /\ UNCHANGED status
     \/ ExportFails
  /\ UNCHANGED <<cancel, late, runVars, files, torn, entries, columns, readVars>>

Columns == {m \in Modules : outcome[m] = "ran"}

\* Opening a file truncates it; a file that cannot be opened keeps what it had.
OpenFile ==
  /\ pc = "opening"
  /\ \/ LET f == FileOrder[position]
        IN  /\ files' = [files EXCEPT ![f] = run]
            /\ torn' = torn \cup {f}
            /\ entries' = IF f = "metadata" THEN outcome ELSE entries
            /\ columns' = IF f = "fields" THEN Columns ELSE columns
            /\ pc' = "writing"
            /\ UNCHANGED status
     \/ ExportFails /\ UNCHANGED <<files, torn, entries, columns>>
  /\ UNCHANGED <<position, cancel, late, runVars, readVars>>

\* Mutated form: only a converged run writes its fields.
FieldsIfConverged ==
  /\ pc = "writing"
  /\ torn' \in {torn, torn \ {FileOrder[position]}}
  /\ position' = position + 1
  /\ pc' = IF position' > Len(FileOrder) \/ (position' > 2 /\ status # "Converged")
           THEN "idle" ELSE "opening"
  /\ UNCHANGED <<status, cancel, late, runVars, files, entries, columns, readVars>>

\* Only the opening of a file is checked: what a full disk cuts off is not noticed.
\* The field files are left out unless the flow is finite.
WriteFile ==
  /\ pc = "writing"
  /\ torn' \in {torn, torn \ {FileOrder[position]}}
  /\ position' = position + 1
  /\ pc' = IF position' > Len(FileOrder) \/ (position' > 2 /\ ~finite)
           THEN "idle" ELSE "opening"
  /\ UNCHANGED <<status, cancel, late, runVars, files, entries, columns, readVars>>

--------------------------------------------------------------------------------
(* The environment: the caller's Stop, the end of the process, the viewer. *)

RequestCancel ==
  /\ pc # "idle"
  /\ ~cancel
  /\ cancel' = TRUE
  /\ UNCHANGED <<pc, status, late, runVars, exportVars, readVars>>

Kill ==
  /\ pc # "idle"
  /\ pc' = "idle"
  /\ status' = "killed"
  /\ UNCHANGED <<cancel, late, runVars, exportVars, readVars>>

\* loadSnapshotFromResults checks that the three files exist before reading them.
ReadMetadata ==
  /\ reader = "none"
  /\ \A f \in {"metadata", "fields", "residuals"} : files[f] > 0
  /\ reader' = "fields"
  /\ seen' = {files["metadata"]}
  /\ quiet' = (pc = "idle")
  /\ UNCHANGED <<pc, status, cancel, late, runVars, exportVars>>

ReadFields ==
  /\ reader = "fields"
  /\ reader' = "residuals"
  /\ seen' = seen \cup {files["fields"]}
  /\ UNCHANGED <<pc, status, cancel, late, runVars, exportVars, quiet>>

ReadResiduals ==
  /\ reader = "residuals"
  /\ reader' = "shown"
  /\ seen' = seen \cup {files["residuals"]}
  /\ UNCHANGED <<pc, status, cancel, late, runVars, exportVars, quiet>>

\* A torn file may fail to parse, and the viewer may load again.
ReadAgain ==
  /\ reader # "none"
  /\ reader = "shown" \/ torn # {}
  /\ reader' = "none"
  /\ seen' = {}
  /\ quiet' = FALSE
  /\ UNCHANGED <<pc, status, cancel, late, runVars, exportVars>>

--------------------------------------------------------------------------------

RunnerStep ==
  \/ SimpleRejects \/ SimpleChecks \/ SimpleIterates
  \/ SolveThermal \/ SolveSpecies \/ StepVolumeFraction
  \/ EvaluateCompressible \/ EvaluateThrows
  \/ StartCoupled
  \/ CoupledIterates
  \/ CreateDirectory \/ OpenFile \/ WriteFile

ReaderStep == ReadMetadata \/ ReadFields \/ ReadResiduals \/ ReadAgain

Next ==
  \/ \E c \in Cases : StartRun(c)
  \/ RejectCase
  \/ RunnerStep
  \/ RequestCancel
  \/ Kill
  \/ ReaderStep

\* The thread that runs the case is scheduled until run() returns.
Spec == Init /\ [][Next]_vars /\ WF_vars(RunnerStep)

--------------------------------------------------------------------------------
(* Safety.                                                                 *)

\* run() returned after its case was built, and without an export error.
Returned == pc = "idle" /\ status \in Statuses \ {"InvalidCase", "ApplicationError"}

\* Every declared module has run when the flow is usable and is reported NotRun
\* when it is not: thermalResult "is guaranteed to have a value" wherever the
\* compressible module needs it (the comment at ProjectRunner.cpp:422).
ModulesRunIffFlowIsFinite ==
  pc \in ExportPC => \A m \in Modules :
    outcome[m] = IF m \notin case.modules THEN "absent"
                 ELSE IF finite THEN "ran" ELSE "NotRun"

\* Exit code 0 is returned only by a run whose flow fields are finite and which has
\* opened and written all four files itself, whatever runs, kills and cancellations
\* came before it.
ExitZeroMeansAllFiles ==
  Returned /\ ExitCodeFor(status) = 0
    => finite /\ \A f \in Files : files[f] = run

\* The files are renewed in one order, so no file is ever newer than one before it:
\* whoever sees the last file of a run finds the others at least as new.
FilesAgeInOrder ==
  \A i, j \in 1 .. Len(FileOrder) :
    i < j => files[FileOrder[i]] >= files[FileOrder[j]]

\* When metadata.json and fields.csv come from the same run, the columns of the one
\* are exactly the modules the other reports as having run.
ColumnsMatchMetadata ==
  files["metadata"] > 0 /\ files["metadata"] = files["fields"]
    => columns = {m \in Modules : entries[m] = "ran"}

\* What the four files of a directory say of each other, whatever mixture of runs,
\* kills and failed exports left them there.
ResultFilesAgree == FilesAgeInOrder /\ ColumnsMatchMetadata

\* A viewer that loads the results while no run is in progress, after one that
\* returned with a finite flow, shows that run and no other.
QuietReloadShowsLastRun ==
  reader = "shown" /\ quiet /\ Returned /\ finite => seen = {run}

\* SIMPLE completes at most the iteration during which it was asked to cancel.
SimpleObeysCancel == pc \in SimplePC \cup ModulePC => late <= 1

(* Liveness.                                                               *)

\* A run always returns, throws or is killed.
RunReturns == (pc # "idle") ~> (pc = "idle")

================================================================================
