-------------------------- MODULE ProjectRunnerProofs --------------------------
(***************************************************************************)
(* Proofs about ProjectRunner, for any set of cases, any iteration limit   *)
(* and any number of runs of the directory.  DirectoryInv is the inductive *)
(* invariant: PathInv, what the stage says of the run; ModuleInv, what the *)
(* modules behind the run have done; LateInv, what a request to cancel     *)
(* still lets happen; ExportInv, which files are of this run; and          *)
(* ReaderInv, what the viewer has.                                         *)
(***************************************************************************)
EXTENDS ProjectRunner, TLAPS

Reported == {"Converged", "DidNotConverge", "NumericalFailure", "Cancelled"}
AfterFlow == ModulePC \cup {"coupled"} \cup ExportPC

\* What the module's metadata has to say at the end.
Target(m) ==
  IF m \notin case.modules THEN "absent" ELSE IF finite THEN "ran" ELSE "NotRun"

PathInv ==
  /\ pc # "idle" => case \in Cases /\ run > 0
  /\ pc \in SimplePC => finite /\ iter < MaxIterations
  /\ pc = "coupled" => finite /\ case.coupled /\ iter < MaxIterations
  /\ pc \in AfterFlow =>
       /\ massFlux <=> (case.modules # {} /\ finite)
       /\ status \in Reported
       /\ status = "Converged" => finite

ModuleInv ==
  /\ pc \in {"species", "multiphase", "compressible", "coupled"} \cup ExportPC =>
       outcome["thermal"] = Target("thermal")
  /\ pc \in {"multiphase", "compressible", "coupled"} \cup ExportPC =>
       outcome["species"] = Target("species")
  /\ pc \in {"compressible", "coupled"} \cup ExportPC =>
       outcome["multiphase"] = Target("multiphase")
  /\ pc \in ExportPC => outcome["compressible"] = Target("compressible")

LateInv ==
  /\ pc # "idle" /\ ~cancel => late = 0
  /\ pc = "iterating" => late = 0
  /\ pc \in SimplePC \cup ModulePC => late <= 1
  /\ pc = "coupled" => late <= 1 + iter

\* The files before the export's position are of this run, those after it are older.
ExportInv ==
  /\ \A f \in Files : files[f] <= run
  /\ pc \notin {"idle", "opening", "writing"} => \A f \in Files : files[f] < run
  /\ pc \in {"opening", "writing"} =>
       /\ position \in 1 .. 4
       /\ \A j \in 1 .. 4 :
            /\ j < position \/ (j = position /\ pc = "writing") => files[FileOrder[j]] = run
            /\ j > position \/ (j = position /\ pc = "opening") => files[FileOrder[j]] < run
       /\ pc = "writing" \/ position > 1 => entries = outcome
  /\ Returned /\ finite => \A f \in Files : files[f] = run
  /\ Returned /\ status = "Converged" => finite
  /\ ResultFilesAgree

ReaderInv ==
  /\ reader \in {"fields", "residuals"} =>
       files["metadata"] > 0 /\ files["fields"] > 0 /\ files["residuals"] > 0
  /\ reader # "none" => seen # {}
  /\ quiet => pc = "idle"
  /\ quiet /\ reader # "none" => seen \subseteq {files[f] : f \in Files}

DirectoryInv == RunnerTypeOK /\ PathInv /\ ModuleInv /\ LateInv /\ ExportInv /\ ReaderInv

--------------------------------------------------------------------------------

\* The files by their position.
LEMMA Order ==
  /\ Len(FileOrder) = 4
  /\ FileOrder[1] = "metadata" /\ FileOrder[2] = "residuals"
  /\ FileOrder[3] = "fields" /\ FileOrder[4] = "vtk"
  BY DEF FileOrder

\* The bounds, and what is assumed of a case.
LEMMA Bounds ==
  /\ MaxIterations \in Nat /\ MaxIterations > 0
  /\ MaxRuns \in Nat /\ MaxRuns > 0
  /\ \A c \in Cases : /\ c.modules \in SUBSET Modules
                      /\ c.coupled => "compressible" \in c.modules
                      /\ c.thermalCoupled => {"thermal", "compressible"} \subseteq c.modules
  BY RunnerAssumption DEF CaseType

\* Every status a solver ends with is reported, and Converged only for itself.
LEMMA StatusFacts ==
  \A s \in {"Converged", "MaxIterations", "Stagnated", "Cancelled", "Diverging",
            "InvalidConfiguration"} \cup SolverFailures :
    /\ StatusFor(s) \in Reported
    /\ StatusFor(s) = "Converged" => s = "Converged"
  BY DEF StatusFor, Reported, SolverFailures

\* Every step keeps the types.
LEMMA TypeStep == ASSUME DirectoryInv, [Next]_vars PROVE RunnerTypeOK'
<1> USE DEF runVars, exportVars, readVars, SimplePC, ModulePC, ExportPC, AfterFlow, PC
<1>1. RunnerTypeOK /\ PathInv /\ LateInv /\ ExportInv /\ ReaderInv
  BY DEF DirectoryInv
<1>2. ASSUME NEW c \in Cases, StartRun(c) PROVE RunnerTypeOK'
  <2>1. run' \in 0 .. MaxRuns /\ 0 \in 0 .. MaxIterations /\ 0 \in 0 .. 2 * MaxIterations
    BY <1>1, <1>2, Bounds DEF StartRun, RunnerTypeOK
  <2>2. outcome' \in [Modules -> {"absent", "ran", "NotRun"}]
    BY <1>2 DEF StartRun
  <2> QED
    BY <1>1, <1>2, <2>1, <2>2 DEF StartRun, RunnerTypeOK
<1>3. CASE RejectCase
  BY <1>1, <1>3, Bounds, StatusFacts DEF RejectCase, RunnerTypeOK, PathInv, StartFailures, SolverFailures, Reported, Statuses
<1>4. CASE SimpleRejects
  BY <1>1, <1>4, Bounds, StatusFacts DEF SimpleRejects, SimpleEnds, RunnerTypeOK, PathInv, StartFailures, SolverFailures, Reported, Statuses
<1>5. CASE SimpleChecks
  BY <1>1, <1>5, Bounds, StatusFacts DEF SimpleChecks, SimpleEnds, RunnerTypeOK, PathInv, StartFailures, SolverFailures, Reported, Statuses
<1>6. CASE SimpleIterates
  <2>1. iter' \in 0 .. MaxIterations /\ late' \in 0 .. 2 * MaxIterations
    <3>1. pc = "iterating" /\ iter \in Nat /\ iter < MaxIterations /\ late = 0
      BY <1>1, <1>6, Bounds DEF SimpleIterates, RunnerTypeOK, PathInv, LateInv
    <3>2. iter' \in {iter, iter + 1} /\ late' \in {late, late + 1}
      BY <1>6 DEF SimpleIterates, Iterates
    <3> QED
      BY <3>1, <3>2, Bounds
  <2>2. /\ finite' \in BOOLEAN /\ massFlux' \in BOOLEAN /\ pc' \in PC
        /\ status' \in Statuses \cup {None, "killed", "thrown"}
    <3>1. Reported \subseteq Statuses
      BY DEF Reported, Statuses
    <3>2. ASSUME NEW s \in {"MaxIterations", "Converged", "Stagnated", "Diverging"}
                             \cup SolverFailures, NEW u \in BOOLEAN, SimpleEnds(s, u)
          PROVE  /\ finite' \in BOOLEAN /\ massFlux' \in BOOLEAN /\ pc' \in PC
                 /\ status' \in Statuses
      BY <3>1, <3>2, StatusFacts DEF SimpleEnds
    <3>3. CASE pc' = "checking" /\ UNCHANGED <<finite, status, massFlux>>
      BY <1>1, <3>3 DEF RunnerTypeOK
    <3> QED
      BY <1>6, <3>2, <3>3 DEF SimpleIterates
  <2> QED
    BY <1>1, <1>6, <2>1, <2>2 DEF SimpleIterates, RunnerTypeOK
<1>7. CASE SolveThermal
  <2>1. outcome' \in [Modules -> {"absent", "ran", "NotRun"}]
    BY <1>1, <1>7 DEF SolveThermal, Passive, ModuleOutcome, RunnerTypeOK
  <2> QED
    BY <1>1, <1>7, <2>1 DEF SolveThermal, Passive, RunnerTypeOK
<1>8. CASE SolveSpecies
  <2>1. outcome' \in [Modules -> {"absent", "ran", "NotRun"}]
    BY <1>1, <1>8 DEF SolveSpecies, Passive, ModuleOutcome, RunnerTypeOK
  <2> QED
    BY <1>1, <1>8, <2>1 DEF SolveSpecies, Passive, RunnerTypeOK
<1>9. CASE StepVolumeFraction
  <2>1. outcome' \in [Modules -> {"absent", "ran", "NotRun"}]
    BY <1>1, <1>9 DEF StepVolumeFraction, Passive, ModuleOutcome, RunnerTypeOK
  <2> QED
    BY <1>1, <1>9, <2>1 DEF StepVolumeFraction, Passive, RunnerTypeOK
<1>10. CASE EvaluateCompressible
  BY <1>1, <1>10, Bounds, StatusFacts DEF EvaluateCompressible, RunnerTypeOK, PathInv, StartFailures, SolverFailures, Reported, Statuses
<1>11. CASE EvaluateThrows
  BY <1>1, <1>11, Bounds, StatusFacts DEF EvaluateThrows, RunnerTypeOK, PathInv, StartFailures, SolverFailures, Reported, Statuses
<1>12. CASE StartCoupled
  BY <1>1, <1>12, Bounds, StatusFacts DEF StartCoupled, RunnerTypeOK, PathInv, StartFailures, SolverFailures, Reported, Statuses
<1>13. CASE CoupledIterates
  <2>1. iter' \in 0 .. MaxIterations /\ late' \in 0 .. 2 * MaxIterations
    <3>1. /\ pc = "coupled" /\ iter \in Nat /\ iter < MaxIterations
          /\ late \in Nat /\ late <= 1 + iter
      BY <1>1, <1>13, Bounds DEF CoupledIterates, RunnerTypeOK, PathInv, LateInv
    <3>2. iter' \in {iter, iter + 1} /\ late' \in {late, late + 1} /\ (iter' = iter => late' = late)
      BY <1>13, <3>1 DEF CoupledIterates, Iterates
    <3>3. late' <= 1 + MaxIterations /\ late' \in Nat
      BY <3>1, <3>2, Bounds
    <3> QED
      BY <1>1, <3>1, <3>2, <3>3, Bounds DEF RunnerTypeOK
  <2>2. /\ outcome' \in [Modules -> {"absent", "ran", "NotRun"}] /\ pc' \in PC
        /\ status' \in Statuses \cup {None, "killed", "thrown"}
    <3>1. Reported \subseteq Statuses
      BY DEF Reported, Statuses
    <3>2. ASSUME NEW s \in {"MaxIterations", "Converged", "Stagnated", "Diverging"}
                             \cup SolverFailures \cup StartFailures, CoupledEnds(s)
          PROVE  /\ outcome' \in [Modules -> {"absent", "ran", "NotRun"}] /\ pc' \in PC
                 /\ status' \in Statuses
      BY <1>1, <3>1, <3>2, StatusFacts DEF CoupledEnds, RunnerTypeOK, StartFailures, SolverFailures
    <3>3. CASE UNCHANGED <<pc, status, outcome>>
      BY <1>1, <3>3 DEF RunnerTypeOK
    <3> QED
      BY <1>13, <3>2, <3>3 DEF CoupledIterates
  <2> QED
    BY <1>1, <1>13, <2>1, <2>2 DEF CoupledIterates, RunnerTypeOK
<1>14. CASE CreateDirectory
  BY <1>1, <1>14, Bounds, StatusFacts DEF CreateDirectory, ExportFails, RunnerTypeOK, PathInv, StartFailures, SolverFailures, Reported, Statuses
<1>15. CASE OpenFile
  <2>1. CASE ExportFails /\ UNCHANGED <<files, torn, entries, columns>>
    BY <1>1, <1>15, <2>1 DEF OpenFile, ExportFails, RunnerTypeOK, Statuses
  <2>2. CASE pc' = "writing" /\ UNCHANGED status
    <3>1. FileOrder[position] \in Files
      BY <1>1, <1>15, Order DEF OpenFile, ExportInv, Files
    <3>2. /\ files' = [files EXCEPT ![FileOrder[position]] = run]
          /\ torn' = torn \cup {FileOrder[position]}
          /\ entries' \in {outcome, entries}
          /\ columns' \in {Columns, columns}
      BY <1>15, <2>2 DEF OpenFile, ExportFails
    <3>3. files' \in [Files -> 0 .. MaxRuns] /\ torn' \subseteq Files /\ columns' \subseteq Modules
      BY <1>1, <3>1, <3>2 DEF RunnerTypeOK, Columns
    <3> QED
      BY <1>1, <1>15, <2>2, <3>2, <3>3 DEF OpenFile, RunnerTypeOK
  <2> QED
    BY <1>15, <2>1, <2>2 DEF OpenFile
<1>16. CASE WriteFile
  <2>1. position' \in 1 .. Len(FileOrder) + 1
    BY <1>1, <1>16, Order DEF WriteFile, ExportInv
  <2> QED
    BY <1>1, <1>16, <2>1 DEF WriteFile, RunnerTypeOK
<1>17. CASE RequestCancel
  BY <1>1, <1>17, Bounds, StatusFacts DEF RequestCancel, RunnerTypeOK, PathInv, StartFailures, SolverFailures, Reported, Statuses
<1>18. CASE Kill
  BY <1>1, <1>18, Bounds, StatusFacts DEF Kill, RunnerTypeOK, PathInv, StartFailures, SolverFailures, Reported, Statuses
<1>19. CASE ReaderStep
  <2>1. seen' \subseteq 1 .. MaxRuns
    <3>1. \A f \in Files : files[f] \in 0 .. MaxRuns
      BY <1>1 DEF RunnerTypeOK
    <3>2. \A f \in {"metadata", "fields", "residuals"} : files[f] > 0 => files[f] \in 1 .. MaxRuns
      BY <3>1, Bounds DEF Files
    <3> QED
      BY <1>1, <1>19, <3>2
      DEF ReaderStep, ReadMetadata, ReadFields, ReadResiduals, ReadAgain, RunnerTypeOK, ReaderInv
  <2> QED
    BY <1>1, <1>19, <2>1
    DEF ReaderStep, ReadMetadata, ReadFields, ReadResiduals, ReadAgain, RunnerTypeOK
<1>20. CASE UNCHANGED vars
  BY <1>1, <1>20 DEF vars, RunnerTypeOK, PathInv, StartFailures, SolverFailures, Reported, Statuses
<1> QED
  BY <1>2, <1>3, <1>4, <1>5, <1>6, <1>7, <1>8, <1>9, <1>10,
     <1>11, <1>12, <1>13, <1>14, <1>15, <1>16, <1>17, <1>18, <1>19, <1>20
  DEF Next, RunnerStep

\* What the stage says of the run.
LEMMA PathStep == ASSUME DirectoryInv, [Next]_vars PROVE PathInv'
<1> USE DEF runVars, exportVars, readVars, SimplePC, ModulePC, ExportPC, AfterFlow
<1>1. RunnerTypeOK /\ PathInv
  BY DEF DirectoryInv
<1>2. ASSUME NEW c \in Cases, StartRun(c) PROVE PathInv'
  BY <1>1, <1>2, Bounds, StatusFacts DEF StartRun, RunnerTypeOK, PathInv, StartFailures, SolverFailures
<1>3. CASE RejectCase
  BY <1>1, <1>3, Bounds, StatusFacts DEF RejectCase, RunnerTypeOK, PathInv, StartFailures, SolverFailures
<1>4. CASE SimpleRejects
  BY <1>1, <1>4, Bounds, StatusFacts DEF SimpleRejects, SimpleEnds, RunnerTypeOK, PathInv, StartFailures, SolverFailures
<1>5. CASE SimpleChecks
  BY <1>1, <1>5, Bounds, StatusFacts DEF SimpleChecks, SimpleEnds, RunnerTypeOK, PathInv, StartFailures, SolverFailures
<1>6. CASE SimpleIterates
  <2>1. pc = "iterating" /\ case \in Cases /\ run > 0 /\ finite /\ UNCHANGED <<run, case>>
    BY <1>1, <1>6 DEF SimpleIterates, PathInv
  <2>2. ASSUME NEW s \in {"MaxIterations", "Converged", "Stagnated", "Diverging"}
                           \cup SolverFailures, NEW u \in BOOLEAN, SimpleEnds(s, u),
               s = "Converged" => u
        PROVE  PathInv'
    <3>1. /\ finite' = u /\ status' \in Reported /\ (status' = "Converged" => u)
          /\ massFlux' = (case.modules # {} /\ u) /\ pc' = "thermal"
      BY <2>2, StatusFacts DEF SimpleEnds
    <3> QED
      BY <2>1, <3>1 DEF PathInv
  <2>3. CASE pc' = "checking" /\ iter' < MaxIterations /\ UNCHANGED <<finite, status, massFlux>>
    BY <2>1, <2>3 DEF PathInv
  <2>4. "Converged" \notin SolverFailures
    BY DEF SolverFailures
  <2> QED
    BY <1>6, <2>2, <2>3, <2>4 DEF SimpleIterates
<1>7. CASE SolveThermal
  BY <1>1, <1>7, Bounds, StatusFacts DEF SolveThermal, Passive, RunnerTypeOK, PathInv, StartFailures, SolverFailures
<1>8. CASE SolveSpecies
  BY <1>1, <1>8, Bounds, StatusFacts DEF SolveSpecies, Passive, RunnerTypeOK, PathInv, StartFailures, SolverFailures
<1>9. CASE StepVolumeFraction
  BY <1>1, <1>9, Bounds, StatusFacts DEF StepVolumeFraction, Passive, RunnerTypeOK, PathInv, StartFailures, SolverFailures
<1>10. CASE EvaluateCompressible
  BY <1>1, <1>10, Bounds, StatusFacts DEF EvaluateCompressible, RunnerTypeOK, PathInv, StartFailures, SolverFailures
<1>11. CASE EvaluateThrows
  BY <1>1, <1>11, Bounds, StatusFacts DEF EvaluateThrows, RunnerTypeOK, PathInv, StartFailures, SolverFailures
<1>12. CASE StartCoupled
  BY <1>1, <1>12, Bounds DEF StartCoupled, CanEvaluate, RunnerTypeOK, PathInv
<1>13. CASE CoupledIterates
  BY <1>1, <1>13, Bounds, StatusFacts DEF CoupledIterates, CoupledEnds, Iterates, RunnerTypeOK, PathInv, StartFailures, SolverFailures
<1>14. CASE CreateDirectory
  BY <1>1, <1>14, Bounds, StatusFacts DEF CreateDirectory, ExportFails, RunnerTypeOK, PathInv, StartFailures, SolverFailures
<1>15. CASE OpenFile
  BY <1>1, <1>15, Bounds, StatusFacts DEF OpenFile, ExportFails, RunnerTypeOK, PathInv, StartFailures, SolverFailures
<1>16. CASE WriteFile
  BY <1>1, <1>16, Bounds, StatusFacts DEF WriteFile, RunnerTypeOK, PathInv, StartFailures, SolverFailures
<1>17. CASE RequestCancel
  BY <1>1, <1>17, Bounds, StatusFacts DEF RequestCancel, RunnerTypeOK, PathInv, StartFailures, SolverFailures
<1>18. CASE Kill
  BY <1>1, <1>18, Bounds, StatusFacts DEF Kill, RunnerTypeOK, PathInv, StartFailures, SolverFailures
<1>19. CASE ReaderStep
  BY <1>1, <1>19, Bounds, StatusFacts DEF ReaderStep, ReadMetadata, ReadFields, ReadResiduals, ReadAgain, RunnerTypeOK, PathInv, StartFailures, SolverFailures
<1>20. CASE UNCHANGED vars
  BY <1>1, <1>20 DEF vars, RunnerTypeOK, PathInv, StartFailures, SolverFailures
<1> QED
  BY <1>2, <1>3, <1>4, <1>5, <1>6, <1>7, <1>8, <1>9, <1>10,
     <1>11, <1>12, <1>13, <1>14, <1>15, <1>16, <1>17, <1>18, <1>19, <1>20
  DEF Next, RunnerStep

\* Every module does what the flow allows.
LEMMA ModuleStep == ASSUME DirectoryInv, [Next]_vars PROVE ModuleInv'
<1> USE DEF runVars, exportVars, readVars, SimplePC, ModulePC, ExportPC, AfterFlow
<1>1. RunnerTypeOK /\ PathInv /\ ModuleInv
  BY DEF DirectoryInv
<1>2. ASSUME NEW c \in Cases, StartRun(c) PROVE ModuleInv'
  BY <1>1, <1>2, Bounds DEF StartRun, RunnerTypeOK, PathInv, ModuleInv, Target, CanEvaluate, ModuleOutcome, Modules
<1>3. CASE RejectCase
  BY <1>1, <1>3, Bounds DEF RejectCase, RunnerTypeOK, PathInv, ModuleInv, Target, CanEvaluate, ModuleOutcome, Modules
<1>4. CASE SimpleRejects
  BY <1>1, <1>4, Bounds DEF SimpleRejects, SimpleEnds, RunnerTypeOK, PathInv, ModuleInv, Target, CanEvaluate, ModuleOutcome, Modules
<1>5. CASE SimpleChecks
  BY <1>1, <1>5, Bounds DEF SimpleChecks, SimpleEnds, RunnerTypeOK, PathInv, ModuleInv, Target, CanEvaluate, ModuleOutcome, Modules
<1>6. CASE SimpleIterates
  BY <1>1, <1>6, Bounds DEF SimpleIterates, SimpleEnds, Iterates, RunnerTypeOK, PathInv, ModuleInv, Target, CanEvaluate, ModuleOutcome, Modules
<1>7. CASE SolveThermal
  BY <1>1, <1>7, Bounds DEF SolveThermal, Passive, RunnerTypeOK, PathInv, ModuleInv, Target, CanEvaluate, ModuleOutcome, Modules
<1>8. CASE SolveSpecies
  BY <1>1, <1>8, Bounds DEF SolveSpecies, Passive, RunnerTypeOK, PathInv, ModuleInv, Target, CanEvaluate, ModuleOutcome, Modules
<1>9. CASE StepVolumeFraction
  BY <1>1, <1>9, Bounds DEF StepVolumeFraction, Passive, RunnerTypeOK, PathInv, ModuleInv, Target, CanEvaluate, ModuleOutcome, Modules
<1>10. CASE EvaluateCompressible
  BY <1>1, <1>10, Bounds DEF EvaluateCompressible, RunnerTypeOK, PathInv, ModuleInv, Target, CanEvaluate, ModuleOutcome, Modules
<1>11. CASE EvaluateThrows
  BY <1>1, <1>11, Bounds DEF EvaluateThrows, RunnerTypeOK, PathInv, ModuleInv, Target, CanEvaluate, ModuleOutcome, Modules
<1>12. CASE StartCoupled
  BY <1>1, <1>12, Bounds DEF StartCoupled, RunnerTypeOK, PathInv, ModuleInv, Target, CanEvaluate, ModuleOutcome, Modules
<1>13. CASE CoupledIterates
  BY <1>1, <1>13, Bounds DEF CoupledIterates, CoupledEnds, Iterates, RunnerTypeOK, PathInv, ModuleInv, Target, CanEvaluate, ModuleOutcome, Modules
<1>14. CASE CreateDirectory
  BY <1>1, <1>14, Bounds DEF CreateDirectory, ExportFails, RunnerTypeOK, PathInv, ModuleInv, Target, CanEvaluate, ModuleOutcome, Modules
<1>15. CASE OpenFile
  BY <1>1, <1>15, Bounds DEF OpenFile, ExportFails, RunnerTypeOK, PathInv, ModuleInv, Target, CanEvaluate, ModuleOutcome, Modules
<1>16. CASE WriteFile
  BY <1>1, <1>16, Bounds DEF WriteFile, RunnerTypeOK, PathInv, ModuleInv, Target, CanEvaluate, ModuleOutcome, Modules
<1>17. CASE RequestCancel
  BY <1>1, <1>17, Bounds DEF RequestCancel, RunnerTypeOK, PathInv, ModuleInv, Target, CanEvaluate, ModuleOutcome, Modules
<1>18. CASE Kill
  BY <1>1, <1>18, Bounds DEF Kill, RunnerTypeOK, PathInv, ModuleInv, Target, CanEvaluate, ModuleOutcome, Modules
<1>19. CASE ReaderStep
  BY <1>1, <1>19, Bounds DEF ReaderStep, ReadMetadata, ReadFields, ReadResiduals, ReadAgain, RunnerTypeOK, PathInv, ModuleInv, Target, CanEvaluate, ModuleOutcome, Modules
<1>20. CASE UNCHANGED vars
  BY <1>1, <1>20 DEF vars, RunnerTypeOK, PathInv, ModuleInv, Target, CanEvaluate, ModuleOutcome, Modules
<1> QED
  BY <1>2, <1>3, <1>4, <1>5, <1>6, <1>7, <1>8, <1>9, <1>10,
     <1>11, <1>12, <1>13, <1>14, <1>15, <1>16, <1>17, <1>18, <1>19, <1>20
  DEF Next, RunnerStep

\* After a request at most one iteration of SIMPLE is completed.
LEMMA LateStep == ASSUME DirectoryInv, [Next]_vars PROVE LateInv'
<1> USE DEF runVars, exportVars, readVars, SimplePC, ModulePC, ExportPC, AfterFlow
<1>1. RunnerTypeOK /\ LateInv
  BY DEF DirectoryInv
<1>2. ASSUME NEW c \in Cases, StartRun(c) PROVE LateInv'
  BY <1>1, <1>2, Bounds DEF StartRun, RunnerTypeOK, LateInv
<1>3. CASE RejectCase
  BY <1>1, <1>3, Bounds DEF RejectCase, RunnerTypeOK, LateInv
<1>4. CASE SimpleRejects
  BY <1>1, <1>4, Bounds DEF SimpleRejects, SimpleEnds, RunnerTypeOK, LateInv
<1>5. CASE SimpleChecks
  BY <1>1, <1>5, Bounds DEF SimpleChecks, SimpleEnds, RunnerTypeOK, LateInv
<1>6. CASE SimpleIterates
  BY <1>1, <1>6, Bounds DEF SimpleIterates, SimpleEnds, Iterates, RunnerTypeOK, LateInv
<1>7. CASE SolveThermal
  BY <1>1, <1>7, Bounds DEF SolveThermal, Passive, RunnerTypeOK, LateInv
<1>8. CASE SolveSpecies
  BY <1>1, <1>8, Bounds DEF SolveSpecies, Passive, RunnerTypeOK, LateInv
<1>9. CASE StepVolumeFraction
  BY <1>1, <1>9, Bounds DEF StepVolumeFraction, Passive, RunnerTypeOK, LateInv
<1>10. CASE EvaluateCompressible
  BY <1>1, <1>10, Bounds DEF EvaluateCompressible, RunnerTypeOK, LateInv
<1>11. CASE EvaluateThrows
  BY <1>1, <1>11, Bounds DEF EvaluateThrows, RunnerTypeOK, LateInv
<1>12. CASE StartCoupled
  BY <1>1, <1>12, Bounds DEF StartCoupled, RunnerTypeOK, LateInv
<1>13. CASE CoupledIterates
  BY <1>1, <1>13, Bounds DEF CoupledIterates, CoupledEnds, Iterates, RunnerTypeOK, LateInv
<1>14. CASE CreateDirectory
  BY <1>1, <1>14, Bounds DEF CreateDirectory, ExportFails, RunnerTypeOK, LateInv
<1>15. CASE OpenFile
  BY <1>1, <1>15, Bounds DEF OpenFile, ExportFails, RunnerTypeOK, LateInv
<1>16. CASE WriteFile
  BY <1>1, <1>16, Bounds DEF WriteFile, RunnerTypeOK, LateInv
<1>17. CASE RequestCancel
  BY <1>1, <1>17, Bounds DEF RequestCancel, RunnerTypeOK, LateInv
<1>18. CASE Kill
  BY <1>1, <1>18, Bounds DEF Kill, RunnerTypeOK, LateInv
<1>19. CASE ReaderStep
  BY <1>1, <1>19, Bounds DEF ReaderStep, ReadMetadata, ReadFields, ReadResiduals, ReadAgain, RunnerTypeOK, LateInv
<1>20. CASE UNCHANGED vars
  BY <1>1, <1>20 DEF vars, RunnerTypeOK, LateInv
<1> QED
  BY <1>2, <1>3, <1>4, <1>5, <1>6, <1>7, <1>8, <1>9, <1>10,
     <1>11, <1>12, <1>13, <1>14, <1>15, <1>16, <1>17, <1>18, <1>19, <1>20
  DEF Next, RunnerStep

\* What the viewer has read while nothing was running is still there.
LEMMA ReaderStepKeeps == ASSUME DirectoryInv, [Next]_vars PROVE ReaderInv'
<1> USE DEF runVars, exportVars, readVars, SimplePC, ModulePC, ExportPC, AfterFlow
<1>1. RunnerTypeOK /\ PathInv /\ ReaderInv
  BY DEF DirectoryInv
<1>2. ASSUME NEW c \in Cases, StartRun(c) PROVE ReaderInv'
  BY <1>1, <1>2, Bounds DEF StartRun, RunnerTypeOK, PathInv, ReaderInv, Files
<1>3. CASE RejectCase
  BY <1>1, <1>3, Bounds DEF RejectCase, RunnerTypeOK, PathInv, ReaderInv, Files
<1>4. CASE SimpleRejects
  BY <1>1, <1>4, Bounds DEF SimpleRejects, SimpleEnds, RunnerTypeOK, PathInv, ReaderInv, Files
<1>5. CASE SimpleChecks
  BY <1>1, <1>5, Bounds DEF SimpleChecks, SimpleEnds, RunnerTypeOK, PathInv, ReaderInv, Files
<1>6. CASE SimpleIterates
  BY <1>1, <1>6, Bounds DEF SimpleIterates, SimpleEnds, Iterates, RunnerTypeOK, PathInv, ReaderInv, Files
<1>7. CASE SolveThermal
  BY <1>1, <1>7, Bounds DEF SolveThermal, Passive, RunnerTypeOK, PathInv, ReaderInv, Files
<1>8. CASE SolveSpecies
  BY <1>1, <1>8, Bounds DEF SolveSpecies, Passive, RunnerTypeOK, PathInv, ReaderInv, Files
<1>9. CASE StepVolumeFraction
  BY <1>1, <1>9, Bounds DEF StepVolumeFraction, Passive, RunnerTypeOK, PathInv, ReaderInv, Files
<1>10. CASE EvaluateCompressible
  BY <1>1, <1>10, Bounds DEF EvaluateCompressible, RunnerTypeOK, PathInv, ReaderInv, Files
<1>11. CASE EvaluateThrows
  BY <1>1, <1>11, Bounds DEF EvaluateThrows, RunnerTypeOK, PathInv, ReaderInv, Files
<1>12. CASE StartCoupled
  BY <1>1, <1>12, Bounds DEF StartCoupled, RunnerTypeOK, PathInv, ReaderInv, Files
<1>13. CASE CoupledIterates
  BY <1>1, <1>13, Bounds DEF CoupledIterates, CoupledEnds, Iterates, RunnerTypeOK, PathInv, ReaderInv, Files
<1>14. CASE CreateDirectory
  BY <1>1, <1>14, Bounds DEF CreateDirectory, ExportFails, RunnerTypeOK, PathInv, ReaderInv, Files
<1>15. CASE OpenFile
  BY <1>1, <1>15, Bounds DEF OpenFile, ExportFails, RunnerTypeOK, PathInv, ReaderInv, Files
<1>16. CASE WriteFile
  BY <1>1, <1>16, Bounds DEF WriteFile, RunnerTypeOK, PathInv, ReaderInv, Files
<1>17. CASE RequestCancel
  BY <1>1, <1>17, Bounds DEF RequestCancel, RunnerTypeOK, PathInv, ReaderInv, Files
<1>18. CASE Kill
  BY <1>1, <1>18, Bounds DEF Kill, RunnerTypeOK, PathInv, ReaderInv, Files
<1>19. CASE ReaderStep
  <2>1. {"metadata", "fields", "residuals"} \subseteq Files
    BY DEF Files
  <2>2. CASE ReadMetadata
    BY <1>1, <2>1, <2>2 DEF ReadMetadata, ReaderInv
  <2>3. CASE ReadFields
    BY <1>1, <2>1, <2>3 DEF ReadFields, ReaderInv
  <2>4. CASE ReadResiduals
    BY <1>1, <2>1, <2>4 DEF ReadResiduals, ReaderInv
  <2>5. CASE ReadAgain
    BY <2>5 DEF ReadAgain, ReaderInv
  <2> QED
    BY <1>19, <2>2, <2>3, <2>4, <2>5 DEF ReaderStep
<1>20. CASE UNCHANGED vars
  BY <1>1, <1>20 DEF vars, RunnerTypeOK, PathInv, ReaderInv, Files
<1> QED
  BY <1>2, <1>3, <1>4, <1>5, <1>6, <1>7, <1>8, <1>9, <1>10,
     <1>11, <1>12, <1>13, <1>14, <1>15, <1>16, <1>17, <1>18, <1>19, <1>20
  DEF Next, RunnerStep

\* The export renews the files in their order; nothing else touches them.
LEMMA ExportStep == ASSUME DirectoryInv, [Next]_vars PROVE ExportInv'
<1> USE DEF runVars, exportVars, readVars, SimplePC, ModulePC, ExportPC, AfterFlow
<1>1. RunnerTypeOK /\ PathInv /\ ExportInv
  BY DEF DirectoryInv
<1>2. ASSUME NEW c \in Cases, StartRun(c) PROVE ExportInv'
  <2>1. /\ run' = run + 1 /\ pc' = "checking" /\ UNCHANGED <<files, entries, columns>>
    BY <1>2 DEF StartRun
  <2>2. \A f \in Files : files'[f] <= run' /\ files'[f] < run'
    BY <1>1, <2>1, Bounds DEF RunnerTypeOK, ExportInv
  <2> QED
    BY <1>1, <2>1, <2>2
    DEF ExportInv, Returned, ResultFilesAgree, FilesAgeInOrder, ColumnsMatchMetadata
<1>3. CASE RejectCase
  <2>1. /\ UNCHANGED <<run, files, entries, columns>> /\ pc' = pc /\ pc = "idle"
        /\ status' \in {"InvalidCase", "ApplicationError", "killed", "thrown"}
    BY <1>3 DEF RejectCase
  <2> QED
    BY <1>1, <2>1
    DEF ExportInv, Returned, ResultFilesAgree, FilesAgeInOrder, ColumnsMatchMetadata, Statuses
<1>4. CASE SimpleRejects
  <2>1. /\ UNCHANGED <<run, files, entries, columns>>
        /\ pc \notin {"idle", "opening", "writing"} /\ pc' \notin {"idle", "opening", "writing"}
    BY <1>4 DEF SimpleRejects, SimpleEnds
  <2> QED
    BY <1>1, <2>1 DEF ExportInv, Returned, ResultFilesAgree, FilesAgeInOrder, ColumnsMatchMetadata
<1>5. CASE SimpleChecks
  <2>1. /\ UNCHANGED <<run, files, entries, columns>>
        /\ pc \notin {"idle", "opening", "writing"} /\ pc' \notin {"idle", "opening", "writing"}
    BY <1>5 DEF SimpleChecks, SimpleEnds
  <2> QED
    BY <1>1, <2>1 DEF ExportInv, Returned, ResultFilesAgree, FilesAgeInOrder, ColumnsMatchMetadata
<1>6. CASE SimpleIterates
  <2>1. /\ UNCHANGED <<run, files, entries, columns>>
        /\ pc \notin {"idle", "opening", "writing"} /\ pc' \notin {"idle", "opening", "writing"}
    BY <1>6 DEF SimpleIterates, SimpleEnds, Iterates
  <2> QED
    BY <1>1, <2>1 DEF ExportInv, Returned, ResultFilesAgree, FilesAgeInOrder, ColumnsMatchMetadata
<1>7. CASE SolveThermal
  <2>1. /\ UNCHANGED <<run, files, entries, columns>>
        /\ pc \notin {"idle", "opening", "writing"} /\ pc' \notin {"idle", "opening", "writing"}
    BY <1>7 DEF SolveThermal, Passive
  <2> QED
    BY <1>1, <2>1 DEF ExportInv, Returned, ResultFilesAgree, FilesAgeInOrder, ColumnsMatchMetadata
<1>8. CASE SolveSpecies
  <2>1. /\ UNCHANGED <<run, files, entries, columns>>
        /\ pc \notin {"idle", "opening", "writing"} /\ pc' \notin {"idle", "opening", "writing"}
    BY <1>8 DEF SolveSpecies, Passive
  <2> QED
    BY <1>1, <2>1 DEF ExportInv, Returned, ResultFilesAgree, FilesAgeInOrder, ColumnsMatchMetadata
<1>9. CASE StepVolumeFraction
  <2>1. /\ UNCHANGED <<run, files, entries, columns>>
        /\ pc \notin {"idle", "opening", "writing"} /\ pc' \notin {"idle", "opening", "writing"}
    BY <1>9 DEF StepVolumeFraction, Passive
  <2> QED
    BY <1>1, <2>1 DEF ExportInv, Returned, ResultFilesAgree, FilesAgeInOrder, ColumnsMatchMetadata
<1>10. CASE EvaluateCompressible
  <2>1. /\ UNCHANGED <<run, files, entries, columns>>
        /\ pc \notin {"idle", "opening", "writing"} /\ pc' \notin {"idle", "opening", "writing"}
    BY <1>10 DEF EvaluateCompressible
  <2> QED
    BY <1>1, <2>1 DEF ExportInv, Returned, ResultFilesAgree, FilesAgeInOrder, ColumnsMatchMetadata
<1>11. CASE EvaluateThrows
  <2>1. /\ UNCHANGED <<run, files, entries, columns>> /\ pc' = "idle"
        /\ status' \in {"InvalidCase", "ApplicationError", "killed", "thrown"}
    BY <1>11 DEF EvaluateThrows
  <2> QED
    BY <1>1, <2>1
    DEF ExportInv, Returned, ResultFilesAgree, FilesAgeInOrder, ColumnsMatchMetadata, Statuses
<1>12. CASE StartCoupled
  <2>1. /\ UNCHANGED <<run, files, entries, columns>>
        /\ pc \notin {"idle", "opening", "writing"} /\ pc' \notin {"idle", "opening", "writing"}
    BY <1>12 DEF StartCoupled
  <2> QED
    BY <1>1, <2>1 DEF ExportInv, Returned, ResultFilesAgree, FilesAgeInOrder, ColumnsMatchMetadata
<1>13. CASE CoupledIterates
  <2>1. /\ UNCHANGED <<run, files, entries, columns>>
        /\ pc \notin {"idle", "opening", "writing"} /\ pc' \notin {"idle", "opening", "writing"}
    BY <1>13 DEF CoupledIterates, CoupledEnds, Iterates
  <2> QED
    BY <1>1, <2>1 DEF ExportInv, Returned, ResultFilesAgree, FilesAgeInOrder, ColumnsMatchMetadata
<1>14. CASE CreateDirectory
  <2>1. /\ UNCHANGED <<run, files, entries, columns, finite, outcome>> /\ pc = "directory"
        /\ position' = 1
        /\ \/ pc' = "opening"
           \/ pc' = "idle" /\ status' = "ApplicationError"
    BY <1>14 DEF CreateDirectory, ExportFails
  <2>2. \A j \in 1 .. 4 : FileOrder[j] \in Files
    BY Order DEF Files
  <2>3. \A j \in 1 .. 4 : ~(j < 1) /\ files[FileOrder[j]] < run
    BY <1>1, <2>1, <2>2 DEF ExportInv
  <2> QED
    BY <1>1, <2>1, <2>3
    DEF ExportInv, Returned, ResultFilesAgree, FilesAgeInOrder, ColumnsMatchMetadata, Statuses
<1>15. CASE OpenFile
  <2>1. CASE ExportFails /\ UNCHANGED <<files, torn, entries, columns>>
    <3>1. UNCHANGED <<run, files, entries, columns>> /\ pc' = "idle"
          /\ status' = "ApplicationError"
      BY <1>15, <2>1 DEF OpenFile, ExportFails
    <3> QED
      BY <1>1, <3>1
      DEF ExportInv, Returned, ResultFilesAgree, FilesAgeInOrder, ColumnsMatchMetadata, Statuses
  <2>2. CASE pc' = "writing" /\ UNCHANGED status
    <3> DEFINE f == FileOrder[position]
    <3>1. /\ pc = "opening" /\ UNCHANGED <<run, position, outcome, finite>>
          /\ files' = [files EXCEPT ![f] = run]
          /\ entries' = IF f = "metadata" THEN outcome ELSE entries
          /\ columns' = IF f = "fields" THEN Columns ELSE columns
      BY <1>15, <2>2 DEF OpenFile, ExportFails
    <3>2. /\ position \in 1 .. 4 /\ run \in Nat
          /\ \A j \in 1 .. 4 : /\ j < position => files[FileOrder[j]] = run
                               /\ j >= position => files[FileOrder[j]] < run
          /\ position > 1 => entries = outcome
          /\ FilesAgeInOrder /\ ColumnsMatchMetadata
      BY <1>1, <3>1, Bounds DEF RunnerTypeOK, ExportInv, ResultFilesAgree
    <3>3. /\ \A g \in Files : files[g] \in Nat
          /\ \A g \in Files : files[g] <= run
          /\ files \in [Files -> 0 .. MaxRuns]
      BY <1>1, Bounds DEF RunnerTypeOK, ExportInv
    <3>4. position \in {1, 2, 3, 4} /\ 1 \in 1 .. 4 /\ 2 \in 1 .. 4 /\ 3 \in 1 .. 4 /\ 4 \in 1 .. 4
      BY <3>2
    <3>5. /\ files["metadata"] \in Nat /\ files["residuals"] \in Nat
          /\ files["fields"] \in Nat /\ files["vtk"] \in Nat
          /\ f \in Files
      BY <3>3, <3>4, Order DEF Files
    <3>6. \A g \in Files : files'[g] = IF g = f THEN run ELSE files[g]
      BY <3>1, <3>3
    <3>7. \A g \in Files : files'[g] <= run
      BY <3>2, <3>3, <3>6
    <3>8. \A j \in 1 .. 4 : /\ j <= position => files'[FileOrder[j]] = run
                            /\ j > position => files'[FileOrder[j]] < run
      <4> TAKE j \in 1 .. 4
      <4>1. j \in {1, 2, 3, 4}
        OBVIOUS
      <4>2. FileOrder[j] \in Files /\ (FileOrder[j] = f <=> j = position)
        BY <3>4, <4>1, Order DEF Files
      <4> QED
        BY <3>2, <3>6, <4>1, <4>2
    <3>9. FilesAgeInOrder'
      <4>1. ASSUME NEW i \in 1 .. 4, NEW j \in 1 .. 4, i < j
            PROVE  files'[FileOrder[i]] >= files'[FileOrder[j]]
        <5>1. FileOrder[i] \in Files /\ FileOrder[j] \in Files
          <6>1. i \in {1, 2, 3, 4} /\ j \in {1, 2, 3, 4}
            BY <4>1
          <6> QED
            BY <6>1, Order DEF Files
        <5>2. CASE i <= position
          BY <3>2, <3>3, <3>6, <3>7, <3>8, <5>1, <5>2
        <5>3. CASE i > position
          <6>1. FileOrder[i] # f /\ FileOrder[j] # f
            <7>1. i \in {2, 3, 4} /\ j \in {3, 4}
              BY <3>2, <4>1, <5>3
            <7> QED
              BY <3>4, <4>1, <5>3, <7>1, Order
          <6>2. files[FileOrder[i]] >= files[FileOrder[j]]
            BY <3>2, <4>1, Order DEF FilesAgeInOrder
          <6> QED
            BY <3>6, <5>1, <6>1, <6>2
        <5> QED
          BY <3>2, <5>2, <5>3
      <4> QED
        BY <4>1, Order DEF FilesAgeInOrder
    <3>10. ColumnsMatchMetadata'
      <4>1. CASE position = 1
        <5>1. files'["metadata"] = run /\ files'["fields"] < run
          BY <3>4, <3>8, <4>1, Order
        <5> QED
          BY <3>2, <3>5, <3>6, <5>1 DEF ColumnsMatchMetadata, Files
      <4>2. CASE position = 3
        BY <3>1, <3>2, <4>2, Order DEF ColumnsMatchMetadata, Columns
      <4>3. CASE position \in {2, 4}
        <5>1. /\ files'["metadata"] = files["metadata"] /\ files'["fields"] = files["fields"]
              /\ entries' = entries /\ columns' = columns
          BY <3>1, <3>6, <4>3, Order DEF Files
        <5> QED
          BY <3>2, <5>1 DEF ColumnsMatchMetadata
      <4> QED
        BY <3>4, <4>1, <4>2, <4>3
    <3>11. entries' = outcome'
      BY <3>1, <3>2, <3>4, Order
    <3>12. /\ pc' = "writing" /\ run' = run /\ position' = position
      BY <2>2, <3>1
    <3> QED
      BY <3>2, <3>7, <3>8, <3>9, <3>10, <3>11, <3>12 DEF ExportInv, Returned, ResultFilesAgree
  <2> QED
    BY <1>15, <2>1, <2>2 DEF OpenFile
<1>16. CASE WriteFile
  <2>1. /\ pc = "writing" /\ UNCHANGED <<run, files, entries, columns, finite, outcome, status>>
        /\ position' = position + 1
        /\ \/ pc' = "opening" /\ position' <= 4
           \/ pc' = "idle" /\ (position' > 4 \/ ~finite)
    BY <1>1, <1>16, Order DEF WriteFile, ExportInv
  <2>2. /\ position \in 1 .. 4
        /\ \A j \in 1 .. 4 : /\ j <= position => files[FileOrder[j]] = run
                             /\ j > position => files[FileOrder[j]] < run
        /\ entries = outcome
    BY <1>1, <2>1 DEF ExportInv
  <2>3. position' > 4 => \A f \in Files : files[f] = run
    <3> SUFFICES ASSUME position' > 4 PROVE \A f \in Files : files[f] = run
      OBVIOUS
    <3>1. position = 4
      BY <2>1, <2>2
    <3>2. \A j \in {1, 2, 3, 4} : files[FileOrder[j]] = run
      BY <2>2, <3>1
    <3> QED
      BY <3>2, Order DEF Files
  <2>4. status = "Converged" => finite
    BY <1>1, <2>1 DEF PathInv
  <2>5. pc' = "opening" =>
          /\ position' \in 1 .. 4
          /\ \A j \in 1 .. 4 : /\ j < position' => files[FileOrder[j]] = run
                               /\ j >= position' => files[FileOrder[j]] < run
    BY <2>1, <2>2
  <2> QED
    BY <1>1, <2>1, <2>2, <2>3, <2>4, <2>5
    DEF ExportInv, Returned, ResultFilesAgree, FilesAgeInOrder, ColumnsMatchMetadata
<1>17. CASE RequestCancel
  <2>1. UNCHANGED <<pc, run, files, entries, columns, finite, outcome, status, position>>
    BY <1>17 DEF RequestCancel
  <2> QED
    BY <1>1, <2>1
    DEF ExportInv, Returned, ResultFilesAgree, FilesAgeInOrder, ColumnsMatchMetadata
<1>18. CASE Kill
  <2>1. /\ UNCHANGED <<run, files, entries, columns>> /\ pc' = "idle"
        /\ status' \in {"InvalidCase", "ApplicationError", "killed", "thrown"}
    BY <1>18 DEF Kill
  <2> QED
    BY <1>1, <2>1
    DEF ExportInv, Returned, ResultFilesAgree, FilesAgeInOrder, ColumnsMatchMetadata, Statuses
<1>19. CASE ReaderStep
  <2>1. UNCHANGED <<pc, run, files, entries, columns, finite, outcome, status, position>>
    BY <1>19 DEF ReaderStep, ReadMetadata, ReadFields, ReadResiduals, ReadAgain
  <2> QED
    BY <1>1, <2>1
    DEF ExportInv, Returned, ResultFilesAgree, FilesAgeInOrder, ColumnsMatchMetadata
<1>20. CASE UNCHANGED vars
  BY <1>1, <1>20 DEF vars, ExportInv, Returned, ResultFilesAgree, FilesAgeInOrder, ColumnsMatchMetadata
<1> QED
  BY <1>2, <1>3, <1>4, <1>5, <1>6, <1>7, <1>8, <1>9, <1>10,
     <1>11, <1>12, <1>13, <1>14, <1>15, <1>16, <1>17, <1>18, <1>19, <1>20
  DEF Next, RunnerStep

--------------------------------------------------------------------------------

\* A directory without results satisfies the invariant.
LEMMA DirectoryInit == Init => DirectoryInv
<1> SUFFICES ASSUME Init PROVE DirectoryInv
  OBVIOUS
<1>1. RunnerTypeOK
  <2>1. /\ 0 \in 0 .. MaxRuns /\ 0 \in 0 .. MaxIterations /\ 0 \in 0 .. 2 * MaxIterations
        /\ 1 \in 1 .. Len(FileOrder) + 1
    BY Bounds, Order
  <2>2. [m \in Modules |-> "absent"] \in [Modules -> {"absent", "ran", "NotRun"}]
    OBVIOUS
  <2>3. files \in [Files -> 0 .. MaxRuns]
    BY <2>1 DEF Init
  <2> QED
    BY <2>1, <2>2, <2>3 DEF Init, RunnerTypeOK, PC
<1>2. PathInv /\ ModuleInv /\ LateInv
  BY DEF Init, PathInv, ModuleInv, LateInv, SimplePC, ModulePC, ExportPC, AfterFlow
<1>3. ExportInv
  <2>1. /\ pc = "idle" /\ run = 0 /\ status = None
        /\ \A f \in Files : files[f] = 0
    BY DEF Init
  <2>2. \A j \in 1 .. 4 : FileOrder[j] \in Files
    BY Order DEF Files
  <2>3. ResultFilesAgree
    BY <2>1, <2>2, Order DEF ResultFilesAgree, FilesAgeInOrder, ColumnsMatchMetadata, Files
  <2>4. finite /\ \A f \in Files : files[f] = run
    BY <2>1 DEF Init
  <2> QED
    BY <2>1, <2>3, <2>4 DEF ExportInv
<1>4. ReaderInv
  BY DEF Init, ReaderInv
<1> QED
  BY <1>1, <1>2, <1>3, <1>4 DEF DirectoryInv

\* Every step keeps the invariant.
LEMMA DirectoryNext == DirectoryInv /\ [Next]_vars => DirectoryInv'
  BY TypeStep, PathStep, ModuleStep, LateStep, ExportStep, ReaderStepKeeps DEF DirectoryInv

\* For any cases, any iteration limit and any number of runs of the directory, the
\* invariant holds in every state of every behaviour.
THEOREM DirectoryInvariant == Spec => []DirectoryInv
  BY DirectoryInit, DirectoryNext, PTL DEF Spec

\* The type invariant of a run and its directory.
THEOREM RunnerTypes == Spec => []RunnerTypeOK
<1>1. DirectoryInv => RunnerTypeOK
  BY DEF DirectoryInv
<1> QED
  BY <1>1, DirectoryInvariant, PTL

\* When the export begins every declared module has run if the flow is finite, and is
\* reported NotRun if it is not (ProjectRunner::run, the physics blocks).
THEOREM ModulesFollowFlow == Spec => []ModulesRunIffFlowIsFinite
<1>1. DirectoryInv => ModulesRunIffFlowIsFinite
  BY DEF DirectoryInv, ModuleInv, Target, ModulesRunIffFlowIsFinite, Modules
<1> QED
  BY <1>1, DirectoryInvariant, PTL

\* Exit code 0 belongs to a finite flow and to four files of this very run, whatever
\* runs, kills and failed exports came before (ProjectRunner::run, ResultExporter).
THEOREM ZeroMeansComplete == Spec => []ExitZeroMeansAllFiles
<1>1. DirectoryInv => ExitZeroMeansAllFiles
  <2> SUFFICES ASSUME DirectoryInv, Returned, ExitCodeFor(status) = 0
               PROVE  finite /\ \A f \in Files : files[f] = run
    BY DEF ExitZeroMeansAllFiles
  <2>1. status = "Converged"
    BY DEF Returned, Statuses, ExitCodeFor
  <2> QED
    BY <2>1 DEF DirectoryInv, ExportInv
<1> QED
  BY <1>1, DirectoryInvariant, PTL

\* No file is newer than one before it, and the columns of fields.csv are the modules
\* metadata.json reports when both are of one run (ResultExporter::write).
THEOREM FilesTellOneStory == Spec => []ResultFilesAgree
<1>1. DirectoryInv => ResultFilesAgree
  BY DEF DirectoryInv, ExportInv
<1> QED
  BY <1>1, DirectoryInvariant, PTL

\* A viewer that loads a directory at rest after a finite run shows that run alone
\* (loadSnapshotFromResults against the order of the export).
THEOREM QuietViewIsOfLastRun == Spec => []QuietReloadShowsLastRun
<1>1. DirectoryInv => QuietReloadShowsLastRun
  <2> SUFFICES ASSUME DirectoryInv, reader = "shown", quiet, Returned, finite
               PROVE  seen = {run}
    BY DEF QuietReloadShowsLastRun
  <2>1. seen # {} /\ seen \subseteq {files[f] : f \in Files}
    BY DEF DirectoryInv, ReaderInv
  <2>2. \A f \in Files : files[f] = run
    BY DEF DirectoryInv, ExportInv
  <2> QED
    BY <2>1, <2>2
<1> QED
  BY <1>1, DirectoryInvariant, PTL

\* A request to cancel costs SIMPLE at most the iteration it arrives in, and none more
\* (SimpleSolver::solve, the check at the top of the loop).
THEOREM CancelCostsOneIteration == Spec => []SimpleObeysCancel
<1>1. DirectoryInv => SimpleObeysCancel
  BY DEF DirectoryInv, LateInv, SimpleObeysCancel
<1> QED
  BY <1>1, DirectoryInvariant, PTL
================================================================================
