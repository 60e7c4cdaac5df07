------------------------- MODULE SimulationController --------------------------
(***************************************************************************)
(* The GUI's controller (src/apps/gui/SimulationController.cpp): the UI    *)
(* thread calls its methods in any order, and run() hands the solve to a   *)
(* worker thread that drives CaseSession::run() and, through it,           *)
(* ProjectRunner::run().  A step is what one thread does between two       *)
(* points where the other can observe or change shared state.              *)
(*                                                                         *)
(* The solve is reduced to what the controller can see of it: it reads the *)
(* case, checks for cancellation before every outer iteration, ends with   *)
(* one of the statuses, and writes the case's results/ directory.  This is *)
(* a run without a coupled compressible solve, which ProjectRunner models; *)
(* there, too, is the run that throws and so ends the process.             *)
(***************************************************************************)
EXTENDS CaseSession

CONSTANT MaxIterations  \* the solver's outer-iteration limit

ASSUME MaxIterationsAssumption ==
  /\ MaxIterations \in Nat \ {0}
  /\ None \notin Nat \cup Statuses \cup {"Refused"}

VARIABLES
  running,     \* running_
  worker,      \* where the worker thread is; "none" when worker_ is not joinable
  runDir,      \* the worker's copy of directory_
  runStatus,   \* the status of the result the worker holds, None before there is
               \* one; "Refused" is the result of a run() that returned early
  iter,        \* outer iterations the current solve has completed
  ui,          \* what the UI thread is in the middle of
  uiDir,       \* the directory a save in progress writes
  results,     \* the results/ directory of each case
  snapshot,    \* snapshot_: "none" when invalid, else whose results it shows: the
               \* open case's, those of a case since replaced, or those a run
               \* published after its case was replaced ("late")
  stopAt,      \* history: the outer iterations this run had begun when it was first
               \* asked to stop in time, or None
  stopMidway,  \* history: that request came in the middle of an iteration
  switched     \* history: a case was opened or created during the latest run

controllerVars == <<running, worker, runDir, runStatus, iter, ui, uiDir,
                    results, snapshot, stopAt, stopMidway, switched>>
vars == <<sessionVars, controllerVars>>

--------------------------------------------------------------------------------
(* The worker's program counter, in the order it moves.                    *)

BeforeEntry == {"started", "dirRead", "clearing", "entering"}
Solving     == {"reading", "checking", "iterating"}
Exporting   == {"exporting", "writing"}
InsideRun   == Solving \cup Exporting \cup {"storing", "leaving"}
AfterRun    == {"ran", "notifying"}  \* "notifying": running_ is already false
WorkerPC    == {"none", "exited"} \cup BeforeEntry \cup InsideRun \cup AfterRun

WorkerActive == worker \notin {"none", "exited"}

UiPC == {"idle", "saving", "loading", "clearing", "joining", "closing", "closed"}

TypeOK ==
  /\ SessionTypeOK
  /\ running \in BOOLEAN
  /\ worker \in WorkerPC
  /\ runDir \in Dirs \cup {None}
  /\ runStatus \in Statuses \cup {None, "Refused"}
  /\ iter \in 0 .. MaxIterations
  /\ ui \in UiPC
  /\ uiDir \in Dirs \cup {None}
  /\ results \in [Dirs -> {"none", "complete", "writing", "partial"}]
  /\ snapshot \in {"none", "current", "replaced", "late"}
  /\ stopAt \in 0 .. MaxIterations \cup {None}
  /\ stopMidway \in BOOLEAN
  /\ switched \in BOOLEAN

Init ==
  /\ SessionInit
  /\ running = FALSE
  /\ worker = "none"
  /\ runDir = None
  /\ runStatus = None
  /\ iter = 0
  /\ ui = "idle"
  /\ uiDir = None
  /\ results \in [Dirs -> {"none", "complete"}]
  /\ snapshot = "none"
  /\ stopAt = None
  /\ stopMidway = FALSE
  /\ switched = FALSE

--------------------------------------------------------------------------------
(* The UI thread.                                                          *)

\* The open case is replaced: what is shown now belongs to the previous one.
SwitchCase ==
  /\ snapshot' = IF snapshot = "current" THEN "replaced" ELSE snapshot
  /\ switched' = (switched \/ WorkerActive)
  /\ UNCHANGED <<running, worker, runDir, runStatus, iter, uiDir, results,
                 stopAt, stopMidway>>

UiNewCase ==
  /\ ui = "idle"
  /\ NewCase
  /\ SwitchCase
  /\ ui' = "clearing"

UiOpenCase(d) ==
  /\ ui = "idle"
  /\ \/ /\ \E c \in Contents : OpenReads(d, c)
        /\ SwitchCase
        /\ ui' = "loading"
     \/ /\ OpenFails(d)
        /\ ui' = "clearing"
        /\ UNCHANGED <<running, worker, runDir, runStatus, iter, uiDir, results,
                       snapshot, stopAt, stopMidway, switched>>

\* The last statement of newCase() and of a failed openCase():
\* setSnapshot(VisualizationSnapshot{}).
UiClearSnapshot ==
  /\ ui = "clearing"
  /\ snapshot' = "none"
  /\ ui' = "idle"
  /\ UNCHANGED <<sessionVars, running, worker, runDir, runStatus, iter, uiDir,
                 results, stopAt, stopMidway, switched>>

\* loadCompletedResults(): nothing is shown without a results/ directory; one that
\* holds part of an export, or no field files, may or may not parse.
LoadsResults ==
  /\ directory # None
  /\ results[directory] # "none"
  /\ snapshot' = "current"

\* openCase() clears what it could not load.
UiOpenLoads ==
  /\ ui = "loading"
  /\ LoadsResults \/ snapshot' = "none"
  /\ ui' = "idle"
  /\ UNCHANGED <<sessionVars, running, worker, runDir, runStatus, iter, uiDir,
                 results, stopAt, stopMidway, switched>>

\* The Results page's own button; a failed reload leaves the snapshot alone.
UiReloadResults ==
  /\ ui = "idle"
  /\ LoadsResults
  /\ UNCHANGED <<sessionVars, running, worker, runDir, runStatus, iter, ui, uiDir,
                 results, stopAt, stopMidway, switched>>

UiSaveAs(d) ==
  /\ ui = "idle"
  /\ SaveAsBegins(d)
  /\ ui' = "saving"
  /\ uiDir' = d
  /\ UNCHANGED <<running, worker, runDir, runStatus, iter, results, snapshot,
                 stopAt, stopMidway, switched>>

\* save() is saveAs() on the directory the session has.
UiSave == directory # None /\ UiSaveAs(directory)

UiSaveAsEnds ==
  /\ ui = "saving"
  /\ SaveAsSucceeds(uiDir) \/ SaveAsFails(uiDir)
  /\ ui' = "idle"
  /\ uiDir' = None
  /\ UNCHANGED <<running, worker, runDir, runStatus, iter, results, snapshot,
                 stopAt, stopMidway, switched>>

\* setMeshAndGeometry(), setPhysicsConfig() and the other editors' commits.
UiEdit(c) ==
  /\ ui = "idle"
  /\ caseDefinition # None
  /\ SetCaseDefinition(c)
  /\ UNCHANGED controllerVars

UiValidateCase ==
  /\ ui = "idle"
  /\ Validate
  /\ UNCHANGED controllerVars

\* run() up to the join of the previous worker.
UiRun ==
  /\ ui = "idle"
  /\ ~running
  /\ CanRun
  /\ ui' = "joining"
  /\ UNCHANGED <<sessionVars, running, worker, runDir, runStatus, iter, uiDir,
                 results, snapshot, stopAt, stopMidway, switched>>

\* Mutated form: the thread is detached.
Detach == TRUE

\* std::thread::join: blocks until the thread has returned.
Join == worker \in {"none", "exited"}

UiStartWorker ==
  /\ ui = "joining"
  /\ Join
  /\ running' = TRUE
  /\ worker' = "started"
  /\ runDir' = None
  /\ runStatus' = None
  /\ iter' = 0
  /\ stopAt' = None
  /\ stopMidway' = FALSE
  /\ switched' = FALSE
  /\ ui' = "idle"
  /\ UNCHANGED <<sessionVars, uiDir, results, snapshot>>

IterationsBegun == IF worker = "iterating" THEN iter + 1 ELSE iter

\* A request is in time once run() has cleared the flag and until the solve has
\* ended; one lost in the clearing, or too late, does not keep a later one, or that
\* of the next run, from being noted.
NoteStop ==
  IF worker \in {"entering"} \cup Solving /\ stopAt = None
  THEN /\ stopAt' = IterationsBegun
       /\ stopMidway' = (worker = "iterating")
  ELSE UNCHANGED <<stopAt, stopMidway>>

UiStop ==
  /\ ui = "idle"
  /\ RequestCancel
  /\ NoteStop
  /\ UNCHANGED <<running, worker, runDir, runStatus, iter, ui, uiDir, results,
                 snapshot, switched>>

\* The destructor asks the worker to stop, then waits for it.
UiClose ==
  /\ ui = "idle"
  /\ RequestCancel
  /\ NoteStop
  /\ ui' = "closing"
  /\ UNCHANGED <<running, worker, runDir, runStatus, iter, uiDir, results,
                 snapshot, switched>>

UiClosed ==
  /\ ui = "closing"
  /\ Join
  /\ ui' = "closed"
  /\ worker' = "none"
  /\ UNCHANGED <<sessionVars, running, runDir, runStatus, iter, uiDir, results,
                 snapshot, stopAt, stopMidway, switched>>

--------------------------------------------------------------------------------
(* The worker thread.                                                      *)

WorkerReadsDirectory ==
  /\ worker = "started"
  /\ runDir' = directory
  /\ worker' = "dirRead"
  /\ UNCHANGED <<sessionVars, running, runStatus, iter, ui, uiDir, results,
                 snapshot, stopAt, stopMidway, switched>>

WorkerMayRun == runDir # None /\ CanRun

WorkerChecks ==
  /\ worker = "dirRead"
  /\ \/ /\ WorkerMayRun
        /\ worker' = "clearing"
        /\ UNCHANGED runStatus
     \/ /\ ~WorkerMayRun
        /\ worker' = "ran"
        /\ runStatus' = "Refused"
  /\ UNCHANGED <<sessionVars, running, runDir, iter, ui, uiDir, results,
                 snapshot, stopAt, stopMidway, switched>>

WorkerClearsCancel ==
  /\ worker = "clearing"
  /\ ClearCancel
  /\ worker' = "entering"
  /\ UNCHANGED <<running, runDir, runStatus, iter, ui, uiDir, results, snapshot,
                 stopAt, stopMidway, switched>>

WorkerEnters ==
  /\ worker = "entering"
  /\ EnterRunning
  /\ worker' = "reading"
  /\ UNCHANGED <<running, runDir, runStatus, iter, ui, uiDir, results, snapshot,
                 stopAt, stopMidway, switched>>

\* ProjectRunner::run: CaseReader::read and CaseBuilder::build of runDir.
WorkerReadsCase ==
  /\ worker = "reading"
  /\ \E c \in CaseRead(runDir) :
       IF c \in Buildable
       THEN worker' = "checking" /\ UNCHANGED runStatus
       ELSE worker' = "storing" /\ runStatus' = "InvalidCase"
  /\ UNCHANGED <<sessionVars, running, runDir, iter, ui, uiDir, results,
                 snapshot, stopAt, stopMidway, switched>>

\* The cancellation check at the top of SIMPLE's outer iteration. Settings or
\* initial fields SIMPLE rejects end the solve before the first.
WorkerChecksCancel ==
  /\ worker = "checking"
  /\ \/ /\ cancelRequested
        /\ worker' = "exporting"
        /\ runStatus' = "Cancelled"
     \/ /\ ~cancelRequested
        /\ worker' = "iterating"
        /\ UNCHANGED runStatus
     \/ /\ iter = 0
        /\ worker' = "exporting"
        /\ runStatus' = "NumericalFailure"
  /\ UNCHANGED <<sessionVars, running, runDir, iter, ui, uiDir, results,
                 snapshot, stopAt, stopMidway, switched>>

\* The rest of the iteration. A stagnated solve and one that used up its
\* iterations both report DidNotConverge.
WorkerIterates ==
  /\ worker = "iterating"
  /\ \/ /\ iter' = iter + 1
        /\ iter' < MaxIterations
        /\ worker' = "checking"
        /\ UNCHANGED runStatus
     \/ /\ iter' = iter + 1
        /\ worker' = "exporting"
        /\ runStatus' \in {"Converged", "DidNotConverge", "NumericalFailure"}
     \/ /\ iter' = iter  \* the iteration failed half-way
        /\ worker' = "exporting"
        /\ runStatus' = "NumericalFailure"
  /\ UNCHANGED <<sessionVars, running, runDir, ui, uiDir, results, snapshot,
                 stopAt, stopMidway, switched>>

WorkerBeginsExport ==
  /\ worker = "exporting"
  /\ worker' = "writing"
  /\ results' = [results EXCEPT ![runDir] = "writing"]
  /\ UNCHANGED <<sessionVars, running, runDir, runStatus, iter, ui, uiDir,
                 snapshot, stopAt, stopMidway, switched>>

WorkerEndsExport ==
  /\ worker = "writing"
  /\ worker' = "storing"
  /\ \/ /\ results' = [results EXCEPT ![runDir] = "complete"]
        /\ UNCHANGED runStatus
     \/ /\ results' = [results EXCEPT ![runDir] = "partial"]
        /\ runStatus' = "ApplicationError"
  /\ UNCHANGED <<sessionVars, running, runDir, iter, ui, uiDir, snapshot,
                 stopAt, stopMidway, switched>>

WorkerStores ==
  /\ worker = "storing"
  /\ StoreResult(runStatus)
  /\ worker' = "leaving"
  /\ UNCHANGED <<running, runDir, runStatus, iter, ui, uiDir, results, snapshot,
                 stopAt, stopMidway, switched>>

WorkerLeaves ==
  /\ worker = "leaving"
  /\ LeaveRunning(runStatus)
  /\ worker' = "ran"
  /\ UNCHANGED <<running, runDir, runStatus, iter, ui, uiDir, results, snapshot,
                 stopAt, stopMidway, switched>>

\* Mutated form: the early return of a refused run leaves the flag set.
ClearsUnlessRefused ==
  /\ worker = "ran"
  /\ running' = (runStatus = "Refused")
  /\ worker' = "notifying"
  /\ UNCHANGED <<sessionVars, runDir, runStatus, iter, ui, uiDir, results,
                 snapshot, stopAt, stopMidway, switched>>

\* Mutated form: the flag is cleared by a blocking call into the UI thread.
ClearsOnUiThread ==
  /\ worker = "ran"
  /\ ui = "idle"
  /\ running' = FALSE
  /\ worker' = "notifying"
  /\ UNCHANGED <<sessionVars, runDir, runStatus, iter, ui, uiDir, results,
                 snapshot, stopAt, stopMidway, switched>>

WorkerClearsRunning ==
  /\ worker = "ran"
  /\ running' = FALSE
  /\ worker' = "notifying"
  /\ UNCHANGED <<sessionVars, runDir, runStatus, iter, ui, uiDir, results,
                 snapshot, stopAt, stopMidway, switched>>

\* The snapshot of the worker's own result: invalid without a finite solution,
\* and late when another case was opened meanwhile.
RunSnapshots ==
  {"none"} \cup
    IF runStatus \in {"InvalidCase", "Refused"} THEN {}
    ELSE {IF switched THEN "late" ELSE "current"}

\* Mutated form: the result is handed over by a blocking call into the UI thread.
PublishesOnUiThread ==
  /\ worker = "notifying"
  /\ ui = "idle"
  /\ snapshot' \in RunSnapshots
  /\ worker' = "exited"
  /\ UNCHANGED <<sessionVars, running, runDir, runStatus, iter, ui, uiDir,
                 results, stopAt, stopMidway, switched>>

WorkerPublishes ==
  /\ worker = "notifying"
  /\ snapshot' \in RunSnapshots
  /\ worker' = "exited"
  /\ UNCHANGED <<sessionVars, running, runDir, runStatus, iter, ui, uiDir,
                 results, stopAt, stopMidway, switched>>

--------------------------------------------------------------------------------

UiCompletes ==
  UiClearSnapshot \/ UiOpenLoads \/ UiSaveAsEnds \/ UiStartWorker \/ UiClosed

UiCalls ==
  \/ UiNewCase
  \/ \E d \in Dirs : UiOpenCase(d)
  \/ UiReloadResults
  \/ \E d \in Dirs : UiSaveAs(d)
  \/ UiSave
  \/ \E c \in Contents : UiEdit(c)
  \/ UiValidateCase
  \/ UiRun
  \/ UiStop
  \/ UiClose

WorkerStep ==
  \/ WorkerReadsDirectory
  \/ WorkerChecks
  \/ WorkerClearsCancel
  \/ WorkerEnters
  \/ WorkerReadsCase
  \/ WorkerChecksCancel
  \/ WorkerIterates
  \/ WorkerBeginsExport
  \/ WorkerEndsExport
  \/ WorkerStores
  \/ WorkerLeaves
  \/ WorkerClearsRunning
  \/ WorkerPublishes

\* The application has been closed.
Terminated == ui = "closed" /\ UNCHANGED vars

Next == UiCalls \/ UiCompletes \/ WorkerStep \/ Terminated

\* Both threads are scheduled: the worker runs on, and a UI handler that has
\* begun returns. Nothing obliges the user to call anything.
Fairness == WF_vars(WorkerStep) /\ WF_vars(UiCompletes)

Spec == Init /\ [][Next]_vars /\ Fairness

--------------------------------------------------------------------------------
(* Safety.                                                                 *)

\* The session says Running only while a worker is inside CaseSession::run(): no
\* ending of a run, and no call made during it, leaves the state behind for good
\* (canRun() would then be false until the application is restarted).
RunningOnlyInsideRun == state = "Running" => worker \in InsideRun

\* running_, which drives the Stop button and the guard of run(), is set exactly
\* while a worker has not yet finished with the session, so two solves never
\* share one CaseSession.
RunningFlagTracksWorker ==
  running <=> worker \in BeforeEntry \cup InsideRun \cup {"ran"}

\* The worker run() joins before it starts another has already finished with the
\* solve (the comment at SimulationController.cpp:215), so the UI thread never blocks
\* for a solve there, although an edit or an opened case makes canRun() true again
\* in the middle of one.
JoinNeverWaitsForASolve ==
  ui = "joining" => worker \notin BeforeEntry \cup InsideRun \cup {"ran"}

\* The three together: one run at a time, whatever the window calls and however the
\* run ends, and a Run button that comes back (SimulationController.cpp:213-235).
OneRunAtATime ==
  RunningFlagTracksWorker /\ RunningOnlyInsideRun /\ JoinNeverWaitsForASolve

\* A finished state and the stored result of the run always tell the same story,
\* whichever calls interleave with the two stores at the end of CaseSession::run().
FinishedStateMatchesLastRun ==
  /\ state \in {"Completed", "Failed", "Cancelled"}
  /\ lastRun # None
  => state = NextState(lastRun)

\* A run is reported Cancelled only if it was asked to in time: a Stop of the
\* previous run, one lost in the clearing of the flag (CaseSession.cpp:186) and one
\* pressed after the solve do not cancel a run.
NoSpuriousCancel == runStatus = "Cancelled" => stopAt # None

\* A run asked to stop in time begins no further outer iteration, and does not come
\* to an end of its own unless it does so in the iteration the request came into the
\* middle of. (What is left is to be cancelled, or to fail.)
StopInTimeIsObeyed ==
  stopAt # None =>
    /\ IterationsBegun <= stopAt
    /\ runStatus \in {"Converged", "DidNotConverge"} => stopMidway

\* Both directions. In time is after the clearing at CaseSession.cpp:186 and before the
\* end of the solve: gui.md:34-36 promises it of every Stop, and a Stop repeated after
\* one that was lost is held to it.
StopIsExact == NoSpuriousCancel /\ StopInTimeIsObeyed

\* The destructor never lets the process exit while a result file is half written
\* (the comment at SimulationController.cpp:81).
NoHalfWrittenResultsAtExit ==
  ui = "closed" => \A d \in Dirs : results[d] # "writing"

\* Outside the handler that replaces the case, the results of a case that was
\* replaced are not shown, except those a run still in progress publishes late.
ReplacedResultsAreCleared == ui = "idle" => snapshot # "replaced"

\* Neither the disk nor the window is left with the results of something unfinished:
\* the end of the application waits for a file, the end of a case clears its view.
ResultsStayWhole == NoHalfWrittenResultsAtExit /\ ReplacedResultsAreCleared

(* Liveness, with both threads scheduled.                                  *)

\* Closing the application always ends: the destructor's join returns.
CloseCompletes == (ui = "closing") ~> (ui = "closed")

\* Every run ends and gives the Run button back, or its thread was joined by the
\* destructor.
RunEnds == running ~> ~running

================================================================================
