---------------------------- MODULE MainWindowProofs ----------------------------
(***************************************************************************)
(* Proofs about SimulationController and the window in front of it, for    *)
(* any number of directories and definitions and any iteration limit.      *)
(*                                                                         *)
(* The controller: every invariant the model checker checks on the small   *)
(* instance is proved from an inductive one: TypeInv, what the variables   *)
(* hold at each point of the worker, and on top of it FlagInv, ResultInv,  *)
(* StopInv and ExportInv, what the two threads can rely on about the       *)
(* running flag, the result, the cancellation flag and the results         *)
(* directory.                                                              *)
(*                                                                         *)
(* The window: a step of it is a step of the controller or leaves that     *)
(* alone, so that the controller's types carry over; WindowInv adds what   *)
(* the bindings and the unsaved-changes dialog rely on.                    *)
(***************************************************************************)
EXTENDS MainWindow, TLAPS

--------------------------------------------------------------------------------
(* The controller.                                                           *)

\* What the worker's program counter says of the values it carries: past its checks
\* it has a directory, past the solve a status, and before an iteration the limit
\* has not been reached.
WorkerValues ==
  /\ worker \in {"clearing", "entering"} \cup InsideRun => runDir \in Dirs
  /\ worker \in Exporting \cup {"storing", "leaving"} => runStatus \in Statuses
  /\ worker \in BeforeEntry \cup Solving => iter < MaxIterations

TypeInv == TypeOK /\ WorkerValues

\* The limit is a natural number that admits an iteration.
LEMMA Limit == MaxIterations \in Nat /\ 0 \in 0 .. MaxIterations /\ 0 < MaxIterations
  BY MaxIterationsAssumption

\* The initial states have the types.
LEMMA TypeInit == Init => TypeInv
<1> SUFFICES ASSUME Init PROVE TypeInv
  OBVIOUS
<1>1. disk \in [Dirs -> Contents \cup {None, Torn}]
  BY DEF Init, SessionInit
<1>2. results \in [Dirs -> {"none", "complete", "writing", "partial"}]
  BY DEF Init
<1> QED
  BY <1>1, <1>2, Limit
  DEF Init, SessionInit, TypeInv, TypeOK, SessionTypeOK, WorkerValues, WorkerPC,
      UiPC, CaseStates, BeforeEntry, Solving, Exporting, InsideRun, AfterRun

\* What is noted of a request has the types.
LEMMA NoteStopTypes ==
  ASSUME TypeInv, NoteStop
  PROVE  stopAt' \in 0 .. MaxIterations \cup {None} /\ stopMidway' \in BOOLEAN
<1>1. CASE worker \in {"entering"} \cup Solving /\ stopAt = None
  <2>1. iter \in 0 .. MaxIterations /\ iter < MaxIterations
    BY <1>1 DEF TypeInv, TypeOK, WorkerValues, BeforeEntry, Solving
  <2>2. IterationsBegun \in 0 .. MaxIterations
    BY <2>1, Limit DEF IterationsBegun
  <2>3. stopAt' = IterationsBegun /\ stopMidway' = (worker = "iterating")
    BY <1>1 DEF NoteStop
  <2> QED  BY <2>2, <2>3
<1>2. CASE ~(worker \in {"entering"} \cup Solving /\ stopAt = None)
  BY <1>2 DEF NoteStop, TypeInv, TypeOK
<1> QED  BY <1>1, <1>2

\* The calls of the UI thread keep the types.
LEMMA TypeUi ==
  ASSUME TypeInv, UiCalls \/ UiCompletes
  PROVE  TypeInv'
<1> USE SessionAssumption, Limit
    DEF TypeInv, TypeOK, SessionTypeOK, WorkerValues, WorkerPC, UiPC, CaseStates,
        BeforeEntry, Solving, Exporting, InsideRun, AfterRun, controllerVars,
        sessionVars
<1>1. CASE UiNewCase
  BY <1>1 DEF UiNewCase, NewCase, SwitchCase, WorkerActive
<1>2. ASSUME NEW d \in Dirs, UiOpenCase(d)
      PROVE  TypeInv'
  <2>1. CASE \E c \in Contents : OpenReads(d, c) /\ SwitchCase /\ ui' = "loading"
    BY <2>1 DEF OpenReads, SwitchCase, WorkerActive
  <2>2. CASE OpenFails(d) /\ ui' = "clearing"
             /\ UNCHANGED <<running, worker, runDir, runStatus, iter, uiDir,
                            results, snapshot, stopAt, stopMidway, switched>>
    BY <2>2 DEF OpenFails
  <2> QED  BY <1>2, <2>1, <2>2 DEF UiOpenCase
<1>3. CASE UiClearSnapshot  BY <1>3 DEF UiClearSnapshot
<1>4. CASE UiOpenLoads      BY <1>4 DEF UiOpenLoads, LoadsResults
<1>5. CASE UiReloadResults  BY <1>5 DEF UiReloadResults, LoadsResults
<1>6. ASSUME NEW d \in Dirs, UiSaveAs(d)
      PROVE  TypeInv'
  BY <1>6 DEF UiSaveAs, SaveAsBegins
<1>7. CASE UiSave
  <2>1. directory \in Dirs /\ UiSaveAs(directory)
    BY <1>7 DEF UiSave
  <2> QED  BY <2>1, <1>6
<1>8. CASE UiSaveAsEnds
  BY <1>8 DEF UiSaveAsEnds, SaveAsSucceeds, SaveAsFails
<1>9. ASSUME NEW c \in Contents, UiEdit(c)
      PROVE  TypeInv'
  BY <1>9 DEF UiEdit, SetCaseDefinition
<1>10. CASE UiValidateCase  BY <1>10 DEF UiValidateCase, Validate
<1>11. CASE UiRun           BY <1>11 DEF UiRun
<1>12. CASE UiStartWorker   BY <1>12 DEF UiStartWorker
<1>13. CASE UiStop
  BY <1>13, NoteStopTypes DEF UiStop, RequestCancel
<1>14. CASE UiClose
  BY <1>14, NoteStopTypes DEF UiClose, RequestCancel
<1>15. CASE UiClosed        BY <1>15 DEF UiClosed
<1> QED
  BY <1>1, <1>2, <1>3, <1>4, <1>5, <1>6, <1>7, <1>8, <1>9, <1>10, <1>11, <1>12,
     <1>13, <1>14, <1>15
  DEF UiCalls, UiCompletes

\* The steps of the worker keep the types.
LEMMA TypeWorker ==
  ASSUME TypeInv, WorkerStep
  PROVE  TypeInv'
<1> USE Limit
    DEF TypeInv, TypeOK, SessionTypeOK, WorkerValues, WorkerPC, UiPC, CaseStates,
        BeforeEntry, Solving, Exporting, InsideRun, AfterRun, sessionVars
<1>1. CASE WorkerReadsDirectory  BY <1>1 DEF WorkerReadsDirectory
<1>2. CASE WorkerChecks
  <2>1. runDir \in Dirs \/ ~WorkerMayRun
    BY DEF WorkerMayRun
  <2> QED  BY <1>2, <2>1 DEF WorkerChecks
<1>3. CASE WorkerClearsCancel
  <2>1. cancelRequested' \in BOOLEAN
    BY <1>3 DEF WorkerClearsCancel, ClearCancel
  <2> QED  BY <1>3, <2>1 DEF WorkerClearsCancel, ClearCancel
<1>4. CASE WorkerEnters          BY <1>4 DEF WorkerEnters, EnterRunning
<1>5. CASE WorkerReadsCase       BY <1>5 DEF WorkerReadsCase, Statuses
<1>6. CASE WorkerChecksCancel    BY <1>6 DEF WorkerChecksCancel, Statuses
<1>7. CASE WorkerIterates        BY <1>7 DEF WorkerIterates, Statuses
<1>8. CASE WorkerBeginsExport    BY <1>8 DEF WorkerBeginsExport
<1>9. CASE WorkerEndsExport      BY <1>9 DEF WorkerEndsExport, Statuses
<1>10. CASE WorkerStores         BY <1>10 DEF WorkerStores, StoreResult
<1>11. CASE WorkerLeaves
  BY <1>11 DEF WorkerLeaves, LeaveRunning, NextState
<1>12. CASE WorkerClearsRunning
  <2>1. running' \in BOOLEAN
    BY <1>12 DEF WorkerClearsRunning
  <2> QED  BY <1>12, <2>1 DEF WorkerClearsRunning
<1>13. CASE WorkerPublishes
  <2>1. snapshot' \in {"none", "current", "late"}
    BY <1>13 DEF WorkerPublishes, RunSnapshots
  <2> QED  BY <1>13, <2>1 DEF WorkerPublishes
<1> QED
  BY <1>1, <1>2, <1>3, <1>4, <1>5, <1>6, <1>7, <1>8, <1>9, <1>10, <1>11, <1>12,
     <1>13
  DEF WorkerStep

\* So does a step that changes nothing.
LEMMA TypeStutter ==
  ASSUME TypeInv, UNCHANGED vars
  PROVE  TypeInv'
  BY DEF vars, sessionVars, controllerVars, TypeInv, TypeOK, SessionTypeOK,
         WorkerValues

\* Type correctness, for every value of the constants.
THEOREM TypeCorrect == Spec => []TypeInv
<1>1. Init => TypeInv
  BY TypeInit
<1>2. TypeInv /\ [Next]_vars => TypeInv'
  BY TypeUi, TypeWorker, TypeStutter DEF Next, Terminated
<1> QED
  BY <1>1, <1>2, PTL DEF Spec

\* The type invariant the model checker checks.
THEOREM TypeOKHolds == Spec => []TypeOK
<1>1. TypeInv => TypeOK
  BY DEF TypeInv
<1> QED
  BY <1>1, TypeCorrect, PTL

--------------------------------------------------------------------------------
(* The running flag and the thread.                                        *)

\* running_ mirrors the worker, and a run() that is waiting for the previous worker
\* has seen it false.
FlagInv ==
  /\ RunningFlagTracksWorker
  /\ RunningOnlyInsideRun
  /\ JoinNeverWaitsForASolve

\* Every step keeps FlagInv.
LEMMA FlagInvStep ==
  ASSUME TypeInv, TypeInv', FlagInv, [Next]_vars
  PROVE  FlagInv'
<1> USE DEF FlagInv, RunningFlagTracksWorker, RunningOnlyInsideRun,
            JoinNeverWaitsForASolve, BeforeEntry, Solving, Exporting, InsideRun,
            sessionVars, controllerVars
<1>1. CASE UiNewCase  BY <1>1 DEF UiNewCase, NewCase, SwitchCase
<1>2. ASSUME NEW d \in Dirs, UiOpenCase(d)
      PROVE  FlagInv'
  BY <1>2 DEF UiOpenCase, OpenReads, OpenFails, SwitchCase
<1>3. CASE UiClearSnapshot  BY <1>3 DEF UiClearSnapshot
<1>4. CASE UiOpenLoads  BY <1>4 DEF UiOpenLoads, LoadsResults
<1>5. CASE UiReloadResults  BY <1>5 DEF UiReloadResults, LoadsResults
<1>6. ASSUME NEW d \in Dirs, UiSaveAs(d)
      PROVE  FlagInv'
  BY <1>6 DEF UiSaveAs, SaveAsBegins
<1>7. CASE UiSave
  BY <1>7, <1>6 DEF UiSave, TypeInv, TypeOK, SessionTypeOK
<1>8. CASE UiSaveAsEnds  BY <1>8 DEF UiSaveAsEnds, SaveAsSucceeds, SaveAsFails
<1>9. ASSUME NEW c \in Contents, UiEdit(c)
      PROVE  FlagInv'
  BY <1>9 DEF UiEdit, SetCaseDefinition
<1>10. CASE UiValidateCase  BY <1>10 DEF UiValidateCase, Validate
<1>11. CASE UiRun  BY <1>11 DEF UiRun
<1>12. CASE UiStartWorker  BY <1>12 DEF UiStartWorker, Join
<1>13. CASE UiStop  BY <1>13 DEF UiStop, RequestCancel, NoteStop, IterationsBegun
<1>14. CASE UiClose  BY <1>14 DEF UiClose, RequestCancel, NoteStop, IterationsBegun
<1>15. CASE UiClosed  BY <1>15 DEF UiClosed, Join
<1>16. CASE WorkerReadsDirectory  BY <1>16 DEF WorkerReadsDirectory
<1>17. CASE WorkerChecks  BY <1>17 DEF WorkerChecks, WorkerMayRun
<1>18. CASE WorkerClearsCancel  BY <1>18 DEF WorkerClearsCancel, ClearCancel
<1>19. CASE WorkerEnters  BY <1>19 DEF WorkerEnters, EnterRunning
<1>20. CASE WorkerReadsCase  BY <1>20 DEF WorkerReadsCase
<1>21. CASE WorkerChecksCancel  BY <1>21 DEF WorkerChecksCancel
<1>22. CASE WorkerIterates  BY <1>22 DEF WorkerIterates
<1>23. CASE WorkerBeginsExport  BY <1>23 DEF WorkerBeginsExport
<1>24. CASE WorkerEndsExport  BY <1>24 DEF WorkerEndsExport
<1>25. CASE WorkerStores  BY <1>25 DEF WorkerStores, StoreResult
<1>26. CASE WorkerLeaves  BY <1>26 DEF WorkerLeaves, LeaveRunning, NextState
<1>27. CASE WorkerClearsRunning  BY <1>27 DEF WorkerClearsRunning
<1>28. CASE WorkerPublishes  BY <1>28 DEF WorkerPublishes, RunSnapshots
<1>29. CASE UNCHANGED vars  BY <1>29 DEF vars
<1> QED
  BY <1>1, <1>2, <1>3, <1>4, <1>5, <1>6, <1>7, <1>8, <1>9, <1>10, <1>11, <1>12,
     <1>13, <1>14, <1>15, <1>16, <1>17, <1>18, <1>19, <1>20, <1>21, <1>22,
     <1>23, <1>24, <1>25, <1>26, <1>27, <1>28, <1>29
  DEF Next, UiCalls, UiCompletes, WorkerStep, Terminated

\* running_ is set exactly while a worker has not finished with the session, the
\* session says Running only inside CaseSession::run(), and run() never waits for a
\* solve.
THEOREM RunningFlagIsExact ==
  Spec => []OneRunAtATime
<1>1. Init => FlagInv
  BY DEF Init, SessionInit, FlagInv, RunningFlagTracksWorker, RunningOnlyInsideRun,
         JoinNeverWaitsForASolve, BeforeEntry, Solving, Exporting, InsideRun
<1>2. TypeInv /\ TypeInv' /\ FlagInv /\ [Next]_vars => FlagInv'
  BY FlagInvStep
<1>3. FlagInv => OneRunAtATime
  BY DEF FlagInv, OneRunAtATime
<1> QED
  BY <1>1, <1>2, <1>3, TypeCorrect, PTL DEF Spec

--------------------------------------------------------------------------------
(* The result of a run and the state it leaves behind.                     *)

\* The states a run leaves behind.
Finished == {"Completed", "Failed", "Cancelled"}

\* While a worker is inside run() nothing else finishes the state, and between its
\* two stores the result is this run's, or was dropped by the opening of a case.
ResultInv ==
  /\ FinishedStateMatchesLastRun
  /\ worker \in InsideRun => state \notin Finished
  /\ worker = "leaving" => lastRun \in {None, runStatus}

\* Every step keeps ResultInv.
LEMMA ResultInvStep ==
  ASSUME TypeInv, TypeInv', ResultInv, [Next]_vars
  PROVE  ResultInv'
<1> USE DEF ResultInv, FinishedStateMatchesLastRun, Finished, Solving, Exporting,
            InsideRun, sessionVars, controllerVars
<1>1. CASE UiNewCase  BY <1>1 DEF UiNewCase, NewCase, SwitchCase
<1>2. ASSUME NEW d \in Dirs, UiOpenCase(d)
      PROVE  ResultInv'
  BY <1>2 DEF UiOpenCase, OpenReads, OpenFails, SwitchCase
<1>3. CASE UiClearSnapshot  BY <1>3 DEF UiClearSnapshot
<1>4. CASE UiOpenLoads  BY <1>4 DEF UiOpenLoads, LoadsResults
<1>5. CASE UiReloadResults  BY <1>5 DEF UiReloadResults, LoadsResults
<1>6. ASSUME NEW d \in Dirs, UiSaveAs(d)
      PROVE  ResultInv'
  BY <1>6 DEF UiSaveAs, SaveAsBegins
<1>7. CASE UiSave
  BY <1>7, <1>6 DEF UiSave, TypeInv, TypeOK, SessionTypeOK
<1>8. CASE UiSaveAsEnds  BY <1>8 DEF UiSaveAsEnds, SaveAsSucceeds, SaveAsFails
<1>9. ASSUME NEW c \in Contents, UiEdit(c)
      PROVE  ResultInv'
  BY <1>9 DEF UiEdit, SetCaseDefinition
<1>10. CASE UiValidateCase  BY <1>10 DEF UiValidateCase, Validate
<1>11. CASE UiRun  BY <1>11 DEF UiRun
<1>12. CASE UiStartWorker  BY <1>12 DEF UiStartWorker, Join
<1>13. CASE UiStop  BY <1>13 DEF UiStop, RequestCancel, NoteStop, IterationsBegun
<1>14. CASE UiClose  BY <1>14 DEF UiClose, RequestCancel, NoteStop, IterationsBegun
<1>15. CASE UiClosed  BY <1>15 DEF UiClosed, Join
<1>16. CASE WorkerReadsDirectory  BY <1>16 DEF WorkerReadsDirectory
<1>17. CASE WorkerChecks  BY <1>17 DEF WorkerChecks
<1>18. CASE WorkerClearsCancel  BY <1>18 DEF WorkerClearsCancel, ClearCancel
<1>19. CASE WorkerEnters  BY <1>19 DEF WorkerEnters, EnterRunning
<1>20. CASE WorkerReadsCase  BY <1>20 DEF WorkerReadsCase
<1>21. CASE WorkerChecksCancel  BY <1>21 DEF WorkerChecksCancel
<1>22. CASE WorkerIterates  BY <1>22 DEF WorkerIterates
<1>23. CASE WorkerBeginsExport  BY <1>23 DEF WorkerBeginsExport
<1>24. CASE WorkerEndsExport  BY <1>24 DEF WorkerEndsExport
<1>25. CASE WorkerStores  BY <1>25 DEF WorkerStores, StoreResult
<1>26. CASE WorkerLeaves  BY <1>26 DEF WorkerLeaves, LeaveRunning, NextState
<1>27. CASE WorkerClearsRunning  BY <1>27 DEF WorkerClearsRunning
<1>28. CASE WorkerPublishes  BY <1>28 DEF WorkerPublishes, RunSnapshots
<1>29. CASE UNCHANGED vars  BY <1>29 DEF vars
<1> QED
  BY <1>1, <1>2, <1>3, <1>4, <1>5, <1>6, <1>7, <1>8, <1>9, <1>10, <1>11, <1>12,
     <1>13, <1>14, <1>15, <1>16, <1>17, <1>18, <1>19, <1>20, <1>21, <1>22,
     <1>23, <1>24, <1>25, <1>26, <1>27, <1>28, <1>29
  DEF Next, UiCalls, UiCompletes, WorkerStep, Terminated

\* A finished state and the stored result never disagree, whatever the user does
\* between the two stores at the end of CaseSession::run().
THEOREM ResultMatchesState == Spec => []FinishedStateMatchesLastRun
<1>1. Init => ResultInv
  BY DEF Init, SessionInit, ResultInv, FinishedStateMatchesLastRun, Finished,
         Solving, Exporting, InsideRun
<1>2. TypeInv /\ TypeInv' /\ ResultInv /\ [Next]_vars => ResultInv'
  BY ResultInvStep
<1>3. ResultInv => FinishedStateMatchesLastRun
  BY DEF ResultInv
<1> QED
  BY <1>1, <1>2, <1>3, TypeCorrect, PTL DEF Spec

--------------------------------------------------------------------------------
(* Cancellation.                                                           *)

\* From the moment run() has cleared the flag and until the solve ends, the flag is
\* set if and only if the run was asked to stop: no iteration begins under it, and the
\* run has no status yet.
StopInv ==
  /\ NoSpuriousCancel
  /\ StopInTimeIsObeyed
  /\ worker \in {"entering"} \cup Solving => (cancelRequested <=> stopAt # None)
  /\ worker \in BeforeEntry \cup Solving => runStatus = None
  /\ worker \in {"started", "dirRead", "clearing"} => stopAt = None
  /\ worker = "iterating" /\ stopAt # None => stopMidway

\* The iteration a request came into the middle of is the last the run begins.
LEMMA StopIterates ==
  ASSUME TypeInv, StopInv, WorkerIterates
  PROVE  StopInv'
<1>1. /\ worker = "iterating" /\ iter \in Nat
      /\ iter' \in {iter, iter + 1}
      /\ UNCHANGED <<stopAt, stopMidway, cancelRequested>>
  BY MaxIterationsAssumption DEF WorkerIterates, TypeInv, TypeOK, sessionVars
<1>2. /\ worker' \in {"checking", "exporting"}
      /\ runStatus' # "Cancelled"
      /\ worker' = "checking" => runStatus' = runStatus
  BY MaxIterationsAssumption
  DEF WorkerIterates, StopInv, BeforeEntry, Solving, Statuses
<1>3. IterationsBegun = iter + 1 /\ IterationsBegun' = iter'
  BY <1>1, <1>2 DEF IterationsBegun
<1>4. stopAt # None => stopMidway /\ IterationsBegun <= stopAt
  BY <1>1 DEF StopInv, StopInTimeIsObeyed
<1>5. stopAt # None => IterationsBegun' <= stopAt
  <2>1. ASSUME stopAt # None  PROVE stopAt \in Nat
    BY <2>1, MaxIterationsAssumption DEF TypeInv, TypeOK
  <2> QED  BY <1>1, <1>3, <1>4, <2>1
<1>6. StopInTimeIsObeyed' /\ NoSpuriousCancel'
  BY <1>1, <1>2, <1>4, <1>5 DEF StopInTimeIsObeyed, NoSpuriousCancel
<1> QED
  BY <1>1, <1>2, <1>6 DEF StopInv, BeforeEntry, Solving

\* Every step keeps StopInv.
LEMMA StopInvStep ==
  ASSUME TypeInv, TypeInv', StopInv, [Next]_vars
  PROVE  StopInv'
<1> USE MaxIterationsAssumption
    DEF StopInv, NoSpuriousCancel, StopInTimeIsObeyed, IterationsBegun, TypeInv,
        TypeOK, WorkerValues, Statuses, SessionTypeOK, BeforeEntry, Solving, Exporting, InsideRun, sessionVars, controllerVars
<1>1. CASE UiNewCase  BY <1>1 DEF UiNewCase, NewCase, SwitchCase
<1>2. ASSUME NEW d \in Dirs, UiOpenCase(d)
      PROVE  StopInv'
  BY <1>2 DEF UiOpenCase, OpenReads, OpenFails, SwitchCase
<1>3. CASE UiClearSnapshot  BY <1>3 DEF UiClearSnapshot
<1>4. CASE UiOpenLoads  BY <1>4 DEF UiOpenLoads, LoadsResults
<1>5. CASE UiReloadResults  BY <1>5 DEF UiReloadResults, LoadsResults
<1>6. ASSUME NEW d \in Dirs, UiSaveAs(d)
      PROVE  StopInv'
  BY <1>6 DEF UiSaveAs, SaveAsBegins
<1>7. CASE UiSave
  BY <1>7, <1>6 DEF UiSave, TypeInv, TypeOK, SessionTypeOK
<1>8. CASE UiSaveAsEnds  BY <1>8 DEF UiSaveAsEnds, SaveAsSucceeds, SaveAsFails
<1>9. ASSUME NEW c \in Contents, UiEdit(c)
      PROVE  StopInv'
  BY <1>9 DEF UiEdit, SetCaseDefinition
<1>10. CASE UiValidateCase  BY <1>10 DEF UiValidateCase, Validate
<1>11. CASE UiRun  BY <1>11 DEF UiRun
<1>12. CASE UiStartWorker  BY <1>12 DEF UiStartWorker, Join
<1>13. CASE UiStop  BY <1>13 DEF UiStop, RequestCancel, NoteStop, IterationsBegun
<1>14. CASE UiClose  BY <1>14 DEF UiClose, RequestCancel, NoteStop, IterationsBegun
<1>15. CASE UiClosed  BY <1>15 DEF UiClosed, Join
<1>16. CASE WorkerReadsDirectory  BY <1>16 DEF WorkerReadsDirectory
<1>17. CASE WorkerChecks  BY <1>17 DEF WorkerChecks
<1>18. CASE WorkerClearsCancel  BY <1>18 DEF WorkerClearsCancel, ClearCancel
<1>19. CASE WorkerEnters  BY <1>19 DEF WorkerEnters, EnterRunning
<1>20. CASE WorkerReadsCase  BY <1>20 DEF WorkerReadsCase
<1>21. CASE WorkerChecksCancel  BY <1>21 DEF WorkerChecksCancel
<1>22. CASE WorkerIterates  BY <1>22, StopIterates
<1>23. CASE WorkerBeginsExport  BY <1>23 DEF WorkerBeginsExport
<1>24. CASE WorkerEndsExport  BY <1>24 DEF WorkerEndsExport
<1>25. CASE WorkerStores  BY <1>25 DEF WorkerStores, StoreResult
<1>26. CASE WorkerLeaves  BY <1>26 DEF WorkerLeaves, LeaveRunning
<1>27. CASE WorkerClearsRunning  BY <1>27 DEF WorkerClearsRunning
<1>28. CASE WorkerPublishes  BY <1>28 DEF WorkerPublishes, RunSnapshots
<1>29. CASE UNCHANGED vars  BY <1>29 DEF vars
<1> QED
  BY <1>1, <1>2, <1>3, <1>4, <1>5, <1>6, <1>7, <1>8, <1>9, <1>10, <1>11, <1>12,
     <1>13, <1>14, <1>15, <1>16, <1>17, <1>18, <1>19, <1>20, <1>21, <1>22,
     <1>23, <1>24, <1>25, <1>26, <1>27, <1>28, <1>29
  DEF Next, UiCalls, UiCompletes, WorkerStep, Terminated

\* A run is reported cancelled only if it was asked to in time, and one that was
\* begins no further iteration and ends by itself only in the one it was asked in.
THEOREM StopIsPrecise == Spec => []StopIsExact
<1>1. Init => StopInv
  BY MaxIterationsAssumption
  DEF Init, SessionInit, StopInv, NoSpuriousCancel, StopInTimeIsObeyed, Statuses,
      BeforeEntry, Solving, Exporting, InsideRun
<1>2. TypeInv /\ TypeInv' /\ StopInv /\ [Next]_vars => StopInv'
  BY StopInvStep
<1>3. StopInv => StopIsExact
  BY DEF StopInv, StopIsExact
<1> QED
  BY <1>1, <1>2, <1>3, TypeCorrect, PTL DEF Spec

--------------------------------------------------------------------------------
(* What the worker writes and what the window shows.                       *)

\* Only the worker that is writing has a half-written result, no worker outlives the
\* window, and only the handler that replaces a case shows the one it replaced.
ExportInv ==
  /\ \A d \in Dirs : results[d] = "writing" => worker = "writing" /\ runDir = d
  /\ ui = "closed" => worker = "none"
  /\ snapshot = "replaced" => ui \in {"clearing", "loading"}

\* Every step keeps ExportInv.
LEMMA ExportInvStep ==
  ASSUME TypeInv, TypeInv', ExportInv, [Next]_vars
  PROVE  ExportInv'
<1> USE DEF ExportInv, TypeInv, TypeOK, WorkerValues, Exporting, InsideRun,
            sessionVars, controllerVars
<1>1. CASE UiNewCase  BY <1>1 DEF UiNewCase, NewCase, SwitchCase
<1>2. ASSUME NEW d \in Dirs, UiOpenCase(d)
      PROVE  ExportInv'
  BY <1>2 DEF UiOpenCase, OpenReads, OpenFails, SwitchCase
<1>3. CASE UiClearSnapshot  BY <1>3 DEF UiClearSnapshot
<1>4. CASE UiOpenLoads  BY <1>4 DEF UiOpenLoads, LoadsResults
<1>5. CASE UiReloadResults  BY <1>5 DEF UiReloadResults, LoadsResults
<1>6. ASSUME NEW d \in Dirs, UiSaveAs(d)
      PROVE  ExportInv'
  BY <1>6 DEF UiSaveAs, SaveAsBegins
<1>7. CASE UiSave
  BY <1>7, <1>6 DEF UiSave, TypeInv, TypeOK, SessionTypeOK
<1>8. CASE UiSaveAsEnds  BY <1>8 DEF UiSaveAsEnds, SaveAsSucceeds, SaveAsFails
<1>9. ASSUME NEW c \in Contents, UiEdit(c)
      PROVE  ExportInv'
  BY <1>9 DEF UiEdit, SetCaseDefinition
<1>10. CASE UiValidateCase  BY <1>10 DEF UiValidateCase, Validate
<1>11. CASE UiRun  BY <1>11 DEF UiRun
<1>12. CASE UiStartWorker  BY <1>12 DEF UiStartWorker, Join
<1>13. CASE UiStop  BY <1>13 DEF UiStop, RequestCancel, NoteStop, IterationsBegun
<1>14. CASE UiClose  BY <1>14 DEF UiClose, RequestCancel, NoteStop, IterationsBegun
<1>15. CASE UiClosed  BY <1>15 DEF UiClosed, Join
<1>16. CASE WorkerReadsDirectory  BY <1>16 DEF WorkerReadsDirectory
<1>17. CASE WorkerChecks  BY <1>17 DEF WorkerChecks
<1>18. CASE WorkerClearsCancel  BY <1>18 DEF WorkerClearsCancel, ClearCancel
<1>19. CASE WorkerEnters  BY <1>19 DEF WorkerEnters, EnterRunning
<1>20. CASE WorkerReadsCase  BY <1>20 DEF WorkerReadsCase
<1>21. CASE WorkerChecksCancel  BY <1>21 DEF WorkerChecksCancel
<1>22. CASE WorkerIterates  BY <1>22 DEF WorkerIterates
<1>23. CASE WorkerBeginsExport  BY <1>23 DEF WorkerBeginsExport
<1>24. CASE WorkerEndsExport  BY <1>24 DEF WorkerEndsExport
<1>25. CASE WorkerStores  BY <1>25 DEF WorkerStores, StoreResult
<1>26. CASE WorkerLeaves  BY <1>26 DEF WorkerLeaves, LeaveRunning
<1>27. CASE WorkerClearsRunning  BY <1>27 DEF WorkerClearsRunning
<1>28. CASE WorkerPublishes  BY <1>28 DEF WorkerPublishes, RunSnapshots
<1>29. CASE UNCHANGED vars  BY <1>29 DEF vars
<1> QED
  BY <1>1, <1>2, <1>3, <1>4, <1>5, <1>6, <1>7, <1>8, <1>9, <1>10, <1>11, <1>12,
     <1>13, <1>14, <1>15, <1>16, <1>17, <1>18, <1>19, <1>20, <1>21, <1>22,
     <1>23, <1>24, <1>25, <1>26, <1>27, <1>28, <1>29
  DEF Next, UiCalls, UiCompletes, WorkerStep, Terminated

\* The application never exits on a half-written result file and, outside the handler
\* that replaces the case, never shows the results of the case it replaced.
THEOREM ResultsAreSettled == Spec => []ResultsStayWhole
<1>1. Init => ExportInv
  BY DEF Init, ExportInv
<1>2. TypeInv /\ TypeInv' /\ ExportInv /\ [Next]_vars => ExportInv'
  BY ExportInvStep
<1>3. ExportInv => ResultsStayWhole
  BY DEF ExportInv, ResultsStayWhole, NoHalfWrittenResultsAtExit,
         ReplacedResultsAreCleared
<1> QED
  BY <1>1, <1>2, <1>3, TypeCorrect, PTL DEF Spec

--------------------------------------------------------------------------------
(* The window.                                                               *)

\* The worker has not finished with the session: its last signal is still to come.
Busy == BeforeEntry \cup InsideRun \cup {"ran"}

WindowValues ==
  /\ view \in [canRun : BOOLEAN, canStop : BOOLEAN]
  /\ pending \in BOOLEAN
  /\ dialog \in {"closed", "asking", "saving", "continuing"}
  /\ wanted \in Dirs \cup {"new", None}
  /\ edited \in {"no", "yes", "ran"}

\* What the bindings were last told is what holds, unless a signal is queued or will
\* be; and Stop is never taken away from a run.
ViewInv ==
  /\ running => view.canStop
  /\ worker \in Busy \/ pending \/ view = View

WindowInv == TypeInv /\ WindowValues /\ ViewInv /\ EditIsFlaggedUntilARun

--------------------------------------------------------------------------------

\* What the user clicks is a call of the controller; the rest of the window's steps
\* are a handler's end, a step of the worker, or nothing the controller sees.
LEMMA WindowStep == [WindowNext]_allVars => [Next]_vars
<1> SUFFICES ASSUME WindowNext PROVE Next \/ UNCHANGED vars
  BY DEF allVars
<1>1. ASSUME NEW what, Switch(what) PROVE Next
  BY <1>1 DEF Switch, Next, UiCalls
<1>2. ASSUME NEW what, Request(what) PROVE Next \/ UNCHANGED vars
  BY <1>1, <1>2 DEF Request
<1>3. ASSUME NEW d \in Dirs, ClickSave(d) PROVE Next
  BY <1>3 DEF ClickSave, Next, UiCalls
<1>4. CASE DialogSave      BY <1>4 DEF DialogSave, Next, UiCalls
<1>5. CASE DialogDiscard   BY <1>5 DEF DialogDiscard
<1>6. CASE DialogCancel    BY <1>6 DEF DialogCancel
<1>7. CASE DialogContinue  BY <1>1, <1>7 DEF DialogContinue
<1>8. CASE SaveEnds        BY <1>8 DEF SaveEnds, Next, UiCompletes
<1>9. CASE StartWorker     BY <1>9 DEF StartWorker, Next, UiCompletes
<1>10. CASE HandlerEnds    BY <1>10 DEF HandlerEnds, Next, UiCompletes
<1>11. ASSUME NEW c \in Contents, CommitEdit(c) PROVE Next
  BY <1>11 DEF CommitEdit, Next, UiCalls
<1>12. CASE ClickRun       BY <1>12 DEF ClickRun, Next, UiCalls
<1>13. CASE ClickStop      BY <1>13 DEF ClickStop, Next, UiCalls
<1>14. CASE ClickReload    BY <1>14 DEF ClickReload, Next, UiCalls
<1>15. CASE CloseWindow    BY <1>15 DEF CloseWindow, Next, UiCalls
<1>16. CASE Deliver        BY <1>16 DEF Deliver
<1>17. CASE WorkerMoves    BY <1>17 DEF WorkerMoves, Next
<1>18. CASE Ended          BY <1>18 DEF Ended, Next
<1> QED
  BY <1>2, <1>3, <1>4, <1>5, <1>6, <1>7, <1>8, <1>9, <1>10, <1>11, <1>12, <1>13,
     <1>14, <1>15, <1>16, <1>17, <1>18
  DEF WindowNext

\* A step of the controller keeps its types.
LEMMA ControllerTypes == TypeInv /\ [Next]_vars => TypeInv'
  BY TypeUi, TypeWorker, TypeStutter DEF Next, Terminated

\* Reading the controller's properties again.
LEMMA ViewType ==
  ASSUME TypeInv PROVE View \in [canRun : BOOLEAN, canStop : BOOLEAN]
<1>1. running \in BOOLEAN
  BY DEF TypeInv, TypeOK
<1>2. CanRun \in BOOLEAN
  BY DEF CanRun
<1> QED
  BY <1>1, <1>2, Zenon DEF View

\* A refresh makes the view what the controller answers.
LEMMA Refreshed ==
  ASSUME TypeInv', Refresh
  PROVE  view' \in [canRun : BOOLEAN, canStop : BOOLEAN] /\ ViewInv'
<1>1. view' = View'
  BY DEF Refresh
<1>2. View' \in [canRun : BOOLEAN, canStop : BOOLEAN]
  <2>1. running' \in BOOLEAN /\ CanRun' \in BOOLEAN
    BY DEF TypeInv, TypeOK, CanRun
  <2> QED
    BY <2>1, Zenon DEF View
<1>3. View'.canStop = running'
  BY DEF View
<1> QED
  BY <1>1, <1>2, <1>3 DEF ViewInv

\* What a step of the worker does to the values the window shows.
LEMMA WorkerEffect ==
  ASSUME TypeInv, WorkerStep
  PROVE  /\ running' => running
         /\ worker \in {"entering", "leaving"} \/ state' = state
         /\ \/ worker' \in Busy
            \/ worker = "ran" /\ worker' = "notifying"
            \/ worker = "notifying" /\ UNCHANGED <<state, running>>
<1> USE DEF Busy, BeforeEntry, Solving, Exporting, InsideRun, sessionVars
<1>1. CASE WorkerReadsDirectory  BY <1>1 DEF WorkerReadsDirectory
<1>2. CASE WorkerChecks          BY <1>2 DEF WorkerChecks
<1>3. CASE WorkerClearsCancel    BY <1>3 DEF WorkerClearsCancel, ClearCancel
<1>4. CASE WorkerEnters          BY <1>4 DEF WorkerEnters, EnterRunning
<1>5. CASE WorkerReadsCase       BY <1>5 DEF WorkerReadsCase
<1>6. CASE WorkerChecksCancel    BY <1>6 DEF WorkerChecksCancel
<1>7. CASE WorkerIterates        BY <1>7 DEF WorkerIterates
<1>8. CASE WorkerBeginsExport    BY <1>8 DEF WorkerBeginsExport
<1>9. CASE WorkerEndsExport      BY <1>9 DEF WorkerEndsExport
<1>10. CASE WorkerStores         BY <1>10 DEF WorkerStores, StoreResult
<1>11. CASE WorkerLeaves         BY <1>11 DEF WorkerLeaves, LeaveRunning
<1>12. CASE WorkerClearsRunning  BY <1>12 DEF WorkerClearsRunning
<1>13. CASE WorkerPublishes      BY <1>13 DEF WorkerPublishes
<1> QED
  BY <1>1, <1>2, <1>3, <1>4, <1>5, <1>6, <1>7, <1>8, <1>9, <1>10, <1>11, <1>12,
     <1>13
  DEF WorkerStep

\* A step after which nothing the view is made of has changed.
Unseen == UNCHANGED <<state, running, view, pending>> /\ (worker \in Busy => worker' \in Busy)

\* Such a step keeps what is known of the view.
LEMMA UnseenKeeps == ASSUME ViewInv, Unseen PROVE ViewInv'
<1>1. View' = View
  BY DEF Unseen, View, CanRun
<1> QED
  BY <1>1 DEF Unseen, ViewInv

\* An opened or created case is not an edit, and one that cannot be opened changes nothing.
LEMMA SwitchEffect ==
  ASSUME NEW what, Switch(what)
  PROVE  edited' = "no" \/ (edited' = edited /\ state' = state)
<1>1. CASE what = "new" /\ UiNewCase /\ edited' = "no"
  BY <1>1
<1>2. ASSUME what \in Dirs, UiOpenCase(what),
             edited' = IF ui' = "loading" THEN "no" ELSE edited
      PROVE  edited' = "no" \/ (edited' = edited /\ state' = state)
  BY <1>2 DEF UiOpenCase, OpenFails, sessionVars
<1> QED
  BY <1>1, <1>2 DEF Switch

--------------------------------------------------------------------------------

\* Every step keeps WindowInv.
LEMMA WindowInvStep == ASSUME WindowInv, [WindowNext]_allVars PROVE WindowInv'
<1> USE DEF WindowValues, EditIsFlaggedUntilARun
<1>1. TypeInv /\ WindowValues /\ ViewInv /\ EditIsFlaggedUntilARun
  BY DEF WindowInv
<1>2. TypeInv'
  BY <1>1, WindowStep, ControllerTypes
<1>3. SUFFICES WindowValues' /\ ViewInv' /\ EditIsFlaggedUntilARun'
  BY <1>2 DEF WindowInv
<1>4. ASSUME Refresh, pending' = pending, dialog' \in {"closed", "asking", "saving", "continuing"},
             wanted' \in Dirs \cup {"new", None},
             edited' = "no" \/ (edited' = "yes" /\ state' = "Modified")
               \/ (edited' = edited /\ state' = state)
      PROVE  WindowValues' /\ ViewInv' /\ EditIsFlaggedUntilARun'
  <2>1. view' \in [canRun : BOOLEAN, canStop : BOOLEAN] /\ ViewInv'
    BY <1>2, <1>4, Refreshed
  <2>2. pending' \in BOOLEAN
    BY <1>1, <1>4
  <2>3. edited' \in {"no", "yes", "ran"} /\ EditIsFlaggedUntilARun'
    BY <1>1, <1>4
  <2> QED
    BY <1>4, <2>1, <2>2, <2>3
<1>5. ASSUME Unseen, dialog' \in {"closed", "asking", "saving", "continuing"},
             wanted' \in Dirs \cup {"new", None}, edited' = edited
      PROVE  WindowValues' /\ ViewInv' /\ EditIsFlaggedUntilARun'
  BY <1>1, <1>5, UnseenKeeps DEF Unseen
<1>6. ASSUME NEW what \in Dirs \cup {"new"}, Request(what)
      PROVE  WindowValues' /\ ViewInv' /\ EditIsFlaggedUntilARun'
  <2>1. CASE /\ state = "Modified" /\ dialog' = "asking" /\ wanted' = what
             /\ UNCHANGED <<vars, view, edited>> /\ UNCHANGED pending
    <3>1. Unseen
      BY <2>1 DEF Unseen, vars, sessionVars, controllerVars
    <3> QED
      BY <1>5, <1>6, <2>1, <3>1
  <2>2. CASE Switch(what) /\ Refresh /\ UNCHANGED <<dialog, wanted>> /\ UNCHANGED pending
    BY <1>1, <1>4, <2>2, SwitchEffect
  <2> QED
    BY <1>6, <2>1, <2>2 DEF Request
<1>7. ASSUME NEW d \in Dirs, ClickSave(d)
      PROVE  WindowValues' /\ ViewInv' /\ EditIsFlaggedUntilARun'
  <2>1. Unseen /\ UNCHANGED <<dialog, wanted, edited>>
    BY <1>7 DEF ClickSave, UiSaveAs, SaveAsBegins, Unseen, windowVars
  <2> QED
    BY <1>1, <1>5, <2>1
<1>8. CASE DialogSave
  <2>1. Unseen /\ dialog' \in {"closed", "saving"} /\ UNCHANGED <<wanted, edited>>
    BY <1>8
    DEF DialogSave, UiSave, UiSaveAs, SaveAsBegins, Unseen, vars, sessionVars, controllerVars
  <2> QED
    BY <1>1, <1>5, <2>1
<1>9. CASE DialogDiscard
  <2>1. Unseen /\ dialog' = "continuing" /\ UNCHANGED <<wanted, edited>>
    BY <1>9 DEF DialogDiscard, Unseen, vars, sessionVars, controllerVars
  <2> QED
    BY <1>1, <1>5, <2>1
<1>10. CASE DialogCancel
  <2>1. Unseen /\ dialog' = "closed" /\ UNCHANGED <<wanted, edited>>
    BY <1>10 DEF DialogCancel, Unseen, vars, sessionVars, controllerVars
  <2> QED
    BY <1>1, <1>5, <2>1
<1>11. CASE DialogContinue
  BY <1>1, <1>4, <1>11, SwitchEffect DEF DialogContinue
<1>12. CASE SaveEnds
  <2>1. /\ Refresh /\ UNCHANGED <<pending, wanted>> /\ state' = state
        /\ dialog' \in {"closed", "continuing", dialog} /\ edited' \in {"no", edited}
    BY <1>12 DEF SaveEnds, UiSaveAsEnds, SaveAsSucceeds, SaveAsFails, sessionVars
  <2> QED
    BY <1>1, <1>4, <2>1
<1>13. CASE StartWorker
  <2>1. Refresh /\ UNCHANGED <<pending, dialog, wanted, edited, state>>
    BY <1>13 DEF StartWorker, UiStartWorker, sessionVars
  <2> QED
    BY <1>1, <1>4, <2>1
<1>14. CASE HandlerEnds
  <2>1. Unseen /\ UNCHANGED <<dialog, wanted, edited>>
    BY <1>14
    DEF HandlerEnds, UiClearSnapshot, UiOpenLoads, UiClosed, Join, Unseen, windowVars,
        sessionVars, Busy, BeforeEntry, Solving, Exporting, InsideRun
  <2> QED
    BY <1>1, <1>5, <2>1
<1>15. ASSUME NEW c \in Contents, CommitEdit(c)
       PROVE  WindowValues' /\ ViewInv' /\ EditIsFlaggedUntilARun'
  <2>1. Refresh /\ UNCHANGED <<pending, dialog, wanted>> /\ edited' = "yes" /\ state' = "Modified"
    BY <1>15 DEF CommitEdit, UiEdit, SetCaseDefinition
  <2> QED
    BY <1>1, <1>4, <2>1
<1>16. CASE ClickRun \/ ClickStop \/ ClickReload \/ CloseWindow
  <2>1. Unseen /\ UNCHANGED <<dialog, wanted, edited>>
    BY <1>16
    DEF ClickRun, ClickStop, ClickReload, CloseWindow, UiRun, UiStop, UiReloadResults,
        UiClose, RequestCancel, Unseen, windowVars, sessionVars
  <2> QED
    BY <1>1, <1>5, <2>1
<1>17. CASE Deliver
  <2>1. /\ Refresh /\ pending' = FALSE /\ UNCHANGED <<dialog, wanted, edited, state>>
    BY <1>17 DEF Deliver, vars, sessionVars
  <2> QED
    BY <1>1, <1>2, <2>1, Refreshed
<1>18. CASE WorkerMoves
  <2>1. /\ UNCHANGED <<view, dialog, wanted>>
        /\ pending' = (pending \/ (worker = "ran" /\ worker' = "notifying"))
        /\ edited' = IF edited = "yes" /\ worker \in {"entering", "leaving"}
                     THEN "ran" ELSE edited
    BY <1>18 DEF WorkerMoves
  <2>2. /\ running' => running
        /\ worker \in {"entering", "leaving"} \/ state' = state
        /\ \/ worker' \in Busy
           \/ worker = "ran" /\ worker' = "notifying"
           \/ worker = "notifying" /\ UNCHANGED <<state, running>>
    BY <1>1, <1>18, WorkerEffect DEF WorkerMoves
  <2>3. pending' \in BOOLEAN
    BY <2>1
  <2>4. edited' \in {"no", "yes", "ran"} /\ EditIsFlaggedUntilARun'
    BY <1>1, <2>1, <2>2
  <2>5. running' => view'.canStop
    BY <1>1, <2>1, <2>2 DEF ViewInv
  <2>6. worker' \in Busy \/ pending' \/ view' = View'
    <3>1. CASE worker = "notifying" /\ UNCHANGED <<state, running>>
      <4>1. View' = View /\ worker \notin Busy
        BY <3>1 DEF View, CanRun, Busy, BeforeEntry, Solving, Exporting, InsideRun
      <4> QED
        BY <1>1, <2>1, <4>1, Zenon DEF ViewInv
    <3> QED
      BY <2>1, <2>2, <3>1, Zenon
  <2> QED
    BY <1>1, <2>1, <2>3, <2>4, <2>5, <2>6 DEF ViewInv
<1>19. CASE Ended \/ UNCHANGED allVars
  <2>1. Unseen /\ UNCHANGED <<dialog, wanted, edited>>
    BY <1>19
    DEF Ended, Terminated, Unseen, allVars, windowVars, vars, sessionVars, controllerVars
  <2> QED
    BY <1>1, <1>5, <2>1
<1> QED
  BY <1>6, <1>7, <1>8, <1>9, <1>10, <1>11, <1>12, <1>13, <1>14, <1>15, <1>16, <1>17,
     <1>18, <1>19
  DEF WindowNext

\* The window opens with an invariant view.
LEMMA WindowInvInit == WindowInit => WindowInv
<1> SUFFICES ASSUME WindowInit PROVE WindowInv
  OBVIOUS
<1>1. TypeInv
  BY TypeInit DEF WindowInit
<1>2. View \in [canRun : BOOLEAN, canStop : BOOLEAN]
  BY <1>1, ViewType
<1>3. WindowValues
  BY <1>2 DEF WindowInit, WindowValues
<1>4. ViewInv /\ EditIsFlaggedUntilARun
  BY DEF WindowInit, Init, ViewInv, EditIsFlaggedUntilARun
<1> QED
  BY <1>1, <1>3, <1>4 DEF WindowInv

--------------------------------------------------------------------------------

\* Whatever the user can click, the controller behind the window behaves as
\* SimulationController says: the window calls it in no new way.
THEOREM WindowDrivesController == WindowSpec => Init /\ [][Next]_vars
<1>1. WindowInit => Init
  BY DEF WindowInit
<1> QED
  BY <1>1, WindowStep, PTL DEF WindowSpec

\* For any directories, definitions and iteration limit, the invariant holds in every
\* state of every behaviour of the window.
THEOREM WindowInvariant == WindowSpec => []WindowInv
  BY WindowInvInit, WindowInvStep, PTL DEF WindowSpec

\* The type invariant of the window.
THEOREM WindowTypes == WindowSpec => []WindowTypeOK
<1>1. WindowInv => WindowTypeOK
  BY DEF WindowInv, WindowValues, TypeInv, WindowTypeOK
<1> QED
  BY <1>1, WindowInvariant, PTL

\* Stop is enabled from the start of a run until running_ is cleared (Main.qml's
\* toolbar against SimulationController::run).
THEOREM StopStaysOffered == WindowSpec => []StopIsOffered
<1>1. WindowInv => StopIsOffered
  BY DEF WindowInv, ViewInv, StopIsOffered
<1> QED
  BY <1>1, WindowInvariant, PTL

\* After a run and the delivery of its signal no button is left in its old state
\* (the order of the two statements at SimulationController.cpp:235-236).
THEOREM ButtonsSettle == WindowSpec => []ViewSettles
<1>1. WindowInv => ViewSettles
  BY DEF WindowInv, ViewInv, ViewSettles, WorkerActive, Busy, BeforeEntry, Solving,
         Exporting, InsideRun
<1> QED
  BY <1>1, WindowInvariant, PTL

\* An unsaved edit keeps its flag until a run begins or ends (CaseSession::run is the
\* only place that overwrites Modified).
THEOREM EditsAreFlagged == WindowSpec => []EditIsFlaggedUntilARun
<1>1. WindowInv => EditIsFlaggedUntilARun
  BY DEF WindowInv
<1> QED
  BY <1>1, WindowInvariant, PTL
================================================================================
