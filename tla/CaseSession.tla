------------------------------ MODULE CaseSession ------------------------------
(***************************************************************************)
(* The case manager behind the GUI: src/src/app/CaseSession.cpp.  This     *)
(* module holds the session's state and one action per locked or atomic    *)
(* step of its member functions; SimulationController gives each step the  *)
(* thread that takes it.                                                   *)
(*                                                                         *)
(* A case definition is a member of Contents; Buildable holds those that   *)
(* CaseBuilder accepts.  disk is the case stored in each directory: None   *)
(* where CaseReader finds no case, Torn where CaseWriter was interrupted   *)
(* between two of the case's six JSON files.                               *)
(***************************************************************************)
EXTENDS Naturals

CONSTANTS
  Dirs,       \* case directories
  Contents,   \* case definitions
  Buildable,  \* the definitions CaseBuilder::build accepts
  Untitled,   \* the definition newCase() starts from
  None,       \* an empty std::optional
  Torn        \* a case directory with some of the files of a save

ASSUME SessionAssumption ==
  /\ Buildable \subseteq Contents
  /\ Untitled \in Contents
  /\ None \notin Contents \cup Dirs \cup {Torn}
  /\ Torn \notin Contents

VARIABLES
  state,            \* state_, the CaseState
  cancelRequested,  \* cancelRequested_
  directory,        \* directory_
  caseDefinition,   \* caseDefinition_
  lastRun,          \* lastRun_: the status of the result, or None
  disk              \* the case files in each directory

sessionVars ==
  <<state, cancelRequested, directory, caseDefinition, lastRun, disk>>

CaseStates == {"Empty", "Loaded", "Modified", "Validated", "Running",
               "Completed", "Failed", "Cancelled"}

Statuses == {"Converged", "DidNotConverge", "NumericalFailure",
             "InvalidCase", "ApplicationError", "Cancelled"}

SessionTypeOK ==
  /\ state \in CaseStates
  /\ cancelRequested \in BOOLEAN
  /\ directory \in Dirs \cup {None}
  /\ caseDefinition \in Contents \cup {None}
  /\ lastRun \in Statuses \cup {None}
  /\ disk \in [Dirs -> Contents \cup {None, Torn}]

SessionInit ==
  /\ state = "Empty"
  /\ cancelRequested = FALSE
  /\ directory = None
  /\ caseDefinition = None
  /\ lastRun = None
  /\ disk \in [Dirs -> Contents \cup {None}]

CanRun == state \notin {"Empty", "Running"}

\* What CaseReader::read can make of a directory; None stands for an error. The
\* files of an interrupted save may parse as a case nobody wrote.
CaseRead(d) == IF disk[d] = Torn THEN Contents \cup {None} ELSE {disk[d]}

--------------------------------------------------------------------------------
(* Steps taken on the UI thread.                                           *)

NewCase ==
  /\ caseDefinition' = Untitled
  /\ directory' = None
  /\ lastRun' = None
  /\ state' = "Loaded"
  /\ UNCHANGED <<cancelRequested, disk>>

OpenReads(d, c) ==
  /\ c \in CaseRead(d) \ {None}
  /\ caseDefinition' = c
  /\ directory' = d
  /\ lastRun' = None
  /\ state' = "Loaded"
  /\ UNCHANGED <<cancelRequested, disk>>

OpenFails(d) ==
  /\ None \in CaseRead(d)
  /\ UNCHANGED sessionVars

\* CaseWriter::write has opened the first file of the directory.
SaveAsBegins(d) ==
  /\ caseDefinition # None
  /\ disk' = [disk EXCEPT ![d] = Torn]
  /\ UNCHANGED <<state, cancelRequested, directory, caseDefinition, lastRun>>

SaveAsSucceeds(d) ==
  /\ disk' = [disk EXCEPT ![d] = caseDefinition]
  /\ directory' = d
  /\ UNCHANGED <<state, cancelRequested, caseDefinition, lastRun>>

\* An IOError before any file was opened, or between two files: in either case
\* only lastError_ changes in the session.
SaveAsFails(d) == UNCHANGED sessionVars

\* Mutated form: a definition is replaced without marking the case Modified.
EditsUnmarked(c) ==
  /\ caseDefinition # None \/ state # "Empty"
  /\ caseDefinition' = c
  /\ UNCHANGED <<state, cancelRequested, directory, lastRun, disk>>

SetCaseDefinition(c) ==
  /\ caseDefinition # None \/ state # "Empty"
  /\ caseDefinition' = c
  /\ state' = "Modified"
  /\ UNCHANGED <<cancelRequested, directory, lastRun, disk>>

Validate ==
  /\ caseDefinition # None
  /\ state' = IF caseDefinition \in Buildable THEN "Validated" ELSE state
  /\ UNCHANGED <<cancelRequested, directory, caseDefinition, lastRun, disk>>

RequestCancel ==
  /\ cancelRequested' = TRUE
  /\ UNCHANGED <<state, directory, caseDefinition, lastRun, disk>>

--------------------------------------------------------------------------------
(* Steps of run(), taken on the worker thread.                             *)

\* Mutated form: the request for an earlier run is still there.
KeepsCancel == UNCHANGED sessionVars

ClearCancel ==
  /\ cancelRequested' = FALSE
  /\ UNCHANGED <<state, directory, caseDefinition, lastRun, disk>>

EnterRunning ==
  /\ state' = "Running"
  /\ UNCHANGED <<cancelRequested, directory, caseDefinition, lastRun, disk>>

\* Mutated form: only an empty result is filled.
StoresFirstResult(status) ==
  /\ lastRun' = IF lastRun = None THEN status ELSE lastRun
  /\ UNCHANGED <<state, cancelRequested, directory, caseDefinition, disk>>

StoreResult(status) ==
  /\ lastRun' = status
  /\ UNCHANGED <<state, cancelRequested, directory, caseDefinition, disk>>

\* Mutated form: the run's status is taken for the case's state.
StatusAsState(status) == status

\* The CaseState a finished run leaves behind.
NextState(status) ==
  CASE status \in {"Converged", "DidNotConverge"} -> "Completed"
    [] status = "Cancelled"                       -> "Cancelled"
    [] OTHER                                      -> "Failed"

LeaveRunning(status) ==
  /\ state' = NextState(status)
  /\ UNCHANGED <<cancelRequested, directory, caseDefinition, lastRun, disk>>

================================================================================
