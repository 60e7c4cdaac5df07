------------------------------ MODULE MainWindow -------------------------------
(***************************************************************************)
(* The QML front end (src/apps/gui/qml/Main.qml and CasePage.qml) over     *)
(* SimulationController: which buttons the user can press, the dialog that *)
(* guards unsaved edits, and the bindings that are evaluated again only    *)
(* when the controller's stateChanged signal reaches the UI thread.        *)
(*                                                                         *)
(* A signal emitted on the UI thread is delivered at once; one emitted by  *)
(* the worker is queued until the UI thread is back in its event loop.     *)
(***************************************************************************)
EXTENDS SimulationController

VARIABLES
  view,      \* the values QML last read: canRun (canSave is the same), canStop
  pending,   \* a stateChanged of the worker is queued for the UI thread
  dialog,    \* the unsaved-changes dialog
  wanted,    \* what the user asked for when it opened: "new", or a directory
  edited     \* history: "yes" after an edit that has not been saved, "ran" when a
             \* run has begun or ended since that edit, else "no"

windowVars == <<view, pending, dialog, wanted, edited>>
allVars == <<vars, windowVars>>

WindowTypeOK ==
  /\ TypeOK
  /\ view \in [canRun : BOOLEAN, canStop : BOOLEAN]
  /\ pending \in BOOLEAN
  /\ dialog \in {"closed", "asking", "saving", "continuing"}
  /\ wanted \in Dirs \cup {"new", None}
  /\ edited \in {"no", "yes", "ran"}

\* What the properties of the controller return when a binding reads them.
View == [canRun |-> CanRun, canStop |-> running]

Refresh == view' = View'

WindowInit ==
  /\ Init
  /\ view = View
  /\ pending = FALSE
  /\ dialog = "closed"
  /\ wanted = None
  /\ edited = "no"

\* No modal dialog is open and no handler is running.
AtRest == ui = "idle" /\ dialog = "closed"

--------------------------------------------------------------------------------

\* newCase() or openCase(d), as the user asked.
Switch(what) ==
  \/ what = "new" /\ UiNewCase /\ edited' = "no"
  \/ /\ what \in Dirs
     /\ UiOpenCase(what)
     /\ edited' = IF ui' = "loading" THEN "no" ELSE edited

\* requestNewCase() and requestOpenCase().
Request(what) ==
  /\ AtRest
  /\ \/ /\ state = "Modified"
        /\ dialog' = "asking"
        /\ wanted' = what
        /\ UNCHANGED <<vars, view, edited>>
     \/ /\ state # "Modified"
        /\ Switch(what)
        /\ Refresh
        /\ UNCHANGED <<dialog, wanted>>
  /\ UNCHANGED pending

DialogSave ==
  /\ dialog = "asking"
  /\ \/ UiSave /\ dialog' = "saving"
     \/ directory = None /\ dialog' = "closed" /\ UNCHANGED vars
  /\ UNCHANGED <<view, pending, wanted, edited>>

DialogDiscard ==
  /\ dialog = "asking"
  /\ dialog' = "continuing"
  /\ UNCHANGED <<vars, view, pending, wanted, edited>>

DialogCancel ==
  /\ dialog = "asking"
  /\ dialog' = "closed"
  /\ UNCHANGED <<vars, view, pending, wanted, edited>>

\* continuePendingAction().
DialogContinue ==
  /\ dialog = "continuing"
  /\ Switch(wanted)
  /\ Refresh
  /\ dialog' = "closed"
  /\ wanted' = None
  /\ UNCHANGED pending

\* The Save and Save As buttons.
ClickSave(d) ==
  /\ AtRest
  /\ view.canRun
  /\ UiSaveAs(d)
  /\ UNCHANGED windowVars

SaveEnds ==
  /\ UiSaveAsEnds
  /\ Refresh
  /\ IF disk'[uiDir] = Torn
     THEN dialog' = "closed" /\ UNCHANGED edited
     ELSE /\ dialog' = IF dialog = "saving" THEN "continuing" ELSE dialog
          /\ edited' = "no"
  /\ UNCHANGED <<pending, wanted>>

\* The editor pages commit whenever a case is loaded, a run in progress or not.
CommitEdit(c) ==
  /\ AtRest
  /\ UiEdit(c)
  /\ Refresh
  /\ edited' = "yes"
  /\ UNCHANGED <<pending, dialog, wanted>>

ClickRun ==
  /\ AtRest
  /\ view.canRun
  /\ UiRun
  /\ UNCHANGED windowVars

\* Mutated form: no stateChanged once running_ is set.
StartsSilently ==
  /\ UiStartWorker
  /\ UNCHANGED windowVars

StartWorker ==
  /\ UiStartWorker
  /\ Refresh
  /\ UNCHANGED <<pending, dialog, wanted, edited>>

ClickStop ==
  /\ AtRest
  /\ view.canStop
  /\ UiStop
  /\ UNCHANGED windowVars

\* The button's panel is enabled by hasResults as last read; what it shows may lag
\* behind the snapshot, so it is no guard here.
ClickReload ==
  /\ AtRest
  /\ UiReloadResults
  /\ UNCHANGED windowVars

\* The window is closed, whatever the state of the case.
CloseWindow ==
  /\ AtRest
  /\ UiClose
  /\ UNCHANGED windowVars

HandlerEnds ==
  /\ UiClearSnapshot \/ UiOpenLoads \/ UiClosed
  /\ UNCHANGED windowVars

\* The UI thread's event loop delivers the worker's signal.
Deliver ==
  /\ ui = "idle"
  /\ pending
  /\ pending' = FALSE
  /\ UNCHANGED <<vars, dialog, wanted, edited>>
  /\ Refresh

\* Mutated form: the signal is sent before running_ is cleared.
SignalsEarly ==
  /\ WorkerStep
  /\ pending' = (pending \/ (worker' = "ran" /\ worker # "ran"))
  /\ edited' = IF edited = "yes" /\ worker \in {"entering", "leaving"} THEN "ran"
               ELSE edited
  /\ UNCHANGED <<view, dialog, wanted>>

\* The worker emits stateChanged once, after it has cleared running_.
WorkerMoves ==
  /\ WorkerStep
  /\ pending' = (pending \/ (worker = "ran" /\ worker' = "notifying"))
  /\ edited' = IF edited = "yes" /\ worker \in {"entering", "leaving"} THEN "ran"
               ELSE edited
  /\ UNCHANGED <<view, dialog, wanted>>

Ended == Terminated /\ UNCHANGED windowVars

WindowNext ==
  \/ Request("new")
  \/ \E d \in Dirs : Request(d) \/ ClickSave(d)
  \/ DialogSave \/ DialogDiscard \/ DialogCancel \/ DialogContinue
  \/ SaveEnds \/ StartWorker \/ HandlerEnds
  \/ \E c \in Contents : CommitEdit(c)
  \/ ClickRun \/ ClickStop \/ ClickReload \/ CloseWindow
  \/ Deliver
  \/ WorkerMoves
  \/ Ended

WindowSpec == WindowInit /\ [][WindowNext]_allVars

--------------------------------------------------------------------------------
(* Safety.                                                                 *)

\* From the click on Run until the worker has cleared running_, the Stop button is
\* enabled (the comment at SimulationController.cpp:127).
StopIsOffered == running /\ ui = "idle" => view.canStop

\* Once a run is over and its signal has been delivered, what the buttons were
\* last told is what the controller would answer: no button stays enabled or
\* disabled for ever because it was told in between two stores of the worker.
ViewSettles == ~WorkerActive /\ ~pending /\ ui = "idle" => view = View

\* An unsaved edit is flagged (isModified) until a run begins or ends: nothing
\* else in the window makes the dirty-state guard forget it.
EditIsFlaggedUntilARun == edited = "yes" => state = "Modified"

(* What a comment of the front end promises and the code does not keep.     *)

\* Main.qml: "New Case / Open Case never silently discard an unsaved edit".
NoSilentDiscard ==
  [][edited # "no" /\ edited' = "no" => ui = "saving" \/ dialog = "continuing"]_allVars

================================================================================
