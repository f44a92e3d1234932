------------------------------ MODULE AcRemote ------------------------------
(***************************************************************************)
(* The Android app: the state of AcRemoteViewModel, its learning timeout,  *)
(* what ControlStateRepository keeps of it, and the user.                  *)
(*                                                                         *)
(* The user taps what was last drawn, which may be behind the state: a     *)
(* second tap can come before the next composition.  The timeout is a      *)
(* coroutine that cancel() stops as long as it has not run.  Each update   *)
(* saves the whole state with apply(), which reaches the disk later; the   *)
(* process may die before, and the app then starts from what is there.     *)
(*                                                                         *)
(* Abstracted: names, which are shown and nothing else; the texts and the  *)
(* layout of the screens; the JSON, of which a missing field matters.      *)
(***************************************************************************)
EXTENDS Integers, FiniteSets, Sequences, SequencesExt

CONSTANTS Commands,             \* IrCommand
          NoCommand,            \* null
          Brands, Blank,        \* what can be typed, and the empty field
          MIN_TEMPERATURE, MAX_TEMPERATURE, DEFAULT_TEMPERATURE,
          Legacy,               \* saved states of older versions that may be found
          MaxId,                \* bound on the controls registered
          MaxUnsaved,           \* bound on the updates not yet on disk when the user goes on
          MaxStale              \* bound on how often one tap arrives before the next composition

ASSUME CommandsAssumption == NoCommand \notin Commands /\ Blank \notin Brands
ASSUME TemperatureAssumption ==
  /\ MIN_TEMPERATURE \in Nat /\ MAX_TEMPERATURE \in Nat
  /\ DEFAULT_TEMPERATURE \in MIN_TEMPERATURE .. MAX_TEMPERATURE
ASSUME BoundsAssumption == MaxId \in Nat /\ MaxUnsaved \in Nat /\ MaxStale \in Nat

\* What an older version saved: controls without a temperature and a power of their own,
\* each with an id of its own and all its commands; the rest may be anything.
ASSUME LegacyAssumption ==
  \A s \in Legacy :
    /\ DOMAIN s = {"controls", "activeControlId", "nextControlId", "temperature", "isOn"}
    /\ s.controls \in Seq([id : 1 .. MaxId, brand : Brands \cup {Blank}, irCommands : {Commands}])
    /\ \A i, j \in DOMAIN s.controls : s.controls[i].id = s.controls[j].id => i = j
    /\ s.activeControlId \in Int /\ s.temperature \in Int /\ s.isOn \in BOOLEAN
    /\ s.nextControlId \in Int /\ s.nextControlId <= MaxId + 1

VARIABLES
  ui,                   \* AcRemoteUiState
  jobs,                 \* the timeouts that may still run
  learningTimeoutJob,   \* the last one started, or NoJob when it has run or is cancelled
  disk,                 \* the saved state on disk, or NoState
  unsaved,              \* how many updates it is behind
  drawer,               \* the drawer is open
  pendingDelete,        \* the control the delete dialog asks about, or NoId
  offered,              \* the taps that what is drawn offers
  stale                 \* how many taps came since it was drawn

vars == <<ui, jobs, learningTimeoutJob, disk, unsaved, drawer, pendingDelete, offered, stale>>

NoId == 0
NoJob == [command |-> NoCommand, attempt |-> 0]
Jobs == [command : Commands, attempt : {0, 1}]
NoState == [controls |-> <<>>, none |-> TRUE]

-----------------------------------------------------------------------------
(* RegisteredControl and AcRemoteUiState.                                  *)

Controls == [id : 1 .. MaxId, brand : Brands \cup {Blank}, irCommands : SUBSET Commands,
             temperature : MIN_TEMPERATURE .. MAX_TEMPERATURE, isOn : BOOLEAN]

UiStates ==
  [brand : Brands \cup {Blank}, temperature : MIN_TEMPERATURE .. MAX_TEMPERATURE, isOn : BOOLEAN,
   screen : {"Remote", "AddDevice"}, deviceBrand : Brands \cup {Blank},
   editingControlId : 0 .. MaxId, learningCommand : Commands \cup {NoCommand},
   learningTimedOutCommand : Commands \cup {NoCommand}, learnedCommands : SUBSET Commands,
   controls : Seq(Controls), activeControlId : 0 .. MaxId, nextControlId : 1 .. MaxId + 1]

-----------------------------------------------------------------------------
(* ControlStateRepository.                                                 *)

DefaultState ==
  [brand |-> Blank, temperature |-> DEFAULT_TEMPERATURE, isOn |-> FALSE, screen |-> "Remote",
   deviceBrand |-> Blank, editingControlId |-> NoId, learningCommand |-> NoCommand,
   learningTimedOutCommand |-> NoCommand, learnedCommands |-> {}, controls |-> <<>>,
   activeControlId |-> NoId, nextControlId |-> 1]

CoercedSlip(t) == t
Coerced(t) == CASE t < MIN_TEMPERATURE -> MIN_TEMPERATURE
                [] t > MAX_TEMPERATURE -> MAX_TEMPERATURE
                [] OTHER -> t

Ids(controls) == {controls[i].id : i \in DOMAIN controls}
ControlOf(controls, id) == controls[Min({i \in DOMAIN controls : controls[i].id = id})]
NextFreeId(controls) == IF controls = <<>> THEN 1 ELSE Max(Ids(controls)) + 1

SavedSlip(s) == [controls |-> s.controls, activeControlId |-> s.activeControlId,
                 nextControlId |-> NextFreeId(s.controls),
                 temperature |-> s.temperature, isOn |-> s.isOn]
Saved(s) == [controls |-> s.controls, activeControlId |-> s.activeControlId,
             nextControlId |-> s.nextControlId,
             temperature |-> s.temperature, isOn |-> s.isOn]

\* A control of an older version has no temperature and no isOn of its own: the active one
\* takes those of the state.
Restored(item, saved) ==
  IF "temperature" \in DOMAIN item
    THEN [item EXCEPT !.temperature = Coerced(@)]
    ELSE LET active == item.id = saved.activeControlId
         IN [id |-> item.id, brand |-> item.brand, irCommands |-> item.irCommands,
             temperature |-> Coerced(IF active THEN saved.temperature
                                               ELSE DEFAULT_TEMPERATURE),
             isOn |-> active => saved.isOn]

Load(saved) ==
  IF saved = NoState THEN DefaultState ELSE
  LET controls == [i \in DOMAIN saved.controls |-> Restored(saved.controls[i], saved)]
      first    == IF controls = <<>> THEN NoId ELSE controls[1].id
      active   == IF saved.activeControlId \in Ids(controls) THEN saved.activeControlId
                                                             ELSE first
      state    == [DefaultState EXCEPT
                     !.controls = controls,
                     !.activeControlId = active,
                     !.nextControlId = Max({saved.nextControlId, NextFreeId(controls)})]
  IN IF active = NoId THEN state
     ELSE [state EXCEPT !.brand = ControlOf(controls, active).brand,
                        !.temperature = ControlOf(controls, active).temperature,
                        !.isOn = ControlOf(controls, active).isOn]

-----------------------------------------------------------------------------
(* What the screens offer.                                                 *)

Tap(op, arg) == [op |-> op, arg |-> arg]

RemoteTaps == {Tap("increase", 0), Tap("decrease", 0), Tap("power", 0)}

CardTap(s, c) == IF s.learningCommand = c THEN Tap("confirm", c) ELSE Tap("learn", c)

CanSaveSlip(s) == s.deviceBrand # Blank
CanSave(s) == s.deviceBrand # Blank /\ Commands \subseteq s.learnedCommands

FormTaps(s) ==
  {Tap("close", 0)}
  \cup {Tap("brand", b) : b \in Brands \cup {Blank}}
  \cup {CardTap(s, c) : c \in {d \in Commands : d \notin s.learnedCommands
                                                \/ s.editingControlId # NoId}}
  \cup {t \in {Tap("save", 0)} : CanSave(s)}

DrawerTaps(s) == {Tap(op, id) : op \in {"select", "edit", "askDelete"}, id \in Ids(s.controls)}
                 \cup {Tap("add", 0), Tap("closeDrawer", 0)}

Offered(s, open, asked) ==
  CASE asked \in Ids(s.controls) -> {Tap("delete", asked), Tap("dismiss", 0)}
    [] asked \notin Ids(s.controls) /\ open -> DrawerTaps(s)
    [] OTHER -> {Tap("openDrawer", 0)}
                \cup (CASE s.screen = "AddDevice" -> FormTaps(s)
                        [] s.controls = <<>>      -> {Tap("add", 0)}
                        [] OTHER                  -> RemoteTaps)

Init ==
  /\ disk \in Legacy \cup {NoState}
  /\ ui = Load(disk)
  /\ jobs = {} /\ learningTimeoutJob = NoJob
  /\ unsaved = 0
  /\ drawer = FALSE /\ pendingDelete = NoId
  /\ offered = Offered(ui, FALSE, NoId)
  /\ stale = 0

-----------------------------------------------------------------------------
(* The view model.  Every update saves.                                    *)

Tapped(op, arg) ==
  /\ Tap(op, arg) \in offered
  /\ stale < MaxStale
  /\ unsaved < MaxUnsaved
  /\ stale' = stale + 1
  /\ offered' = {Tap(op, arg)}

Update(s) ==
  /\ ui' = s
  /\ unsaved' = unsaved + 1
  /\ UNCHANGED disk

KeepView == UNCHANGED <<drawer, pendingDelete>>
KeepJob  == UNCHANGED <<jobs, learningTimeoutJob>>

NotCancelledSlip == jobs
NotCancelled == jobs \ {learningTimeoutJob}
CancelJob == /\ jobs' = NotCancelled
             /\ learningTimeoutJob' = NoJob

\* updateActiveControl
ChangeActive(s, changed) ==
  [i \in DOMAIN s.controls |->
     IF s.controls[i].id = s.activeControlId THEN changed[i] ELSE s.controls[i]]

SetTemperature(s, t) ==
  [s EXCEPT !.temperature = t,
            !.controls = ChangeActive(s, [i \in DOMAIN @ |-> [@[i] EXCEPT !.temperature = t]])]

SetPower(s, on) ==
  [s EXCEPT !.isOn = on,
            !.controls = ChangeActive(s, [i \in DOMAIN @ |-> [@[i] EXCEPT !.isOn = on]])]

Increase ==
  /\ Tapped("increase", 0)
  /\ Update(IF ui.isOn /\ ui.temperature < MAX_TEMPERATURE
              THEN SetTemperature(ui, ui.temperature + 1) ELSE ui)
  /\ KeepJob /\ KeepView

Decrease ==
  /\ Tapped("decrease", 0)
  /\ Update(IF ui.isOn /\ ui.temperature > MIN_TEMPERATURE
              THEN SetTemperature(ui, ui.temperature - 1) ELSE ui)
  /\ KeepJob /\ KeepView

TogglePower ==
  /\ Tapped("power", 0)
  /\ Update(SetPower(ui, ~ui.isOn))
  /\ KeepJob /\ KeepView

OpenAddDevice ==
  /\ Tapped("add", 0)
  /\ CancelJob
  /\ Update([ui EXCEPT !.screen = "AddDevice", !.deviceBrand = Blank,
                       !.editingControlId = NoId, !.learningCommand = NoCommand,
                       !.learningTimedOutCommand = NoCommand, !.learnedCommands = {}])
  /\ drawer' = FALSE
  /\ UNCHANGED pendingDelete

\* What leaving the form resets.
LeftSlip(s) == [s EXCEPT !.screen = "Remote", !.editingControlId = NoId,
                         !.learningTimedOutCommand = NoCommand]
Left(s) == [s EXCEPT !.screen = "Remote", !.editingControlId = NoId,
                     !.learningCommand = NoCommand, !.learningTimedOutCommand = NoCommand]

CloseAddDevice ==
  /\ Tapped("close", 0)
  /\ CancelJob
  /\ Update(Left(ui))
  /\ KeepView

UpdateDeviceBrand(b) ==
  /\ Tapped("brand", b)
  /\ Update([ui EXCEPT !.deviceBrand = b])
  /\ KeepJob /\ KeepView

\* The remote shows the control.
Selected(s, control) ==
  [s EXCEPT !.brand = control.brand, !.temperature = control.temperature,
            !.isOn = control.isOn, !.activeControlId = control.id]

SelectControl(id) ==
  /\ Tapped("select", id)
  /\ Update(IF id \in Ids(ui.controls) THEN Selected(ui, ControlOf(ui.controls, id)) ELSE ui)
  /\ drawer' = FALSE
  /\ KeepJob /\ UNCHANGED pendingDelete

EditControl(id) ==
  /\ Tapped("edit", id)
  /\ CancelJob
  /\ Update(IF id \in Ids(ui.controls)
              THEN [ui EXCEPT !.screen = "AddDevice",
                              !.deviceBrand = ControlOf(ui.controls, id).brand,
                              !.editingControlId = id,
                              !.learnedCommands = ControlOf(ui.controls, id).irCommands,
                              !.learningCommand = NoCommand,
                              !.learningTimedOutCommand = NoCommand]
              ELSE ui)
  /\ drawer' = FALSE
  /\ UNCHANGED pendingDelete

\* What is left of the form when its control is deleted.
LeftIfSlip(s, id) == s
LeftIf(s, id) == IF s.editingControlId = id THEN Left(s) ELSE s

\* filterNot: the controls that have another id, in their order.
Others(controls, id) ==
  LET Kept == {i \in DOMAIN controls : controls[i].id # id}
  IN [n \in 1 .. Cardinality(Kept) |->
        controls[CHOOSE i \in Kept : Cardinality({j \in Kept : j <= i}) = n]]

\* What the remote shows when its control is deleted: the first one left, or nothing.
Without(s, id) ==
  LET rest == Others(s.controls, id)
      t    == [s EXCEPT !.controls = rest]
  IN CASE s.activeControlId # id -> t
       [] s.activeControlId = id /\ rest # <<>> -> Selected(t, rest[1])
       [] OTHER -> [t EXCEPT !.activeControlId = NoId, !.brand = Blank,
                             !.temperature = DEFAULT_TEMPERATURE, !.isOn = FALSE]

DeleteControl(id) ==
  /\ Tapped("delete", id)
  /\ IF id \in Ids(ui.controls)
       THEN Update(LeftIf(Without(ui, id), id))
       ELSE UNCHANGED <<ui, disk, unsaved>>
  /\ pendingDelete' = NoId
  /\ KeepJob /\ UNCHANGED drawer

\* The old timeout is cancelled and a new one launched.
StartLearning(c) ==
  LET job == [command |-> c, attempt |-> 1 - learningTimeoutJob.attempt] IN
  /\ Tapped("learn", c)
  /\ Update([ui EXCEPT !.learningCommand = c, !.learningTimedOutCommand = NoCommand])
  /\ jobs' = NotCancelled \cup {job}
  /\ learningTimeoutJob' = job
  /\ KeepView

\* Fifteen seconds have passed.
Timeout(job) ==
  /\ job \in jobs
  /\ jobs' = jobs \ {job}
  /\ Update(IF ui.learningCommand = job.command
              THEN [ui EXCEPT !.learningCommand = NoCommand,
                              !.learningTimedOutCommand = job.command]
              ELSE ui)
  /\ learningTimeoutJob' = IF learningTimeoutJob = job THEN NoJob ELSE learningTimeoutJob
  /\ UNCHANGED <<offered, stale>>
  /\ KeepView

ConfirmIrCommandLearned(c) ==
  /\ Tapped("confirm", c)
  /\ CancelJob
  /\ Update([ui EXCEPT !.learningCommand = NoCommand, !.learningTimedOutCommand = NoCommand,
                       !.learnedCommands = @ \cup {c}])
  /\ KeepView

\* The control that is edited, with what the form says.
EditedSlip(s) ==
  [Left(s) EXCEPT
     !.controls = [i \in DOMAIN @ |->
                     IF @[i].id = s.editingControlId
                       THEN [@[i] EXCEPT !.brand = s.deviceBrand,
                                         !.irCommands = s.learnedCommands]
                       ELSE @[i]]]
Edited(s) ==
  LET id == s.editingControlId IN
  [Left(s) EXCEPT
     !.brand = IF s.activeControlId = id THEN s.deviceBrand ELSE @,
     !.controls = [i \in DOMAIN @ |->
                     IF @[i].id = id
                       THEN [@[i] EXCEPT !.brand = s.deviceBrand,
                                         !.irCommands = s.learnedCommands]
                       ELSE @[i]]]

NewControl(s) == [id |-> s.nextControlId, brand |-> s.deviceBrand,
                  irCommands |-> s.learnedCommands,
                  temperature |-> DEFAULT_TEMPERATURE, isOn |-> TRUE]

RegisteredSlip(s) == [Selected(Left(s), NewControl(s)) EXCEPT
                        !.controls = Append(@, NewControl(s))]
Registered(s) == [Selected(Left(s), NewControl(s)) EXCEPT
                    !.controls = Append(@, NewControl(s)),
                    !.nextControlId = @ + 1]

SaveDevice ==
  /\ Tapped("save", 0)
  /\ CancelJob
  /\ IF ui.editingControlId \in Ids(ui.controls)
       THEN Update(Edited(ui))
       ELSE ui.nextControlId <= MaxId /\ Update(Registered(ui))
  /\ KeepView

-----------------------------------------------------------------------------
(* The drawer, the dialog and the composition (MainActivity).              *)

MoveDrawer ==
  /\ \/ Tapped("openDrawer", 0) /\ drawer' = TRUE
     \/ Tapped("closeDrawer", 0) /\ drawer' = FALSE
  /\ UNCHANGED <<ui, disk, unsaved, pendingDelete>> /\ KeepJob

AskDelete(id) ==
  /\ Tapped("askDelete", id)
  /\ pendingDelete' = id
  /\ UNCHANGED <<ui, disk, unsaved, drawer>> /\ KeepJob

Dismiss ==
  /\ Tapped("dismiss", 0)
  /\ pendingDelete' = NoId
  /\ UNCHANGED <<ui, disk, unsaved, drawer>> /\ KeepJob

Recompose ==
  /\ offered' = Offered(ui, drawer, pendingDelete)
  /\ stale' = 0
  /\ UNCHANGED <<ui, jobs, learningTimeoutJob, disk, unsaved, drawer, pendingDelete>>

-----------------------------------------------------------------------------
(* The disk and the process.                                               *)

\* What apply() has queued is written.
Flush ==
  /\ unsaved > 0
  /\ disk' = Saved(ui)
  /\ unsaved' = 0
  /\ UNCHANGED <<ui, jobs, learningTimeoutJob, drawer, pendingDelete, offered, stale>>

\* The process dies, and with it what was not written; the app starts again.
Die ==
  /\ ui' = Load(disk)
  /\ jobs' = {} /\ learningTimeoutJob' = NoJob
  /\ unsaved' = 0
  /\ drawer' = FALSE /\ pendingDelete' = NoId
  /\ offered' = Offered(ui', FALSE, NoId)
  /\ stale' = 0
  /\ UNCHANGED disk

-----------------------------------------------------------------------------
AllIds == 1 .. MaxId

User ==
  \/ Increase \/ Decrease \/ TogglePower
  \/ OpenAddDevice \/ CloseAddDevice \/ SaveDevice
  \/ \E b \in Brands \cup {Blank} : UpdateDeviceBrand(b)
  \/ \E c \in Commands : StartLearning(c) \/ ConfirmIrCommandLearned(c)
  \/ \E id \in AllIds : SelectControl(id) \/ EditControl(id) \/ DeleteControl(id) \/ AskDelete(id)
  \/ MoveDrawer \/ Dismiss

Next == User \/ (\E job \in Jobs : Timeout(job)) \/ Recompose \/ Flush \/ Die

\* A timeout that nobody cancels runs, and what is queued is written.
Fairness == /\ \A job \in Jobs : WF_vars(Timeout(job))
            /\ WF_vars(Flush)

Spec == Init /\ [][Next]_vars /\ Fairness
-----------------------------------------------------------------------------
(* Properties.                                                             *)

TypeOK ==
  /\ ui \in UiStates
  /\ pendingDelete \in 0 .. MaxId
  /\ jobs \subseteq Jobs
  /\ learningTimeoutJob \in Jobs \cup {NoJob}
  /\ unsaved \in 0 .. MaxUnsaved + 1 /\ stale \in 0 .. MaxStale
  /\ drawer \in BOOLEAN

\* The brand, temperature and power the remote shows are those of the active control, which
\* is one of the list, or the defaults when the list is empty: whatever is selected, edited,
\* deleted and saved, after a restart, and with the states of older versions.
RemoteShowsActive ==
  IF ui.controls = <<>>
    THEN /\ ui.activeControlId = NoId
         /\ ui.brand = Blank /\ ui.temperature = DEFAULT_TEMPERATURE /\ ~ui.isOn
    ELSE /\ ui.activeControlId \in Ids(ui.controls)
         /\ LET c == ControlOf(ui.controls, ui.activeControlId)
            IN <<ui.brand, ui.temperature, ui.isOn>> = <<c.brand, c.temperature, c.isOn>>

\* No two controls have one id, nor will the next one: save, select, edit and delete all
\* go by it.
IdsTellApart ==
  /\ \A i, j \in DOMAIN ui.controls : ui.controls[i].id = ui.controls[j].id => i = j
  /\ \A i \in DOMAIN ui.controls : ui.controls[i].id < ui.nextControlId

\* A form that edits a control is on the screen and its control is still there: otherwise
\* saveDevice would take the changes for a new control.
EditedControlExists ==
  ui.editingControlId # NoId =>
     /\ ui.screen = "AddDevice"
     /\ ui.editingControlId \in Ids(ui.controls)

\* Every control that is registered or edited has all its commands (AddDeviceScreen offers
\* saving only then), even when Save is tapped on a screen that is no longer true.
EveryControlComplete ==
  \A i \in DOMAIN ui.controls : Commands \subseteq ui.controls[i].irCommands

\* What is on disk, once written, brings back the same controls, the same remote and the
\* same next id.
Lasting(s) == <<s.brand, s.temperature, s.isOn, s.controls, s.activeControlId, s.nextControlId>>
RestartForgetsNothing == unsaved = 0 => Lasting(Load(disk)) = Lasting(ui)

\* A timeout that can still run is that of the attempt on the screen, or finds another
\* command being learned, or none: it never ends an attempt that began after its own.
TimeoutOfThisAttempt ==
  \A job \in jobs : job.command = ui.learningCommand => job = learningTimeoutJob

\* Learning a command does not last for ever, unless the user starts it again and again:
\* it is confirmed or left, or times out.
LearningEnds ==
  \A c \in Commands, job \in Jobs \cup {NoJob} :
     (ui.learningCommand = c /\ learningTimeoutJob = job)
       ~> (ui.learningCommand # c \/ learningTimeoutJob # job)
=============================================================================
