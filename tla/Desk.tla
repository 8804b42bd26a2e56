-------------------------------- MODULE Desk --------------------------------
(***************************************************************************)
(* The operator's desk (gui/ui_state_editor.py, ui_send_command.py and the *)
(* lock of ui_server.py and ui_run_metadata.py): the state file under edit,*)
(* the observing parameters, the Start button that follows from both, the  *)
(* lock taken for a run, and the generator of test packets.                *)
(*                                                                         *)
(* A field of the state goes by its place: <<t>> and <<t, j>> are the      *)
(* missing flags (1 is missing), any other the number of a spin box.  The  *)
(* observing parameters are one text.  A mask is the set of its bits.  Run *)
(* numbers and rows are in RunSystem.                                      *)
(***************************************************************************)
EXTENDS Integers, Sequences, FiniteSets

CONSTANTS
  Boards, Spins,       \* places <<t, j>> of the boards, and of the numbers
  SpinMax,             \* largest number a spin box holds
  StateFiles,          \* well-formed files the operator may load
  Params,              \* observing parameters, as texts
  Windows,             \* widths of the FADC window, as texts
  MaxStatuses,         \* bound on statuses under way to the GUI
  NoState, NoRun

Telescopes == {<<b[1]>> : b \in Boards}
Fields     == Telescopes \cup Boards \cup Spins
Panel      == <<>>      \* stands for the observing parameters' widgets
Empty      == "empty"   \* a line with no text

(* The missing flags of a file that the server can read are booleans.      *)
ASSUME DeskAssumption ==
  /\ Boards \subseteq Nat \X Nat /\ SpinMax \in Nat /\ MaxStatuses \in Nat
  /\ Spins \cap ({Panel} \cup Telescopes \cup Boards) = {}
  /\ StateFiles \subseteq [Fields -> Nat]
  /\ \A s \in StateFiles : \A f \in Telescopes \cup Boards : s[f] \in {0, 1}

VARIABLES
  state,      \* state_data
  widgets,    \* what the editor's widgets show
  yellow,     \* widgets marked as modified; Panel is the other panel's
  masks,      \* the two mask lines
  obs,        \* obs_params as Set last left them
  obsWidget,  \* what their widgets show
  window,     \* the line with the FADC window's width
  crate,      \* the width that the FADC crate is set to
  editOn, wasChecked, fieldsOn,  \* the Edit box, the copy of it, its fields
  setOn,      \* the Edit box, Undo and Set are enabled
  unlocked,   \* Load state file and the observing panel are enabled
  startOn,    \* StartButton is enabled
  debug, override,    \* debug_mode_check, start_override
  connected, active, confirmed,  \* server_connected, run_active, run_confirmed
  server,     \* the server: free, in setup or in a run
  statuses,   \* status datagrams under way
  ran,        \* history: the run in hand while the lock taken for it holds
  generating, \* where send_command_process is: none, starting, running
  living      \* send_command processes alive

editor == <<state, widgets, yellow, masks>>
params == <<obs, obsWidget>>
fadc   == <<window, crate>>
panel  == <<params, fadc>>
lock   == <<editOn, wasChecked, fieldsOn, setOn, unlocked>>
checks == <<debug, override, connected>>
run    == <<active, confirmed>>
far    == <<server, statuses, ran>>
gen    == <<generating, living>>
vars   == <<editor, panel, lock, startOn, checks, run, far, gen>>

-----------------------------------------------------------------------------
(* What the parts make of a state *)

(* Mutant: a missing telescope's boards keep their own flags. *)
HarvesterMask_OwnFlag(s) == {b \in Boards : s[b] = 1}

TelescopeMask(s) == {t \in Telescopes : s[t] = 1}
HarvesterMask(s) == {b \in Boards : s[<<b[1]>>] = 1 \/ s[b] = 1}
Masks(s) == [telescopes |-> TelescopeMask(s), harvesters |-> HarvesterMask(s)]

(* Go: the boards the server records and send_command sends to. *)
Present(s) == {b \in Boards : s[<<b[1]>>] = 0 /\ s[b] = 0}

Differing == {f \in Fields : widgets[f] # state[f]}
Unsaved   == state # NoState /\ Differing # {}

(* A spin box keeps the nearest number it can hold. *)
Shown(f, v) == IF f \in Spins /\ v > SpinMax THEN SpinMax ELSE v
Values(f)   == IF f \in Spins THEN 0..SpinMax ELSE {0, 1}

Init ==
  /\ state = NoState /\ widgets = [f \in Fields |-> 0] /\ yellow = {}
  /\ masks = NoState /\ obs = "null" /\ obsWidget = obs
  /\ window = Empty /\ crate = Empty
  /\ editOn = FALSE /\ wasChecked = FALSE /\ fieldsOn = FALSE
  /\ setOn = FALSE /\ unlocked = TRUE /\ startOn = FALSE
  /\ debug = FALSE /\ override = FALSE
  /\ connected = FALSE /\ active = FALSE /\ confirmed = FALSE
  /\ server = "free" /\ statuses = <<>> /\ ran = NoRun
  /\ generating = "none" /\ living = 0

(* flag_VO_db_params_filled *)
Filled(text) == text \notin {Empty, "null"}

(* start_blockers; a number is always on show (see RunSystem). *)
Blocked ==
  \/ active \/ ~connected \/ state = NoState \/ Unsaved
  \/ ~Filled(obs) \/ ~Filled(window)

(* refresh_start_button *)
Refresh == startOn' = ((override' /\ debug') \/ ~Blocked')

-----------------------------------------------------------------------------
(* State editor *)

(* load_state_file; a file it cannot use changes nothing. *)
LoadState ==
  /\ unlocked
  /\ state' \in StateFiles
  /\ widgets' = [f \in Fields |-> Shown(f, state'[f])]
  /\ yellow' = yellow \ Fields
  /\ masks' = Masks(state')
  /\ setOn' = TRUE
  /\ UNCHANGED <<editOn, wasChecked, fieldsOn, unlocked, panel, checks, run, far, gen>>
  /\ Refresh

(* on_change of a field's widget. *)
EditField ==
  /\ fieldsOn
  /\ \E f \in Fields : \E v \in Values(f) \ {widgets[f]} :
       /\ widgets' = [widgets EXCEPT ![f] = v]
       /\ yellow' = IF state = NoState THEN yellow
                    ELSE IF v = state[f] THEN yellow \ {f} ELSE yellow \cup {f}
  /\ UNCHANGED <<state, masks, panel, lock, checks, run, far, gen>>
  /\ IF state = NoState THEN UNCHANGED startOn ELSE Refresh

UndoChanges ==
  /\ setOn /\ state # NoState
  /\ widgets' = [f \in Fields |-> Shown(f, state[f])]
  /\ yellow' = yellow \ Fields
  /\ UNCHANGED <<state, masks, panel, lock, checks, run, far, gen>>
  /\ Refresh

(* Mutant: Start is not looked at again. *)
SetChanges_NoRefresh ==
  /\ setOn /\ state # NoState
  /\ state' = widgets /\ masks' = Masks(widgets)
  /\ yellow' = yellow \ Fields
  /\ UNCHANGED <<widgets, panel, lock, startOn, checks, run, far, gen>>

SetChanges ==
  /\ setOn /\ state # NoState
  /\ state' = widgets /\ masks' = Masks(widgets)
  /\ yellow' = yellow \ Fields
  /\ UNCHANGED <<widgets, panel, lock, checks, run, far, gen>>
  /\ Refresh

(* toggle_state_edit, from the box. *)
ToggleEdit ==
  /\ setOn
  /\ editOn' = ~editOn /\ fieldsOn' = editOn' /\ wasChecked' = editOn'
  /\ UNCHANGED <<editor, panel, setOn, unlocked, startOn, checks, run, far, gen>>

-----------------------------------------------------------------------------
(* Observing parameters *)

EditObs ==
  /\ unlocked
  /\ obsWidget' \in Params \ {obsWidget}
  /\ yellow' = IF obsWidget' = obs THEN yellow \ {Panel} ELSE yellow \cup {Panel}
  /\ UNCHANGED <<state, widgets, masks, obs, fadc, lock, checks, run, far, gen>>
  /\ Refresh

(* Mutant: restores the colours of every panel. *)
ObsSet_AllPanels ==
  /\ unlocked
  /\ obs' = obsWidget
  /\ yellow' = {}
  /\ UNCHANGED <<state, widgets, masks, obsWidget, fadc, lock, checks, run, far, gen>>
  /\ Refresh

(* obs_set_changes; the lines it writes refresh the button. *)
ObsSet ==
  /\ unlocked
  /\ obs' = obsWidget
  /\ yellow' = yellow \ {Panel}
  /\ UNCHANGED <<state, widgets, masks, obsWidget, fadc, lock, checks, run, far, gen>>
  /\ Refresh

ObsUndo ==
  /\ unlocked
  /\ obsWidget' = obs
  /\ yellow' = yellow \ {Panel}
  /\ UNCHANGED <<state, widgets, masks, obs, fadc, lock, checks, run, far, gen>>
  /\ Refresh

(* Mutant: the button stays on during a run. *)
SetWindow_Unlocked ==
  /\ window' \in Windows
  /\ crate' \in {window', crate}
  /\ UNCHANGED <<editor, params, lock, checks, run, far, gen>>
  /\ Refresh

(* set_fadc_gate_array_window: the line is written first.  Nothing but the *)
(* log tells whether ssh got the width to the crate, in the 5 s it has.    *)
SetWindow ==
  /\ unlocked
  /\ window' \in Windows
  /\ crate' \in {window', crate}
  /\ UNCHANGED <<editor, params, lock, checks, run, far, gen>>
  /\ Refresh

-----------------------------------------------------------------------------
(* The lock and the run *)

(* Mutant: the box is not put back in mind. *)
Lock_Forgets ==
  /\ fieldsOn' = FALSE /\ wasChecked' = FALSE
  /\ setOn' = FALSE /\ unlocked' = FALSE
  /\ UNCHANGED editOn

(* set_gui_components_enabled(False); toggle_state_edit(False) would       *)
(* forget that the box was checked, and is made to remember.               *)
Lock ==
  /\ fieldsOn' = (fieldsOn /\ ~wasChecked)
  /\ setOn' = FALSE /\ unlocked' = FALSE
  /\ UNCHANGED <<editOn, wasChecked>>

Unlock ==
  /\ fieldsOn' = wasChecked
  /\ setOn' = TRUE /\ unlocked' = TRUE
  /\ UNCHANGED <<editOn, wasChecked>>

(* startRun with request_listen; the start may be lost, and a server in a  *)
(* run ignores it.                                                         *)
StartRun ==
  /\ startOn /\ state # NoState
  /\ active' = TRUE /\ confirmed' = FALSE
  /\ Lock
  /\ \/ /\ server = "free"
        /\ server' = "setup"
        /\ ran' = [boards |-> Present(state), obs |-> obs, fadc |-> fadc]
     \/ UNCHANGED <<server, ran>>
  /\ UNCHANGED <<editor, panel, checks, statuses, gen>>
  /\ Refresh

(* end_run *)
EndRun == active' = FALSE /\ confirmed' = FALSE /\ Unlock /\ ran' = NoRun

(* handle_status; an end writes the row before end_run. *)
GotStatus ==
  /\ statuses # <<>>
  /\ statuses' = Tail(statuses)
  /\ IF Head(statuses) = "started"
       THEN active' = TRUE /\ confirmed' = TRUE /\ Lock /\ UNCHANGED ran
       ELSE EndRun
  /\ UNCHANGED <<editor, panel, checks, server, gen>>
  /\ Refresh

(* handle_start_not_confirmed *)
StartNotConfirmed ==
  /\ active /\ ~confirmed
  /\ EndRun
  /\ UNCHANGED <<editor, panel, checks, server, statuses, gen>>
  /\ Refresh

(* got_heartbeat *)
GotHeartbeat ==
  /\ ~connected /\ connected' = TRUE
  /\ UNCHANGED <<editor, panel, lock, debug, override, run, far, gen>>
  /\ Refresh

(* handle_heartbeat_timeout *)
HeartbeatTimeout ==
  /\ connected /\ connected' = FALSE
  /\ IF active THEN EndRun ELSE UNCHANGED <<run, lock, ran>>
  /\ UNCHANGED <<editor, panel, debug, override, server, statuses, gen>>
  /\ Refresh

(* set_debug_mode *)
ToggleDebug ==
  /\ debug' = ~debug
  /\ override' = (override /\ debug')
  /\ UNCHANGED <<editor, panel, lock, connected, run, far, gen>>
  /\ Refresh

(* force_unlock_start_button: the line is written here too, from the combo *)
(* and with nothing sent to the crate.                                     *)
ForceUnlock ==
  /\ debug /\ unlocked /\ override' = TRUE
  /\ window' \in Windows
  /\ UNCHANGED <<editor, params, crate, lock, debug, connected, run, far, gen>>
  /\ Refresh

(* The server: what it says of the start it accepted. *)
ServerSays ==
  /\ server # "free" /\ Len(statuses) < MaxStatuses
  /\ \/ /\ server = "setup" /\ server' = "run"
        /\ statuses' = Append(statuses, "started")
     \/ /\ server' = "free"
        /\ statuses' = Append(statuses, IF server = "setup" THEN "aborted" ELSE "ended")
  /\ UNCHANGED <<editor, panel, lock, startOn, checks, run, ran, gen>>

-----------------------------------------------------------------------------
(* Test packets *)

(* send_command_generate: the process and its state file. *)
Generate ==
  /\ debug /\ generating = "none" /\ state # NoState
  /\ generating' = "starting"
  /\ UNCHANGED <<editor, panel, lock, startOn, checks, run, far, living>>

(* What start() leads to: a process, or FailedToStart and a cleanup. *)
ProcessStarts ==
  /\ generating = "starting"
  /\ \/ generating' = "running" /\ living' = living + 1
     \/ generating' = "none" /\ UNCHANGED living
  /\ UNCHANGED <<editor, panel, lock, startOn, checks, run, far>>

ProcessEnds ==
  /\ living > 0 /\ living' = living - 1
  /\ UNCHANGED <<editor, panel, lock, startOn, checks, run, far, generating>>

(* send_command_finished, with send_command_cleanup. *)
Finished ==
  /\ generating = "running" /\ living = 0
  /\ generating' = "none"
  /\ UNCHANGED <<editor, panel, lock, startOn, checks, run, far, living>>

(* Mutant: cleans up whether or not the process is gone. *)
Kill_CleansUp ==
  /\ debug /\ generating = "running"
  /\ generating' = "none" /\ living' \in {0, living}
  /\ UNCHANGED <<editor, panel, lock, startOn, checks, run, far>>

(* send_command_kill: finished() arrives inside the wait, or the wait is   *)
(* over and it arrives later.                                              *)
Kill ==
  /\ debug /\ generating = "running"
  /\ \/ generating' = "none" /\ living' = 0
     \/ UNCHANGED <<generating, living>>
  /\ UNCHANGED <<editor, panel, lock, startOn, checks, run, far>>

-----------------------------------------------------------------------------

Edit == LoadState \/ EditField \/ UndoChanges \/ SetChanges \/ ToggleEdit
Observing == EditObs \/ ObsSet \/ ObsUndo \/ SetWindow
Running ==
  \/ StartRun \/ GotStatus \/ StartNotConfirmed \/ GotHeartbeat \/ HeartbeatTimeout
  \/ ToggleDebug \/ ForceUnlock \/ ServerSays
Generator == Generate \/ ProcessStarts \/ ProcessEnds \/ Finished \/ Kill

Next == Edit \/ Observing \/ Running \/ Generator

Spec == Init /\ [][Next]_vars

-----------------------------------------------------------------------------
(* Properties *)

(* What is yellow differs from what was set, and what differs is yellow,   *)
(* in both panels; but for a number of the file no spin box can show       *)
(* (ui_state_editor.py:189-231).                                           *)
YellowIsUnsaved ==
  /\ Panel \in yellow <=> obsWidget # obs
  /\ state # NoState =>
       /\ yellow \cap Fields \subseteq Differing
       /\ {f \in Differing : state[f] = Shown(f, state[f])} \subseteq yellow

(* The editor's fields and all that changes the state are off from the     *)
(* Start click to the end of the run, and then as the operator left them,  *)
(* however often the lock was taken (ui_server.py:506-542).                *)
EditorFollowsLock ==
  /\ unlocked = ~active
  /\ setOn => unlocked
  /\ fieldsOn = (editOn /\ ~active)

(* Start is enabled exactly when the checks, looked at now, allow it or    *)
(* the debug override stands (ui_run_metadata.py:156-166).                 *)
StartIsUpToDate == startOn = ((override /\ debug) \/ ~Blocked)

(* While the lock of a run holds, overridden or not, the masks and the     *)
(* parameters its row would get are those of what the server was sent, the *)
(* FADC window and its line are what they were then, and test packets go   *)
(* to the boards that are recorded (ui_server.py:506-542).                 *)
RunIsDescribed ==
  ran # NoRun =>
    /\ masks.harvesters = Boards \ ran.boards
    /\ \A b \in ran.boards : <<b[1]>> \notin masks.telescopes
    /\ obs = ran.obs /\ fadc = ran.fadc
    /\ Present(state) = ran.boards

(* A generator that runs can be killed: no cleanup loses it                *)
(* (ui_send_command.py:100-125).                                           *)
NoStrayGenerator == living > 0 => generating = "running"

=============================================================================
