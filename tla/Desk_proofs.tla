----------------------------- MODULE Desk_proofs -----------------------------
(***************************************************************************)
(* The operator's desk, for any boards and numbers, any state files and    *)
(* parameters: the marks, the lock, the Start button, what is said of the  *)
(* run in hand, and the generator of test packets.                         *)
(***************************************************************************)
EXTENDS Desk, TLAPS

Marks == {0, 1}

Typed ==
  /\ state = NoState \/ state \in [Fields -> Nat]
  /\ widgets \in [Fields -> Nat]
  /\ editOn \in BOOLEAN /\ wasChecked \in BOOLEAN /\ fieldsOn \in BOOLEAN
  /\ setOn \in BOOLEAN /\ unlocked \in BOOLEAN /\ startOn \in BOOLEAN
  /\ active \in BOOLEAN /\ connected \in BOOLEAN
  /\ living \in Nat

(* Flags are bits, wherever they are kept. *)
FlagsAreBits ==
  \A f \in Telescopes \cup Boards :
    widgets[f] \in Marks /\ (state # NoState => state[f] \in Marks)

(* The copy of the Edit box is the box: the lock need not know which of    *)
(* them it puts back.                                                      *)
LockInv == EditorFollowsLock /\ wasChecked = editOn

(* The masks are those of the state, and the run in hand is described from *)
(* a state that nothing can change.                                        *)
RunInv ==
  /\ state # NoState => masks = Masks(state)
  /\ ran # NoRun => active /\ state # NoState
  /\ RunIsDescribed

DeskInv ==
  Typed /\ FlagsAreBits /\ YellowIsUnsaved /\ LockInv /\ StartIsUpToDate /\ RunInv /\ NoStrayGenerator

-----------------------------------------------------------------------------

LEMMA ShownTyped ==
  /\ \A f \in Fields : \A v \in Nat : Shown(f, v) \in Nat
  /\ \A f \in Fields : \A v \in Values(f) : v \in Nat
  /\ \A f \in Telescopes \cup Boards : \A v : Shown(f, v) = v /\ Values(f) = Marks
  BY DeskAssumption DEF Shown, Values, Marks

LEMMA PanelIsNoField == Panel \notin Fields
<1>1. Panel \notin Telescopes
  BY DEF Panel, Telescopes
<1>2. Panel \notin Boards
  <2>1. \A b \in Nat \X Nat : b = <<b[1], b[2]>>
    OBVIOUS
  <2>2. \A i, j : Panel # <<i, j>>
    BY DEF Panel
  <2>3. QED
    BY <2>1, <2>2, DeskAssumption
<1>3. QED
  BY <1>1, <1>2, DeskAssumption DEF Fields

LEMMA NextTyped == Typed /\ [Next]_vars => Typed'
<1> SUFFICES ASSUME Typed, [Next]_vars PROVE Typed'
  OBVIOUS
<1> USE DEF Typed, editor, panel, params, fadc, lock, checks, run, far, gen
<1>1. CASE LoadState
  <2>1. state' \in [Fields -> Nat]
    BY <1>1, DeskAssumption DEF LoadState
  <2>2. widgets' \in [Fields -> Nat]
    BY <1>1, <2>1, ShownTyped DEF LoadState
  <2>3. QED
    BY <1>1, <2>1, <2>2 DEF LoadState, Refresh
<1>2. CASE EditField
  <2>1. widgets' \in [Fields -> Nat]
    BY <1>2, ShownTyped DEF EditField
  <2>2. QED
    BY <1>2, <2>1 DEF EditField, Refresh
<1>3. CASE UndoChanges
  <2>1. widgets' \in [Fields -> Nat]
    BY <1>3, ShownTyped DEF UndoChanges
  <2>2. QED
    BY <1>3, <2>1 DEF UndoChanges, Refresh
<1>4. CASE SetChanges \/ ToggleEdit
  BY <1>4 DEF SetChanges, ToggleEdit, Refresh
<1>5. CASE Observing
  BY <1>5 DEF Observing, EditObs, ObsSet, ObsUndo, SetWindow, Refresh
<1>6. CASE StartRun
  BY <1>6 DEF StartRun, Lock, Refresh
<1>7. CASE GotStatus \/ StartNotConfirmed \/ HeartbeatTimeout
  BY <1>7 DEF GotStatus, StartNotConfirmed, HeartbeatTimeout, EndRun, Lock, Unlock, Refresh
<1>8. CASE GotHeartbeat \/ ToggleDebug \/ ForceUnlock \/ ServerSays
  BY <1>8 DEF GotHeartbeat, ToggleDebug, ForceUnlock, ServerSays, Refresh
<1>9. CASE Generator
  BY <1>9 DEF Generator, Generate, ProcessStarts, ProcessEnds, Finished, Kill
<1>10. CASE UNCHANGED vars
  BY <1>10 DEF vars
<1>11. QED
  BY <1>1, <1>2, <1>3, <1>4, <1>5, <1>6, <1>7, <1>8, <1>9, <1>10 DEF Next, Edit, Running

(* Only the editor touches the state, its widgets and the masks. *)
LEMMA EditorOnly ==
  ASSUME Next, ~Edit
  PROVE  UNCHANGED <<state, widgets, masks>>
  BY DEF Next, Observing, EditObs, ObsSet, ObsUndo, SetWindow, Running, StartRun, GotStatus,
         StartNotConfirmed, GotHeartbeat, HeartbeatTimeout, ToggleDebug, ForceUnlock, ServerSays,
         Generator, Generate, ProcessStarts, ProcessEnds, Finished, Kill, editor

LEMMA NextBits == Typed /\ FlagsAreBits /\ [Next]_vars => FlagsAreBits'
<1> SUFFICES ASSUME Typed, FlagsAreBits, [Next]_vars PROVE FlagsAreBits'
  OBVIOUS
<1> USE DEF Typed, FlagsAreBits
<1>0. Telescopes \cup Boards \subseteq Fields
  BY DEF Fields
<1>1. CASE LoadState
  <2>1. state' \in [Fields -> Nat] /\ \A f \in Telescopes \cup Boards : state'[f] \in Marks
    BY <1>1, DeskAssumption DEF LoadState, Marks
  <2>2. \A f \in Telescopes \cup Boards : widgets'[f] = state'[f]
    BY <1>0, <1>1, <2>1, ShownTyped DEF LoadState
  <2>3. QED
    BY <2>1, <2>2
<1>2. CASE EditField
  <2>1. PICK g \in Fields : \E v \in Values(g) : widgets' = [widgets EXCEPT ![g] = v]
    BY <1>2 DEF EditField
  <2>2. \A f \in Telescopes \cup Boards : widgets'[f] \in Marks
    BY <1>0, <2>1, ShownTyped
  <2>3. QED
    BY <1>2, <2>2 DEF EditField
<1>3. CASE UndoChanges
  <2>1. \A f \in Telescopes \cup Boards : widgets'[f] = state[f]
    BY <1>0, <1>3, ShownTyped DEF UndoChanges
  <2>2. QED
    BY <1>3, <2>1 DEF UndoChanges
<1>4. CASE SetChanges
  BY <1>4 DEF SetChanges
<1>5. CASE ToggleEdit
  BY <1>5 DEF ToggleEdit, editor
<1>6. CASE UNCHANGED <<state, widgets, masks>>
  BY <1>6
<1>7. QED
  BY <1>1, <1>2, <1>3, <1>4, <1>5, <1>6, EditorOnly DEF Edit, vars, editor

-----------------------------------------------------------------------------
(* The marks *)

LEMMA NextYellow == Typed /\ YellowIsUnsaved /\ [Next]_vars => YellowIsUnsaved'
<1> SUFFICES ASSUME Typed, YellowIsUnsaved, [Next]_vars PROVE YellowIsUnsaved'
  OBVIOUS
<1> USE DEF Typed, YellowIsUnsaved, Differing, editor, panel, params, fadc
<1>0. Panel \notin Fields
  BY PanelIsNoField
<1>1. CASE LoadState
  <2>1. state' \in [Fields -> Nat] /\ widgets' = [f \in Fields |-> Shown(f, state'[f])]
    BY <1>1, DeskAssumption DEF LoadState
  <2>2. yellow' = yellow \ Fields /\ UNCHANGED <<obs, obsWidget>>
    BY <1>1 DEF LoadState
  <2>3. QED
    BY <1>0, <2>1, <2>2
<1>2. CASE EditField
  <2>1. PICK f \in Fields : \E v \in Values(f) :
          /\ widgets' = [widgets EXCEPT ![f] = v]
          /\ yellow' = IF state = NoState THEN yellow
                       ELSE IF v = state[f] THEN yellow \ {f} ELSE yellow \cup {f}
    BY <1>2 DEF EditField
  <2>2. UNCHANGED <<state, obs, obsWidget>>
    BY <1>2 DEF EditField
  <2>3. \A g \in Fields \ {f} : widgets'[g] = widgets[g]
    BY <2>1
  <2>4. Panel # f
    BY <1>0
  <2>5. QED
    BY <2>1, <2>2, <2>3, <2>4
<1>3. CASE UndoChanges
  <2>1. /\ widgets' = [f \in Fields |-> Shown(f, state[f])]
        /\ yellow' = yellow \ Fields /\ UNCHANGED <<state, obs, obsWidget>>
    BY <1>3 DEF UndoChanges
  <2>2. QED
    BY <1>0, <2>1
<1>4. CASE SetChanges
  BY <1>0, <1>4 DEF SetChanges
<1>5. CASE EditObs \/ ObsSet \/ ObsUndo
  BY <1>0, <1>5 DEF EditObs, ObsSet, ObsUndo
<1>6. CASE UNCHANGED <<state, widgets, yellow, obs, obsWidget>>
  BY <1>6
<1>7. ASSUME Next, ~(LoadState \/ EditField \/ UndoChanges \/ SetChanges),
             ~(EditObs \/ ObsSet \/ ObsUndo)
      PROVE  UNCHANGED <<state, widgets, yellow, obs, obsWidget>>
  BY <1>7 DEF Next, Edit, ToggleEdit, Observing, SetWindow, Running, StartRun, GotStatus,
     StartNotConfirmed, GotHeartbeat, HeartbeatTimeout, ToggleDebug, ForceUnlock, ServerSays,
     Generator, Generate, ProcessStarts, ProcessEnds, Finished, Kill
<1>8. QED
  BY <1>1, <1>2, <1>3, <1>4, <1>5, <1>6, <1>7 DEF vars

-----------------------------------------------------------------------------
(* The lock *)

LEMMA NextLock == Typed /\ LockInv /\ [Next]_vars => LockInv'
<1> SUFFICES ASSUME Typed, LockInv, [Next]_vars PROVE LockInv'
  OBVIOUS
<1> USE DEF Typed, LockInv, EditorFollowsLock, lock, run
<1>1. CASE UNCHANGED <<editOn, wasChecked, fieldsOn, setOn, unlocked, active>>
  BY <1>1
<1>2. CASE LoadState \/ ToggleEdit
  BY <1>2 DEF LoadState, ToggleEdit
<1>3. CASE StartRun
  BY <1>3 DEF StartRun, Lock
<1>4. CASE GotStatus
  BY <1>4 DEF GotStatus, EndRun, Lock, Unlock
<1>5. CASE StartNotConfirmed
  BY <1>5 DEF StartNotConfirmed, EndRun, Unlock
<1>6. CASE HeartbeatTimeout
  BY <1>6 DEF HeartbeatTimeout, EndRun, Unlock
<1>7. ASSUME Next, ~(LoadState \/ ToggleEdit \/ StartRun),
             ~(GotStatus \/ StartNotConfirmed \/ HeartbeatTimeout)
      PROVE  UNCHANGED <<editOn, wasChecked, fieldsOn, setOn, unlocked, active>>
  BY <1>7 DEF Next, Edit, EditField, UndoChanges, SetChanges, Observing, EditObs, ObsSet, ObsUndo,
     SetWindow, Running, GotHeartbeat, ToggleDebug, ForceUnlock, ServerSays,
     Generator, Generate, ProcessStarts, ProcessEnds, Finished, Kill
<1>8. QED
  BY <1>1, <1>2, <1>3, <1>4, <1>5, <1>6, <1>7 DEF vars

-----------------------------------------------------------------------------
(* The Start button *)

(* What the button follows from. *)
Grounds == <<override, debug, active, connected, state, widgets, obs, window>>

LEMMA NextStart == Typed /\ StartIsUpToDate /\ [Next]_vars => StartIsUpToDate'
<1> SUFFICES ASSUME Typed, StartIsUpToDate, [Next]_vars PROVE StartIsUpToDate'
  OBVIOUS
<1>1. CASE Refresh
  BY <1>1 DEF Refresh, StartIsUpToDate
<1>2. CASE UNCHANGED <<Grounds, startOn>>
  BY <1>2 DEF Grounds, StartIsUpToDate, Blocked, Unsaved, Differing
<1>3. CASE EditField /\ state = NoState
  <2>1. UNCHANGED <<state, startOn, override, debug>>
    BY <1>3 DEF EditField, editor, checks
  <2>2. Blocked /\ Blocked'
    BY <1>3, <2>1 DEF Blocked
  <2>3. QED
    BY <2>1, <2>2 DEF StartIsUpToDate
<1>4. ASSUME Next, ~Refresh, ~(EditField /\ state = NoState)
      PROVE  UNCHANGED <<Grounds, startOn>>
  <2> USE DEF Grounds, editor, panel, params, fadc, lock, checks, run
  <2>1. CASE Edit
    BY <1>4, <2>1 DEF Edit, LoadState, EditField, UndoChanges, SetChanges, ToggleEdit
  <2>2. CASE Observing
    BY <1>4, <2>2 DEF Observing, EditObs, ObsSet, ObsUndo, SetWindow
  <2>3. CASE Running
    BY <1>4, <2>3 DEF Running, StartRun, GotStatus, StartNotConfirmed, GotHeartbeat,
       HeartbeatTimeout, ToggleDebug, ForceUnlock, ServerSays
  <2>4. CASE Generator
    BY <2>4 DEF Generator, Generate, ProcessStarts, ProcessEnds, Finished, Kill
  <2>5. QED
    BY <1>4, <2>1, <2>2, <2>3, <2>4 DEF Next
<1>5. QED
  BY <1>1, <1>2, <1>3, <1>4
     DEF vars, Grounds, editor, panel, params, fadc, checks, run

-----------------------------------------------------------------------------
(* The run in hand *)

(* With flags that are bits, a board that is not masked is recorded.       *)
LEMMA MasksArePresent ==
  ASSUME state # NoState, FlagsAreBits
  PROVE  /\ HarvesterMask(state) = Boards \ Present(state)
         /\ \A b \in Present(state) : <<b[1]>> \notin TelescopeMask(state)
<1>1. \A b \in Boards : <<b[1]>> \in Telescopes
  BY DEF Telescopes
<1>2. \A f \in Telescopes \cup Boards : state[f] = 0 \/ state[f] = 1
  BY DEF FlagsAreBits, Marks
<1>3. ASSUME NEW b \in Boards
      PROVE  (state[<<b[1]>>] = 1 \/ state[b] = 1) <=> ~(state[<<b[1]>>] = 0 /\ state[b] = 0)
  <2>1. state[<<b[1]>>] \in {0, 1} /\ state[b] \in {0, 1}
    BY <1>1, <1>2
  <2>2. QED
    BY <2>1
<1>4. HarvesterMask(state) = Boards \ Present(state)
  BY <1>3 DEF HarvesterMask, Present
<1>5. \A b \in Present(state) : <<b[1]>> \notin TelescopeMask(state)
  BY DEF Present, TelescopeMask
<1>6. QED
  BY <1>4, <1>5

(* What a description is made of. *)
Described == <<state, masks, obs, window, crate, active, ran>>

LEMMA RunKept ==
  ASSUME RunInv, UNCHANGED Described
  PROVE  RunInv'
  BY DEF RunInv, RunIsDescribed, Described, fadc, Masks, TelescopeMask, HarvesterMask, Present

LEMMA MasksKept ==
  ASSUME RunInv, UNCHANGED <<state, masks>>
  PROVE  (state # NoState => masks = Masks(state))'
  BY DEF RunInv, Masks, TelescopeMask, HarvesterMask

LEMMA NextRun ==
  ASSUME Typed, FlagsAreBits, LockInv, RunInv, [Next]_vars
  PROVE  RunInv'
<1> USE DEF editor, panel, params, lock, checks, run, far, gen
<1>1. CASE UNCHANGED Described
  BY <1>1, RunKept
<1>2. ASSUME ran = NoRun, ran' = ran, (state # NoState => masks = Masks(state))'
      PROVE  RunInv'
  BY <1>2 DEF RunInv, RunIsDescribed
<1>3. CASE ran' = NoRun /\ UNCHANGED <<state, masks>>
  BY <1>3, MasksKept DEF RunInv, RunIsDescribed
<1>4. unlocked \/ setOn => ran = NoRun
  BY DEF Typed, RunInv, LockInv, EditorFollowsLock
<1>5. CASE LoadState
  BY <1>2, <1>4, <1>5 DEF LoadState, Masks, TelescopeMask, HarvesterMask
<1>6. CASE SetChanges
  <2>1. state' = widgets /\ masks' = Masks(widgets) /\ ran' = ran /\ ran = NoRun
    BY <1>4, <1>6 DEF SetChanges
  <2>2. masks' = Masks(state')
    BY <2>1 DEF Masks, TelescopeMask, HarvesterMask
  <2>3. QED
    BY <1>2, <2>1, <2>2 DEF Masks, TelescopeMask, HarvesterMask
<1>7. CASE ObsSet \/ SetWindow \/ ForceUnlock
  <2>1. UNCHANGED <<state, masks, ran>> /\ ran = NoRun
    BY <1>4, <1>7 DEF ObsSet, SetWindow, ForceUnlock
  <2>2. QED
    BY <1>2, <2>1, MasksKept
<1>8. CASE StartRun
  <2>1. /\ state # NoState /\ active' = TRUE
        /\ UNCHANGED <<state, masks, obs, window, crate>>
        /\ \/ ran' = [boards |-> Present(state), obs |-> obs, fadc |-> fadc]
           \/ ran' = ran
    BY <1>8 DEF StartRun, fadc
  <2>2. CASE ran' = ran
    BY <2>1, <2>2, MasksKept DEF RunInv, RunIsDescribed, fadc, Present
  <2>3. CASE ran' = [boards |-> Present(state), obs |-> obs, fadc |-> fadc]
    <3>1. masks.harvesters = HarvesterMask(state) /\ masks.telescopes = TelescopeMask(state)
      BY <2>1 DEF RunInv, Masks
    <3>2. ran'.boards = Present(state) /\ ran'.obs = obs /\ ran'.fadc = fadc
      BY <2>3
    <3>3. fadc' = fadc /\ Present(state)' = Present(state)
      BY <2>1 DEF fadc, Present
    <3>4. RunIsDescribed'
      BY <2>1, <3>1, <3>2, <3>3, MasksArePresent DEF RunIsDescribed
    <3>5. QED
      BY <2>1, <3>4, MasksKept DEF RunInv
  <2>4. QED
    BY <2>1, <2>2, <2>3
<1>9. CASE GotStatus
  <2>1. UNCHANGED <<state, masks, obs, window, crate>>
    BY <1>9 DEF GotStatus, fadc
  <2>2. ran' = NoRun \/ (ran' = ran /\ active')
    BY <1>9 DEF GotStatus, EndRun
  <2>3. CASE ran' = NoRun
    BY <1>3, <2>1, <2>3
  <2>4. CASE ran' = ran /\ active'
    BY <2>1, <2>4, MasksKept DEF RunInv, RunIsDescribed, fadc, Present
  <2>5. QED
    BY <2>2, <2>3, <2>4
<1>10. CASE StartNotConfirmed
  BY <1>3, <1>10 DEF StartNotConfirmed, EndRun
<1>11. CASE HeartbeatTimeout
  <2>1. UNCHANGED <<state, masks, obs, window, crate>>
    BY <1>11 DEF HeartbeatTimeout, fadc
  <2>2. ran' = NoRun \/ (ran' = ran /\ active' = active)
    BY <1>11 DEF HeartbeatTimeout, EndRun
  <2>3. QED
    BY <1>1, <1>3, <2>1, <2>2 DEF Described
<1>12. ASSUME Next, ~(LoadState \/ SetChanges \/ ObsSet \/ SetWindow \/ ForceUnlock),
              ~(StartRun \/ GotStatus \/ StartNotConfirmed \/ HeartbeatTimeout)
       PROVE  UNCHANGED Described
  BY <1>12 DEF Next, Edit, EditField, UndoChanges, ToggleEdit, Observing, EditObs, ObsUndo, Running,
     GotHeartbeat, ToggleDebug, ServerSays, Generator, Generate, ProcessStarts, ProcessEnds,
     Finished, Kill, Described, fadc
<1>13. QED
  BY <1>1, <1>5, <1>6, <1>7, <1>8, <1>9, <1>10, <1>11, <1>12 DEF vars, Described, fadc

-----------------------------------------------------------------------------
(* The generator *)

LEMMA NextGenerator == Typed /\ NoStrayGenerator /\ [Next]_vars => NoStrayGenerator'
<1> SUFFICES ASSUME Typed, NoStrayGenerator, [Next]_vars PROVE NoStrayGenerator'
  OBVIOUS
<1>1. CASE Generator
  BY <1>1 DEF Generator, Generate, ProcessStarts, ProcessEnds, Finished, Kill, Typed,
     NoStrayGenerator
<1>2. ASSUME Next, ~Generator
      PROVE  UNCHANGED gen
  BY <1>2 DEF Next, Edit, LoadState, EditField, UndoChanges, SetChanges, ToggleEdit, Observing,
     EditObs, ObsSet, ObsUndo, SetWindow, Running, StartRun, GotStatus, StartNotConfirmed,
     GotHeartbeat, HeartbeatTimeout, ToggleDebug, ForceUnlock, ServerSays
<1>3. QED
  BY <1>1, <1>2 DEF vars, gen, NoStrayGenerator

-----------------------------------------------------------------------------

LEMMA InitDesk == Init => DeskInv
<1> SUFFICES ASSUME Init PROVE DeskInv
  OBVIOUS
<1> USE DEF Init
<1>1. Typed
  BY DEF Typed
<1>2. FlagsAreBits
  BY DEF FlagsAreBits, Marks, Fields
<1>3. YellowIsUnsaved /\ LockInv
  BY DEF YellowIsUnsaved, LockInv, EditorFollowsLock
<1>4. StartIsUpToDate
  BY DEF StartIsUpToDate, Blocked
<1>5. RunInv /\ NoStrayGenerator
  BY DEF RunInv, RunIsDescribed, NoStrayGenerator
<1>6. QED
  BY <1>1, <1>2, <1>3, <1>4, <1>5 DEF DeskInv

(* The bookkeeping behind the theorems below. *)
THEOREM DeskInvariant == Spec => []DeskInv
<1>1. DeskInv /\ [Next]_vars => DeskInv'
  BY NextTyped, NextBits, NextYellow, NextLock, NextStart, NextRun, NextGenerator DEF DeskInv
<1>2. QED
  BY <1>1, InitDesk, PTL DEF Spec

(* What is yellow differs from what was set, and what differs is yellow.   *)
THEOREM MarksAreTrue == Spec => []YellowIsUnsaved
<1>1. DeskInv => YellowIsUnsaved
  BY DEF DeskInv
<1>2. QED
  BY <1>1, DeskInvariant, PTL

(* The editor is off during a run, and then as the operator left it.       *)
THEOREM LockIsUndone == Spec => []EditorFollowsLock
<1>1. DeskInv => EditorFollowsLock
  BY DEF DeskInv, LockInv
<1>2. QED
  BY <1>1, DeskInvariant, PTL

(* Start is enabled exactly when the checks, looked at now, allow it.      *)
THEOREM StartFollowsChecks == Spec => []StartIsUpToDate
<1>1. DeskInv => StartIsUpToDate
  BY DEF DeskInv
<1>2. QED
  BY <1>1, DeskInvariant, PTL

(* While the lock of a run holds, what its row would get is what the       *)
(* server was sent.                                                        *)
THEOREM RunsAreDescribed == Spec => []RunIsDescribed
<1>1. DeskInv => RunIsDescribed
  BY DEF DeskInv, RunInv
<1>2. QED
  BY <1>1, DeskInvariant, PTL

(* A generator that runs can be killed. *)
THEOREM GeneratorsAreKnown == Spec => []NoStrayGenerator
<1>1. DeskInv => NoStrayGenerator
  BY DEF DeskInv
<1>2. QED
  BY <1>1, DeskInvariant, PTL
=============================================================================
