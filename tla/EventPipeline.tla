---------------------------- MODULE EventPipeline ----------------------------
(***************************************************************************)
(* The camera preview of one data run (server/cmd/server/server.go): each  *)
(* board's listener offers every sendInterval-th event to the event        *)
(* builder of its telescope, which puts fragments together into a frame;   *)
(* guiListener puts the telescopes' frames together into one datagram, and *)
(* the GUI draws its four panels out of the last one that came             *)
(* (gui/ui_camera.py).                                                     *)
(* Nothing checks event numbers: what a frame shows of a board is only     *)
(* bounded by how often the builder starts afresh.                         *)
(*                                                                         *)
(* A board's pixels are modelled by their age: how many fragments the      *)
(* builder has taken since, counting their own; 0 is a dark board.  Which  *)
(* pixel is which is in Formats.                                           *)
(***************************************************************************)
EXTENDS Integers, Sequences, Formats

CONSTANTS
  NTel,         \* telescopes the server has room for: 4 in the code
  NPos,         \* boards a telescope has room for: 8 in the code
  FlushAfter,   \* fragments before a partial frame is sent: 32 in the code
  BuilderRoom,  \* capacity of a builder's channel: 100000 in the code
  GuiRoom,      \* capacity of the GUI channel: 10000 in the code
  States,       \* state lists a run may have
  SilentTel     \* whether a telescope may have no board that sends

Tels  == 1..NTel
Poses == 1..NPos

(***************************************************************************)
(* A state lists telescopes, and for each telescope its boards, each with  *)
(* its position (localPosition + 1).                                       *)
(***************************************************************************)
Board  == [pos : Poses, missing : BOOLEAN]
TelRow == [tel : Tels, missing : BOOLEAN, boards : Seq(Board)]

ASSUME PipelineAssumption ==
  /\ {NTel, NPos, FlushAfter, BuilderRoom, GuiRoom} \subseteq Nat \ {0}
  /\ States \subseteq Seq(TelRow)
  /\ \A s \in States : Len(s) <= NTel /\ \A i \in 1..Len(s) : Len(s[i].boards) <= NPos
  /\ SilentTel \in BOOLEAN

VARIABLES
  state,        \* globalState
  sending,      \* the boards that send, as <<telescope, position>>
  opened,       \* startListening is closed
  stopped,      \* stopListening is closed
  joined,       \* every harvester listener has returned
  fragments,    \* fragments[t]: the channel to builder t, positions in order
  builder,      \* builder[t]: where eventBuilder t is
  current,      \* current[t]: the fragment it has in hand; 0 for none
  taken,        \* taken[t]: j
  present,      \* present[t]: harvestersPresent
  ages,         \* ages[t]: pixelValuesPadded
  frames,       \* guiChannel
  gui,          \* where guiListener is
  telsPresent,  \* telescopesPresent
  outGoing,     \* outGoingData: what it holds of each telescope
  waiting       \* the last datagram in the GUI's socket

runVars == <<state, sending, opened, stopped, joined>>
camVars == <<outGoing, waiting>>
vars == <<runVars, fragments, builder, current, taken, present, ages, frames,
          gui, telsPresent, camVars>>

Dark == [p \in Poses |-> 0]

Rows(t)  == {i \in 1..Len(state) : state[i].tel = t /\ ~state[i].missing}
Running  == {t \in Tels : Rows(t) # {}}
Here(boards) ==
  {boards[k].pos : k \in {j \in 1..Len(boards) : ~boards[j].missing}}
BoardsOf(t) == UNION {Here(state[i].boards) : i \in Rows(t)}

(* GetHarvestersMissingBool: by place in the list, not by position; and    *)
(* false past the end of the list.                                         *)
HarvestersMissing(t) ==
  LET i == CHOOSE j \in 1..Len(state) : state[j].tel = t
  IN  [p \in Poses |-> p <= Len(state[i].boards) /\ state[i].boards[p].missing]

(* GetTelescopesMissingBool: by place in the list. *)
TelescopesMissing == [t \in Tels |-> t <= Len(state) /\ state[t].missing]

All(flags) == \A x \in DOMAIN flags : flags[x]

(* The pixels of a telescope in a datagram are a frame that came since the *)
(* datagram before, or what was there before: an older frame, or zeros.    *)
Blank == [t \in Tels |-> "old"]
NoDatagram == [t \in Tels |-> "nothing"]

Init ==
  /\ state \in States
  /\ sending \in SUBSET UNION {{t} \X BoardsOf(t) : t \in Running}
  /\ ~SilentTel => \A t \in Running : \E p \in Poses : <<t, p>> \in sending
  /\ opened = FALSE
  /\ stopped = FALSE
  /\ joined = FALSE
  /\ fragments = [t \in Tels |-> <<>>]
  /\ builder = [t \in Tels |-> IF t \in Running THEN "gate" ELSE "done"]
  /\ current = [t \in Tels |-> 0]
  /\ taken = [t \in Tels |-> 0]
  /\ present = [t \in Tels |-> IF t \in Running THEN HarvestersMissing(t)
                               ELSE [p \in Poses |-> FALSE]]
  /\ ages = [t \in Tels |-> Dark]
  /\ frames = <<>>
  /\ gui = "start"
  /\ telsPresent = TelescopesMissing
  /\ outGoing = Blank
  /\ waiting = NoDatagram

-----------------------------------------------------------------------------
(* The run goroutine, and what is seen here of the listeners *)

Open ==
  /\ ~opened
  /\ opened' = TRUE
  /\ UNCHANGED <<state, sending, stopped, joined, fragments, builder, current,
                 taken, present, ages, frames, gui, telsPresent, camVars>>

StopListening ==
  /\ opened
  /\ ~stopped
  /\ stopped' = TRUE
  /\ UNCHANGED <<state, sending, opened, joined, fragments, builder, current,
                 taken, present, ages, frames, gui, telsPresent, camVars>>

(* listeners.Wait(); nothing waits for the builders and guiListener. *)
Join ==
  /\ stopped
  /\ ~joined
  /\ joined' = TRUE
  /\ UNCHANGED <<state, sending, opened, stopped, fragments, builder, current,
                 taken, present, ages, frames, gui, telsPresent, camVars>>

(* A board's event reaches the builder's channel. *)
Offer(t, p) ==
  /\ opened
  /\ ~joined
  /\ <<t, p>> \in sending
  /\ Len(fragments[t]) < BuilderRoom
  /\ fragments' = [fragments EXCEPT ![t] = Append(@, p)]
  /\ UNCHANGED <<runVars, builder, current, taken, present, ages, frames, gui,
                 telsPresent, camVars>>

-----------------------------------------------------------------------------
(* eventBuilder *)

BuilderGoto(t, from, to) ==
  /\ builder[t] = from
  /\ builder' = [builder EXCEPT ![t] = to]

BuilderStarts(t) ==
  /\ opened
  /\ BuilderGoto(t, "gate", "take")
  /\ UNCHANGED <<runVars, fragments, current, taken, present, ages, frames, gui,
                 telsPresent, camVars>>

(* Every select has this case. *)
BuilderStops(t) ==
  /\ stopped
  /\ builder[t] \in {"gate", "take", "flush", "full"}
  /\ builder' = [builder EXCEPT ![t] = "done"]
  /\ UNCHANGED <<runVars, fragments, current, taken, present, ages, frames, gui,
                 telsPresent, camVars>>

Older(a) == [p \in Poses |-> IF a[p] = 0 THEN 0 ELSE a[p] + 1]

Take_NeverFlushes(t) ==
  /\ fragments[t] # <<>>
  /\ fragments' = [fragments EXCEPT ![t] = Tail(@)]
  /\ current' = [current EXCEPT ![t] = Head(fragments[t])]
  /\ taken' = [taken EXCEPT ![t] = IF @ > FlushAfter THEN 0 ELSE @ + 1]
  /\ BuilderGoto(t, "take", "land")
  /\ UNCHANGED <<runVars, present, ages, frames, gui, telsPresent, camVars>>

(* Take a fragment; if too many came since the last frame, what there is   *)
(* is sent before this one is looked at.  Something is there (the code's   *)
(* contributed): the fragments counted before this one have landed.        *)
Take(t) ==
  /\ fragments[t] # <<>>
  /\ fragments' = [fragments EXCEPT ![t] = Tail(@)]
  /\ current' = [current EXCEPT ![t] = Head(fragments[t])]
  /\ taken' = [taken EXCEPT ![t] = @ + 1]
  /\ BuilderGoto(t, "take", IF taken[t] + 1 > FlushAfter THEN "flush" ELSE "land")
  /\ UNCHANGED <<runVars, present, ages, frames, gui, telsPresent, camVars>>

Fresh_KeepsPixels(t) ==
  /\ taken' = [taken EXCEPT ![t] = 0]
  /\ present' = [present EXCEPT ![t] = HarvestersMissing(t)]
  /\ ages' = ages

Fresh_KeepsFlags(t) ==
  /\ taken' = [taken EXCEPT ![t] = 0]
  /\ present' = present
  /\ ages' = [ages EXCEPT ![t] = Dark]

(* pixelValuesPadded, harvestersPresent and j, all at once. *)
Fresh(t) ==
  /\ taken' = [taken EXCEPT ![t] = 0]
  /\ present' = [present EXCEPT ![t] = HarvestersMissing(t)]
  /\ ages' = [ages EXCEPT ![t] = Dark]

SendFrame(t, from, to) ==
  /\ Len(frames) < GuiRoom
  /\ BuilderGoto(t, from, to)
  /\ frames' = Append(frames, [tel |-> t, full |-> from = "full", ages |-> ages[t]])
  /\ Fresh(t)
  /\ UNCHANGED <<runVars, fragments, current, gui, telsPresent, camVars>>

Land(t) ==
  /\ builder[t] = "land"
  /\ ages' = [ages EXCEPT ![t] = [Older(ages[t]) EXCEPT ![current[t]] = 1]]
  /\ present' = [present EXCEPT ![t][current[t]] = TRUE]
  /\ current' = [current EXCEPT ![t] = 0]
  /\ BuilderGoto(t, "land", IF All(present'[t]) THEN "full" ELSE "take")
  /\ UNCHANGED <<runVars, fragments, taken, frames, gui, telsPresent, camVars>>

BuilderStep_NoStop(t) ==
  \/ BuilderStarts(t)
  \/ Take(t) \/ Land(t)
  \/ SendFrame(t, "flush", "land") \/ SendFrame(t, "full", "take")

BuilderStep(t) ==
  \/ BuilderStarts(t) \/ BuilderStops(t)
  \/ Take(t) \/ Land(t)
  \/ SendFrame(t, "flush", "land") \/ SendFrame(t, "full", "take")

-----------------------------------------------------------------------------
(* guiListener, and the GUI *)

(* A datagram of zeros, before anything else. *)
GuiStarts ==
  /\ gui = "start"
  /\ gui' = "take"
  /\ waiting' = outGoing
  /\ UNCHANGED <<runVars, fragments, builder, current, taken, present, ages,
                 frames, telsPresent, outGoing>>

GuiStops ==
  /\ stopped
  /\ gui = "take"
  /\ gui' = "done"
  /\ UNCHANGED <<runVars, fragments, builder, current, taken, present, ages,
                 frames, telsPresent, camVars>>

GuiTake ==
  /\ gui = "take"
  /\ frames # <<>>
  /\ LET tel == Head(frames).tel IN
       /\ outGoing' = [outGoing EXCEPT ![tel] = "new"]
       /\ telsPresent' = [telsPresent EXCEPT ![tel] = TRUE]
  /\ frames' = Tail(frames)
  /\ gui' = IF All(telsPresent') THEN "write" ELSE "take"
  /\ UNCHANGED <<runVars, fragments, builder, current, taken, present, ages, waiting>>

GuiWrite_KeepsFlags ==
  /\ gui = "write"
  /\ gui' = "drain"
  /\ waiting' = outGoing
  /\ outGoing' = Blank
  /\ UNCHANGED <<runVars, fragments, builder, current, taken, present, ages,
                 frames, telsPresent>>

(* The datagram to the GUI, whose socket may be full.  The bytes stay as   *)
(* they are, to be written over by the frames to come.                     *)
GuiWrite ==
  /\ gui = "write"
  /\ gui' = "drain"
  /\ \/ waiting' = outGoing
     \/ waiting # NoDatagram /\ waiting' = waiting
  /\ outGoing' = Blank
  /\ telsPresent' = TelescopesMissing
  /\ UNCHANGED <<runVars, fragments, builder, current, taken, present, ages,
                 frames>>

(* What came meanwhile is dropped.  One step: the loop only empties a      *)
(* queue, and is taken to be faster than the builders are at filling it.   *)
GuiDrain ==
  /\ gui = "drain"
  /\ gui' = "take"
  /\ frames' = <<>>
  /\ UNCHANGED <<runVars, fragments, builder, current, taken, present, ages,
                 telsPresent, camVars>>

GuiStep == GuiStarts \/ GuiStops \/ GuiTake \/ GuiWrite \/ GuiDrain

(* getDatagramAndQueue flushes the socket, keeps the last datagram and     *)
(* draws the four panels out of it.                                        *)
ShowDatagram ==
  /\ waiting # NoDatagram
  /\ waiting' = NoDatagram
  /\ UNCHANGED <<runVars, fragments, builder, current, taken, present, ages,
                 frames, gui, telsPresent, outGoing>>

-----------------------------------------------------------------------------

Next ==
  \/ Open \/ StopListening \/ Join
  \/ \E t \in Tels : BuilderStep(t) \/ \E p \in Poses : Offer(t, p)
  \/ GuiStep
  \/ ShowDatagram

(* The goroutines run, and Go's channels serve blocked senders in turn, so *)
(* that no builder waits for ever for room the others keep taking; a board *)
(* that sends keeps sending.  The GUI's event loop runs.  Nothing makes    *)
(* the run end.                                                            *)
Fairness ==
  /\ WF_vars(Open) /\ WF_vars(Join)
  /\ \A t \in Tels : SF_vars(BuilderStep(t)) /\ \A p \in Poses : WF_vars(Offer(t, p))
  /\ WF_vars(GuiStep) /\ WF_vars(ShowDatagram)

Spec == Init /\ [][Next]_vars /\ Fairness

-----------------------------------------------------------------------------
(* Properties *)

(* Without event numbers, what a frame shows of two boards still lies      *)
(* within FlushAfter + 1 fragments of each other, and no frame, partial    *)
(* ones included, is dark all over (server.go:552-577).  The comment there *)
(* says FlushAfter: the count restarts before the fragment in hand lands.  *)
FrameIsFresh ==
  \A k \in DOMAIN frames :
    /\ frames[k].ages # Dark
    /\ \A p \in Poses : frames[k].ages[p] <= FlushAfter + 1

(* A frame sent as complete shows every board the state does not call      *)
(* missing, even where the order of a telescope's list is not the order of *)
(* the boards' positions, or the list is short (server.go:580-582,         *)
(* array.go:235-249).                                                      *)
FullFrameHasAllBoards ==
  \A k \in DOMAIN frames :
    frames[k].full =>
      \A p \in BoardsOf(frames[k].tel) : frames[k].ages[p] # 0

(* Past the zeros of the start, a datagram has of every present telescope  *)
(* a frame that came since the datagram before: no panel goes on showing   *)
(* an old picture beside the new ones (server.go:606-623).                 *)
PanelsAreLive ==
  waiting \notin {Blank, NoDatagram} =>
    \A t \in Running : waiting[t] = "new"

(* What comes from a board is drawn at that board's pixels of its own      *)
(* telescope's panel, and nothing else is, although the server copies the  *)
(* pixels out of a padded array, lays the telescopes one after the other,  *)
(* and the GUI cuts the bytes up again (data_parsing.go:62-89,             *)
(* ui_camera.py:161-164).                                                  *)
PixelsInPlace == frames # <<>> => PanelsShowTheirTelescopes

(* Once listening stops, every builder and guiListener returns, also from  *)
(* a full GUI channel, and with fragments still queued: none is left over  *)
(* for the next run (server.go:545-551, 568-571, 606-611).                 *)
PipelineStops ==
  stopped ~> gui = "done" /\ \A t \in Tels : builder[t] = "done"

(* As long as a board sends and the run lasts, the camera is refreshed.  A *)
(* silent board is a dark sector, not a blank camera                       *)
(* (server.go:559-562, deploy/ONSITE_CHECKLIST.md:176-177).                *)
CameraRefreshed ==
  sending # {} => <>stopped \/ []<><<ShowDatagram>>_vars

=============================================================================
