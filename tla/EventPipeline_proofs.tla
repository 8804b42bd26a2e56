------------------------ MODULE EventPipeline_proofs ------------------------
(***************************************************************************)
(* The preview, for any number of telescopes and boards, any channel sizes *)
(* and any flush count: what a frame shows is bounded in age, a frame sent *)
(* as complete is complete, and every panel of a datagram is new.          *)
(***************************************************************************)
EXTENDS EventPipeline, SequenceTheorems, FiniteSetTheorems, TLAPS

(* A state lists a telescope once. *)
TelescopesOnce ==
  \A s \in States : \A i, j \in 1..Len(s) : s[i].tel = s[j].tel => i = j

(* The counting behind flags kept by place in a list instead of by what    *)
(* the place names: there are as many flags to wait for as boards that can *)
(* come, so when all flags are set all have come.                          *)
CountedOff(N, Places, at, Come) ==
  /\ N \in Nat
  /\ Places \subseteq 1..N
  /\ at \in [Places -> 1..N]
  /\ Come \subseteq {at[i] : i \in Places}
  /\ Places \subseteq Come

LEMMA ByPlace ==
  ASSUME NEW N, NEW Places, NEW at, NEW Come, CountedOff(N, Places, at, Come)
  PROVE  {at[i] : i \in Places} \subseteq Come
<1> USE DEF CountedOff
<1> DEFINE Present == {at[i] : i \in Places}
<1>1. IsFiniteSet(Places) /\ IsFiniteSet(Present) /\ IsFiniteSet(Come)
  <2>1. IsFiniteSet(1..N) /\ Present \subseteq 1..N
    BY FS_Interval
  <2>2. QED
    BY <2>1, FS_Subset
<1>2. at \in Surjection(Places, Present)
  BY DEF Surjection
<1>3. Cardinality(Present) <= Cardinality(Places)
  BY <1>1, <1>2, FS_Surjection
<1>4. Cardinality(Places) <= Cardinality(Come)
  BY <1>1, FS_Subset
<1>5. /\ Cardinality(Come) <= Cardinality(Present)
      /\ Cardinality(Come) = Cardinality(Present) => Come = Present
  BY <1>1, FS_Subset
<1>6. /\ Cardinality(Come) \in Nat /\ Cardinality(Present) \in Nat
      /\ Cardinality(Places) \in Nat
  BY <1>1, FS_CardinalityType
<1>7. QED
  BY <1>3, <1>4, <1>5, <1>6

-----------------------------------------------------------------------------

BuilderAt == {"gate", "take", "flush", "land", "full", "done"}
Frame == [tel : Tels, full : BOOLEAN, ages : [Poses -> Nat]]

Typed ==
  /\ state \in States
  /\ fragments \in [Tels -> Seq(Poses)]
  /\ builder \in [Tels -> BuilderAt]
  /\ current \in [Tels -> 0..NPos]
  /\ taken \in [Tels -> Nat]
  /\ present \in [Tels -> [Poses -> BOOLEAN]]
  /\ ages \in [Tels -> [Poses -> Nat]]
  /\ frames \in Seq(Frame)
  /\ gui \in {"start", "take", "write", "drain", "done"}
  /\ telsPresent \in [Tels -> BOOLEAN]
  /\ outGoing \in [Tels -> {"old", "new"}]

(* Only boards that are there send; what is queued or in hand is theirs. *)
OnlyBoardsSend ==
  \A t \in Tels :
    /\ \A p \in Poses : <<t, p>> \in sending => p \in BoardsOf(t)
    /\ \A k \in 1..Len(fragments[t]) : fragments[t][k] \in BoardsOf(t)
    /\ builder[t] \in {"flush", "land"} => current[t] \in BoardsOf(t)
    /\ builder[t] # "done" => t \in Running

(* No pixel is older than the count of fragments since the last frame, but *)
(* for the one fragment that a flush leaves in hand; and where something   *)
(* has been counted, something has landed.                                 *)
Young(t, n) == \A p \in Poses : ages[t][p] <= n

Counted(t) ==
  /\ builder[t] = "gate" => taken[t] = 0 /\ ages[t] = Dark
  /\ builder[t] \in {"take", "full"} => taken[t] <= FlushAfter /\ Young(t, taken[t] + 1)
  /\ builder[t] = "take" /\ taken[t] # 0 => ages[t] # Dark
  /\ builder[t] = "land" => taken[t] <= FlushAfter /\ Young(t, taken[t])
  /\ builder[t] = "flush" => taken[t] = FlushAfter + 1 /\ Young(t, taken[t])
  /\ builder[t] \in {"flush", "full"} => ages[t] # Dark

(* A flag is set from the start, or because its board's pixels are there. *)
Flagged(t) ==
  builder[t] # "done" =>
    /\ \A p \in Poses : present[t][p] <=> HarvestersMissing(t)[p] \/ ages[t][p] # 0
    /\ \A p \in Poses : ages[t][p] # 0 => p \in BoardsOf(t)
    /\ builder[t] = "full" => All(present[t])

BuilderInv == \A t \in Tels : Counted(t) /\ Flagged(t)

FramesInv == FrameIsFresh /\ \A k \in DOMAIN frames : frames[k].tel \in Running

GuiInv ==
  /\ \A t \in Tels : telsPresent[t] <=> TelescopesMissing[t] \/ outGoing[t] = "new"
  /\ \A t \in Tels : outGoing[t] = "new" => t \in Running
  /\ gui = "start" => outGoing = Blank
  /\ gui = "write" => All(telsPresent)
  /\ PanelsAreLive

PipelineInv == Typed /\ OnlyBoardsSend /\ BuilderInv /\ FramesInv /\ GuiInv

-----------------------------------------------------------------------------

LEMMA StateFacts ==
  ASSUME state \in States
  PROVE  /\ state \in Seq(TelRow)
         /\ Len(state) \in 0..NTel
         /\ \A i \in 1..Len(state) :
              /\ state[i] \in TelRow
              /\ state[i].boards \in Seq(Board)
              /\ Len(state[i].boards) \in 0..NPos
              /\ \A k \in 1..Len(state[i].boards) : state[i].boards[k] \in Board
<1>1. state \in Seq(TelRow) /\ Len(state) \in 0..NTel
  BY PipelineAssumption
<1>2. ASSUME NEW i \in 1..Len(state)
      PROVE  /\ state[i] \in TelRow
             /\ state[i].boards \in Seq(Board)
             /\ Len(state[i].boards) \in 0..NPos
             /\ \A k \in 1..Len(state[i].boards) : state[i].boards[k] \in Board
  <2>1. state[i] \in TelRow
    BY <1>1
  <2>2. state[i].boards \in Seq(Board)
    BY <2>1 DEF TelRow
  <2>3. Len(state[i].boards) <= NPos
    BY PipelineAssumption
  <2>4. QED
    BY <2>1, <2>2, <2>3, PipelineAssumption
<1>3. QED
  BY <1>1, <1>2

LEMMA FlagsTyped ==
  /\ \A t \in Tels : HarvestersMissing(t) \in [Poses -> BOOLEAN]
  /\ TelescopesMissing \in [Tels -> BOOLEAN]
  /\ Dark \in [Poses -> Nat]
  BY DEF HarvestersMissing, TelescopesMissing, Dark

LEMMA BoardsTyped ==
  ASSUME state \in States, NEW t \in Tels
  PROVE  BoardsOf(t) \subseteq Poses
<1> SUFFICES ASSUME NEW i \in Rows(t), NEW k \in 1..Len(state[i].boards)
             PROVE  state[i].boards[k].pos \in Poses
  BY DEF BoardsOf, Here
<1>1. state[i].boards[k] \in Board
  BY StateFacts DEF Rows
<1>2. QED
  BY <1>1 DEF Board

LEMMA StateKept ==
  ASSUME state' = state
  PROVE  /\ Running' = Running
         /\ TelescopesMissing' = TelescopesMissing
         /\ \A t : BoardsOf(t)' = BoardsOf(t) /\ HarvestersMissing(t)' = HarvestersMissing(t)
  BY DEF Running, Rows, TelescopesMissing, BoardsOf, HarvestersMissing

LEMMA InitTyped == Init => Typed
<1> SUFFICES ASSUME Init PROVE Typed
  OBVIOUS
<1>1. present \in [Tels -> [Poses -> BOOLEAN]]
  BY FlagsTyped DEF Init
<1>2. QED
  BY <1>1, FlagsTyped, PipelineAssumption DEF Init, Typed, BuilderAt, Blank

LEMMA NextTyped == Typed /\ [Next]_vars => Typed'
<1> SUFFICES ASSUME Typed, [Next]_vars PROVE Typed'
  OBVIOUS
<1> USE DEF Typed, runVars, camVars
<1>1. ASSUME NEW t \in Tels, BuilderStarts(t) \/ BuilderStops(t) PROVE Typed'
  BY <1>1 DEF BuilderStarts, BuilderStops, BuilderGoto, BuilderAt
<1>2. ASSUME NEW t \in Tels, Take(t) PROVE Typed'
  <2>1. fragments[t] \in Seq(Poses) /\ fragments[t] # <<>>
    BY <1>2 DEF Take
  <2>2. Head(fragments[t]) \in Poses /\ Tail(fragments[t]) \in Seq(Poses)
    BY <2>1, HeadTailProperties
  <2>3. fragments' \in [Tels -> Seq(Poses)]
    BY <1>2, <2>2 DEF Take
  <2>4. current' \in [Tels -> 0..NPos]
    BY <1>2, <2>2, PipelineAssumption DEF Take, Poses
  <2>5. taken' \in [Tels -> Nat] /\ builder' \in [Tels -> BuilderAt]
    BY <1>2 DEF Take, BuilderGoto, BuilderAt
  <2>6. QED
    BY <1>2, <2>3, <2>4, <2>5 DEF Take
<1>3. ASSUME NEW t \in Tels, Land(t) PROVE Typed'
  <2>1. Older(ages[t]) \in [Poses -> Nat]
    BY DEF Older
  <2>2. [Older(ages[t]) EXCEPT ![current[t]] = 1] \in [Poses -> Nat]
    BY <2>1
  <2>3. ages' \in [Tels -> [Poses -> Nat]]
    BY <1>3, <2>2 DEF Land
  <2>4. present' \in [Tels -> [Poses -> BOOLEAN]]
    BY <1>3 DEF Land
  <2>5. current' \in [Tels -> 0..NPos] /\ builder' \in [Tels -> BuilderAt]
    BY <1>3, PipelineAssumption DEF Land, BuilderGoto, BuilderAt
  <2>6. QED
    BY <1>3, <2>3, <2>4, <2>5 DEF Land
<1>4. ASSUME NEW t \in Tels, NEW from \in {"flush", "full"}, NEW to \in {"land", "take"},
             SendFrame(t, from, to)
      PROVE  Typed'
  <2>1. [tel |-> t, full |-> from = "full", ages |-> ages[t]] \in Frame
    BY DEF Frame
  <2>2. frames' \in Seq(Frame)
    BY <1>4, <2>1 DEF SendFrame
  <2>3. present' \in [Tels -> [Poses -> BOOLEAN]] /\ ages' \in [Tels -> [Poses -> Nat]]
    BY <1>4, FlagsTyped DEF SendFrame, Fresh
  <2>4. taken' \in [Tels -> Nat] /\ builder' \in [Tels -> BuilderAt]
    BY <1>4 DEF SendFrame, Fresh, BuilderGoto, BuilderAt
  <2>5. QED
    BY <1>4, <2>2, <2>3, <2>4 DEF SendFrame
<1>5. ASSUME NEW t \in Tels, NEW p \in Poses, Offer(t, p) PROVE Typed'
  BY <1>5 DEF Offer
<1>6. CASE Open \/ StopListening \/ Join \/ ShowDatagram \/ UNCHANGED vars
  BY <1>6 DEF Open, StopListening, Join, ShowDatagram, vars
<1>7. CASE GuiStarts \/ GuiStops \/ GuiDrain
  <2>1. CASE GuiStarts \/ GuiStops
    BY <2>1 DEF GuiStarts, GuiStops
  <2>2. CASE GuiDrain
    BY <2>2, EmptySeq DEF GuiDrain
  <2>3. QED
    BY <1>7, <2>1, <2>2
<1>8. CASE GuiTake
  <2>1. frames # <<>> /\ Head(frames) \in Frame /\ Tail(frames) \in Seq(Frame)
    BY <1>8, HeadTailProperties DEF GuiTake
  <2>2. QED
    BY <1>8, <2>1 DEF GuiTake, Frame
<1>9. CASE GuiWrite
  BY <1>9, FlagsTyped DEF GuiWrite, Blank
<1>10. QED
  BY <1>1, <1>2, <1>3, <1>4, <1>5, <1>6, <1>7, <1>8, <1>9 DEF Next, BuilderStep, GuiStep

LEMMA InitOnlyBoards == Init => OnlyBoardsSend
<1> SUFFICES ASSUME Init, NEW t \in Tels
             PROVE  /\ \A p \in Poses : <<t, p>> \in sending => p \in BoardsOf(t)
                    /\ \A k \in 1..Len(fragments[t]) : fragments[t][k] \in BoardsOf(t)
                    /\ builder[t] \in {"flush", "land"} => current[t] \in BoardsOf(t)
                    /\ builder[t] # "done" => t \in Running
  BY DEF OnlyBoardsSend
<1>1. \A p \in Poses : <<t, p>> \in sending => p \in BoardsOf(t)
  BY DEF Init
<1>2. fragments[t] = <<>>
  BY DEF Init
<1>3. builder[t] \in {"gate", "done"} /\ (builder[t] # "done" => t \in Running)
  BY DEF Init
<1>4. QED
  BY <1>1, <1>2, <1>3

LEMMA StateHolds == [Next]_vars => state' = state /\ sending' = sending
  BY DEF Next, Open, StopListening, Join, BuilderStep, BuilderStarts, BuilderStops, Take, Land,
         SendFrame, Offer, GuiStep, GuiStarts, GuiStops, GuiTake, GuiWrite, GuiDrain, ShowDatagram,
         vars, runVars

LEMMA NextOnlyBoards == Typed /\ OnlyBoardsSend /\ [Next]_vars => OnlyBoardsSend'
<1> SUFFICES ASSUME Typed, OnlyBoardsSend, [Next]_vars, NEW u \in Tels
             PROVE  (/\ \A p \in Poses : <<u, p>> \in sending => p \in BoardsOf(u)
                     /\ \A k \in 1..Len(fragments[u]) : fragments[u][k] \in BoardsOf(u)
                     /\ builder[u] \in {"flush", "land"} => current[u] \in BoardsOf(u)
                     /\ builder[u] # "done" => u \in Running)'
  BY DEF OnlyBoardsSend
<1> USE DEF Typed, OnlyBoardsSend, runVars, camVars
<1>0. state' = state /\ sending' = sending
  BY StateHolds
<1>1. Running' = Running /\ BoardsOf(u)' = BoardsOf(u)
  BY <1>0, StateKept
<1>2. CASE UNCHANGED <<fragments, builder, current>>
  BY <1>0, <1>1, <1>2
<1>3. ASSUME NEW t \in Tels, BuilderStarts(t) \/ BuilderStops(t)
      PROVE  UNCHANGED <<fragments, current>> /\ builder'[u] \in {builder[u], "take", "done"}
             /\ (builder[u] = "done" => builder'[u] = "done")
  BY <1>3 DEF BuilderStarts, BuilderStops, BuilderGoto
<1>4. ASSUME NEW t \in Tels, Take(t), u = t
      PROVE  /\ \A k \in 1..Len(fragments'[u]) : fragments'[u][k] \in BoardsOf(u)
             /\ current'[u] \in BoardsOf(u) /\ u \in Running
  <2>1. fragments[u] \in Seq(Poses) /\ fragments[u] # <<>>
    BY <1>4 DEF Take
  <2>2. fragments'[u] = Tail(fragments[u]) /\ current'[u] = Head(fragments[u]) /\ builder[u] = "take"
    BY <1>4 DEF Take, BuilderGoto
  <2>3. Head(fragments[u]) = fragments[u][1] /\ 1 \in 1..Len(fragments[u])
    BY <2>1
  <2>4. \A k \in 1..Len(Tail(fragments[u])) :
          Tail(fragments[u])[k] = fragments[u][k + 1] /\ k + 1 \in 1..Len(fragments[u])
    BY <2>1, HeadTailProperties
  <2>5. QED
    BY <2>2, <2>3, <2>4
<1>5. ASSUME NEW t \in Tels, Take(t) \/ Land(t), u # t
      PROVE  fragments'[u] = fragments[u] /\ current'[u] = current[u] /\ builder'[u] = builder[u]
  BY <1>5 DEF Take, Land, BuilderGoto
<1>6. ASSUME NEW t \in Tels, Land(t), u = t
      PROVE  fragments' = fragments /\ builder[u] = "land" /\ builder'[u] \in {"full", "take"}
  BY <1>6 DEF Land, BuilderGoto
<1>7. ASSUME NEW t \in Tels, SendFrame(t, "flush", "land") \/ SendFrame(t, "full", "take")
      PROVE  /\ UNCHANGED <<fragments, current>>
             /\ \/ builder'[u] = builder[u]
                \/ builder[u] = "flush" /\ builder'[u] = "land"
                \/ builder[u] = "full" /\ builder'[u] = "take"
  BY <1>7 DEF SendFrame, BuilderGoto
<1>8. ASSUME NEW t \in Tels, NEW p \in Poses, Offer(t, p)
      PROVE  /\ UNCHANGED <<builder, current>>
             /\ \A k \in 1..Len(fragments'[u]) : fragments'[u][k] \in BoardsOf(u)
  <2>1. UNCHANGED <<builder, current>> /\ fragments[u] \in Seq(Poses) /\ <<t, p>> \in sending
    BY <1>8 DEF Offer
  <2>2. fragments'[u] = IF u = t THEN Append(fragments[u], p) ELSE fragments[u]
    BY <1>8 DEF Offer
  <2>3. u = t => p \in BoardsOf(u)
    BY <2>1
  <2>4. QED
    BY <2>1, <2>2, <2>3, AppendProperties
<1>9. QED
  BY <1>0, <1>1, <1>2, <1>3, <1>4, <1>5, <1>6, <1>7, <1>8
     DEF Next, Open, StopListening, Join, BuilderStep, GuiStep, GuiStarts, GuiStops, GuiTake,
         GuiWrite, GuiDrain, ShowDatagram, vars

LEMMA InitBuilder == Init => BuilderInv
<1> SUFFICES ASSUME Init, NEW t \in Tels PROVE Counted(t) /\ Flagged(t)
  BY DEF BuilderInv
<1>1. builder[t] \in {"gate", "done"} /\ taken[t] = 0 /\ ages[t] = Dark
  BY DEF Init
<1>2. builder[t] # "done" => t \in Running /\ present[t] = HarvestersMissing(t)
  BY DEF Init
<1>3. \A p \in Poses : Dark[p] = 0
  BY DEF Dark
<1>4. QED
  BY <1>1, <1>2, <1>3, FlagsTyped DEF Counted, Flagged

LEMMA BuilderKept ==
  ASSUME Typed, [Next]_vars, NEW u \in Tels, Counted(u), Flagged(u),
         builder'[u] = builder[u] \/ builder'[u] = "done"
            \/ (builder[u] = "gate" /\ builder'[u] = "take"),
         taken'[u] = taken[u], present'[u] = present[u], ages'[u] = ages[u]
  PROVE  Counted(u)' /\ Flagged(u)'
<1>1. BoardsOf(u)' = BoardsOf(u) /\ HarvestersMissing(u)' = HarvestersMissing(u) /\ Dark' = Dark
  BY StateHolds, StateKept DEF Dark
<1>2. FlushAfter \in Nat /\ \A p \in Poses : Dark[p] = 0
  BY PipelineAssumption DEF Dark
<1>3. Counted(u)'
  BY <1>1, <1>2 DEF Counted, Young
<1>4. Flagged(u)'
  BY <1>1 DEF Flagged
<1>5. QED
  BY <1>3, <1>4

LEMMA TakeBuilder ==
  ASSUME Typed, NEW u \in Tels, Counted(u), Flagged(u), Take(u)
  PROVE  Counted(u)' /\ Flagged(u)'
<1> USE DEF Typed, runVars
<1>1. /\ builder[u] = "take" /\ taken'[u] = taken[u] + 1 /\ UNCHANGED <<state, present, ages>>
      /\ builder'[u] = IF taken[u] + 1 > FlushAfter THEN "flush" ELSE "land"
  BY DEF Take, BuilderGoto
<1>2. taken[u] \in Nat /\ FlushAfter \in Nat \ {0} /\ taken[u] <= FlushAfter
  BY <1>1, PipelineAssumption DEF Counted
<1>3. Counted(u)'
  BY <1>1, <1>2 DEF Counted, Young, Dark
<1>4. Flagged(u)'
  BY <1>1, StateKept DEF Flagged
<1>5. QED
  BY <1>3, <1>4

LEMMA LandBuilder ==
  ASSUME Typed, OnlyBoardsSend, NEW u \in Tels, Counted(u), Flagged(u), Land(u)
  PROVE  Counted(u)' /\ Flagged(u)'
<1> DEFINE c == current[u]
<1> USE DEF Typed, runVars
<1>1. /\ builder[u] = "land" /\ UNCHANGED <<state, taken>>
      /\ ages'[u] = [Older(ages[u]) EXCEPT ![c] = 1]
      /\ present'[u] = [present[u] EXCEPT ![c] = TRUE]
      /\ builder'[u] = IF All(present'[u]) THEN "full" ELSE "take"
  BY DEF Land, BuilderGoto
<1>2. c \in BoardsOf(u) /\ c \in Poses
  BY <1>1, BoardsTyped DEF OnlyBoardsSend
<1>3. taken[u] \in Nat /\ taken[u] <= FlushAfter /\ Young(u, taken[u]) /\ FlushAfter \in Nat
  BY <1>1, PipelineAssumption DEF Counted
<1>4. ages[u] \in [Poses -> Nat] /\ present[u] \in [Poses -> BOOLEAN]
  OBVIOUS
<1>5. ages'[u][c] = 1 /\ present'[u][c] = TRUE
  BY <1>1, <1>2, <1>4 DEF Older
<1>6. ASSUME NEW p \in Poses, p # c
      PROVE  /\ ages'[u][p] = IF ages[u][p] = 0 THEN 0 ELSE ages[u][p] + 1
             /\ present'[u][p] = present[u][p]
  BY <1>1, <1>2, <1>4, <1>6 DEF Older
<1>7. \A p \in Poses : ages'[u][p] <= taken[u] + 1
  <2> SUFFICES ASSUME NEW p \in Poses PROVE ages'[u][p] <= taken[u] + 1
    OBVIOUS
  <2>1. ages[u][p] \in Nat /\ ages[u][p] <= taken[u]
    BY <1>3, <1>4 DEF Young
  <2>2. CASE p = c
    BY <1>3, <1>5, <2>2
  <2>3. CASE p # c
    BY <1>3, <1>6, <2>1, <2>3
  <2>4. QED
    BY <2>2, <2>3
<1>8. ages'[u] # Dark
  BY <1>2, <1>5 DEF Dark
<1>9. Counted(u)'
  BY <1>1, <1>3, <1>7, <1>8 DEF Counted, Young, Dark
<1>10. Flagged(u)'
  <2>1. BoardsOf(u)' = BoardsOf(u) /\ HarvestersMissing(u)' = HarvestersMissing(u)
    BY <1>1, StateKept
  <2>2. ASSUME NEW p \in Poses
        PROVE  /\ present'[u][p] <=> HarvestersMissing(u)[p] \/ ages'[u][p] # 0
               /\ ages'[u][p] # 0 => p \in BoardsOf(u)
    <3>1. ages[u][p] \in Nat
      BY <1>4
    <3>2. /\ present[u][p] <=> HarvestersMissing(u)[p] \/ ages[u][p] # 0
          /\ ages[u][p] # 0 => p \in BoardsOf(u)
      BY <1>1 DEF Flagged
    <3>3. CASE p = c
      BY <1>2, <1>5, <3>3
    <3>4. CASE p # c
      BY <1>6, <3>1, <3>2, <3>4
    <3>5. QED
      BY <3>3, <3>4
  <2>3. QED
    BY <1>1, <2>1, <2>2 DEF Flagged, All
<1>11. QED
  BY <1>9, <1>10

LEMMA SendBuilder ==
  ASSUME Typed, NEW u \in Tels, Counted(u), Flagged(u),
         SendFrame(u, "flush", "land") \/ SendFrame(u, "full", "take")
  PROVE  Counted(u)' /\ Flagged(u)'
<1> USE DEF Typed, runVars
<1>1. /\ builder[u] # "done" /\ builder'[u] \in {"land", "take"} /\ state' = state
      /\ taken'[u] = 0 /\ present'[u] = HarvestersMissing(u) /\ ages'[u] = Dark
  BY DEF SendFrame, BuilderGoto, Fresh
<1>2. \A p \in Poses : Dark[p] = 0
  BY DEF Dark
<1>3. Counted(u)'
  BY <1>1, <1>2, PipelineAssumption DEF Counted, Young
<1>4. Flagged(u)'
  BY <1>1, <1>2, StateKept, FlagsTyped DEF Flagged
<1>5. QED
  BY <1>3, <1>4

LEMMA NextBuilder ==
  Typed /\ OnlyBoardsSend /\ BuilderInv /\ [Next]_vars => BuilderInv'
<1> SUFFICES ASSUME Typed, OnlyBoardsSend, BuilderInv, [Next]_vars, NEW u \in Tels
             PROVE  Counted(u)' /\ Flagged(u)'
  BY DEF BuilderInv
<1> USE DEF Typed, runVars, camVars
<1>1. Counted(u) /\ Flagged(u)
  BY DEF BuilderInv
<1>2. CASE UNCHANGED <<builder, taken, present, ages>>
  BY <1>1, <1>2, BuilderKept
<1>3. ASSUME NEW t \in Tels, BuilderStarts(t) \/ BuilderStops(t)
      PROVE  Counted(u)' /\ Flagged(u)'
  BY <1>1, <1>3, BuilderKept DEF BuilderStarts, BuilderStops, BuilderGoto
<1>4. ASSUME NEW t \in Tels, u # t,
             \/ Take(t) \/ Land(t)
             \/ SendFrame(t, "flush", "land") \/ SendFrame(t, "full", "take")
      PROVE  Counted(u)' /\ Flagged(u)'
  <2>1. /\ builder'[u] = builder[u] /\ taken'[u] = taken[u]
        /\ present'[u] = present[u] /\ ages'[u] = ages[u]
    BY <1>4 DEF Take, Land, SendFrame, Fresh, BuilderGoto
  <2>2. QED
    BY <1>1, <2>1, BuilderKept
<1>5. CASE \/ Take(u) \/ Land(u)
           \/ SendFrame(u, "flush", "land") \/ SendFrame(u, "full", "take")
  BY <1>1, <1>5, TakeBuilder, LandBuilder, SendBuilder
<1>6. QED
  BY <1>2, <1>3, <1>4, <1>5
     DEF Next, Open, StopListening, Join, Offer, BuilderStep, GuiStep, GuiStarts, GuiStops, GuiTake,
         GuiWrite, GuiDrain, ShowDatagram, vars

-----------------------------------------------------------------------------
(* Frames *)

(* What a builder about to send has. *)
LEMMA ReadyFrame ==
  ASSUME Typed, OnlyBoardsSend, NEW t \in Tels, Counted(t), builder[t] \in {"flush", "full"}
  PROVE  t \in Running /\ ages[t] # Dark /\ Young(t, FlushAfter + 1)
<1>1. t \in Running /\ ages[t] # Dark
  BY DEF OnlyBoardsSend, Counted
<1>2. taken[t] \in Nat /\ FlushAfter \in Nat /\ ages[t] \in [Poses -> Nat]
  BY PipelineAssumption DEF Typed
<1>3. CASE builder[t] = "flush"
  BY <1>1, <1>3 DEF Counted
<1>4. CASE builder[t] = "full"
  <2>1. taken[t] + 1 <= FlushAfter + 1 /\ Young(t, taken[t] + 1)
    BY <1>2, <1>4 DEF Counted
  <2>2. QED
    BY <1>1, <1>2, <2>1 DEF Young
<1>5. QED
  BY <1>3, <1>4

(* A frame in the queue was there before or is what a builder sends. *)
LEMMA NewFrames ==
  ASSUME Typed, [Next]_vars, NEW k \in DOMAIN frames'
  PROVE  \/ \E j \in DOMAIN frames : frames'[k] = frames[j]
         \/ \E t \in Tels, at \in {"flush", "full"} :
              /\ builder[t] = at
              /\ frames'[k] = [tel |-> t, full |-> at = "full", ages |-> ages[t]]
<1> USE DEF Typed, runVars, camVars
<1>1. CASE UNCHANGED frames
  BY <1>1
<1>2. ASSUME NEW t \in Tels, NEW at \in {"flush", "full"}, NEW to, SendFrame(t, at, to)
      PROVE  \/ \E j \in DOMAIN frames : frames'[k] = frames[j]
             \/ /\ builder[t] = at
                /\ frames'[k] = [tel |-> t, full |-> at = "full", ages |-> ages[t]]
  <2> DEFINE f == [tel |-> t, full |-> at = "full", ages |-> ages[t]]
  <2>1. frames' = Append(frames, f) /\ builder[t] = at
    BY <1>2 DEF SendFrame, BuilderGoto
  <2>2. f \in Frame
    BY DEF Frame
  <2>3. /\ Len(frames') = Len(frames) + 1
        /\ \A j \in 1..Len(frames) : frames'[j] = frames[j]
        /\ frames'[Len(frames) + 1] = f
        /\ frames' \in Seq(Frame)
    BY <2>1, <2>2, AppendProperties
  <2>4. k \in 1..Len(frames) \/ k = Len(frames) + 1
    BY <2>3
  <2>5. QED
    BY <2>1, <2>3, <2>4
<1>3. CASE GuiTake
  <2>1. frames # <<>> /\ frames' = Tail(frames)
    BY <1>3 DEF GuiTake
  <2>2. frames'[k] = frames[k + 1] /\ k + 1 \in DOMAIN frames
    BY <2>1, HeadTailProperties
  <2>3. QED
    BY <2>2
<1>4. CASE GuiDrain
  BY <1>4 DEF GuiDrain
<1>5. QED
  BY <1>1, <1>2, <1>3, <1>4
     DEF Next, Open, StopListening, Join, Offer, BuilderStep, BuilderStarts, BuilderStops, Take,
         Land, GuiStep, GuiStarts, GuiStops, GuiWrite, ShowDatagram, vars

LEMMA NextFrames ==
  Typed /\ OnlyBoardsSend /\ BuilderInv /\ FramesInv /\ [Next]_vars => FramesInv'
<1> SUFFICES ASSUME Typed, OnlyBoardsSend, BuilderInv, FramesInv, [Next]_vars,
                    NEW k \in DOMAIN frames'
             PROVE  /\ frames'[k].ages # Dark
                    /\ \A p \in Poses : frames'[k].ages[p] <= FlushAfter + 1
                    /\ frames'[k].tel \in Running
  BY StateHolds, StateKept DEF FramesInv, FrameIsFresh, Dark
<1>1. ASSUME NEW j \in DOMAIN frames, frames'[k] = frames[j]
      PROVE  /\ frames'[k].ages # Dark
             /\ \A p \in Poses : frames'[k].ages[p] <= FlushAfter + 1
             /\ frames'[k].tel \in Running
  BY <1>1 DEF FramesInv, FrameIsFresh
<1>2. ASSUME NEW t \in Tels, NEW at \in {"flush", "full"}, builder[t] = at,
             frames'[k] = [tel |-> t, full |-> at = "full", ages |-> ages[t]]
      PROVE  /\ frames'[k].ages # Dark
             /\ \A p \in Poses : frames'[k].ages[p] <= FlushAfter + 1
             /\ frames'[k].tel \in Running
  BY <1>2, ReadyFrame DEF BuilderInv, Young
<1>3. QED
  BY <1>1, <1>2, NewFrames

(* When no flag is left to wait for, every board has come. *)
LEMMA FullIsFull ==
  ASSUME TelescopesOnce, Typed, NEW t \in Running, Flagged(t), builder[t] = "full"
  PROVE  \A p \in BoardsOf(t) : ages[t][p] # 0
<1> USE DEF Typed
<1>1. PICK i \in Rows(t) : TRUE
  BY DEF Running
<1>2. i \in 1..Len(state) /\ state[i].tel = t /\ t \in Tels
  BY DEF Rows, Running
<1>3. \A j \in 1..Len(state) : state[j].tel = t => j = i
  BY <1>2 DEF TelescopesOnce
<1> DEFINE boards == state[i].boards
           Places == {k \in 1..Len(boards) : ~boards[k].missing}
           at == [k \in Places |-> boards[k].pos]
           Come == {p \in Poses : ages[t][p] # 0}
<1>4. Rows(t) = {i}
  BY <1>2, <1>3 DEF Rows
<1>5. BoardsOf(t) = {at[k] : k \in Places}
  <2>1. BoardsOf(t) = Here(boards)
    BY <1>4 DEF BoardsOf
  <2>2. Here(boards) = {at[k] : k \in Places}
    BY DEF Here
  <2>3. QED
    BY <2>1, <2>2
<1>6. HarvestersMissing(t) = [p \in Poses |-> p <= Len(boards) /\ boards[p].missing]
  BY <1>2, <1>3 DEF HarvestersMissing
<1>7. Len(boards) \in 0..NPos /\ \A k \in 1..Len(boards) : boards[k] \in Board
  BY <1>2, StateFacts
<1>8. NPos \in Nat /\ Places \subseteq 1..NPos /\ at \in [Places -> 1..NPos]
  BY <1>7, PipelineAssumption DEF Board, Poses
<1>9. Come \subseteq {at[k] : k \in Places}
  BY <1>5 DEF Flagged
<1>10. Places \subseteq Come
  <2> SUFFICES ASSUME NEW p \in Places, p \notin Come PROVE FALSE
    OBVIOUS
  <2>1. p \in Poses /\ present[t][p]
    BY <1>2, <1>8 DEF Flagged, All, Poses
  <2>2. HarvestersMissing(t)[p]
    BY <2>1 DEF Flagged
  <2>3. QED
    BY <1>6, <2>1, <2>2
<1> HIDE DEF Come, at, Places
<1>11. {at[k] : k \in Places} \subseteq Come
  <2>1. CountedOff(NPos, Places, at, Come)
    BY <1>8, <1>9, <1>10 DEF CountedOff
  <2>2. QED
    BY <2>1, ByPlace
<1>12. QED
  BY <1>5, <1>11 DEF Come

LEMMA NextFull ==
  ASSUME TelescopesOnce, Typed, OnlyBoardsSend, BuilderInv, FullFrameHasAllBoards, [Next]_vars
  PROVE  FullFrameHasAllBoards'
<1> SUFFICES ASSUME NEW k \in DOMAIN frames', frames'[k].full
             PROVE  \A p \in BoardsOf(frames'[k].tel) : frames'[k].ages[p] # 0
  BY StateHolds, StateKept DEF FullFrameHasAllBoards
<1>1. ASSUME NEW j \in DOMAIN frames, frames'[k] = frames[j]
      PROVE  \A p \in BoardsOf(frames'[k].tel) : frames'[k].ages[p] # 0
  BY <1>1 DEF FullFrameHasAllBoards
<1>2. ASSUME NEW t \in Tels, NEW at \in {"flush", "full"}, builder[t] = at,
             frames'[k] = [tel |-> t, full |-> at = "full", ages |-> ages[t]]
      PROVE  \A p \in BoardsOf(frames'[k].tel) : frames'[k].ages[p] # 0
  <2>1. frames'[k].tel = t /\ frames'[k].ages = ages[t]
    BY <1>2
  <2>2. at # "flush"
    <3> SUFFICES ASSUME at = "flush" PROVE FALSE
      OBVIOUS
    <3>1. frames'[k] = [tel |-> t, full |-> FALSE, ages |-> ages[t]]
      BY <1>2
    <3>2. QED
      BY <3>1
  <2>3. builder[t] = "full"
    BY <1>2, <2>2
  <2>4. t \in Running /\ Flagged(t)
    BY <2>3 DEF BuilderInv, OnlyBoardsSend
  <2>5. QED
    BY <2>1, <2>3, <2>4, FullIsFull
<1>3. QED
  BY <1>1, <1>2, NewFrames

-----------------------------------------------------------------------------
(* Datagrams *)

LEMMA InitGui == Init => GuiInv
<1> SUFFICES ASSUME Init PROVE GuiInv
  OBVIOUS
<1>1. /\ gui = "start" /\ outGoing = Blank /\ waiting = NoDatagram
      /\ telsPresent = TelescopesMissing
  BY DEF Init
<1>2. \A t \in Tels : outGoing[t] = "old"
  BY <1>1 DEF Blank
<1>3. QED
  BY <1>1, <1>2, FlagsTyped DEF GuiInv, PanelsAreLive

(* When no telescope is left to wait for, all that run have come. *)
LEMMA AllCame ==
  ASSUME Typed, GuiInv, All(telsPresent)
  PROVE  \A t \in Running : outGoing[t] = "new"
<1> USE DEF Typed
<1> DEFINE Places == {k \in 1..Len(state) : ~state[k].missing}
           at == [k \in Places |-> state[k].tel]
           Come == {t \in Tels : outGoing[t] = "new"}
<1>1. Len(state) \in 0..NTel /\ \A k \in 1..Len(state) : state[k].tel \in Tels
  BY StateFacts DEF TelRow
<1>2. NTel \in Nat /\ Places \subseteq 1..NTel /\ at \in [Places -> 1..NTel]
  BY <1>1, PipelineAssumption DEF Tels
<1>3. Running = {at[k] : k \in Places}
  BY <1>1 DEF Running, Rows
<1>4. Come \subseteq {at[k] : k \in Places}
  BY <1>3 DEF GuiInv
<1>5. Places \subseteq Come
  <2> SUFFICES ASSUME NEW k \in Places PROVE k \in Come
    OBVIOUS
  <2>1. k \in Tels /\ telsPresent[k]
    BY <1>2 DEF All, Tels
  <2>2. ~TelescopesMissing[k]
    BY <2>1 DEF TelescopesMissing
  <2>3. QED
    BY <2>1, <2>2 DEF GuiInv
<1> HIDE DEF Come, at, Places
<1>6. CountedOff(NTel, Places, at, Come)
  BY <1>2, <1>4, <1>5 DEF CountedOff
<1>7. Running \subseteq Come
  BY <1>3, <1>6, ByPlace
<1>8. QED
  BY <1>7 DEF Come

LEMMA NextGui == Typed /\ FramesInv /\ GuiInv /\ [Next]_vars => GuiInv'
<1> SUFFICES ASSUME Typed, FramesInv, GuiInv, [Next]_vars PROVE GuiInv'
  OBVIOUS
<1> USE DEF Typed, runVars, camVars
<1>0. /\ Running' = Running /\ TelescopesMissing' = TelescopesMissing
      /\ Blank' = Blank /\ NoDatagram' = NoDatagram
  BY StateHolds, StateKept DEF Blank, NoDatagram
<1>1. CASE UNCHANGED <<gui, telsPresent, outGoing, waiting>>
  BY <1>0, <1>1 DEF GuiInv, PanelsAreLive
<1>2. CASE GuiStarts
  BY <1>0, <1>2 DEF GuiStarts, GuiInv, PanelsAreLive
<1>3. CASE GuiStops \/ GuiDrain
  BY <1>0, <1>3 DEF GuiStops, GuiDrain, GuiInv, PanelsAreLive
<1>4. CASE ShowDatagram
  BY <1>0, <1>4 DEF ShowDatagram, GuiInv, PanelsAreLive
<1>5. CASE GuiTake
  <2> DEFINE tel == Head(frames).tel
  <2>1. /\ outGoing' = [outGoing EXCEPT ![tel] = "new"]
        /\ telsPresent' = [telsPresent EXCEPT ![tel] = TRUE]
        /\ gui' = IF All(telsPresent') THEN "write" ELSE "take"
        /\ UNCHANGED waiting /\ frames # <<>>
    BY <1>5 DEF GuiTake
  <2>2. Head(frames) = frames[1] /\ 1 \in DOMAIN frames
    BY <2>1
  <2>3. tel \in Running /\ tel \in Tels
    BY <2>2 DEF FramesInv, Running
  <2>4. \A t \in Tels : /\ outGoing'[t] = IF t = tel THEN "new" ELSE outGoing[t]
                        /\ telsPresent'[t] = IF t = tel THEN TRUE ELSE telsPresent[t]
    BY <2>1, <2>3
  <2> HIDE DEF tel
  <2>5. \A t \in Tels : telsPresent'[t] <=> TelescopesMissing[t] \/ outGoing'[t] = "new"
    BY <2>4 DEF GuiInv
  <2>6. \A t \in Tels : outGoing'[t] = "new" => t \in Running
    BY <2>3, <2>4 DEF GuiInv
  <2>7. QED
    BY <1>0, <2>1, <2>5, <2>6 DEF GuiInv, PanelsAreLive
<1>6. CASE GuiWrite
  <2>1. /\ gui = "write" /\ gui' = "drain"
        /\ waiting' = outGoing \/ waiting' = waiting
        /\ outGoing' = Blank /\ telsPresent' = TelescopesMissing
    BY <1>6 DEF GuiWrite
  <2>2. \A t \in Running : outGoing[t] = "new"
    BY <2>1, AllCame DEF GuiInv
  <2>3. \A t \in Tels : outGoing'[t] = "old"
    BY <2>1 DEF Blank
  <2>4. PanelsAreLive'
    BY <1>0, <2>1, <2>2 DEF GuiInv, PanelsAreLive
  <2>5. QED
    BY <1>0, <2>1, <2>3, <2>4, FlagsTyped DEF GuiInv
<1>7. QED
  BY <1>1, <1>2, <1>3, <1>4, <1>5, <1>6
     DEF Next, Open, StopListening, Join, Offer, BuilderStep, BuilderStarts, BuilderStops, Take,
         Land, SendFrame, GuiStep, vars

-----------------------------------------------------------------------------

(* The bookkeeping behind the theorems below. *)
THEOREM PipelineInvariant == Spec => []PipelineInv
<1>1. Init => PipelineInv
  <2>1. Init => FramesInv
    BY DEF Init, FramesInv, FrameIsFresh
  <2>2. QED
    BY <2>1, InitTyped, InitOnlyBoards, InitBuilder, InitGui DEF PipelineInv
<1>2. PipelineInv /\ [Next]_vars => PipelineInv'
  BY NextTyped, NextOnlyBoards, NextBuilder, NextFrames, NextGui DEF PipelineInv
<1>3. QED
  BY <1>1, <1>2, PTL DEF Spec

(* No frame shows two boards' events more than FlushAfter + 1 fragments    *)
(* apart, and none is dark all over.                                       *)
THEOREM FramesFresh == Spec => []FrameIsFresh
<1>1. PipelineInv => FrameIsFresh
  BY DEF PipelineInv, FramesInv
<1>2. QED
  BY <1>1, PipelineInvariant, PTL

(* A frame sent as complete has every board that is not missing, although  *)
(* the flags it was counted with are kept by place in the list.            *)
THEOREM FullFrames == ASSUME TelescopesOnce PROVE Spec => []FullFrameHasAllBoards
<1>1. Init => FullFrameHasAllBoards
  BY DEF Init, FullFrameHasAllBoards
<1>2. PipelineInv /\ FullFrameHasAllBoards /\ [Next]_vars => FullFrameHasAllBoards'
  BY TelescopesOnce, NextFull DEF PipelineInv
<1>3. QED
  BY <1>1, <1>2, PipelineInvariant, PTL DEF Spec

(* Every panel of a datagram is a frame that came since the last one.      *)
THEOREM LivePanels == Spec => []PanelsAreLive
<1>1. PipelineInv => PanelsAreLive
  BY DEF PipelineInv, GuiInv
<1>2. QED
  BY <1>1, PipelineInvariant, PTL

-----------------------------------------------------------------------------
(* The order of the pixels (Formats) *)

(* Where pixel k of a panel is read, there is pixel k of that panel's      *)
(* telescope and of no other.                                              *)
LEMMA ReadWhereSent ==
  ASSUME NEW t \in 1..4, NEW s \in 1..4, NEW k \in PanelPixels
  PROVE  LET j == (ReadFrom(s, k) - SentAt(t, 0)) \div 4
         IN  /\ j = 500 * (s - t) + k
             /\ SentAt(t, j) = ReadFrom(s, k)
<1>1. PanelStart(s) = 500 * (s - 1)
  <2>1. s = 1 \/ s = 2 \/ s = 3 \/ s = 4
    OBVIOUS
  <2>2. QED
    BY <2>1 DEF PanelStart
<1>2. k \in Int
  BY DEF PanelPixels
<1>3. ReadFrom(s, k) = 4 * (500 * (s - 1) + k)
  BY <1>1 DEF ReadFrom
<1>4. ReadFrom(s, k) - SentAt(t, 0) = 4 * (500 * (s - t) + k)
  BY <1>2, <1>3 DEF SentAt, GetTelescopeSendByteOffset
<1>5. (4 * (500 * (s - t) + k)) \div 4 = 500 * (s - t) + k
  BY <1>2
<1>6. SentAt(t, 500 * (s - t) + k) = 4 * (500 * (s - 1) + k)
  BY <1>2 DEF SentAt, GetTelescopeSendByteOffset
<1>7. QED
  BY <1>3, <1>4, <1>5, <1>6

(* The copy out of the padded array puts board h where it sits. *)
LEMMA CopiedWhereItSits ==
  ASSUME NEW h \in Boards
  PROVE  {k \in PanelPixels : ExtractRelevantPixels[k] \in ChannelRange(h)} = PixelIndex[h + 1]
<1> SUFFICES ASSUME NEW k \in PanelPixels
             PROVE  /\ ExtractRelevantPixels[k] \in ChannelRange(h) <=> k \in PixelIndex[h + 1]
                    /\ PixelIndex[h + 1] \subseteq PanelPixels
  <2>1. PanelPixels # {}
    BY DEF PanelPixels
  <2> QED BY <2>1
<1>1. k \in 0..498 /\ k \in 0..499
  BY DEF PanelPixels
<1>2. ExtractRelevantPixels[k] = 
        CASE k < 130 -> k
          [] k \in 130 .. 249 -> k + 10
          [] k \in 250 .. 379 -> k + 30
          [] OTHER -> k + 40
  BY <1>1 DEF ExtractRelevantPixels
<1>3. \/ k < 130 /\ ExtractRelevantPixels[k] = k
      \/ k \in 130..249 /\ ExtractRelevantPixels[k] = k + 10
      \/ k \in 250..379 /\ ExtractRelevantPixels[k] = k + 30
      \/ k \in 380..498 /\ ExtractRelevantPixels[k] = k + 40
  BY <1>1, <1>2
<1>4. h = 0 \/ h = 1 \/ h = 2 \/ h = 3 \/ h = 4 \/ h = 5 \/ h = 6 \/ h = 7
  BY DEF Boards
<1>5. PixelIndex[h + 1] \subseteq PanelPixels
  BY <1>4 DEF PixelIndex, PanelPixels
<1>6. ExtractRelevantPixels[k] \in ChannelRange(h) <=> ExtractRelevantPixels[k] \in 70 * h .. 70 * h + 69
  BY DEF ChannelRange
<1>7. ExtractRelevantPixels[k] \in 70 * h .. 70 * h + 69 <=> k \in PixelIndex[h + 1]
  <2>1. CASE h = 0
    BY <1>1, <1>3, <2>1 DEF PixelIndex
  <2>2. CASE h = 1
    BY <1>1, <1>3, <2>2 DEF PixelIndex
  <2>3. CASE h = 2
    BY <1>1, <1>3, <2>3 DEF PixelIndex
  <2>4. CASE h = 3
    BY <1>1, <1>3, <2>4 DEF PixelIndex
  <2>5. CASE h = 4
    BY <1>1, <1>3, <2>5 DEF PixelIndex
  <2>6. CASE h = 5
    BY <1>1, <1>3, <2>6 DEF PixelIndex
  <2>7. CASE h = 6
    BY <1>1, <1>3, <2>7 DEF PixelIndex
  <2>8. CASE h = 7
    BY <1>1, <1>3, <2>8 DEF PixelIndex
  <2>9. QED
    BY <1>4, <2>1, <2>2, <2>3, <2>4, <2>5, <2>6, <2>7, <2>8
<1>8. QED
  BY <1>5, <1>6, <1>7

LEMMA PanelsShow == PanelsShowTheirTelescopes
<1> SUFFICES ASSUME NEW t \in 1..4, NEW s \in 1..4, NEW h \in Boards
             PROVE  ShownAt(t, h, s) = IF s = t THEN PixelIndex[h + 1] ELSE {}
  BY DEF PanelsShowTheirTelescopes
<1> DEFINE At(k) == (ReadFrom(s, k) - SentAt(t, 0)) \div 4
<1>1. \A k \in PanelPixels : At(k) = 500 * (s - t) + k /\ SentAt(t, At(k)) = ReadFrom(s, k)
  BY ReadWhereSent
<1>2. \A k \in PanelPixels : k \in 0..498
  BY DEF PanelPixels
<1>3. ShownAt(t, h, s) =
        {k \in PanelPixels : At(k) \in 0..499 /\ ExtractRelevantPixels[At(k)] \in ChannelRange(h)}
  BY <1>1 DEF ShownAt
<1> HIDE DEF At
<1>4. CASE s = t
  <2>1. \A k \in PanelPixels : At(k) = k /\ k \in 0..499
    BY <1>1, <1>2, <1>4
  <2>2. QED
    BY <1>3, <1>4, <2>1, CopiedWhereItSits
<1>5. CASE s # t
  <2>1. \A k \in PanelPixels : At(k) \notin 0..499
    <3>1. s - t \in Int /\ (s - t >= 1 \/ s - t <= -1)
      BY <1>5
    <3>2. \A d \in Int, k \in 0..498 : d >= 1 \/ d <= -1 => 500 * d + k \notin 0..499
      OBVIOUS
    <3>3. ASSUME NEW k \in PanelPixels PROVE 500 * (s - t) + k \notin 0..499
      <4>1. k \in 0..498
        BY <1>2
      <4>2. QED
        BY <3>1, <3>2, <4>1, Zenon
    <3>4. QED
      BY <1>1, <3>3, Zenon
  <2>2. QED
    BY <1>3, <1>5, <2>1
<1>6. QED
  BY <1>4, <1>5

(* What comes from a board is drawn at that board's pixels of its own      *)
(* telescope's panel, and nothing else is (ExtractRelevantPixels,          *)
(* GetTelescopeSendByteOffset, ui_camera.py).                              *)
THEOREM PixelsPlaced == Spec => []PixelsInPlace
<1>1. PixelsInPlace
  BY PanelsShow DEF PixelsInPlace
<1>2. QED
  BY <1>1, PTL

=============================================================================
