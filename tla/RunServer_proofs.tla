-------------------------- MODULE RunServer_proofs --------------------------
(***************************************************************************)
(* Proofs about RunServer, for every number of runs, every set of system   *)
(* states and both run file layouts.                                       *)
(***************************************************************************)
EXTENDS RunServer, TLAPS

-----------------------------------------------------------------------------
(* Type correctness *)

LEMMA InitType == Init => TypeOK
<1> SUFFICES ASSUME Init PROVE TypeOK
  OBVIOUS
<1>1. nRuns \in 0..MaxRuns /\ stopRun \in 0..MaxRuns /\ 0 \in 0..MaxEntries
  BY RunServerAssumption DEF Init
<1>2. sent \in [Runs -> Seq(Final \cup {"started"})]
  BY DEF Init
<1>3. step \in [Runs -> Nat \ {0}]
  BY DEF Init
<1>4. QED
  BY <1>1, <1>2, <1>3 DEF Init, TypeOK, RunPC, ListenerPC

(* nRuns + 1 names a run whenever the control loop accepts one. *)
LEMMA NextRun == ASSUME TypeOK, nRuns < MaxRuns PROVE nRuns + 1 \in Runs
  BY RunServerAssumption DEF TypeOK, Runs

LEMMA ControlType == TypeOK /\ Control => TypeOK'
<1> SUFFICES ASSUME TypeOK, Control PROVE TypeOK'
  OBVIOUS
<1> USE DEF TypeOK, control, resources, setupVars
<1>1. ASSUME NEW s \in SystemStates \cup {globalState}, StartRun(s) PROVE TypeOK'
  <2>1. nRuns + 1 \in Runs
    BY <1>1, NextRun DEF StartRun
  <2>2. nRuns' \in 0..MaxRuns /\ stopRun' \in 0..MaxRuns
    BY <1>1, <2>1 DEF StartRun, Runs, RunChannel
  <2>3. QED
    BY <1>1, <2>1, <2>2 DEF StartRun, RunPC
<1>2. CASE StopRunCmd
  BY <1>2 DEF StopRunCmd
<1>3. CASE ExitCmd
  BY <1>3 DEF ExitCmd, RunPC, ListenerPC
<1>4. CASE Restart
  BY <1>4, RunServerAssumption DEF Restart
<1>5. QED
  BY <1>1, <1>2, <1>3, <1>4 DEF Control

LEMMA AppendType ==
  ASSUME NEW S, NEW q \in Seq(S), NEW e \in S
  PROVE  Append(q, e) \in Seq(S)
  OBVIOUS

LEMMA RunStepType ==
  ASSUME TypeOK, NEW r \in Runs, RunStep(r) \/ TimerFires(r)
  PROVE  TypeOK'
<1> USE DEF TypeOK, control, resources, setupVars, At, Goto
<1>1. ASSUME MoreEntries(r) PROVE step[r] \in Slots /\ step[r] \in 0..MaxEntries
  <2>1. globalState \in SystemStates
    BY <1>1 DEF MoreEntries
  <2>2. Len(globalState) \in Nat /\ Len(globalState) <= MaxEntries
    <3>1. globalState \in Seq(Entry)
      BY <2>1, RunServerAssumption, Zenon
    <3>2. Len(globalState) <= MaxEntries
      BY <2>1, RunServerAssumption, Zenon
    <3>3. QED
      BY <3>1, <3>2
  <2>3. QED
    BY <1>1, <2>2, RunServerAssumption DEF MoreEntries, Slots
<1>2. CASE SetupTelescope(r)
  BY <1>1, <1>2, RunServerAssumption DEF SetupTelescope
<1>3. CASE SetupHarvester(r)
  <2>1. step[r] \in Slots /\ step[r] \in 0..MaxEntries
    BY <1>1, <1>3 DEF SetupHarvester
  <2>2. EntryAt(r).ip \in IPs
    <3>1. globalState \in Seq(Entry) /\ step[r] \in 1..Len(globalState)
      BY <1>3, RunServerAssumption DEF SetupHarvester, MoreEntries
    <3>2. EntryAt(r) \in Entry
      BY <3>1 DEF EntryAt
    <3>3. QED
      BY <1>3, <3>2 DEF SetupHarvester, Entry
  <2>3. fileOf' \in [Runs \X Slots -> 0..MaxEntries]
    <3>1. (IF perHarvester THEN step[r] ELSE telFile[r]) \in 0..MaxEntries
      BY <2>1
    <3>2. QED
      BY <1>3, <2>1, <3>1 DEF SetupHarvester
  <2>4. socks' \subseteq Runs \X Slots \X IPs
    BY <1>3, <2>1, <2>2 DEF SetupHarvester
  <2>5. files' \subseteq Runs \X Slots
    BY <1>3, <2>1 DEF SetupHarvester
  <2>6. step' \in [Runs -> Nat \ {0}]
    BY <1>3 DEF SetupHarvester
  <2>7. QED
    BY <1>3, <2>3, <2>4, <2>5, <2>6 DEF SetupHarvester
<1>4. CASE SetupGui(r)
  BY <1>4 DEF SetupGui, RunPC
<1>5. CASE SetupFails(r)
  <2>1. sent' \in [Runs -> Seq(Final \cup {"started"})]
    BY <1>5, AppendType DEF SetupFails, Final
  <2>2. QED
    BY <1>5, <2>1 DEF SetupFails, SocketsOf, FilesOf, RunPC
<1>6. CASE Spawn(r)
  BY <1>6 DEF Spawn, RunPC, ListenerPC
<1>7. CASE OpenGate(r)
  BY <1>7 DEF OpenGate, RunPC
<1>8. CASE Announce(r)
  <2>1. sent' \in [Runs -> Seq(Final \cup {"started"})]
    BY <1>8, AppendType DEF Announce, Final
  <2>2. QED
    BY <1>8, <2>1 DEF Announce, RunPC
<1>9. CASE TimerFires(r)
  BY <1>9 DEF TimerFires, RunPC
<1>10. CASE TakeStop(r)
  BY <1>10 DEF TakeStop, RunChannel, RunPC
<1>11. CASE StopListening(r)
  BY <1>11 DEF StopListening, RunPC
<1>12. CASE CloseConns(r)
  BY <1>12 DEF CloseConns, SocketsOf, RunPC
<1>13. CASE Join(r)
  BY <1>13 DEF Join, RunPC
<1>14. CASE CloseFiles(r)
  BY <1>14 DEF CloseFiles, FilesOf, RunPC
<1>15. CASE Report(r)
  <2>1. EndStatus(r) \in Final \cup {"started"}
    BY DEF EndStatus, Final
  <2>2. sent' \in [Runs -> Seq(Final \cup {"started"})]
    BY <1>15, <2>1, AppendType DEF Report
  <2>3. QED
    BY <1>15, <2>2 DEF Report, RunPC
<1>16. CASE Release(r)
  BY <1>16 DEF Release, RunPC
<1>17. QED
  BY <1>2, <1>3, <1>4, <1>5, <1>6, <1>7, <1>8, <1>9, <1>10, <1>11, <1>12, <1>13,
     <1>14, <1>15, <1>16 DEF RunStep

ListenerAction(l) == ListenerStep(l) \/ ListenerRead(l) \/ ListenerOffer(l)

(* A live listener's step moves its program counter and nothing else. *)
LEMMA ListenerMoves ==
  ASSUME NEW l \in Runs \X Slots, ListenerAction(l)
  PROVE  /\ lpc[l] \notin {"off", "done"}
         /\ \E to \in ListenerPC \ {"off"} : ListenerGoto(l, lpc[l], to)
  BY DEF ListenerAction, ListenerStep, ListenerGate, ListenerPoll, ListenerRead,
         ListenerReadError, ListenerWrite, ListenerOffer, ListenerGiveUp,
         ListenerGoto, ListenerPC

LEMMA ListenerType ==
  ASSUME TypeOK, NEW l \in Runs \X Slots, ListenerAction(l) PROVE TypeOK'
<1>1. PICK to \in ListenerPC : ListenerGoto(l, lpc[l], to)
  BY ListenerMoves
<1>2. QED
  BY <1>1 DEF TypeOK, ListenerGoto, control, resources, setupVars

LEMMA TypeStep == TypeOK /\ [Next]_vars => TypeOK'
<1> SUFFICES ASSUME TypeOK, [Next]_vars PROVE TypeOK'
  OBVIOUS
<1>1. CASE Control
  BY <1>1, ControlType
<1>2. ASSUME NEW r \in Runs, RunStep(r) \/ TimerFires(r) PROVE TypeOK'
  BY <1>2, RunStepType
<1>3. ASSUME NEW l \in Runs \X Slots, ListenerAction(l) PROVE TypeOK'
  BY <1>3, ListenerType
<1>4. CASE UNCHANGED vars
  BY <1>4 DEF TypeOK, vars, control, resources, setupVars
<1>5. QED
  BY <1>1, <1>2, <1>3, <1>4 DEF Next, ListenerAction

(* Every reachable state of the server is well typed. *)
THEOREM TypeCorrect == Spec => []TypeOK
  BY InitType, TypeStep, PTL DEF Spec

-----------------------------------------------------------------------------
(* The inductive invariant *)

LEMMA InitInv == Init => IInv
<1> SUFFICES ASSUME Init PROVE IInv
  OBVIOUS
<1>1. TypeOK
  BY InitType
<1>2. NewestRunOnly
  BY DEF Init, NewestRunOnly, InFlight
<1>3. HoldsOnlyInRun
  BY DEF Init, HoldsOnlyInRun, SocketsOf, FilesOf, BeforeSpawn
<1>4. HandedOutOpen
  BY DEF Init, HandedOutOpen, HasFiles, HasSockets
<1>5. ToldInOrder
  BY DEF Init, ToldInOrder, BeforeReport, EndReported
<1>6. StopsAsked
  BY DEF Init, StopsAsked
<1>7. QED
  BY <1>1, <1>2, <1>3, <1>4, <1>5, <1>6 DEF IInv

LEMMA RunStepInv ==
  ASSUME IInv, NEW r \in Runs, RunStep(r) \/ TimerFires(r)
  PROVE  IInv'
<1> USE DEF IInv, TypeOK, control, resources, setupVars, At, Goto
<1>1. TypeOK'
  BY RunStepType
<1>2. CASE SetupTelescope(r)
  <2>1. NewestRunOnly'
    BY <1>2 DEF SetupTelescope, NewestRunOnly, InFlight
  <2>2. HoldsOnlyInRun'
    BY <1>2 DEF SetupTelescope, HoldsOnlyInRun, SocketsOf, FilesOf, HasSockets, HasFiles, Listening, BeforeSpawn
  <2>3. HandedOutOpen'
    BY <1>2 DEF SetupTelescope, HandedOutOpen, HasFiles, HasSockets
  <2>4. ToldInOrder'
    BY <1>2 DEF SetupTelescope, ToldInOrder, BeforeSpawn, BeforeReport, AfterReport, EndReported, Final
  <2>5. StopsAsked'
    BY <1>2 DEF SetupTelescope, StopsAsked
  <2>6. QED
    BY <1>1, <2>1, <2>2, <2>3, <2>4, <2>5
<1>3. CASE SetupHarvester(r)
  <2>1. NewestRunOnly'
    BY <1>3 DEF SetupHarvester, NewestRunOnly, InFlight
  <2>2. HoldsOnlyInRun'
    BY <1>3 DEF SetupHarvester, HoldsOnlyInRun, SocketsOf, FilesOf, HasSockets, HasFiles, Listening, BeforeSpawn
  <2>3. HandedOutOpen'
    <3>1. files \subseteq files' /\ pc' = pc /\ lpc' = lpc /\ telFile' = telFile
      BY <1>3 DEF SetupHarvester
    <3>2. pc[r] = "setup" /\ \A i \in Slots : lpc[<<r, i>>] = "off"
      BY <1>3 DEF SetupHarvester, HoldsOnlyInRun, BeforeSpawn
    <3>3. ASSUME NEW i \in Slots, fileOf'[<<r, i>>] # 0
          PROVE  <<r, fileOf'[<<r, i>>]>> \in files'
      <4>1. CASE i = step[r] /\ perHarvester
        BY <1>3, <4>1 DEF SetupHarvester
      <4>2. CASE i = step[r] /\ ~perHarvester
        BY <1>3, <3>2, <3>3, <4>2 DEF SetupHarvester, HandedOutOpen
      <4>3. CASE i # step[r]
        BY <1>3, <3>1, <3>2, <3>3, <4>3
           DEF SetupHarvester, HandedOutOpen, HasFiles, HasSockets
      <4>4. QED
        BY <4>1, <4>2, <4>3
    <3>4. ASSUME NEW q \in Runs, q # r, NEW i \in Slots
          PROVE  fileOf'[<<q, i>>] = fileOf[<<q, i>>]
      BY <1>3, <3>4 DEF SetupHarvester
    <3>5. SUFFICES ASSUME NEW q \in Runs
                   PROVE  HandedOutOpen!(q)'
      BY DEF HandedOutOpen
    <3>6. CASE q = r
      BY <3>1, <3>2, <3>3, <3>6 DEF HandedOutOpen
    <3>7. CASE q # r
      BY <3>1, <3>4, <3>7 DEF HandedOutOpen
    <3>8. QED
      BY <3>6, <3>7
  <2>4. ToldInOrder'
    BY <1>3 DEF SetupHarvester, ToldInOrder, BeforeSpawn, BeforeReport, AfterReport, EndReported, Final
  <2>5. StopsAsked'
    BY <1>3 DEF SetupHarvester, StopsAsked
  <2>6. QED
    BY <1>1, <2>1, <2>2, <2>3, <2>4, <2>5
<1>4. CASE SetupGui(r)
  <2>1. NewestRunOnly'
    BY <1>4 DEF SetupGui, NewestRunOnly, InFlight
  <2>2. HoldsOnlyInRun'
    BY <1>4 DEF SetupGui, HoldsOnlyInRun, SocketsOf, FilesOf, HasSockets, HasFiles, Listening, BeforeSpawn
  <2>3. HandedOutOpen'
    BY <1>4 DEF SetupGui, HandedOutOpen, HasFiles, HasSockets
  <2>4. ToldInOrder'
    BY <1>4 DEF SetupGui, ToldInOrder, BeforeSpawn, BeforeReport, AfterReport, EndReported, Final
  <2>5. StopsAsked'
    BY <1>4 DEF SetupGui, StopsAsked
  <2>6. QED
    BY <1>1, <2>1, <2>2, <2>3, <2>4, <2>5
<1>5. CASE SetupFails(r)
  <2>1. NewestRunOnly'
    BY <1>5 DEF SetupFails, NewestRunOnly, InFlight
  <2>2. HoldsOnlyInRun'
    <3>1. pc[r] = "setup" /\ r \notin guiConn
      BY <1>5 DEF SetupFails, HoldsOnlyInRun
    <3>2. \A q \in Runs : SocketsOf(q)' \subseteq SocketsOf(q)
                       /\ FilesOf(q)' \subseteq FilesOf(q)
      BY <1>5 DEF SetupFails, SocketsOf, FilesOf
    <3>3. SocketsOf(r)' = {} /\ FilesOf(r)' = {}
      BY <1>5 DEF SetupFails, SocketsOf, FilesOf
    <3>4. QED
      BY <1>5, <3>1, <3>2, <3>3
         DEF SetupFails, HoldsOnlyInRun, HasSockets, HasFiles, Listening, BeforeSpawn
  <2>3. HandedOutOpen'
    BY <1>5 DEF SetupFails, HandedOutOpen, HasFiles, HasSockets, FilesOf,
                NewestRunOnly, InFlight
  <2>4. ToldInOrder'
    BY <1>5 DEF SetupFails, ToldInOrder, BeforeSpawn, BeforeReport, AfterReport, EndReported, Final
  <2>5. StopsAsked'
    BY <1>5 DEF SetupFails, StopsAsked
  <2>6. QED
    BY <1>1, <2>1, <2>2, <2>3, <2>4, <2>5
<1>6. CASE Spawn(r)
  <2>1. NewestRunOnly'
    BY <1>6 DEF Spawn, NewestRunOnly, InFlight
  <2>2. HoldsOnlyInRun'
    BY <1>6 DEF Spawn, HoldsOnlyInRun, SocketsOf, FilesOf, HasSockets, HasFiles, Listening, BeforeSpawn
  <2>3. HandedOutOpen'
    BY <1>6 DEF Spawn, HandedOutOpen, HasFiles, HasSockets, Harvesters
  <2>4. ToldInOrder'
    BY <1>6 DEF Spawn, ToldInOrder, BeforeSpawn, BeforeReport, AfterReport, EndReported, Final
  <2>5. StopsAsked'
    BY <1>6 DEF Spawn, StopsAsked
  <2>6. QED
    BY <1>1, <2>1, <2>2, <2>3, <2>4, <2>5
<1>7. CASE OpenGate(r)
  <2>1. NewestRunOnly'
    BY <1>7 DEF OpenGate, NewestRunOnly, InFlight
  <2>2. HoldsOnlyInRun'
    BY <1>7 DEF OpenGate, HoldsOnlyInRun, SocketsOf, FilesOf, HasSockets, HasFiles, Listening, BeforeSpawn
  <2>3. HandedOutOpen'
    BY <1>7 DEF OpenGate, HandedOutOpen, HasFiles, HasSockets
  <2>4. ToldInOrder'
    BY <1>7 DEF OpenGate, ToldInOrder, BeforeSpawn, BeforeReport, AfterReport, EndReported, Final
  <2>5. StopsAsked'
    BY <1>7 DEF OpenGate, StopsAsked
  <2>6. QED
    BY <1>1, <2>1, <2>2, <2>3, <2>4, <2>5
<1>8. CASE Announce(r)
  <2>1. NewestRunOnly'
    BY <1>8 DEF Announce, NewestRunOnly, InFlight
  <2>2. HoldsOnlyInRun'
    BY <1>8 DEF Announce, HoldsOnlyInRun, SocketsOf, FilesOf, HasSockets, HasFiles, Listening, BeforeSpawn
  <2>3. HandedOutOpen'
    BY <1>8 DEF Announce, HandedOutOpen, HasFiles, HasSockets
  <2>4. ToldInOrder'
    <3>1. sent[r] = <<>>
      BY <1>8 DEF Announce, ToldInOrder
    <3>2. sent'[r] = <<"started">>
      BY <1>8, <3>1 DEF Announce
    <3>3. QED
      BY <1>8, <3>2 DEF Announce, ToldInOrder, BeforeSpawn, BeforeReport,
                        AfterReport, EndReported, Final
  <2>5. StopsAsked'
    BY <1>8 DEF Announce, StopsAsked
  <2>6. QED
    BY <1>1, <2>1, <2>2, <2>3, <2>4, <2>5
<1>9. CASE TimerFires(r)
  <2>1. NewestRunOnly'
    BY <1>9 DEF TimerFires, NewestRunOnly, InFlight
  <2>2. HoldsOnlyInRun'
    BY <1>9 DEF TimerFires, HoldsOnlyInRun, SocketsOf, FilesOf, HasSockets, HasFiles, Listening, BeforeSpawn
  <2>3. HandedOutOpen'
    BY <1>9 DEF TimerFires, HandedOutOpen, HasFiles, HasSockets
  <2>4. ToldInOrder'
    BY <1>9 DEF TimerFires, ToldInOrder, BeforeSpawn, BeforeReport, AfterReport, EndReported, Final
  <2>5. StopsAsked'
    BY <1>9 DEF TimerFires, StopsAsked
  <2>6. QED
    BY <1>1, <2>1, <2>2, <2>3, <2>4, <2>5
<1>10. CASE TakeStop(r)
  <2>1. NewestRunOnly'
    BY <1>10 DEF TakeStop, NewestRunOnly, InFlight
  <2>2. HoldsOnlyInRun'
    BY <1>10 DEF TakeStop, HoldsOnlyInRun, SocketsOf, FilesOf, HasSockets, HasFiles, Listening, BeforeSpawn
  <2>3. HandedOutOpen'
    BY <1>10 DEF TakeStop, HandedOutOpen, HasFiles, HasSockets
  <2>4. ToldInOrder'
    BY <1>10 DEF TakeStop, ToldInOrder, BeforeSpawn, BeforeReport, AfterReport, EndReported, Final
  <2>5. StopsAsked'
    BY <1>10 DEF TakeStop, RunChannel, StopsAsked
  <2>6. QED
    BY <1>1, <2>1, <2>2, <2>3, <2>4, <2>5
<1>11. CASE StopListening(r)
  <2>1. NewestRunOnly'
    BY <1>11 DEF StopListening, NewestRunOnly, InFlight
  <2>2. HoldsOnlyInRun'
    BY <1>11 DEF StopListening, HoldsOnlyInRun, SocketsOf, FilesOf, HasSockets, HasFiles, Listening, BeforeSpawn
  <2>3. HandedOutOpen'
    BY <1>11 DEF StopListening, HandedOutOpen, HasFiles, HasSockets
  <2>4. ToldInOrder'
    BY <1>11 DEF StopListening, ToldInOrder, BeforeSpawn, BeforeReport, AfterReport, EndReported, Final
  <2>5. StopsAsked'
    BY <1>11 DEF StopListening, StopsAsked
  <2>6. QED
    BY <1>1, <2>1, <2>2, <2>3, <2>4, <2>5
<1>12. CASE CloseConns(r)
  <2>1. NewestRunOnly'
    BY <1>12 DEF CloseConns, NewestRunOnly, InFlight
  <2>2. HoldsOnlyInRun'
    BY <1>12 DEF CloseConns, HoldsOnlyInRun, SocketsOf, FilesOf, HasSockets, HasFiles, Listening, BeforeSpawn
  <2>3. HandedOutOpen'
    BY <1>12 DEF CloseConns, HandedOutOpen, HasFiles, HasSockets
  <2>4. ToldInOrder'
    BY <1>12 DEF CloseConns, ToldInOrder, BeforeSpawn, BeforeReport, AfterReport, EndReported, Final
  <2>5. StopsAsked'
    BY <1>12 DEF CloseConns, StopsAsked
  <2>6. QED
    BY <1>1, <2>1, <2>2, <2>3, <2>4, <2>5
<1>13. CASE Join(r)
  <2>1. NewestRunOnly'
    BY <1>13 DEF Join, NewestRunOnly, InFlight
  <2>2. HoldsOnlyInRun'
    BY <1>13 DEF Join, HoldsOnlyInRun, SocketsOf, FilesOf, HasSockets, HasFiles, Listening, BeforeSpawn
  <2>3. HandedOutOpen'
    BY <1>13 DEF Join, HandedOutOpen, HasFiles, HasSockets
  <2>4. ToldInOrder'
    BY <1>13 DEF Join, ToldInOrder, BeforeSpawn, BeforeReport, AfterReport, EndReported, Final
  <2>5. StopsAsked'
    BY <1>13 DEF Join, StopsAsked
  <2>6. QED
    BY <1>1, <2>1, <2>2, <2>3, <2>4, <2>5
<1>14. CASE CloseFiles(r)
  <2>1. NewestRunOnly'
    BY <1>14 DEF CloseFiles, NewestRunOnly, InFlight
  <2>2. HoldsOnlyInRun'
    BY <1>14 DEF CloseFiles, HoldsOnlyInRun, SocketsOf, FilesOf, HasSockets, HasFiles, Listening, BeforeSpawn
  <2>3. HandedOutOpen'
    BY <1>14 DEF CloseFiles, HandedOutOpen, HasFiles, HasSockets, FilesOf,
                 NewestRunOnly, InFlight
  <2>4. ToldInOrder'
    BY <1>14 DEF CloseFiles, ToldInOrder, BeforeSpawn, BeforeReport, AfterReport, EndReported, Final
  <2>5. StopsAsked'
    BY <1>14 DEF CloseFiles, StopsAsked
  <2>6. QED
    BY <1>1, <2>1, <2>2, <2>3, <2>4, <2>5
<1>15. CASE Report(r)
  <2>1. NewestRunOnly'
    BY <1>15 DEF Report, NewestRunOnly, InFlight
  <2>2. HoldsOnlyInRun'
    BY <1>15 DEF Report, HoldsOnlyInRun, SocketsOf, FilesOf, HasSockets, HasFiles, Listening, BeforeSpawn
  <2>3. HandedOutOpen'
    BY <1>15 DEF Report, HandedOutOpen, HasFiles, HasSockets
  <2>4. ToldInOrder'
    BY <1>15 DEF Report, ToldInOrder, BeforeSpawn, BeforeReport, AfterReport, EndReported, Final
  <2>5. StopsAsked'
    BY <1>15 DEF Report, StopsAsked
  <2>6. QED
    BY <1>1, <2>1, <2>2, <2>3, <2>4, <2>5
<1>16. CASE Release(r)
  <2>1. NewestRunOnly'
    BY <1>16 DEF Release, NewestRunOnly, InFlight
  <2>2. HoldsOnlyInRun'
    BY <1>16 DEF Release, HoldsOnlyInRun, SocketsOf, FilesOf, HasSockets, HasFiles, Listening, BeforeSpawn
  <2>3. HandedOutOpen'
    BY <1>16 DEF Release, HandedOutOpen, HasFiles, HasSockets
  <2>4. ToldInOrder'
    BY <1>16 DEF Release, ToldInOrder, BeforeSpawn, BeforeReport, AfterReport, EndReported, Final
  <2>5. StopsAsked'
    BY <1>16 DEF Release, StopsAsked
  <2>6. QED
    BY <1>1, <2>1, <2>2, <2>3, <2>4, <2>5
<1>17. QED
  BY <1>2, <1>3, <1>4, <1>5, <1>6, <1>7, <1>8, <1>9, <1>10, <1>11, <1>12, <1>13, <1>14, <1>15, <1>16 DEF RunStep

LEMMA ControlInv == IInv /\ Control => IInv'
<1> SUFFICES ASSUME IInv, Control PROVE IInv'
  OBVIOUS
<1> USE DEF IInv, TypeOK, control, resources, setupVars
<1>1. TypeOK'
  BY ControlType
<1>2. ASSUME NEW s \in SystemStates \cup {globalState}, StartRun(s) PROVE IInv'
  <2> DEFINE new == nRuns + 1
  <2>0. new \in Runs /\ new > nRuns /\ pc[new] = "unborn"
    BY <1>2, NextRun DEF StartRun, NewestRunOnly
  <2>1. ~runActive /\ \A r \in Runs : ~InFlight(r)
    BY <1>2, Zenon DEF StartRun, NewestRunOnly
  <2>2. pc'[new] = "setup" /\ \A r \in Runs \ {new} : pc'[r] = pc[r]
    BY <1>2, <2>0 DEF StartRun
  <2>3. NewestRunOnly'
    <3>1. \A r \in Runs : InFlight(r)' => r = new
      BY <2>1, <2>2 DEF InFlight
    <3>2. nRuns' = new /\ runActive' /\ up' /\ stopRun' = new /\ asked' = asked
      BY <1>2 DEF StartRun, RunChannel
    <3>3. \A r \in Runs : r > new => pc'[r] = "unborn"
      BY <2>2 DEF NewestRunOnly, Runs
    <3>4. asked \subseteq 1..new
      BY DEF NewestRunOnly
    <3>5. nRuns' \in Runs /\ InFlight(nRuns)'
      BY <2>0, <2>2, <3>2 DEF InFlight
    <3>6. QED
      BY <3>1, <3>2, <3>3, <3>4, <3>5 DEF NewestRunOnly
  <2>4. HoldsOnlyInRun'
    <3>1. UNCHANGED <<socks, files, guiConn, lpc>>
      BY <1>2 DEF StartRun
    <3>2. QED
      BY <2>0, <2>2, <3>1 DEF HoldsOnlyInRun, SocketsOf, FilesOf, HasSockets,
         HasFiles, Listening, BeforeSpawn
  <2>5. HandedOutOpen'
    <3>1. UNCHANGED <<files, lpc, telFile, fileOf>>
      BY <1>2 DEF StartRun
    <3>2. QED
      BY <2>0, <2>2, <3>1 DEF HandedOutOpen, HasFiles, HasSockets
  <2>6. ToldInOrder'
    <3>1. UNCHANGED sent
      BY <1>2 DEF StartRun
    <3>2. QED
      BY <2>0, <2>2, <3>1 DEF ToldInOrder, BeforeSpawn, BeforeReport, AfterReport,
         EndReported
  <2>7. StopsAsked'
    BY <1>2 DEF StartRun, StopsAsked
  <2>8. QED
    BY <1>1, <2>3, <2>4, <2>5, <2>6, <2>7
<1>3. CASE StopRunCmd
  <2>1. NewestRunOnly'
    BY <1>3 DEF StopRunCmd, NewestRunOnly, InFlight
  <2>2. HoldsOnlyInRun'
    BY <1>3 DEF StopRunCmd, HoldsOnlyInRun, SocketsOf, FilesOf, HasSockets, HasFiles, Listening, BeforeSpawn
  <2>3. HandedOutOpen'
    BY <1>3 DEF StopRunCmd, HandedOutOpen, HasFiles, HasSockets
  <2>4. ToldInOrder'
    BY <1>3 DEF StopRunCmd, ToldInOrder, BeforeSpawn, BeforeReport, AfterReport, EndReported, Final
  <2>5. StopsAsked'
    BY <1>3 DEF StopRunCmd, StopsAsked, NewestRunOnly
  <2>6. QED
    BY <1>1, <2>1, <2>2, <2>3, <2>4, <2>5
<1>4. CASE ExitCmd
  <2>1. NewestRunOnly'
    BY <1>4 DEF ExitCmd, NewestRunOnly, InFlight
  <2>2. HoldsOnlyInRun'
    BY <1>4 DEF ExitCmd, HoldsOnlyInRun, SocketsOf, FilesOf, HasSockets, HasFiles, Listening, BeforeSpawn
  <2>3. HandedOutOpen'
    BY <1>4 DEF ExitCmd, HandedOutOpen, HasFiles, HasSockets, InFlight
  <2>4. ToldInOrder'
    BY <1>4 DEF ExitCmd, ToldInOrder, BeforeSpawn, BeforeReport, AfterReport, EndReported, Final
  <2>5. StopsAsked'
    BY <1>4 DEF ExitCmd, StopsAsked
  <2>6. QED
    BY <1>1, <2>1, <2>2, <2>3, <2>4, <2>5
<1>5. CASE Restart
  <2>1. NewestRunOnly'
    BY <1>5 DEF Restart, NewestRunOnly, InFlight
  <2>2. HoldsOnlyInRun'
    BY <1>5 DEF Restart, HoldsOnlyInRun, SocketsOf, FilesOf, HasSockets, HasFiles, Listening, BeforeSpawn
  <2>3. HandedOutOpen'
    BY <1>5 DEF Restart, HandedOutOpen, HasFiles, HasSockets
  <2>4. ToldInOrder'
    BY <1>5 DEF Restart, ToldInOrder, BeforeSpawn, BeforeReport, AfterReport, EndReported, Final
  <2>5. StopsAsked'
    BY <1>5 DEF Restart, StopsAsked
  <2>6. QED
    BY <1>1, <2>1, <2>2, <2>3, <2>4, <2>5
<1>6. QED
  BY <1>2, <1>3, <1>4, <1>5 DEF Control

LEMMA ListenerInv ==
  ASSUME IInv, NEW l \in Runs \X Slots, ListenerAction(l) PROVE IInv'
<1> USE DEF IInv, TypeOK, control, resources, setupVars, ListenerGoto
<1>1. TypeOK'
  BY ListenerType
<1>2. PICK to \in ListenerPC \ {"off"} : ListenerGoto(l, lpc[l], to)
  BY ListenerMoves
<1>3. lpc[l] \notin {"off", "done"}
  BY ListenerMoves
<1>4. NewestRunOnly'
  BY <1>2 DEF NewestRunOnly, InFlight
<1>5. HoldsOnlyInRun'
  BY <1>2, <1>3 DEF HoldsOnlyInRun, SocketsOf, FilesOf, BeforeSpawn
<1>6. HandedOutOpen'
  <2>1. \A k \in Runs \X Slots : lpc'[k] # "off" => lpc[k] # "off"
    BY <1>2, <1>3
  <2>2. UNCHANGED <<pc, telFile, fileOf, files>>
    BY <1>2
  <2>3. QED
    BY <2>1, <2>2 DEF HandedOutOpen
<1>7. ToldInOrder'
  BY <1>2 DEF ToldInOrder, EndReported
<1>8. StopsAsked'
  BY <1>2 DEF StopsAsked
<1>9. QED
  BY <1>1, <1>4, <1>5, <1>6, <1>7, <1>8

LEMMA InvStep == IInv /\ [Next]_vars => IInv'
<1> SUFFICES ASSUME IInv, [Next]_vars PROVE IInv'
  OBVIOUS
<1>1. CASE Control
  BY <1>1, ControlInv
<1>2. ASSUME NEW r \in Runs, RunStep(r) \/ TimerFires(r) PROVE IInv'
  BY <1>2, RunStepInv
<1>3. ASSUME NEW l \in Runs \X Slots, ListenerAction(l) PROVE IInv'
  BY <1>3, ListenerInv
<1>4. CASE UNCHANGED vars
  BY <1>4 DEF IInv, TypeOK, vars, control, resources, setupVars, NewestRunOnly,
     InFlight, HoldsOnlyInRun, SocketsOf, FilesOf, HandedOutOpen, ToldInOrder,
     EndReported, StopsAsked
<1>5. QED
  BY <1>1, <1>2, <1>3, <1>4 DEF Next, ListenerAction

THEOREM Invariant == Spec => []IInv
  BY InitInv, InvStep, PTL DEF Spec

-----------------------------------------------------------------------------
(* The safety properties *)

(* However starts, stops, exits and the run goroutines interleave, two run *)
(* goroutines are never alive at once.                                     *)
THEOREM OneRun == Spec => []OneRunAtATime
<1>1. IInv => OneRunAtATime
  BY DEF IInv, NewestRunOnly, OneRunAtATime
<1>2. QED
  BY <1>1, Invariant, PTL

(* No listener of any run ever writes to a run file that has been closed.  *)
THEOREM NoLateWrite == Spec => []WriterHoldsFile
<1>1. IInv => WriterHoldsFile
  <2> SUFFICES ASSUME IInv, NEW r \in Runs, NEW i \in Slots, lpc[<<r, i>>] = "write"
               PROVE  <<r, fileOf[<<r, i>>]>> \in files
    BY DEF WriterHoldsFile
  <2>1. pc[r] \in HasFiles
    BY DEF IInv, HoldsOnlyInRun, Listening, HasFiles, HasSockets
  <2>2. fileOf[<<r, i>>] # 0
    BY DEF IInv, HandedOutOpen
  <2>3. QED
    BY <2>1, <2>2 DEF IInv, HandedOutOpen
<1>2. QED
  BY <1>1, Invariant, PTL

(* By the time a run's end status is sent, or the next run can be let in,  *)
(* all its sockets, files and listeners are gone.                          *)
THEOREM QuietEnd == Spec => []QuietWhenReported
<1>1. IInv => QuietWhenReported
  <2> SUFFICES ASSUME IInv, NEW r \in Runs, EndReported(r) \/ ~InFlight(r)
               PROVE  pc[r] \in AfterReport \cup {"unborn"}
    BY DEF QuietWhenReported, IInv, HoldsOnlyInRun, AfterReport, HasSockets,
           HasFiles, Listening
  <2>1. QED
    BY DEF IInv, ToldInOrder, InFlight, AfterReport
<1>2. QED
  BY <1>1, Invariant, PTL

(* Each run's stop channel carries stops meant for that run only. *)
THEOREM StopsStayPut == Spec => []StopIsForThisRun
<1>1. IInv => StopIsForThisRun
  BY DEF IInv, StopsAsked, StopIsForThisRun
<1>2. QED
  BY <1>1, Invariant, PTL

(* The control loop never replaces the state under a live run. *)
THEOREM StateHeld == Spec => StateHeldDuringRun
<1>1. IInv /\ [Next]_vars =>
        [globalState' # globalState => \A r \in Runs : ~InFlight(r)]_vars
  <2> SUFFICES ASSUME IInv, Next, globalState' # globalState
               PROVE  \A r \in Runs : ~InFlight(r)
    OBVIOUS
  <2>1. ~runActive \/ ~up
    <3>1. CASE Control
      BY <3>1 DEF Control, StartRun, StopRunCmd, ExitCmd, Restart, control
    <3>2. ASSUME NEW r \in Runs, RunStep(r) \/ TimerFires(r) PROVE FALSE
      BY <3>2 DEF RunStep, SetupTelescope, SetupHarvester, SetupGui, SetupFails,
         Spawn, OpenGate, Announce, TimerFires, TakeStop, StopListening,
         CloseConns, Join, CloseFiles, Report, Release, control
    <3>3. ASSUME NEW l \in Runs \X Slots, ListenerAction(l) PROVE FALSE
      BY <3>3, ListenerMoves DEF ListenerGoto, control
    <3>4. QED
      BY <3>1, <3>2, <3>3 DEF Next, ListenerAction
  <2>2. QED
    BY <2>1 DEF IInv, NewestRunOnly
<1>2. QED
  BY <1>1, Invariant, PTL DEF Spec, StateHeldDuringRun

-----------------------------------------------------------------------------
(* The end of a run *)

LEMMA InitKept == Init => StopsKept
<1> SUFFICES ASSUME Init PROVE StopsKept
  OBVIOUS
<1>1. \A r \in Runs : pc[r] = "unborn" /\ r \notin asked /\ r \notin stopped
  BY DEF Init
<1>2. QED
  BY <1>1 DEF StopsKept

LEMMA RunStepKept ==
  ASSUME IInv, StopsKept, NEW r \in Runs, RunStep(r) \/ TimerFires(r)
  PROVE  StopsKept'
<1> USE DEF TypeOK, StopsKept, AfterReport, RunChannel, control, resources, setupVars, At, Goto
<1>0. TypeOK
  BY DEF IInv
<1>1. CASE SetupTelescope(r) \/ SetupHarvester(r)
  BY <1>0, <1>1 DEF SetupTelescope, SetupHarvester
<1>2. CASE SetupGui(r)
  BY <1>0, <1>2 DEF SetupGui
<1>3. CASE SetupFails(r)
  BY <1>0, <1>3 DEF SetupFails
<1>4. CASE Spawn(r)
  BY <1>0, <1>4 DEF Spawn
<1>5. CASE OpenGate(r)
  BY <1>0, <1>5 DEF OpenGate
<1>6. CASE Announce(r)
  BY <1>0, <1>6 DEF Announce
<1>7. CASE TimerFires(r)
  BY <1>0, <1>7 DEF TimerFires
<1>8. CASE TakeStop(r)
  BY <1>0, <1>8 DEF TakeStop
<1>9. CASE StopListening(r)
  BY <1>0, <1>9 DEF StopListening
<1>10. CASE CloseConns(r)
  BY <1>0, <1>10 DEF CloseConns
<1>11. CASE Join(r)
  BY <1>0, <1>11 DEF Join
<1>12. CASE CloseFiles(r)
  BY <1>0, <1>12 DEF CloseFiles
<1>13. CASE Report(r)
  BY <1>0, <1>13 DEF Report
<1>14. CASE Release(r)
  BY <1>0, <1>14 DEF Release
<1>15. QED
  BY <1>1, <1>2, <1>3, <1>4, <1>5, <1>6, <1>7, <1>8, <1>9, <1>10, <1>11, <1>12, <1>13, <1>14
     DEF RunStep

LEMMA ControlKept == IInv /\ StopsKept /\ Control => StopsKept'
<1> SUFFICES ASSUME IInv, StopsKept, Control PROVE StopsKept'
  OBVIOUS
<1> USE DEF TypeOK, StopsKept, AfterReport, RunChannel, control, resources, setupVars
<1>0. TypeOK /\ NewestRunOnly
  BY DEF IInv
<1>1. ASSUME NEW s \in SystemStates \cup {globalState}, StartRun(s) PROVE StopsKept'
  <2>1. nRuns + 1 \in Runs /\ nRuns + 1 \notin asked /\ nRuns \in Nat
    BY <1>0, <1>1, NextRun, RunServerAssumption DEF StartRun, NewestRunOnly
  <2>2. \A r \in Runs : r # nRuns + 1 => pc'[r] = pc[r]
    BY <1>0, <1>1 DEF StartRun
  <2>3. pc'[nRuns + 1] = "setup" /\ pc[nRuns + 1] = "unborn"
    BY <1>0, <1>1, <2>1 DEF StartRun, NewestRunOnly
  <2>4. UNCHANGED <<asked, stopBuf, stopped, started>>
    BY <1>1 DEF StartRun
  <2>5. QED
    BY <2>1, <2>2, <2>3, <2>4
<1>2. CASE StopRunCmd
  BY <1>0, <1>2 DEF StopRunCmd, NewestRunOnly
<1>3. CASE ExitCmd
  BY <1>0, <1>3 DEF ExitCmd, InFlight
<1>4. CASE Restart
  BY <1>0, <1>4 DEF Restart
<1>5. QED
  BY <1>1, <1>2, <1>3, <1>4 DEF Control

LEMMA KeptStep == IInv /\ StopsKept /\ [Next]_vars => StopsKept'
<1> SUFFICES ASSUME IInv, StopsKept, [Next]_vars PROVE StopsKept'
  OBVIOUS
<1>1. CASE Control
  BY <1>1, ControlKept
<1>2. ASSUME NEW r \in Runs, RunStep(r) \/ TimerFires(r) PROVE StopsKept'
  BY <1>2, RunStepKept
<1>3. ASSUME NEW l \in Runs \X Slots, ListenerAction(l) PROVE StopsKept'
  BY <1>3, ListenerMoves DEF ListenerGoto, StopsKept, RunChannel
<1>4. CASE UNCHANGED vars
  BY <1>4 DEF vars, control, StopsKept, RunChannel
<1>5. QED
  BY <1>1, <1>2, <1>3, <1>4 DEF Next, ListenerAction

LEMMA Kept == Spec => [](IInv /\ StopsKept)
<1>1. Init => StopsKept
  BY InitKept
<1>2. IInv /\ StopsKept /\ [Next]_vars => StopsKept'
  BY KeptStep
<1>3. QED
  BY <1>1, <1>2, Invariant, PTL DEF Spec

(* A run that is to end never waits for anyone but itself: a stop is still *)
(* in its channel when it looks, and a listener it waits for has been told *)
(* to stop, finds its socket closed and is not held by the builder.        *)
THEOREM EndNeedsNoOne == Spec => []EndsUnaided
<1>1. IInv /\ StopsKept => EndsUnaided
  <2> SUFFICES ASSUME IInv, StopsKept, NEW r \in Runs, InFlight(r), r \in asked \cup stopped
               PROVE  RunCanStep(r) \/ \E i \in Slots : ListenerCanStep(<<r, i>>)
    BY DEF EndsUnaided
  <2>0. TypeOK /\ pc[r] \in RunPC
    BY DEF IInv, TypeOK
  <2>1. CASE pc[r] = "setup"
    <3>1. ASSUME MoreEntries(r) PROVE SetupCanFail(r) \/ (EntryAt(r).valid /\ EntryAt(r).kind = "telescope")
      <4>1. globalState \in Seq(Entry) /\ step[r] \in 1 .. Len(globalState)
        BY <2>0, <3>1, RunServerAssumption DEF TypeOK, MoreEntries
      <4>2. EntryAt(r) \in Entry
        BY <4>1 DEF EntryAt
      <4>3. EntryAt(r).valid \in BOOLEAN /\ EntryAt(r).kind \in {"telescope", "harvester"}
        BY <4>2 DEF Entry
      <4>4. QED
        BY <4>3 DEF SetupCanFail
    <3>2. QED
      BY <2>1, <3>1 DEF RunCanStep
  <2>2. CASE pc[r] = "select"
    <3>1. r \in asked
      BY <2>2 DEF StopsKept, AfterReport
    <3>2. QED
      BY <2>2, <3>1 DEF StopsKept, RunCanStep
  <2>3. CASE pc[r] = "join"
    <3>1. CASE \A i \in Slots : lpc[<<r, i>>] \in {"off", "done"}
      BY <2>3, <3>1 DEF RunCanStep
    <3>2. CASE \E i \in Slots : lpc[<<r, i>>] \notin {"off", "done"}
      <4>1. PICK i \in Slots : lpc[<<r, i>>] \notin {"off", "done"}
        BY <3>2
      <4>2. lpc[<<r, i>>] \in {"gate", "poll", "read", "write", "offer"}
        BY <2>0, <4>1 DEF TypeOK, ListenerPC
      <4>3. r \in stopped
        BY <2>3 DEF StopsKept
      <4>4. SocketsOf(r) = {}
        BY <2>3 DEF IInv, HoldsOnlyInRun, HasSockets
      <4>5. ~SocketOpen(<<r, i>>)
        BY <4>4 DEF SocketsOf, SocketOpen
      <4>6. ListenerCanStep(<<r, i>>)
        BY <4>2, <4>3, <4>5 DEF ListenerCanStep
      <4>7. QED
        BY <4>6
    <3>3. QED
      BY <3>1, <3>2
  <2>4. CASE pc[r] \notin {"setup", "select", "join"}
    BY <2>0, <2>4 DEF InFlight, RunPC, RunCanStep
  <2>5. QED
    BY <2>1, <2>2, <2>3, <2>4
<1>2. QED
  BY <1>1, Kept, PTL

(* What the steps of one goroutine do to what is left of it. *)
Closer(r) ==
  /\ pc'[r] # pc[r] => RunLeft[pc'[r]] < RunLeft[pc[r]]
  /\ step'[r] # step[r] => step'[r] = step[r] + 1 /\ step[r] <= Len(globalState)
  /\ r \in stopped => \A i \in Slots : lpc'[<<r, i>>] # lpc[<<r, i>>] =>
       ListenerLeft[lpc'[<<r, i>>]] < ListenerLeft[lpc[<<r, i>>]]

LEMMA RunStepCloser ==
  ASSUME IInv, StopsKept, NEW q \in Runs, RunStep(q) \/ TimerFires(q), NEW r \in Runs
  PROVE  Closer(r)
<1> USE DEF TypeOK, Closer, control, resources, setupVars, At, Goto
<1>0. TypeOK
  BY DEF IInv
<1>1. CASE SetupTelescope(q) \/ SetupHarvester(q)
  BY <1>0, <1>1 DEF SetupTelescope, SetupHarvester, MoreEntries
<1>2. CASE SetupGui(q)
  BY <1>0, <1>2 DEF SetupGui, RunLeft
<1>3. CASE SetupFails(q)
  BY <1>0, <1>3 DEF SetupFails, RunLeft
<1>4. CASE Spawn(q)
  <2>1. r \in stopped => r # q
    BY <1>4 DEF Spawn, StopsKept, AfterReport
  <2>2. r # q => \A i \in Slots : lpc'[<<r, i>>] = lpc[<<r, i>>]
    BY <1>4 DEF Spawn
  <2>3. QED
    BY <1>0, <1>4, <2>1, <2>2 DEF Spawn, RunLeft
<1>5. CASE OpenGate(q)
  BY <1>0, <1>5 DEF OpenGate, RunLeft
<1>6. CASE Announce(q)
  BY <1>0, <1>6 DEF Announce, RunLeft
<1>7. CASE TimerFires(q)
  BY <1>0, <1>7 DEF TimerFires, RunLeft
<1>8. CASE TakeStop(q)
  BY <1>0, <1>8 DEF TakeStop, RunLeft
<1>9. CASE StopListening(q)
  BY <1>0, <1>9 DEF StopListening, RunLeft
<1>10. CASE CloseConns(q)
  BY <1>0, <1>10 DEF CloseConns, RunLeft
<1>11. CASE Join(q)
  BY <1>0, <1>11 DEF Join, RunLeft
<1>12. CASE CloseFiles(q)
  BY <1>0, <1>12 DEF CloseFiles, RunLeft
<1>13. CASE Report(q)
  BY <1>0, <1>13 DEF Report, RunLeft
<1>14. CASE Release(q)
  BY <1>0, <1>14 DEF Release, RunLeft
<1>15. QED
  BY <1>1, <1>2, <1>3, <1>4, <1>5, <1>6, <1>7, <1>8, <1>9, <1>10, <1>11, <1>12, <1>13, <1>14
     DEF RunStep

LEMMA ControlCloser ==
  ASSUME IInv, Control, NEW r \in Runs
  PROVE  Closer(r)
<1> USE DEF TypeOK, Closer, control, resources, setupVars
<1>0. TypeOK /\ NewestRunOnly
  BY DEF IInv
<1>1. ASSUME NEW s \in SystemStates \cup {globalState}, StartRun(s) PROVE Closer(r)
  <2>1. nRuns + 1 \in Runs /\ nRuns \in Nat
    BY <1>0, <1>1, NextRun, RunServerAssumption DEF StartRun
  <2>2. pc[nRuns + 1] = "unborn"
    BY <1>0, <2>1 DEF NewestRunOnly
  <2>3. QED
    BY <1>0, <1>1, <2>1, <2>2 DEF StartRun, RunLeft
<1>2. CASE StopRunCmd
  BY <1>0, <1>2 DEF StopRunCmd
<1>3. CASE ExitCmd
  <2>1. pc'[r] # pc[r] => pc[r] \in RunPC \ {"unborn", "done", "killed"} /\ pc'[r] = "killed"
    BY <1>0, <1>3 DEF ExitCmd, InFlight
  <2>2. \A i \in Slots : lpc'[<<r, i>>] = "off" /\ lpc[<<r, i>>] \in ListenerPC
    BY <1>0, <1>3 DEF ExitCmd
  <2>3. \A here \in RunPC \ {"unborn", "done", "killed"} : RunLeft["killed"] < RunLeft[here]
    BY DEF RunLeft, RunPC
  <2>4. \A here \in ListenerPC \ {"off"} : ListenerLeft["off"] < ListenerLeft[here]
    BY DEF ListenerLeft, ListenerPC
  <2>5. UNCHANGED step
    BY <1>3 DEF ExitCmd
  <2>6. QED
    BY <2>1, <2>2, <2>3, <2>4, <2>5
<1>4. CASE Restart
  BY <1>0, <1>4 DEF Restart
<1>5. QED
  BY <1>1, <1>2, <1>3, <1>4 DEF Control

LEMMA ListenerCloser ==
  ASSUME IInv, NEW l \in Runs \X Slots, ListenerAction(l), NEW r \in Runs
  PROVE  Closer(r)
<1>1. UNCHANGED <<pc, step>>
  BY ListenerMoves DEF ListenerGoto, setupVars
<1>2. ASSUME r \in stopped, NEW i \in Slots, lpc'[<<r, i>>] # lpc[<<r, i>>]
      PROVE  ListenerLeft[lpc'[<<r, i>>]] < ListenerLeft[lpc[<<r, i>>]]
  <2>1. lpc \in [Runs \X Slots -> ListenerPC]
    BY DEF IInv, TypeOK
  <2>2. l = <<r, i>>
    BY <1>2, <2>1, ListenerMoves DEF ListenerGoto
  <2>3. \/ lpc[l] = "gate" /\ lpc'[l] \in {"poll", "done"}
        \/ lpc[l] = "poll" /\ lpc'[l] = "done"
        \/ lpc[l] = "read" /\ lpc'[l] \in {"write", "poll"}
        \/ lpc[l] = "write" /\ lpc'[l] \in {"offer", "poll"}
        \/ lpc[l] = "offer" /\ lpc'[l] = "poll"
    <3>1. l[1] \in stopped
      BY <1>2, <2>2
    <3>2. \A from, to : ListenerGoto(l, from, to) => lpc[l] = from /\ lpc'[l] = to
      BY <2>1 DEF ListenerGoto
    <3>3. QED
      BY <3>1, <3>2 DEF ListenerAction, ListenerStep, ListenerGate, ListenerPoll, ListenerRead,
         ListenerReadError, ListenerWrite, ListenerOffer, ListenerGiveUp
  <2>4. QED
    BY <2>2, <2>3 DEF ListenerLeft
<1>3. QED
  BY <1>1, <1>2 DEF Closer

(* So the end comes: of the steps between a stop and the end there are not *)
(* more than the entries, the points of the goroutine and of its listeners.*)
THEOREM EndIsNear == Spec => EndComesCloser
<1>1. IInv /\ StopsKept /\ [Next]_vars => [\A r \in Runs : Closer(r)]_vars
  <2> SUFFICES ASSUME IInv, StopsKept, Next, NEW r \in Runs PROVE Closer(r)
    OBVIOUS
  <2>1. CASE Control
    BY <2>1, ControlCloser
  <2>2. ASSUME NEW q \in Runs, RunStep(q) \/ TimerFires(q) PROVE Closer(r)
    BY <2>2, RunStepCloser
  <2>3. ASSUME NEW l \in Runs \X Slots, ListenerAction(l) PROVE Closer(r)
    BY <2>3, ListenerCloser
  <2>4. QED
    BY <2>1, <2>2, <2>3 DEF Next, ListenerAction
<1>2. QED
  BY <1>1, Kept, PTL DEF Spec, EndComesCloser, Closer

-----------------------------------------------------------------------------
(* The refinement of RunSession *)

LEMMA InitSession == Init => Session!Init
<1> SUFFICES ASSUME Init PROVE Session!Init
  OBVIOUS
<1>1. SessionPhase = "idle" /\ nRuns = 0 /\ (nRuns \in asked) = FALSE
  BY DEF Init, SessionPhase
<1>2. SessionTold = [r \in Runs |-> "nothing"]
  BY DEF Init, SessionTold
<1>3. QED
  BY <1>1, <1>2 DEF Session!Init, Session!Runs, Runs

LEMMA Phases ==
  /\ PhaseAt("unborn") = "idle" /\ PhaseAt("done") = "idle" /\ PhaseAt("killed") = "idle"
  /\ \A here \in {"setup", "spawn", "gate", "announce"} : PhaseAt(here) = "setup"
  /\ \A here \in BeforeReport : PhaseAt(here) = "logging"
  /\ PhaseAt("release") = "reported"
  BY DEF PhaseAt, BeforeReport

(* What RunSession sees does not change. *)
SessionStutters == /\ SessionPhase' = SessionPhase
                   /\ nRuns' = nRuns
                   /\ asked' = asked
                   /\ SessionTold' = SessionTold

LEMMA ControlSession == IInv /\ IInv' /\ Control => Session!Next
<1> SUFFICES ASSUME IInv, IInv', Control PROVE Session!Next
  OBVIOUS
<1> USE DEF IInv, TypeOK, control, resources, setupVars
<1>1. ASSUME NEW s \in SystemStates \cup {globalState}, StartRun(s) PROVE Session!Accept
  <2>1. up /\ ~runActive /\ up' /\ nRuns' = nRuns + 1 /\ nRuns < MaxRuns
        /\ sent' = sent /\ asked' = asked
    BY <1>1 DEF StartRun
  <2>2. SessionPhase = "idle"
    <3>1. CASE nRuns = 0
      BY <2>1, <3>1 DEF SessionPhase
    <3>2. CASE nRuns # 0
      <4>1. nRuns \in Runs
        BY <3>2 DEF Runs
      <4>2. pc[nRuns] \in {"unborn", "done", "killed"}
        BY <2>1, <4>1 DEF NewestRunOnly, InFlight
      <4>3. QED
        BY <2>1, <3>2, <4>2, Phases DEF SessionPhase
    <3>3. QED
      BY <3>1, <3>2
  <2>3. SessionPhase' = "setup"
    <3>1. nRuns + 1 \in Runs
      BY <2>1, NextRun
    <3>2. pc'[nRuns'] = "setup" /\ nRuns' # 0
      BY <1>1, <2>1, <3>1 DEF StartRun
    <3>3. QED
      BY <2>1, <3>2, Phases DEF SessionPhase
  <2>4. ~(nRuns + 1 \in asked)
    BY DEF NewestRunOnly
  <2>5. SessionTold' = SessionTold
    BY <2>1 DEF SessionTold
  <2>6. QED
    BY <2>1, <2>2, <2>3, <2>4, <2>5 DEF Session!Accept
<1>2. CASE StopRunCmd
  <2>1. up /\ up' /\ pc' = pc /\ nRuns' = nRuns /\ sent' = sent /\ nRuns \in asked'
    BY <1>2 DEF StopRunCmd
  <2>2. SessionPhase' = SessionPhase /\ SessionTold' = SessionTold
    BY <2>1 DEF SessionPhase, SessionTold
  <2>3. SessionPhase \in {"setup", "logging", "reported"}
    <3>1. nRuns # 0 /\ pc[nRuns] \in RunPC \ {"unborn", "done", "killed"}
      BY <1>2 DEF StopRunCmd, NewestRunOnly, InFlight, Runs
    <3>2. QED
      BY <2>1, <3>1, Phases DEF SessionPhase, RunPC, BeforeReport
  <2>4. QED
    BY <2>1, <2>2, <2>3 DEF Session!TakeStop, Session!Next
<1>3. CASE ExitCmd
  <2>1. up /\ ~up' /\ nRuns' = nRuns /\ sent' = sent /\ asked' = asked
    BY <1>3 DEF ExitCmd
  <2>2. SessionPhase # "down"
    <3>1. CASE nRuns = 0
      BY <2>1, <3>1 DEF SessionPhase
    <3>2. CASE nRuns # 0
      <4>1. nRuns \in Runs
        BY <3>2, RunServerAssumption DEF Runs
      <4>2. pc[nRuns] \in RunPC
        BY <4>1
      <4>3. QED
        BY <2>1, <3>2, <4>2, Phases DEF SessionPhase, RunPC, BeforeReport
    <3>3. QED
      BY <3>1, <3>2
  <2>3. SessionPhase' = "down" /\ SessionTold' = SessionTold
    BY <2>1 DEF SessionPhase, SessionTold
  <2>4. QED
    BY <2>1, <2>2, <2>3 DEF Session!Exit, Session!Next
<1>4. CASE Restart
  <2>1. ~up /\ up' /\ pc' = pc /\ nRuns' = nRuns /\ sent' = sent /\ asked' = asked
    BY <1>4 DEF Restart
  <2>2. nRuns = 0 \/ pc[nRuns] \in {"unborn", "done", "killed"}
    BY <2>1 DEF NewestRunOnly, InFlight, Runs
  <2>3. SessionPhase = "down" /\ SessionPhase' = "idle" /\ SessionTold' = SessionTold
    BY <2>1, <2>2, Phases DEF SessionPhase, SessionTold
  <2>4. QED
    BY <2>1, <2>3 DEF Session!Restart, Session!Next
<1>5. QED
  BY <1>1, <1>2, <1>3, <1>4 DEF Control, Session!Next

LEMMA LastAppended ==
  ASSUME NEW S, NEW q \in Seq(S), NEW e \in S
  PROVE  /\ Append(q, e) # <<>>
         /\ Append(q, e)[Len(Append(q, e))] = e
  OBVIOUS

(* Saying e about run r is an update of what the session was told. *)
LEMMA Telling ==
  ASSUME TypeOK, NEW r \in Runs, NEW e \in Final \cup {"started"},
         sent' = [sent EXCEPT ![r] = Append(@, e)]
  PROVE  SessionTold' = [SessionTold EXCEPT ![r] = e]
<1>1. sent[r] \in Seq(Final \cup {"started"})
  BY DEF TypeOK
<1>2. sent'[r] = Append(sent[r], e) /\ \A q \in Runs \ {r} : sent'[q] = sent[q]
  BY DEF TypeOK
<1>3. sent'[r] # <<>> /\ sent'[r][Len(sent'[r])] = e
  <2>1. /\ Append(sent[r], e) # <<>>
        /\ Append(sent[r], e)[Len(Append(sent[r], e))] = e
    BY <1>1, LastAppended
  <2>2. QED
    BY <1>2, <2>1
<1>4. \A q \in Runs : SessionTold'[q] = IF q = r THEN e ELSE SessionTold[q]
  BY <1>2, <1>3 DEF SessionTold
<1>5. SessionTold' = [q \in Runs |-> SessionTold'[q]]
      /\ SessionTold = [q \in Runs |-> SessionTold[q]]
  BY DEF SessionTold
<1>6. QED
  BY <1>4, <1>5

LEMMA RunStepSession ==
  ASSUME IInv, NEW r \in Runs, RunStep(r) \/ TimerFires(r)
  PROVE  Session!Next \/ SessionStutters
<1> USE DEF IInv, TypeOK, control, resources, setupVars, At, Goto
<1>1. up /\ nRuns = r /\ pc[r] \in RunPC
  BY DEF NewestRunOnly, InFlight, RunStep, TimerFires, SetupTelescope,
     SetupHarvester, SetupGui, SetupFails, Spawn, OpenGate, Announce, TakeStop,
     StopListening, CloseConns, Join, CloseFiles, Report, Release
<1>2. up' = up /\ nRuns' = nRuns /\ asked' = asked
  BY DEF RunStep, TimerFires, SetupTelescope,
     SetupHarvester, SetupGui, SetupFails, Spawn, OpenGate, Announce, TakeStop,
     StopListening, CloseConns, Join, CloseFiles, Report, Release
<1>3. SessionPhase = PhaseAt(pc[r]) /\ SessionPhase' = PhaseAt(pc'[r])
  BY <1>1, <1>2 DEF SessionPhase, Runs
<1>4. CASE SetupFails(r)
  <2>1. SessionTold' = [SessionTold EXCEPT ![r] = "aborted"]
    BY <1>4, Telling DEF SetupFails, Final
  <2>2. SessionPhase = "setup" /\ SessionPhase' = "reported"
    BY <1>3, <1>4, Phases DEF SetupFails
  <2>3. QED
    BY <1>1, <1>2, <2>1, <2>2 DEF Session!Abort, Session!Next
<1>5. CASE Announce(r)
  <2>1. SessionTold' = [SessionTold EXCEPT ![r] = "started"]
    BY <1>5, Telling DEF Announce
  <2>2. SessionPhase = "setup" /\ SessionPhase' = "logging"
    BY <1>3, <1>5, Phases DEF Announce, BeforeReport
  <2>3. QED
    BY <1>1, <1>2, <2>1, <2>2 DEF Session!Begin, Session!Next
<1>6. CASE Report(r)
  <2>1. EndStatus(r) \in {"ended", "ended_manually"}
    BY DEF EndStatus
  <2>2. SessionTold' = [SessionTold EXCEPT ![r] = EndStatus(r)]
    BY <1>6, <2>1, Telling DEF Report, Final
  <2>3. SessionPhase = "logging" /\ SessionPhase' = "reported"
    BY <1>3, <1>6, Phases DEF Report, BeforeReport
  <2>4. EndStatus(r) = "ended_manually" => nRuns \in asked
    BY <1>1 DEF EndStatus, StopsAsked
  <2>5. Session!Finish(EndStatus(r))
    BY <1>1, <1>2, <2>2, <2>3, <2>4 DEF Session!Finish
  <2>6. QED
    BY <2>1, <2>5 DEF Session!Next
<1>7. CASE Release(r)
  <2>1. SessionTold' = SessionTold
    BY <1>7 DEF Release, SessionTold
  <2>2. SessionPhase = "reported" /\ SessionPhase' = "idle"
    BY <1>3, <1>7, Phases DEF Release
  <2>3. QED
    BY <1>2, <2>1, <2>2 DEF Session!Release, Session!Next
<1>8. ASSUME ~SetupFails(r), ~Announce(r), ~Report(r), ~Release(r)
      PROVE  SessionStutters
  <2>1. SessionTold' = SessionTold
    BY <1>8 DEF SessionTold, RunStep, TimerFires, SetupTelescope, SetupHarvester,
       SetupGui, Spawn, OpenGate, TakeStop, StopListening, CloseConns, Join,
       CloseFiles
  <2>2. \/ pc[r] \in {"setup", "spawn", "gate", "announce"}
           /\ pc'[r] \in {"setup", "spawn", "gate", "announce"}
        \/ pc[r] \in BeforeReport /\ pc'[r] \in BeforeReport
    BY <1>8 DEF RunStep, TimerFires, SetupTelescope, SetupHarvester, SetupGui,
       Spawn, OpenGate, TakeStop, StopListening, CloseConns, Join, CloseFiles,
       BeforeReport
  <2>3. QED
    BY <1>2, <1>3, <2>1, <2>2, Phases DEF SessionStutters
<1>9. QED
  BY <1>4, <1>5, <1>6, <1>7, <1>8

LEMMA ListenerSession ==
  ASSUME NEW l \in Runs \X Slots, ListenerAction(l) PROVE SessionStutters
<1>1. PICK to \in ListenerPC : ListenerGoto(l, lpc[l], to)
  BY ListenerMoves
<1>2. UNCHANGED <<up, nRuns, pc, sent, asked>>
  BY <1>1 DEF ListenerGoto, control
<1>3. QED
  BY <1>2 DEF SessionStutters, SessionPhase, SessionTold

(* The goroutines, sockets and files of the server together keep the       *)
(* promise of RunSession, for any number of runs and any states.           *)
THEOREM Refinement == Spec => ImplementsSession
<1>1. IInv /\ IInv' /\ [Next]_vars => [Session!Next]_(Session!vars)
  <2> SUFFICES ASSUME IInv, IInv', [Next]_vars
               PROVE  Session!Next \/ SessionStutters
    BY DEF SessionStutters, Session!vars
  <2>1. CASE Control
    BY <2>1, ControlSession
  <2>2. ASSUME NEW r \in Runs, RunStep(r) \/ TimerFires(r)
        PROVE  Session!Next \/ SessionStutters
    BY <2>2, RunStepSession
  <2>3. ASSUME NEW l \in Runs \X Slots, ListenerAction(l) PROVE SessionStutters
    BY <2>3, ListenerSession
  <2>4. CASE UNCHANGED vars
    BY <2>4 DEF vars, control, SessionStutters, SessionPhase, SessionTold
  <2>5. QED
    BY <2>1, <2>2, <2>3, <2>4 DEF Next, ListenerAction
<1>2. QED
  BY <1>1, InitSession, Invariant, PTL DEF Spec, ImplementsSession, Session!Spec
=============================================================================
