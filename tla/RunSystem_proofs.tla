-------------------------- MODULE RunSystem_proofs --------------------------
(***************************************************************************)
(* Run numbers, for every set of faults: however datagrams are lost,       *)
(* delayed or reordered, and whatever the database and the server do, two  *)
(* runs accepted from one session of the GUI never carry the same number.  *)
(* And rows and the lock, while datagrams arrive in good time: a row is    *)
(* about the run it names, and the GUI is locked while the server is busy. *)
(***************************************************************************)
EXTENDS RunSystem, SequenceTheorems, TLAPS

(* read_last_run_id never goes back to a number already used. *)
LEMMA PreviewAfter ==
  ASSUME NEW ok \in BOOLEAN, NEW next \in Nat, NEW used \in Nat, NEW shown \in Nat,
         NEW table, \A row \in table : row.id \in Nat,
         ReadLastRunId(ok, next, table, used, shown)
  PROVE  runId' \in Nat /\ (used # 0 => runId' > used)
<1> DEFINE ids == Previews(ok, next, table, used)
<1>1. \A id \in ids : id \in Nat
  BY DEF Previews
<1>2. used # 0 => used + 1 \in ids
  BY DEF Previews
<1>3. CASE ids = {}
  BY <1>2, <1>3 DEF ReadLastRunId
<1>4. CASE ids # {}
  <2>1. runId' \in ids /\ \A id \in ids : id <= runId'
    BY <1>4 DEF ReadLastRunId
  <2>2. runId' \in Nat
    BY <1>1, <2>1
  <2>3. QED
    BY <1>2, <2>1, <2>2
<1>5. QED
  BY <1>3, <1>4

LEMMA DbAnswersType == DbAnswers \subseteq BOOLEAN /\ ("db" \notin Faults => DbAnswers = {TRUE})
  BY DEF DbAnswers

LEMMA EndRunFresh ==
  ASSUME NumbersTyped, NEW ok \in DbAnswers, NEW table,
         \A row \in table : row.id \in Nat, EndRun(ok, table)
  PROVE  runId' \in Nat /\ (lastUsed # 0 => runId' > lastUsed)
<1>1. ReadLastRunId(ok, seq, table, lastUsed, runId)
  BY DEF EndRun
<1>2. ok \in BOOLEAN /\ seq \in Nat /\ lastUsed \in Nat /\ runId \in Nat
  BY DbAnswersType DEF NumbersTyped
<1>3. QED
  BY <1>1, <1>2, PreviewAfter

(* A start command is its number and its session. *)
LEMMA StartIs ==
  /\ \A id, s \in Nat : Start(id, s) \in Command /\ Start(id, s).cmd = "start"
                        /\ Start(id, s).id = id /\ Start(id, s).session = s
  /\ \A m \in Command : m.cmd = "start" =>
       m.id \in Nat /\ m.session \in Nat /\ m = Start(m.id, m.session)
  /\ Stop \in Command /\ Stop.cmd = "stop"
<1>1. \A m \in Command : m.cmd = "start" => m \in [cmd : {"start"}, id : Nat, session : Nat]
  BY DEF Command, Stop
<1>2. QED
  BY <1>1 DEF Start, Command, Stop

-----------------------------------------------------------------------------

LEMMA InitNumbers == Init => NumbersInv
<1> SUFFICES ASSUME Init PROVE NumbersInv
  OBVIOUS
<1> USE DEF Init, Server!Init
<1>1. NumbersTyped
  BY RunSystemAssumption, StartIs DEF NumbersTyped, NoCommand
<1>2. Made = {}
  BY DEF Made, Starts
<1>3. QED
  BY <1>1, <1>2, RunSystemAssumption
     DEF NumbersInv, MadeEarlier, TakenOnce, FromSequence, PreviewIsFresh, Runs

(* What most steps leave of the numbers: the wire may lose commands and    *)
(* gain a stop.                                                            *)
NumbersKept ==
  /\ UNCHANGED <<run, command, session, lastUsed, seq>>
  /\ toServer' \subseteq toServer \cup {Stop}
  /\ \A row \in rows' : row.id \in Nat
  /\ \/ UNCHANGED runId /\ (~active' => ~active)
     \/ runId' \in Nat /\ (lastUsed # 0 => runId' > lastUsed)

LEMMA KeptInv == NumbersInv /\ NumbersKept => NumbersInv'
<1> SUFFICES ASSUME NumbersInv, NumbersKept PROVE NumbersInv'
  OBVIOUS
<1> USE DEF NumbersInv
<1>1. NumbersTyped'
  BY StartIs DEF NumbersTyped, NumbersKept
<1>2. Made' \subseteq Made
  BY StartIs DEF Made, Starts, NumbersKept
<1>3. MadeEarlier'
  BY <1>2 DEF MadeEarlier, NumbersKept
<1>4. TakenOnce'
  <2>1. \A r \in 1..run : command[r] # Stop
    BY StartIs DEF MadeEarlier, Made
  <2>2. QED
    BY <2>1 DEF TakenOnce, NumbersKept
<1>5. FromSequence'
  BY <1>2 DEF FromSequence, NumbersKept
<1>6. PreviewIsFresh'
  BY DEF PreviewIsFresh, NumbersKept
<1>7. QED
  BY <1>1, <1>3, <1>4, <1>5, <1>6

(* The statuses, timers, server steps and buttons that make no command.    *)
Quiet ==
  \/ RefuseStart \/ IgnoreStart \/ ReceiveStop \/ RunStep \/ Crash \/ Restart
  \/ StopRun \/ ConnectServer \/ StopServer
  \/ GotStatus \/ GotHeartbeat \/ StartNotConfirmed \/ HeartbeatTimeout \/ Lose

LEMMA QuietKeeps == NumbersInv /\ Quiet => NumbersKept
<1> SUFFICES ASSUME NumbersInv, Quiet PROVE NumbersKept
  OBVIOUS
<1> USE DEF NumbersInv, NumbersKept, server, wire, link, lock, panel, db
<1>0. \A row \in rows : row.id \in Nat
  BY DEF NumbersTyped
<1>1. CASE RefuseStart \/ IgnoreStart
  BY <1>0, <1>1 DEF RefuseStart, IgnoreStart
<1>2. CASE ReceiveStop
  BY <1>0, <1>2 DEF ReceiveStop, Server!TakeStop
<1>3. CASE RunStep
  BY <1>0, <1>3 DEF RunStep, Server!Begin, Server!Abort, Server!Finish, Server!Release
<1>4. CASE Crash \/ Restart
  BY <1>0, <1>4 DEF Crash, Restart, Server!Exit, Server!Restart
<1>5. CASE StopRun \/ ConnectServer \/ GotHeartbeat
  BY <1>0, <1>5 DEF StopRun, ConnectServer, GotHeartbeat
<1>6. CASE StopServer
  BY <1>0, <1>6 DEF StopServer, Server!Exit
<1>7. CASE GotStatus
  <2>1. PICK k \in Arriving : GotStarted(k) \/ GotAborted(k) \/ GotEnded(k)
    BY <1>7 DEF GotStatus
  <2>2. UNCHANGED <<run, command, session, lastUsed, seq, toServer>>
    BY <2>1 DEF GotStarted, GotAborted, GotEnded, Take
  <2>3. CASE GotStarted(k)
    BY <1>0, <2>2, <2>3 DEF GotStarted
  <2>4. CASE GotAborted(k)
    <3>1. rows' = rows /\ \E ok \in DbAnswers : EndRun(ok, rows)
      BY <2>4 DEF GotAborted
    <3>2. runId' \in Nat /\ (lastUsed # 0 => runId' > lastUsed)
      BY <1>0, <3>1, EndRunFresh
    <3>3. QED
      BY <1>0, <2>2, <3>1, <3>2
  <2>5. CASE GotEnded(k)
    <3>1. PICK ok, again \in DbAnswers :
            rows' = WriteRow(ok, toGui[k]) /\ EndRun(again, rows')
      BY <2>5 DEF GotEnded
    <3>2. \A row \in rows' : row.id \in Nat
      BY <1>0, <3>1 DEF WriteRow, RowFor, NumbersTyped
    <3>3. runId' \in Nat /\ (lastUsed # 0 => runId' > lastUsed)
      BY <3>1, <3>2, EndRunFresh
    <3>4. QED
      BY <2>2, <3>2, <3>3
  <2>6. QED
    BY <2>1, <2>3, <2>4, <2>5
<1>8. CASE StartNotConfirmed
  <2>1. runId' \in Nat /\ (lastUsed # 0 => runId' > lastUsed)
    BY <1>0, <1>8, EndRunFresh DEF StartNotConfirmed
  <2>2. QED
    BY <1>0, <1>8, <2>1 DEF StartNotConfirmed
<1>9. CASE HeartbeatTimeout
  <2>1. CASE active
    <3>1. \E ok \in DbAnswers : EndRun(ok, rows)
      BY <1>9, <2>1 DEF HeartbeatTimeout
    <3>2. runId' \in Nat /\ (lastUsed # 0 => runId' > lastUsed)
      BY <1>0, <3>1, EndRunFresh
    <3>3. QED
      BY <1>0, <1>9, <2>1, <3>2 DEF HeartbeatTimeout
  <2>2. CASE ~active
    BY <1>0, <1>9, <2>2 DEF HeartbeatTimeout
  <2>3. QED
    BY <2>1, <2>2
<1>10. CASE Lose
  BY <1>0, <1>10 DEF Lose
<1>11. QED
  BY <1>1, <1>2, <1>3, <1>4, <1>5, <1>6, <1>7, <1>8, <1>9, <1>10 DEF Quiet

(* The number a Start takes was not used before in this session, and comes *)
(* from the sequence if the database answers.                              *)
LEMMA Reserved ==
  ASSUME NumbersInv, NEW ok \in DbAnswers, Reserve(ok)
  PROVE  /\ lastUsed' \in Nat /\ lastUsed' > lastUsed
         /\ seq' \in Nat \ {0} /\ seq' >= seq
         /\ "db" \notin Faults => lastUsed' = seq /\ seq' = seq + 1
<1> USE DEF NumbersInv, NumbersTyped
<1>1. ok \in BOOLEAN /\ ("db" \notin Faults => ok)
  BY DbAnswersType
<1>2. "db" \notin Faults => seq > lastUsed
  BY DEF FromSequence
<1>3. ~active /\ runId # 0
  BY DEF Reserve, StartAllowed
<1>4. runId > lastUsed
  BY <1>3 DEF PreviewIsFresh
<1>5. QED
  BY <1>1, <1>2, <1>4 DEF Reserve, ReservedId

LEMMA MadeType ==
  ASSUME NumbersInv
  PROVE  \A m \in Made : m.id \in Nat /\ m.session \in Nat /\ m = Start(m.id, m.session)
<1>1. 1..run \subseteq Runs
  BY RunSystemAssumption DEF NumbersInv, NumbersTyped, Runs
<1>2. \A m \in Made : m \in Command
  BY <1>1 DEF NumbersInv, NumbersTyped, Made, Starts
<1>3. QED
  BY <1>2, StartIs DEF NumbersInv, MadeEarlier

LEMMA OpenGuiInv == NumbersInv /\ OpenGui => NumbersInv'
<1> SUFFICES ASSUME NumbersInv, OpenGui PROVE NumbersInv'
  OBVIOUS
<1> USE DEF NumbersInv, OpenGui, server, wire, db
<1>1. runId' \in Nat
  BY PreviewAfter, DbAnswersType DEF NumbersTyped
<1>2. NumbersTyped'
  BY <1>1 DEF NumbersTyped
<1>3. Made' = Made
  BY DEF Made, Starts
<1>4. MadeEarlier'
  <2>1. \A m \in Made : m.session \in Nat
    BY MadeType
  <2>2. QED
    BY <1>3, <2>1 DEF MadeEarlier, NumbersTyped
<1>5. TakenOnce'
  BY DEF TakenOnce
<1>6. FromSequence'
  BY <1>3 DEF FromSequence, NumbersTyped
<1>7. PreviewIsFresh'
  BY DEF PreviewIsFresh
<1>8. QED
  BY <1>2, <1>4, <1>5, <1>6, <1>7

LEMMA AcceptInv == NumbersInv /\ AcceptStart => NumbersInv'
<1> SUFFICES ASSUME NumbersInv, AcceptStart PROVE NumbersInv'
  OBVIOUS
<1> USE DEF NumbersInv, server, link, lock, panel, db
<1>1. PICK m \in Starts : /\ toServer' = toServer \ {m}
                          /\ command' = [command EXCEPT ![run + 1] = m]
  BY DEF AcceptStart
<1>2. run' = run + 1 /\ run < MaxRuns
      /\ UNCHANGED <<session, active, runId, lastUsed, seq, rows>>
  BY DEF AcceptStart, Server!Accept
<1>3. run + 1 \in Runs /\ 1..run \subseteq Runs /\ 1..(run + 1) = (1..run) \cup {run + 1}
  BY <1>2, RunSystemAssumption DEF NumbersTyped, Runs
<1>4. command'[run + 1] = m /\ \A r \in Runs \ {run + 1} : command'[r] = command[r]
  BY <1>1, <1>3 DEF NumbersTyped
<1>5. NumbersTyped'
  BY <1>1, <1>2, <1>3, RunSystemAssumption DEF NumbersTyped, Starts
<1>6. Made' \subseteq Made
  <2>1. \A r \in 1..run : command'[r] = command[r]
    BY <1>3, <1>4 DEF NumbersTyped
  <2>2. QED
    BY <1>1, <1>2, <1>3, <1>4, <2>1 DEF Made, Starts
<1>7. MadeEarlier'
  BY <1>2, <1>6 DEF MadeEarlier
<1>8. TakenOnce'
  <2>1. m \in toServer /\ \A r \in 1..run : command'[r] = command[r] /\ command[r] \notin toServer
    BY <1>3, <1>4 DEF TakenOnce, Starts, NumbersTyped
  <2>2. \A r \in Runs : r > run + 1 => command'[r] = NoCommand
    BY <1>4 DEF TakenOnce, NumbersTyped, Runs
  <2>3. QED
    BY <1>1, <1>2, <1>3, <1>4, <2>1, <2>2 DEF TakenOnce
<1>9. FromSequence'
  BY <1>2, <1>6 DEF FromSequence
<1>10. PreviewIsFresh'
  BY <1>2 DEF PreviewIsFresh
<1>11. QED
  BY <1>5, <1>7, <1>8, <1>9, <1>10

LEMMA StartInv == NumbersInv /\ StartRun => NumbersInv'
<1> SUFFICES ASSUME NumbersInv, StartRun PROVE NumbersInv'
  OBVIOUS
<1> USE DEF NumbersInv, server, link
<1> DEFINE new == Start(lastUsed', session)
<1>1. PICK ok \in DbAnswers : Reserve(ok)
  BY DEF StartRun
<1>2. /\ lastUsed' \in Nat /\ lastUsed' > lastUsed
      /\ seq' \in Nat \ {0} /\ seq' >= seq
      /\ "db" \notin Faults => lastUsed' = seq /\ seq' = seq + 1
  BY <1>1, Reserved
<1>3. UNCHANGED <<run, command, session, rows>>
  BY <1>1 DEF StartRun, Reserve
<1>4. runId' = lastUsed' /\ active' /\ toServer' = toServer \cup {new}
  BY DEF StartRun
<1>5. new \in Command /\ new.cmd = "start" /\ new.id = lastUsed' /\ new.session = session
  BY <1>2, StartIs DEF NumbersTyped
<1>6. NumbersTyped'
  BY <1>2, <1>3, <1>4, <1>5 DEF NumbersTyped
<1>7. Made' = Made \cup {new}
  BY <1>3, <1>4, <1>5 DEF Made, Starts
<1>8. MadeEarlier'
  <2>1. \A m \in Made : m.id \in Nat
    BY MadeType
  <2>2. ASSUME NEW m \in Made, m.session = session PROVE m.id <= lastUsed'
    BY <1>2, <2>1, <2>2 DEF MadeEarlier, NumbersTyped
  <2>3. QED
    BY <1>2, <1>3, <1>5, <1>7, <2>2 DEF MadeEarlier, NumbersTyped
<1>9. new \notin Made
  BY <1>2, <1>5 DEF MadeEarlier, NumbersTyped
<1>10. TakenOnce'
  BY <1>3, <1>4, <1>9 DEF TakenOnce, Made
<1>11. FromSequence'
  <2> SUFFICES ASSUME "db" \notin Faults
               PROVE  /\ lastUsed' < seq'
                      /\ \A m \in Made' : m.id < seq'
                      /\ \A m, n \in Made' : m.id = n.id => m = n
    BY DEF FromSequence
  <2>1. lastUsed' = seq /\ seq' = seq + 1 /\ seq \in Nat
    BY <1>2 DEF NumbersTyped
  <2>2. \A m \in Made : m.id \in Nat /\ m.id < seq
    BY MadeType DEF FromSequence
  <2>3. \A m, n \in Made : m.id = n.id => m = n
    BY DEF FromSequence
  <2>4. \A m \in Made : m.id < seq' /\ m.id # new.id
    BY <1>5, <2>1, <2>2
  <2>5. new.id < seq'
    BY <1>5, <2>1
  <2>6. QED
    BY <1>7, <2>1, <2>3, <2>4, <2>5
<1>12. PreviewIsFresh'
  BY <1>4 DEF PreviewIsFresh
<1>13. QED
  BY <1>6, <1>8, <1>10, <1>11, <1>12

LEMMA NotSentInv == NumbersInv /\ StartNotSent => NumbersInv'
<1> SUFFICES ASSUME NumbersInv, StartNotSent PROVE NumbersInv'
  OBVIOUS
<1> USE DEF NumbersInv, server, wire, link, lock
<1>1. PICK ok, again \in DbAnswers :
        Reserve(ok) /\ ReadLastRunId(again, seq', rows, lastUsed', lastUsed')
  BY DEF StartNotSent
<1>2. /\ lastUsed' \in Nat /\ lastUsed' > lastUsed
      /\ seq' \in Nat \ {0} /\ seq' >= seq
      /\ "db" \notin Faults => lastUsed' = seq /\ seq' = seq + 1
  BY <1>1, Reserved
<1>3. UNCHANGED <<run, command, session, rows, toServer, active>>
  BY <1>1 DEF StartNotSent, Reserve
<1>4. runId' \in Nat /\ (lastUsed' # 0 => runId' > lastUsed')
  BY <1>1, <1>2, PreviewAfter, DbAnswersType DEF NumbersTyped
<1>5. NumbersTyped'
  BY <1>2, <1>3, <1>4 DEF NumbersTyped
<1>6. Made' = Made /\ \A m \in Made : m.id \in Nat
  BY <1>3, MadeType DEF Made, Starts
<1>7. MadeEarlier'
  BY <1>2, <1>3, <1>6 DEF MadeEarlier, NumbersTyped
<1>8. TakenOnce'
  BY <1>3 DEF TakenOnce
<1>9. FromSequence'
  BY <1>2, <1>3, <1>6 DEF FromSequence, NumbersTyped
<1>10. PreviewIsFresh'
  BY <1>4 DEF PreviewIsFresh
<1>11. QED
  BY <1>5, <1>7, <1>8, <1>9, <1>10

LEMMA NumbersStep == NumbersInv /\ [Next]_vars => NumbersInv'
<1> SUFFICES ASSUME NumbersInv, [Next]_vars PROVE NumbersInv'
  OBVIOUS
<1>1. CASE Quiet
  BY <1>1, QuietKeeps, KeptInv
<1>2. CASE UNCHANGED vars
  <2>1. NumbersKept
    BY <1>2 DEF vars, server, wire, link, lock, panel, db, NumbersKept, NumbersInv,
                NumbersTyped
  <2>2. QED
    BY <2>1, KeptInv
<1>3. CASE AcceptStart \/ StartRun \/ StartNotSent \/ OpenGui
  BY <1>3, AcceptInv, StartInv, NotSentInv, OpenGuiInv
<1>4. QED
  BY <1>1, <1>2, <1>3 DEF Next, ReceiveStart, Operator, Quiet

(* The bookkeeping behind the two theorems below. *)
THEOREM NumbersInvariant == Spec => []NumbersInv
  BY InitNumbers, NumbersStep, PTL DEF Spec

(* No two runs of a session share a number, and with a database that       *)
(* always answers no two runs do.                                          *)
THEOREM DistinctNumbers == Spec => []NumbersDistinct
<1>1. NumbersInv => NumbersDistinct
  <2> SUFFICES ASSUME NumbersInv, NEW r \in Runs, NEW q \in Runs, r # q,
                      NoCommand \notin {command[r], command[q]},
                      \/ command[r].session = command[q].session
                      \/ "db" \notin Faults,
                      command[r].id = command[q].id
               PROVE  FALSE
    BY DEF NumbersDistinct
  <2>1. r \in 1..run /\ q \in 1..run
    BY DEF NumbersInv, TakenOnce, NumbersTyped, Runs
  <2>2. command[r] \in Made /\ command[q] \in Made
    BY <2>1 DEF Made
  <2>3. command[r] = command[q]
    <3>1. CASE command[r].session = command[q].session
      BY <2>2, <3>1, MadeType
    <3>2. CASE "db" \notin Faults
      BY <2>2, <3>2 DEF NumbersInv, FromSequence
    <3>3. QED
      BY <3>1, <3>2
  <2>4. QED
    BY <2>1, <2>3 DEF NumbersInv, TakenOnce
<1>2. QED
  BY <1>1, NumbersInvariant, PTL

(* Between runs the number on show is above every number of the session.   *)
THEOREM FreshPreview == Spec => []PreviewIsFresh
<1>1. NumbersInv => PreviewIsFresh
  BY DEF NumbersInv
<1>2. QED
  BY <1>1, NumbersInvariant, PTL

-----------------------------------------------------------------------------
(* Rows and the lock, as long as datagrams and setup keep within the GUI's *)
(* timers and the GUI stays open.  One run is in hand at a time; it is the *)
(* one whose number is on show; and what is under way to the GUI is the    *)
(* rest of its statuses.                                                   *)

(* What is left of a short queue. *)
LEMMA Remaining ==
  ASSUME NEW a, NEW b
  PROVE  RemoveAt(<<a>>, 1) = <<>> /\ RemoveAt(<<a, b>>, 1) = <<b>>
<1> DEFINE S == {a, b}
<1>1. SubSeq(<<a, b>>, 1, 0) = <<>> /\ SubSeq(<<a>>, 1, 0) = <<>> /\ SubSeq(<<a>>, 2, 1) = <<>>
  BY SubSeqEmpty
<1>2. SubSeq(<<a, b>>, 2, 2) = <<b>>
  <2>1. <<a, b>> \in Seq(S) /\ <<b>> \in Seq(S)
    OBVIOUS
  <2>2. /\ SubSeq(<<a, b>>, 2, 2) \in Seq(S) /\ Len(SubSeq(<<a, b>>, 2, 2)) = 1
        /\ SubSeq(<<a, b>>, 2, 2)[1] = b
    BY <2>1, SubSeqProperties
  <2>3. Len(<<b>>) = 1 /\ <<b>>[1] = b /\ \A i \in 1..1 : i = 1
    OBVIOUS
  <2>4. \A i \in 1..Len(SubSeq(<<a, b>>, 2, 2)) : SubSeq(<<a, b>>, 2, 2)[i] = <<b>>[i]
    BY ONLY <2>2, <2>3, Zenon
  <2>5. Len(SubSeq(<<a, b>>, 2, 2)) = Len(<<b>>)
    BY <2>2, <2>3
  <2>6. QED
    BY ONLY <2>1, <2>2, <2>4, <2>5, SeqEqual, Zenon
<1>3. <<>> \o <<b>> = <<b>> /\ <<>> \o <<>> = <<>>
  OBVIOUS
<1>4. 1 - 1 = 0 /\ 1 + 1 = 2 /\ Len(<<a, b>>) = 2 /\ Len(<<a>>) = 1
  OBVIOUS
<1>5. QED
  BY ONLY <1>1, <1>2, <1>3, <1>4, Zenon DEF RemoveAt

(* What is added to one. *)
LEMMA Appended ==
  ASSUME NEW a, NEW b
  PROVE  Append(<<>>, a) = <<a>> /\ Append(<<a>>, b) = <<a, b>>
<1> DEFINE S == {a, b}
<1>1. Append(<<>>, a) = <<a>>
  OBVIOUS
<1>2. Append(<<a>>, b) = <<a, b>>
  <2>1. <<a, b>> \in Seq(S) /\ <<a>> \in Seq(S) /\ Len(<<a, b>>) = 2 /\ Len(<<a>>) = 1
    OBVIOUS
  <2>2. /\ Append(<<a>>, b) \in Seq(S) /\ Len(Append(<<a>>, b)) = 2
        /\ Append(<<a>>, b)[1] = a /\ Append(<<a>>, b)[2] = b
    BY <2>1, AppendProperties
  <2>3. <<a, b>>[1] = a /\ <<a, b>>[2] = b /\ \A i \in 1..2 : i = 1 \/ i = 2
    OBVIOUS
  <2>4. \A i \in 1..Len(Append(<<a>>, b)) : Append(<<a>>, b)[i] = <<a, b>>[i]
    BY ONLY <2>2, <2>3, Zenon
  <2>5. QED
    BY ONLY <2>1, <2>2, <2>4, SeqEqual, Zenon
<1>3. QED
  BY <1>1, <1>2

Ends == {"ended", "ended_manually"}
Status(code, r) == [code |-> code, run |-> r]

(* In the order they were sent; an end is about the run whose "started"    *)
(* set the times.                                                          *)
StatusesInOrder ==
  \/ toGui = <<>>
  \/ \E r \in {0, run} : toGui = <<Status("aborted", r)>>
  \/ toGui = <<Status("started", run)>>
  \/ \E how \in Ends : toGui = <<Status("started", run), Status(how, run)>>
  \/ \E how \in Ends : toGui = <<Status(how, run)>> /\ startOf = run

(* A status about a run, or the run itself, is still to come. *)
InHand ==
  \/ phase \in {"setup", "logging"}
  \/ \E k \in DOMAIN toGui : toGui[k].code # "aborted"

OneRound ==
  /\ Starts # {} \/ InHand \/ toGui # <<>> => active
  /\ active => runId # 0
  /\ Starts \subseteq {Start(runId, session)}
  /\ Starts # {} => toGui = <<>> /\ ~InHand
  /\ InHand => run \in Runs /\ command[run].id = runId
  /\ phase = "setup" => toGui = <<>>
  /\ phase = "logging" => \/ toGui = <<Status("started", run)>>
                          \/ toGui = <<>> /\ confirmed /\ startOf = run

RowsInv ==
  \A row \in rows : /\ row.run \in 1..run
                    /\ row.id = command[row.run].id
                    /\ row.start = row.run
                    /\ InHand => row.run # run

RoundInv == StatusesInOrder /\ OneRound /\ RowsInv

(* Nothing is lost, late or cut off; the database and the server may fail. *)
InTime == Faults \cap {"loss", "delay", "close"} = {}

LEMMA StatusIs ==
  \A code, r : Status(code, r).code = code /\ Status(code, r).run = r
  BY DEF Status

(* What is in hand, for each queue of statuses. *)
LEMMA QueueInHand ==
  /\ toGui = <<>> => (InHand <=> phase \in {"setup", "logging"})
  /\ \A r : toGui = <<Status("aborted", r)>> => (InHand <=> phase \in {"setup", "logging"})
  /\ \A code, r : code # "aborted" /\ toGui = <<Status(code, r)>> => InHand
  /\ \A r, s : toGui = <<Status("started", r), s>> => InHand
<1> USE StatusIs DEF InHand
<1>1. toGui = <<>> => (InHand <=> phase \in {"setup", "logging"})
  OBVIOUS
<1>2. ASSUME NEW code, NEW r, toGui = <<Status(code, r)>>
      PROVE  DOMAIN toGui = {1} /\ toGui[1].code = code
  BY <1>2
<1>3. ASSUME NEW r, NEW s, toGui = <<Status("started", r), s>>
      PROVE  1 \in DOMAIN toGui /\ toGui[1].code = "started"
  BY <1>3
<1>4. QED
  BY <1>1, <1>2, <1>3

LEMMA InitRound == Init => RoundInv
<1> SUFFICES ASSUME Init PROVE RoundInv
  OBVIOUS
<1>1. toGui = <<>> /\ rows = {} /\ phase = "idle" /\ Starts = {} /\ ~active
  BY DEF Init, Server!Init, Starts
<1>2. ~InHand
  BY <1>1, QueueInHand
<1>3. QED
  BY <1>1, <1>2 DEF RoundInv, StatusesInOrder, OneRound, RowsInv

(* What most steps leave of the round: the server may stop what it does,   *)
(* and a command may go.                                                   *)
RoundKept ==
  /\ UNCHANGED <<run, command, toGui, session, active, confirmed, runId, startOf, rows>>
  /\ UNCHANGED phase \/ phase' \notin {"setup", "logging"}
  /\ Starts' \subseteq Starts

LEMMA KeptRound == RoundInv /\ RoundKept => RoundInv'
<1> SUFFICES ASSUME RoundInv, RoundKept PROVE RoundInv'
  OBVIOUS
<1> USE DEF RoundInv, RoundKept
<1>1. InHand' => InHand
  BY DEF InHand
<1>2. StatusesInOrder'
  BY DEF StatusesInOrder
<1>3. OneRound'
  BY <1>1 DEF OneRound, Start
<1>4. RowsInv'
  BY <1>1 DEF RowsInv
<1>5. QED
  BY <1>2, <1>3, <1>4

LEMMA QuietRound ==
  ASSUME \/ IgnoreStart \/ ReceiveStop \/ Crash \/ Restart
         \/ (RunStep /\ Server!Release /\ UNCHANGED toGui)
         \/ StopRun \/ ConnectServer \/ StopServer \/ GotHeartbeat
         \/ (HeartbeatTimeout /\ ~active) \/ UNCHANGED vars
  PROVE  RoundKept
<1> USE DEF RoundKept, Starts, server, wire, link, lock, panel, db, vars
<1>1. CASE IgnoreStart \/ StopRun
  BY <1>1 DEF IgnoreStart, StopRun, Stop
<1>2. CASE ReceiveStop
  BY <1>2 DEF ReceiveStop, Server!TakeStop
<1>3. CASE Crash \/ Restart
  BY <1>3 DEF Crash, Restart, Server!Exit, Server!Restart
<1>4. CASE RunStep /\ Server!Release /\ UNCHANGED toGui
  BY <1>4 DEF RunStep, Server!Release
<1>5. CASE ConnectServer \/ GotHeartbeat \/ UNCHANGED vars
  BY <1>5 DEF ConnectServer, GotHeartbeat
<1>6. CASE StopServer
  BY <1>6 DEF StopServer, Server!Exit
<1>7. CASE HeartbeatTimeout /\ ~active
  BY <1>7 DEF HeartbeatTimeout
<1>8. QED
  BY <1>1, <1>2, <1>3, <1>4, <1>5, <1>6, <1>7

(* Giving up: nothing is under way any more. *)
LEMMA NothingLeft ==
  ASSUME RoundInv, Starts' = {}, toGui' = <<>>, phase' \notin {"setup", "logging"},
         ~active', UNCHANGED <<run, command>>,
         \A row \in rows' : /\ row.run \in 1..run
                            /\ row.id = command[row.run].id
                            /\ row.start = row.run
  PROVE  RoundInv'
<1>1. ~InHand'
  BY DEF InHand
<1>2. StatusesInOrder' /\ OneRound'
  BY <1>1 DEF StatusesInOrder, OneRound
<1>3. RowsInv'
  BY <1>1 DEF RowsInv
<1>4. QED
  BY <1>2, <1>3 DEF RoundInv

LEMMA GiveUpRound ==
  ASSUME InTime, RoundInv, StartNotConfirmed \/ (HeartbeatTimeout /\ active)
  PROVE  RoundInv'
<1> USE DEF server, wire, link, lock, panel, db, InTime
<1>1. Starts = {} /\ toGui = <<>> /\ phase \notin {"setup", "logging"}
  <2>1. CASE StartNotConfirmed
    BY <2>1 DEF StartNotConfirmed, Late, RoundInv, OneRound, Status
  <2>2. CASE HeartbeatTimeout
    BY <2>2 DEF HeartbeatTimeout
  <2>3. QED
    BY <2>1, <2>2
<1>2. UNCHANGED <<run, command, toGui, phase, rows, toServer>>
  BY DEF StartNotConfirmed, HeartbeatTimeout
<1>3. Starts' = {}
  BY <1>1, <1>2 DEF Starts
<1>4. ~active'
  BY DEF StartNotConfirmed, HeartbeatTimeout, EndRun
<1>5. QED
  BY <1>1, <1>2, <1>3, <1>4, NothingLeft DEF RoundInv, RowsInv

LEMMA AcceptRound == NumbersInv /\ RoundInv /\ AcceptStart => RoundInv'
<1> SUFFICES ASSUME NumbersInv, RoundInv, AcceptStart PROVE RoundInv'
  OBVIOUS
<1> USE DEF RoundInv, server, link, lock, panel, db
<1>1. PICK m \in Starts : /\ toServer' = toServer \ {m}
                          /\ command' = [command EXCEPT ![run + 1] = m]
  BY DEF AcceptStart
<1>2. /\ phase' = "setup" /\ run' = run + 1 /\ run < MaxRuns
      /\ UNCHANGED <<toGui, session, active, runId, rows>>
  BY DEF AcceptStart, Server!Accept
<1>3. m.id = runId /\ Starts = {m} /\ active /\ toGui = <<>> /\ ~InHand
  BY <1>1 DEF OneRound, Start
<1>4. run + 1 \in Runs /\ run \in Nat
  BY <1>2, RunSystemAssumption DEF NumbersInv, NumbersTyped, Runs
<1>5. command'[run + 1] = m /\ \A r \in 1..run : command'[r] = command[r]
  BY <1>1, <1>4, RunSystemAssumption DEF NumbersInv, NumbersTyped, Runs
<1>6. Starts' = {}
  BY <1>1, <1>3 DEF Starts
<1>7. StatusesInOrder'
  BY <1>2, <1>3 DEF StatusesInOrder
<1>8. OneRound'
  BY <1>2, <1>3, <1>4, <1>5, <1>6 DEF OneRound
<1>9. RowsInv'
  BY <1>2, <1>4, <1>5 DEF RowsInv
<1>10. QED
  BY <1>7, <1>8, <1>9

LEMMA RefuseRound == RoundInv /\ RefuseStart => RoundInv'
<1> SUFFICES ASSUME RoundInv, RefuseStart PROVE RoundInv'
  OBVIOUS
<1> USE DEF RoundInv, server, link, lock, panel, db
<1>1. PICK m \in Starts : toServer' = toServer \ {m}
  BY DEF RefuseStart
<1>2. /\ phase = "idle" /\ toGui' = Append(toGui, Status("aborted", 0))
      /\ UNCHANGED <<phase, run, command, session, active, confirmed, runId, startOf, rows>>
  BY DEF RefuseStart, Say, Status
<1>3. Starts = {m} /\ active /\ toGui = <<>> /\ ~InHand
  BY <1>1 DEF OneRound
<1>4. toGui' = <<Status("aborted", 0)>>
  BY <1>2, <1>3, Appended
<1>5. Starts' = {}
  BY <1>1, <1>3 DEF Starts
<1>6. ~InHand'
  <2>1. DOMAIN toGui' = {1} /\ toGui'[1].code = "aborted"
    BY <1>4, StatusIs
  <2>2. QED
    BY <1>2, <2>1 DEF InHand
<1>7. StatusesInOrder'
  BY <1>4 DEF StatusesInOrder
<1>8. OneRound'
  BY <1>2, <1>3, <1>5, <1>6 DEF OneRound
<1>9. RowsInv'
  BY <1>2, <1>6 DEF RowsInv
<1>10. QED
  BY <1>7, <1>8, <1>9

LEMMA RunRound == RoundInv /\ RunStep => RoundInv'
<1> SUFFICES ASSUME RoundInv, RunStep PROVE RoundInv'
  OBVIOUS
<1> USE DEF RoundInv, server, link, lock, panel, db
<1>0. UNCHANGED <<run, command, toServer, session, active, confirmed, runId, startOf, rows>>
  BY DEF RunStep, Server!Begin, Server!Abort, Server!Finish, Server!Release
<1>1. Starts' = Starts
  BY <1>0 DEF Starts
<1>2. CASE Server!Begin /\ Say("started", run)
  <2>1. phase = "setup" /\ phase' = "logging" /\ toGui = <<>>
    BY <1>2 DEF Server!Begin, OneRound
  <2>2. toGui' = <<Status("started", run)>>
    BY <1>2, <2>1, Appended DEF Say, Status
  <2>3. InHand /\ InHand' /\ Starts = {}
    BY <2>1 DEF InHand, OneRound
  <2>4. StatusesInOrder'
    BY <1>0, <2>2 DEF StatusesInOrder, Status
  <2>5. OneRound'
    BY <1>0, <1>1, <2>1, <2>2, <2>3 DEF OneRound, Status
  <2>6. RowsInv'
    BY <1>0, <2>3 DEF RowsInv
  <2>7. QED
    BY <2>4, <2>5, <2>6
<1>3. CASE Server!Abort /\ Say("aborted", run)
  <2>1. phase = "setup" /\ phase' = "reported" /\ toGui = <<>>
    BY <1>3 DEF Server!Abort, OneRound
  <2>2. toGui' = <<Status("aborted", run)>>
    BY <1>3, <2>1, Appended DEF Say, Status
  <2>3. InHand /\ ~InHand' /\ Starts = {}
    BY <2>1, <2>2, StatusIs DEF InHand, OneRound
  <2>4. StatusesInOrder'
    BY <1>0, <2>2 DEF StatusesInOrder, Status
  <2>5. OneRound'
    BY <1>0, <1>1, <2>1, <2>3 DEF OneRound
  <2>6. RowsInv'
    BY <1>0, <2>3 DEF RowsInv
  <2>7. QED
    BY <2>4, <2>5, <2>6
<1>4. ASSUME NEW how \in Ends, Server!Finish(how), Say(how, run)
      PROVE  RoundInv'
  <2>1. phase = "logging" /\ phase' = "reported"
    BY <1>4 DEF Server!Finish
  <2>2. InHand /\ Starts = {}
    BY <2>1 DEF InHand, OneRound
  <2>3. \/ toGui = <<Status("started", run)>>
        \/ toGui = <<>> /\ startOf = run
    BY <2>1 DEF OneRound
  <2>4. \/ toGui' = <<Status("started", run), Status(how, run)>>
        \/ toGui' = <<Status(how, run)>> /\ startOf = run
    BY <1>4, <2>3, Appended DEF Say, Status
  <2>5. StatusesInOrder'
    BY <1>0, <2>4 DEF StatusesInOrder, Status
  <2>6. OneRound'
    BY <1>0, <1>1, <2>1, <2>2 DEF OneRound
  <2>7. RowsInv'
    BY <1>0, <2>2 DEF RowsInv
  <2>8. QED
    BY <2>5, <2>6, <2>7
<1>5. CASE Server!Release /\ UNCHANGED toGui
  BY <1>5, QuietRound, KeptRound
<1>6. QED
  BY <1>2, <1>3, <1>4, <1>5 DEF RunStep, Ends

LEMMA StartRound ==
  ASSUME NumbersInv, RoundInv, StartRun
  PROVE  RoundInv'
<1> USE DEF RoundInv, server, link, lock, panel, db
<1>1. ~active /\ UNCHANGED <<rows, startOf>>
  BY DEF StartRun, Reserve, StartAllowed
<1>2. Starts = {} /\ ~InHand /\ toGui = <<>>
  BY <1>1 DEF OneRound
<1>3. /\ toServer' = toServer \cup {Start(runId', session)}
      /\ active' = TRUE
      /\ UNCHANGED <<phase, run, command, toGui, session>>
  BY DEF StartRun
<1>4. Starts' \subseteq {Start(runId', session)}
  BY <1>2, <1>3 DEF Starts
<1>5. ~InHand'
  BY <1>2, <1>3 DEF InHand
<1>6. StatusesInOrder'
  BY <1>2, <1>3 DEF StatusesInOrder
<1>7. runId' # 0
  BY Reserved DEF StartRun, NumbersInv, NumbersTyped
<1>8. OneRound'
  BY <1>2, <1>3, <1>4, <1>5, <1>7 DEF OneRound, InHand, Start
<1>9. RowsInv'
  BY <1>1, <1>3, <1>5 DEF RowsInv
<1>10. QED
  BY <1>6, <1>8, <1>9

LEMMA NotSentRound == RoundInv /\ StartNotSent => RoundInv'
<1> SUFFICES ASSUME RoundInv, StartNotSent PROVE RoundInv'
  OBVIOUS
<1> USE DEF RoundInv, server, wire, link, lock
<1>1. ~active /\ UNCHANGED <<rows, startOf>>
  BY DEF StartNotSent, Reserve, StartAllowed
<1>2. Starts = {} /\ ~InHand /\ toGui = <<>>
  BY <1>1 DEF OneRound
<1>3. UNCHANGED <<phase, run, command, toGui, toServer, active>>
  BY DEF StartNotSent
<1>4. Starts' = {} /\ toGui' = <<>> /\ phase' \notin {"setup", "logging"}
  BY <1>2, <1>3 DEF Starts, InHand
<1>5. QED
  BY <1>1, <1>3, <1>4, NothingLeft DEF RowsInv

(* An end is heard when "started" has been. *)
LEMMA EndedQueue ==
  ASSUME StatusesInOrder, 1 \in DOMAIN toGui, toGui[1].code \in Ends
  PROVE  \E how \in Ends : toGui = <<Status(how, run)>> /\ startOf = run
<1>1. toGui # <<Status("started", run)>> /\ toGui # <<>>
  BY StatusIs DEF Ends
<1>2. \A r : toGui # <<Status("aborted", r)>>
  BY StatusIs DEF Ends
<1>3. \A how \in Ends : toGui # <<Status("started", run), Status(how, run)>>
  BY StatusIs DEF Ends
<1>4. QED
  BY <1>1, <1>2, <1>3 DEF StatusesInOrder

LEMMA StatusRound ==
  ASSUME InTime, NumbersInv, RoundInv, GotStatus
  PROVE  RoundInv'
<1> USE DEF RoundInv, server, link
<1>1. 1 \in DOMAIN toGui /\ (GotStarted(1) \/ GotAborted(1) \/ GotEnded(1))
  BY DEF GotStatus, Arriving, Late, InTime
<1>2. /\ toGui' = RemoveAt(toGui, 1)
      /\ UNCHANGED <<phase, run, command, toServer, session>>
  BY <1>1 DEF GotStarted, GotAborted, GotEnded, Take
<1>3. toGui # <<>>
  BY <1>1
<1>4. Starts = {} /\ Starts' = {}
  BY <1>2, <1>3 DEF OneRound, Starts
<1>5. CASE GotStarted(1)
  <2>1. toGui[1].code = "started"
    BY <1>5 DEF GotStarted, Take
  <2>2. /\ active' /\ confirmed' /\ startOf' = toGui[1].run
        /\ UNCHANGED <<runId, rows>>
    BY <1>5 DEF GotStarted
  <2>3. \/ toGui = <<Status("started", run)>>
        \/ \E how \in Ends : toGui = <<Status("started", run), Status(how, run)>>
    <3>1. \A r : toGui # <<Status("aborted", r)>>
      BY <2>1, StatusIs
    <3>2. \A how \in Ends : toGui # <<Status(how, run)>>
      BY <2>1, StatusIs DEF Ends
    <3>3. QED
      BY <1>3, <3>1, <3>2 DEF StatusesInOrder
  <2>4. startOf' = run
    BY <2>2, <2>3, StatusIs
  <2>5. InHand
    BY <1>1, <2>1 DEF InHand
  <2>6. toGui' = <<>> \/ \E how \in Ends : toGui' = <<Status(how, run)>>
    <3>1. CASE toGui = <<Status("started", run)>>
      BY <1>2, <3>1, Remaining
    <3>2. ASSUME NEW how \in Ends, toGui = <<Status("started", run), Status(how, run)>>
          PROVE  toGui' = <<Status(how, run)>>
      BY <1>2, <3>2, Remaining
    <3>3. QED
      BY <2>3, <3>1, <3>2
  <2>7. StatusesInOrder'
    BY <1>2, <2>4, <2>6 DEF StatusesInOrder, Status
  <2>8. phase = "logging" => toGui' = <<>>
    <3> SUFFICES ASSUME phase = "logging" PROVE toGui' = <<>>
      OBVIOUS
    <3>1. toGui = <<Status("started", run)>>
      BY <1>3 DEF OneRound
    <3>2. QED
      BY <1>2, <3>1, Remaining
  <2>9. OneRound'
    BY <1>2, <1>3, <1>4, <2>2, <2>4, <2>5, <2>8 DEF OneRound
  <2>10. RowsInv'
    BY <1>2, <2>2, <2>5 DEF RowsInv
  <2>11. QED
    BY <2>7, <2>9, <2>10
<1>6. CASE GotAborted(1)
  <2>1. toGui[1].code = "aborted" /\ rows' = rows
    BY <1>6 DEF GotAborted, Take
  <2>2. PICK r \in {0, run} : toGui = <<Status("aborted", r)>>
    <3>1. toGui # <<Status("started", run)>>
      BY <2>1, StatusIs
    <3>2. \A how \in Ends : toGui # <<Status(how, run)>>
      BY <2>1, StatusIs DEF Ends
    <3>3. \A how \in Ends : toGui # <<Status("started", run), Status(how, run)>>
      BY <2>1, StatusIs
    <3>4. QED
      BY <1>3, <3>1, <3>2, <3>3 DEF StatusesInOrder
  <2>3. toGui' = <<>>
    BY <1>2, <2>2, Remaining
  <2>4. phase \notin {"setup", "logging"}
    <3>1. toGui # <<Status("started", run)>>
      BY <2>1, StatusIs
    <3>2. QED
      BY <1>3, <3>1 DEF OneRound
  <2>5. ~active'
    BY <1>6 DEF GotAborted, EndRun
  <2>6. QED
    BY <1>2, <1>4, <2>1, <2>3, <2>4, <2>5, NothingLeft DEF RowsInv
<1>7. CASE GotEnded(1)
  <2>1. toGui[1].code \in Ends
    BY <1>7 DEF GotEnded, Take, Ends
  <2>2. PICK how \in Ends : toGui = <<Status(how, run)>> /\ startOf = run
    BY <1>1, <2>1, EndedQueue
  <2>3. toGui' = <<>> /\ toGui[1].run = run
    BY <1>2, <2>2, Remaining, StatusIs
  <2>4. InHand /\ run \in Runs /\ command[run].id = runId
    BY <1>1, <2>1 DEF InHand, Ends, OneRound
  <2>5. phase \notin {"setup", "logging"}
    <3>1. toGui # <<Status("started", run)>>
      BY <2>1, StatusIs DEF Ends
    <3>2. QED
      BY <1>3, <3>1 DEF OneRound
  <2>6. PICK ok \in DbAnswers : rows' = WriteRow(ok, toGui[1])
    BY <1>7 DEF GotEnded
  <2>7. rows' \subseteq rows \cup {RowFor(toGui[1])}
    BY <2>6 DEF WriteRow
  <2>8. /\ RowFor(toGui[1]).run = run /\ RowFor(toGui[1]).id = command[run].id
        /\ RowFor(toGui[1]).start = run
    BY <2>2, <2>3, <2>4 DEF RowFor
  <2>9. run \in 1..run
    BY <2>4, RunSystemAssumption DEF Runs
  <2>10. \A row \in rows' : /\ row.run \in 1..run
                            /\ row.id = command[row.run].id
                            /\ row.start = row.run
    BY <2>7, <2>8, <2>9 DEF RowsInv
  <2>11. ~active'
    BY <1>7 DEF GotEnded, EndRun
  <2>12. QED
    BY <1>2, <1>4, <2>3, <2>5, <2>10, <2>11, NothingLeft
<1>8. QED
  BY <1>1, <1>5, <1>6, <1>7

LEMMA RoundStep == InTime /\ NumbersInv /\ RoundInv /\ [Next]_vars => RoundInv'
<1> SUFFICES ASSUME InTime, NumbersInv, RoundInv, [Next]_vars PROVE RoundInv'
  OBVIOUS
<1>1. CASE AcceptStart \/ RefuseStart \/ RunStep
  BY <1>1, AcceptRound, RefuseRound, RunRound
<1>2. CASE StartRun \/ StartNotSent
  BY <1>2, StartRound, NotSentRound
<1>3. CASE GotStatus
  BY <1>3, StatusRound
<1>4. CASE StartNotConfirmed \/ (HeartbeatTimeout /\ active)
  BY <1>4, GiveUpRound
<1>5. CASE \/ IgnoreStart \/ ReceiveStop \/ Crash \/ Restart
           \/ StopRun \/ ConnectServer \/ StopServer \/ GotHeartbeat
           \/ (HeartbeatTimeout /\ ~active) \/ UNCHANGED vars
  BY <1>5, QuietRound, KeptRound
<1>6. ~Lose /\ ~OpenGui
  BY DEF InTime, Lose, OpenGui
<1>7. QED
  BY <1>1, <1>2, <1>3, <1>4, <1>5, <1>6 DEF Next, ReceiveStart, Operator

(* The bookkeeping behind the theorems below. *)
THEOREM RoundInvariant == ASSUME InTime PROVE Spec => []RoundInv
<1>1. RoundInv /\ NumbersInv /\ [Next]_vars => RoundInv'
  BY InTime, RoundStep
<1>2. QED
  BY <1>1, InitRound, NumbersInvariant, PTL DEF Spec

(* A row carries the number its run's files are named with, whatever the   *)
(* database and the server do.                                             *)
THEOREM RowsNamed == ASSUME InTime PROVE Spec => []RowNamesItsRun
<1>1. RoundInv => RowNamesItsRun
  BY DEF RoundInv, RowsInv, RowNamesItsRun
<1>2. QED
  BY <1>1, RoundInvariant, PTL

(* A row carries the start times of its own run. *)
THEOREM RowsTimed == ASSUME InTime PROVE Spec => []RowTimesItsRun
<1>1. RoundInv => RowTimesItsRun
  BY DEF RoundInv, RowsInv, RowTimesItsRun
<1>2. QED
  BY <1>1, RoundInvariant, PTL

(* While the server sets up or records, the controls are locked. *)
THEOREM LockedWhileBusy == ASSUME InTime PROVE Spec => []BusyServerLocksGui
<1>1. RoundInv => BusyServerLocksGui
  BY DEF RoundInv, OneRound, InHand, BusyServerLocksGui
<1>2. QED
  BY <1>1, RoundInvariant, PTL

(* When the GUI hears the end of a run, the run's row is in the table. *)
EndIsRecorded ==
  \A k \in Arriving :
    GotEnded(k) => \E row \in rows' : row.run = toGui[k].run

(* A row of an earlier run does not have this run's number. *)
LEMMA NumberIsFree ==
  ASSUME "db" \notin Faults, NumbersInv, RowsInv, InHand,
         run \in Runs, command[run].id = runId
  PROVE  \A row \in rows : row.id # runId
<1> SUFFICES ASSUME NEW row \in rows, row.id = runId PROVE FALSE
  OBVIOUS
<1>1. /\ row.run \in 1..run /\ run \in 1..run /\ row.run # run
      /\ command[row.run].id = command[run].id
  BY RunSystemAssumption DEF RowsInv, Runs
<1>2. command[row.run] \in Made /\ command[run] \in Made
  BY <1>1 DEF Made
<1>3. command[row.run] = command[run]
  BY <1>1, <1>2 DEF NumbersInv, FromSequence
<1>4. QED
  BY <1>1, <1>3 DEF NumbersInv, TakenOnce

(* A database that answers has the row of a run as soon as the GUI hears   *)
(* that the run has ended: no row is refused.                              *)
THEOREM EndsRecorded ==
  ASSUME InTime, "db" \notin Faults
  PROVE  Spec => [][EndIsRecorded]_vars
<1>1. ASSUME NumbersInv, RoundInv, NEW k \in Arriving, GotEnded(k)
      PROVE  \E row \in rows' : row.run = toGui[k].run
  <2>1. k = 1 /\ 1 \in DOMAIN toGui /\ toGui[1].code \in Ends
    BY <1>1 DEF GotEnded, Take, Ends, Arriving, Late, InTime
  <2>2. toGui[1].run = run /\ startOf = run
    BY <1>1, <2>1, EndedQueue, StatusIs DEF RoundInv
  <2>3. InHand
    BY <2>1 DEF InHand, Ends
  <2>4. run \in Runs /\ run # 0 /\ command[run].id = runId /\ runId # 0
    BY <1>1, <2>3, RunSystemAssumption DEF RoundInv, OneRound, Runs
  <2>5. \A row \in rows : row.id # runId
    BY <1>1, <2>3, <2>4, NumberIsFree DEF RoundInv
  <2>6. rows' = WriteRow(TRUE, toGui[1])
    BY <1>1, <2>1, DbAnswersType DEF GotEnded
  <2>7. RowFor(toGui[1]) \in rows'
    BY <2>2, <2>4, <2>5, <2>6 DEF WriteRow
  <2>8. RowFor(toGui[1]).run = toGui[1].run
    BY DEF RowFor
  <2>9. QED
    BY <2>1, <2>7, <2>8
<1>2. NumbersInv /\ RoundInv /\ [Next]_vars => [EndIsRecorded]_vars
  BY <1>1 DEF EndIsRecorded
<1>3. QED
  BY <1>2, RoundInvariant, NumbersInvariant, PTL DEF Spec
=============================================================================
