------------------------------ MODULE RunSystem ------------------------------
(***************************************************************************)
(* A data run as the operator sees it: the GUI's run control               *)
(* (gui/ui_server.py), its run numbers and run-metadata rows               *)
(* (gui/ui_run_metadata.py) in the local PostgreSQL database, the DAQ      *)
(* server (RunSession, which RunServer implements), and the UDP datagrams  *)
(* between the two.                                                        *)
(*                                                                         *)
(* A status datagram is four bytes of code: it does not say which run it   *)
(* is about.  The run recorded in a status, a row or the start-time lines  *)
(* here is history, kept for the properties; no guard reads it.            *)
(***************************************************************************)
EXTENDS Integers, Sequences, FiniteSets, SequencesExt

CONSTANTS
  MaxRuns,      \* runs the server will accept (bound)
  MaxId,        \* highest run number Start may use (bound)
  MaxSessions,  \* times the GUI is opened (bound)
  Faults        \* what may go wrong

(* "loss"   a datagram is lost, or heartbeats are for three seconds        *)
(* "delay"  a datagram, or run setup, outlasts a GUI timer, and datagrams  *)
(*          overtake each other                                            *)
(* "db"     the database cannot be reached for a while                     *)
(* "close"  the GUI is closed or dies, and is opened again                 *)
(* "quick"  a dead server is back before the GUI has missed it             *)
ASSUME RunSystemAssumption ==
  /\ MaxRuns \in Nat
  /\ MaxId \in Nat
  /\ MaxSessions \in Nat
  /\ Faults \subseteq {"loss", "delay", "db", "close", "quick"}

VARIABLES
  phase, run, stopPending, told,  \* the server: see RunSession
  command,    \* command[r]: the start command run r was accepted from
  toServer,   \* commands under way to the server
  toGui,      \* statuses under way to the GUI
  session,    \* which opening of the GUI this is
  active,     \* run_active
  confirmed,  \* run_confirmed
  confirming, \* start_confirm_timer is running
  beating,    \* the heartbeat timers are running
  connected,  \* server_connected
  runId,      \* VO_db_params_runid_line; 0 when empty
  lastUsed,   \* last_used_run_id; 0 for None
  startOf,    \* the run whose "started" set the start-time lines; 0 for 'null'
  seq,        \* what nextval('tblrun_info_run_id_seq') will return
  rows        \* tblrun_info

Server == INSTANCE RunSession

server == <<phase, run, stopPending, told>>
wire   == <<toServer, toGui>>
link   == <<beating, connected>>
lock   == <<active, confirmed, confirming>>
panel  == <<runId, lastUsed, startOf>>
db     == <<seq, rows>>
vars   == <<server, command, wire, session, lock, link, panel, db>>

Runs == 1..MaxRuns
Start(id, s) == [cmd |-> "start", id |-> id, session |-> s]
Stop == [cmd |-> "stop"]
NoCommand == Start(0, 0)
Starts == {m \in toServer : m.cmd = "start"}

DbAnswers == IF "db" \in Faults THEN BOOLEAN ELSE {TRUE}
Late == "delay" \in Faults

Init ==
  /\ Server!Init
  /\ command = [r \in Runs |-> NoCommand]
  /\ toServer = {}
  /\ toGui = <<>>
  /\ session = 1
  /\ active = FALSE
  /\ confirmed = FALSE
  /\ confirming = FALSE
  /\ beating = FALSE
  /\ connected = FALSE
  /\ runId \in {IF ok THEN 1 ELSE 0 : ok \in DbAnswers}
  /\ lastUsed = 0
  /\ startOf = 0
  /\ seq = 1
  /\ rows = {}

-----------------------------------------------------------------------------
(* The server, and the statuses it sends *)

Say(code, r) == toGui' = Append(toGui, [code |-> code, run |-> r])

AcceptStart ==
  /\ \E m \in Starts : /\ toServer' = toServer \ {m}
                       /\ command' = [command EXCEPT ![run + 1] = m]
  /\ Server!Accept
  /\ UNCHANGED <<toGui, session, lock, link, panel, db>>

(* A start the server cannot parse is answered "aborted" too. *)
RefuseStart ==
  /\ phase = "idle"
  /\ \E m \in Starts : toServer' = toServer \ {m}
  /\ Say("aborted", 0)
  /\ UNCHANGED <<server, command, session, lock, link, panel, db>>

(* A run is in hand, or nobody is listening. *)
IgnoreStart ==
  /\ phase # "idle"
  /\ \E m \in Starts : toServer' = toServer \ {m}
  /\ UNCHANGED <<server, command, toGui, session, lock, link, panel, db>>

ReceiveStop ==
  /\ Stop \in toServer
  /\ toServer' = toServer \ {Stop}
  /\ Server!TakeStop \/ (phase \in {"idle", "down"} /\ UNCHANGED server)
  /\ UNCHANGED <<command, toGui, session, lock, link, panel, db>>

RunStep ==
  /\ \/ Server!Begin /\ Say("started", run)
     \/ Server!Abort /\ Say("aborted", run)
     \/ \E how \in {"ended", "ended_manually"} : Server!Finish(how) /\ Say(how, run)
     \/ Server!Release /\ UNCHANGED toGui
  /\ UNCHANGED <<command, toServer, session, lock, link, panel, db>>

(* The process dies... *)
Crash ==
  /\ Server!Exit
  /\ UNCHANGED <<command, wire, session, lock, link, panel, db>>

(* ... and systemd, or the operator, starts another. *)
Restart ==
  /\ Server!Restart
  /\ "quick" \in Faults \/ ~connected
  /\ UNCHANGED <<command, wire, session, lock, link, panel, db>>

-----------------------------------------------------------------------------
(* Run numbers *)

Previews_NoFloor(ok, next, table, used) ==
  IF ok THEN {next} \cup {row.id + 1 : row \in table} ELSE {}

(* read_last_run_id: the numbers it takes the maximum of. *)
Previews(ok, next, table, used) ==
  (IF ok THEN {next} \cup {row.id + 1 : row \in table} ELSE {})
  \cup (IF used # 0 THEN {used + 1} ELSE {})

ReadLastRunId(ok, next, table, used, shown) ==
  LET ids == Previews(ok, next, table, used)
  IN  IF ids = {} THEN runId' = shown
      ELSE runId' \in ids /\ \A id \in ids : id <= runId'

ReservedId_Unchecked(ok) == IF ok THEN seq ELSE runId

(* reserve_run_id, and startRun's fallback to the number on show. *)
ReservedId(ok) == IF ok /\ seq > lastUsed THEN seq ELSE runId

(* end_run: unlock, and move to the next run number. *)
EndRun(ok, table) ==
  /\ active' = FALSE
  /\ confirmed' = FALSE
  /\ confirming' = FALSE
  /\ ReadLastRunId(ok, seq, table, lastUsed, runId)

RowFor_SerialDefault(status) == [id |-> seq, run |-> status.run, start |-> startOf]
RowFor(status) == [id |-> runId, run |-> status.run, start |-> startOf]

(* write_VO_db_params_to_db: no row unless the number is set, the times    *)
(* parse (0 stands for 'null') and the primary key is free.                *)
WriteRow(ok, status) ==
  IF ok /\ runId # 0 /\ startOf # 0 /\ \A row \in rows : row.id # runId
  THEN rows \cup {RowFor(status)} ELSE rows

-----------------------------------------------------------------------------
(* The operator's buttons *)

StartAllowed == ~active /\ connected /\ runId # 0

(* Bounds: no number above MaxId, no start the server could not count.     *)
InBounds(id) == id <= MaxId /\ run + Cardinality(Starts) < MaxRuns

Reserve(ok) ==
  /\ StartAllowed
  /\ InBounds(ReservedId(ok))
  /\ seq' = IF ok THEN seq + 1 ELSE seq
  /\ lastUsed' = ReservedId(ok)
  /\ UNCHANGED <<rows, startOf>>

StartRun_Unlocked ==
  /\ \E ok \in DbAnswers : Reserve(ok)
  /\ runId' = lastUsed'
  /\ toServer' = toServer \cup {Start(lastUsed', session)}
  /\ UNCHANGED <<server, command, toGui, session, lock, link>>

(* Start: take a number, send it, and lock straight away. *)
StartRun ==
  /\ \E ok \in DbAnswers : Reserve(ok)
  /\ runId' = lastUsed'
  /\ toServer' = toServer \cup {Start(lastUsed', session)}
  /\ active' = TRUE
  /\ confirmed' = FALSE
  /\ confirming' = TRUE
  /\ UNCHANGED <<server, command, toGui, session, link>>

(* Start, but the datagram cannot be made or sent: the number is spent. *)
StartNotSent ==
  /\ \E ok, again \in DbAnswers :
       /\ Reserve(ok)
       /\ ReadLastRunId(again, seq', rows, lastUsed', lastUsed')
  /\ UNCHANGED <<server, command, wire, session, lock, link>>

StopRun ==
  /\ active
  /\ toServer' = toServer \cup {Stop}
  /\ UNCHANGED <<server, command, toGui, session, lock, link, panel, db>>

(* start_server, connect_remote_server *)
ConnectServer ==
  /\ ~beating
  /\ beating' = TRUE
  /\ UNCHANGED <<server, command, wire, session, lock, connected, panel, db>>

(* stop_server, which waits for the exit; or, for a remote server,         *)
(* disconnect_remote_server.  Its button is disabled during a run.         *)
StopServer ==
  /\ ~active
  /\ beating
  /\ beating' = FALSE
  /\ connected' = FALSE
  /\ Server!Exit \/ UNCHANGED server
  /\ UNCHANGED <<command, wire, session, lock, panel, db>>

(* A new GUI: a new last_used_run_id, and the number the database suggests. *)
OpenGui ==
  /\ "close" \in Faults
  /\ session < MaxSessions
  /\ session' = session + 1
  /\ active' = FALSE
  /\ confirmed' = FALSE
  /\ confirming' = FALSE
  /\ beating' = FALSE
  /\ connected' = FALSE
  /\ lastUsed' = 0
  /\ startOf' = 0
  /\ \E ok \in DbAnswers : ReadLastRunId(ok, seq, rows, 0, 0)
  /\ UNCHANGED <<server, command, wire, db>>

-----------------------------------------------------------------------------
(* Statuses, heartbeats and timers *)

Arriving == IF Late THEN DOMAIN toGui ELSE DOMAIN toGui \cap {1}

Take(k, codes) ==
  /\ toGui[k].code \in codes
  /\ toGui' = RemoveAt(toGui, k)
  /\ UNCHANGED <<server, command, toServer, session, link, lastUsed, seq>>

GotStarted_KeepsTimes(k) ==
  /\ Take(k, {"started"})
  /\ active' = TRUE
  /\ confirmed' = TRUE
  /\ confirming' = FALSE
  /\ startOf' = IF startOf = 0 THEN toGui[k].run ELSE startOf
  /\ UNCHANGED <<runId, rows>>

GotStarted(k) ==
  /\ Take(k, {"started"})
  /\ active' = TRUE
  /\ confirmed' = TRUE
  /\ confirming' = FALSE
  /\ startOf' = toGui[k].run
  /\ UNCHANGED <<runId, rows>>

GotAborted(k) ==
  /\ Take(k, {"aborted"})
  /\ \E ok \in DbAnswers : EndRun(ok, rows)
  /\ UNCHANGED <<startOf, rows>>

GotEnded_EndsFirst(k) ==
  /\ Take(k, {"ended", "ended_manually"})
  /\ \E ok \in DbAnswers :
       /\ EndRun(ok, rows)
       /\ rows' = rows \cup {[RowFor(toGui[k]) EXCEPT !.id = runId']}
  /\ UNCHANGED startOf

(* The row first, under the number on show; then the next number. *)
GotEnded(k) ==
  /\ Take(k, {"ended", "ended_manually"})
  /\ \E ok, again \in DbAnswers :
       /\ rows' = WriteRow(ok, toGui[k])
       /\ EndRun(again, rows')
  /\ UNCHANGED startOf

GotStatus == \E k \in Arriving : GotStarted(k) \/ GotAborted(k) \/ GotEnded(k)

(* A reply to a heartbeat, or a late one after the timers have stopped. *)
GotHeartbeat ==
  /\ (phase # "down" /\ beating) \/ Late
  /\ connected' = TRUE
  /\ UNCHANGED <<server, command, wire, session, lock, beating, panel, db>>

(* handle_start_not_confirmed.  In good time, five seconds are enough for  *)
(* the start, the setup and the answer.                                    *)
StartNotConfirmed ==
  /\ confirming
  /\ active /\ ~confirmed
  /\ ~Late => Starts = {} /\ toGui = <<>> /\ phase # "setup"
  /\ \E ok \in DbAnswers : EndRun(ok, rows)
  /\ UNCHANGED <<server, command, wire, session, link, lastUsed, startOf, db>>

HeartbeatTimeout_KeepsLock ==
  /\ beating
  /\ Faults \cap {"loss", "delay"} = {} =>
       phase = "down" /\ Starts = {} /\ toGui = <<>>
  /\ connected' = FALSE
  /\ UNCHANGED <<server, command, wire, session, lock, beating, panel, db>>

(* Three seconds without a reply. *)
HeartbeatTimeout ==
  /\ beating
  /\ Faults \cap {"loss", "delay"} = {} =>
       phase = "down" /\ Starts = {} /\ toGui = <<>>
  /\ connected' = FALSE
  /\ IF active
     THEN /\ \E ok \in DbAnswers : EndRun(ok, rows)
          /\ UNCHANGED <<lastUsed, startOf>>
     ELSE UNCHANGED <<lock, panel>>
  /\ UNCHANGED <<server, command, wire, session, beating, db>>

Lose ==
  /\ "loss" \in Faults
  /\ \/ \E m \in toServer : toServer' = toServer \ {m} /\ UNCHANGED toGui
     \/ \E k \in DOMAIN toGui : toGui' = RemoveAt(toGui, k) /\ UNCHANGED toServer
  /\ UNCHANGED <<server, command, session, lock, link, panel, db>>

-----------------------------------------------------------------------------

ReceiveStart == AcceptStart \/ RefuseStart \/ IgnoreStart

Operator == StartRun \/ StartNotSent \/ StopRun \/ ConnectServer \/ StopServer

Next ==
  \/ ReceiveStart \/ ReceiveStop \/ RunStep \/ Crash \/ Restart
  \/ Operator \/ OpenGui
  \/ GotStatus \/ GotHeartbeat \/ StartNotConfirmed \/ HeartbeatTimeout
  \/ Lose

(* The server answers commands and finishes what it has begun: a run has a *)
(* duration, and RunServer shows that its teardown completes.  The Qt      *)
(* event loop delivers datagrams and timeouts.  Nothing makes the operator *)
(* press a button or a dead server come back.                              *)
Fairness ==
  /\ WF_vars(ReceiveStart)
  /\ WF_vars(RunStep)
  /\ WF_vars(GotStatus)
  /\ WF_vars(StartNotConfirmed)
  /\ WF_vars(HeartbeatTimeout)

Spec == Init /\ [][Next]_vars /\ Fairness

-----------------------------------------------------------------------------
(* Properties *)

Command == [cmd : {"start"}, id : Nat, session : Nat] \cup {Stop}

(* A row is written under the number its run's files are named with        *)
(* (ui_run_metadata.py:201-203).                                           *)
RowNamesItsRun == \A row \in rows : row.id = command[row.run].id

(* The start times in a row are those of the run whose end wrote it        *)
(* (ui_server.py:462-473).                                                 *)
RowTimesItsRun == \A row \in rows : row.start = row.run

(* While the server sets up or records a run, the GUI is locked: no second *)
(* start, no new state, no server stop (ui_server.py:626-632).             *)
BusyServerLocksGui == phase \in {"setup", "logging"} => active

(* No two runs accepted from one session of the GUI carry the same number, *)
(* whatever was lost, delayed or unreachable; and no two runs at all do as *)
(* long as the database answers (ui_run_metadata.py:281-285, 304-324).     *)
NumbersDistinct ==
  \A r, q \in Runs :
    /\ r # q
    /\ NoCommand \notin {command[r], command[q]}
    /\ command[r].session = command[q].session \/ "db" \notin Faults
    => command[r].id # command[q].id

(* The number on show between runs was not used before in this session     *)
(* (ui_run_metadata.py:281-285).                                           *)
PreviewIsFresh == ~active /\ lastUsed # 0 => runId > lastUsed

(* Every run that ends gets its row, and with its own start times          *)
(* (ui_server.py:475-487).                                                 *)
EndedRunGetsRow ==
  \A r \in Runs :
    told[r] \in {"ended", "ended_manually"}
      ~> [id |-> command[r].id, run |-> r, start |-> r] \in rows

(* However a run ends, in the server's death too, the controls come back,  *)
(* unless the server never stops crashing (ui_server.py:565-569).          *)
ControlsComeBack == <>[][~Crash]_vars => (active ~> ~active)

-----------------------------------------------------------------------------
(* The inductive invariant behind NumbersDistinct and PreviewIsFresh: the  *)
(* start commands that still exist, on the wire or taken by a run, were    *)
(* made with numbers that have been used up.                               *)

NumbersTyped ==
  /\ run \in 0..MaxRuns
  /\ command \in [Runs -> Command]
  /\ toServer \subseteq Command
  /\ session \in Nat \ {0}
  /\ runId \in Nat
  /\ lastUsed \in Nat
  /\ seq \in Nat \ {0}
  /\ \A row \in rows : row.id \in Nat

Made == Starts \cup {command[r] : r \in 1..run}

(* No later than now, and no higher than the highest. *)
MadeEarlier ==
  \A m \in Made : /\ m.cmd = "start"
                  /\ m.session <= session
                  /\ m.session = session => m.id <= lastUsed

(* A datagram starts one run at most. *)
TakenOnce ==
  /\ \A r \in 1..run : command[r] \notin toServer
  /\ \A r, q \in 1..run : command[r] = command[q] => r = q
  /\ \A r \in Runs : r > run => command[r] = NoCommand

(* With a database that answers, every number comes from the sequence. *)
FromSequence ==
  "db" \notin Faults => /\ lastUsed < seq
                        /\ \A m \in Made : m.id < seq
                        /\ \A m, n \in Made : m.id = n.id => m = n

NumbersInv == /\ NumbersTyped
              /\ MadeEarlier
              /\ TakenOnce
              /\ FromSequence
              /\ PreviewIsFresh
=============================================================================
