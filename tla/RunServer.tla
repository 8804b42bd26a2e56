------------------------------ MODULE RunServer ------------------------------
(***************************************************************************)
(* The run lifecycle of the Go DAQ server (server/cmd/server/server.go):   *)
(* the control loop in main, the goroutine startHarvestersForRun that it   *)
(* starts for each run, and one startHarvesterListener goroutine for each  *)
(* harvester of that run.  Each goroutine is a program counter; what they  *)
(* share is runActive, globalState, the channels (stopRun, startListening, *)
(* stopListening), the WaitGroup, the sockets and the run files.           *)
(*                                                                         *)
(* The preview pipeline (eventBuilder, guiListener) takes no part in       *)
(* setting a run up or taking it down: nothing waits for it.  All that is  *)
(* seen of it here is whether it takes a fragment a listener offers.       *)
(***************************************************************************)
EXTENDS Integers, Sequences

CONSTANTS
  MaxRuns,       \* start commands the control loop will accept (bound)
  MaxEntries,    \* entries of the longest system state (bound)
  IPs,           \* listen addresses the state file may name
  SystemStates   \* the states a start command may carry

(***************************************************************************)
(* A system state is the list that run setup walks: a "telescope" entry    *)
(* for each telescope that is not missing, each followed by a "harvester"  *)
(* entry for each of its harvesters that is not missing.  valid is the     *)
(* verdict of the range checks on the entry's numbers.                     *)
(***************************************************************************)
Entry == [kind : {"telescope"}, valid : BOOLEAN]
         \cup [kind : {"harvester"}, valid : BOOLEAN, ip : IPs]

ASSUME RunServerAssumption ==
  /\ MaxRuns \in Nat
  /\ MaxEntries \in Nat
  /\ SystemStates \subseteq Seq(Entry)
  /\ \A s \in SystemStates : Len(s) <= MaxEntries
  /\ \A s \in SystemStates : s # <<>> => s[1].kind = "telescope"

Runs  == 1..MaxRuns
Slots == 1..MaxEntries

VARIABLES
  up,           \* the server process is running
  perHarvester, \* config.RunFileLayout is "perHarvester", not "perTelescope"
  runActive,    \* the atomic of that name
  globalState,  \* the state the last accepted start installed
  nRuns,        \* runs accepted so far: names the goroutine and its channels
  stopRun,      \* main's stopRun variable: 0 is nil, r the channel of run r
  stopBuf,      \* stopBuf[c]: the one-place buffer of channel c is full
  pc,           \* where the goroutine of run r is
  step,         \* the entry of globalState that setup is at
  telFile,      \* telescopeRunFile: the entry that opened it
  fileOf,       \* fileOf[<<r, i>>]: the entry whose file listener i writes to
  socks,        \* open harvester sockets, as <<run, entry, address>>
  guiConn,      \* runs whose socket to the GUI is open
  files,        \* open run files, as <<run, entry>>
  started,      \* runs whose startListening is closed
  stopped,      \* runs whose stopListening is closed
  lpc,          \* where listener <<run, entry>> is
  manualEnd,    \* the local of that name
  sent,         \* history: the statuses sent about run r, in order
  asked         \* history: runs a stop command was taken for

control   == <<up, perHarvester, runActive, globalState, nRuns, stopRun>>
resources == <<socks, guiConn, files>>
setupVars == <<step, telFile, fileOf>>
vars == <<control, stopBuf, pc, setupVars, resources, started, stopped, lpc,
          manualEnd, sent, asked>>

RunPC == {"unborn", "setup", "spawn", "gate", "announce", "select", "stop",
          "close", "join", "files", "report", "release", "done", "killed"}
ListenerPC == {"off", "gate", "poll", "read", "write", "offer", "done"}
Final == {"aborted", "ended", "ended_manually"}

InFlight(r) == pc[r] \notin {"unborn", "done", "killed"}
Harvesters(r) == {i \in Slots : fileOf[<<r, i>>] # 0}  \* the harvesters slice

Init ==
  /\ up = TRUE
  /\ perHarvester \in BOOLEAN
  /\ runActive = FALSE
  /\ globalState = <<>>
  /\ nRuns = 0
  /\ stopRun = 0
  /\ stopBuf = [r \in Runs |-> FALSE]
  /\ pc = [r \in Runs |-> "unborn"]
  /\ step = [r \in Runs |-> 1]
  /\ telFile = [r \in Runs |-> 0]
  /\ fileOf = [l \in Runs \X Slots |-> 0]
  /\ socks = {}
  /\ guiConn = {}
  /\ files = {}
  /\ started = {}
  /\ stopped = {}
  /\ lpc = [l \in Runs \X Slots |-> "off"]
  /\ manualEnd = [r \in Runs |-> FALSE]
  /\ sent = [r \in Runs |-> <<>>]
  /\ asked = {}

-----------------------------------------------------------------------------
(* The control loop.  Each command is handled to completion before the     *)
(* next datagram is read.                                                  *)

(* make(chan struct{}, 1): a channel of its own for each run. *)
RunChannel_Shared(r) == 1
RunChannel(r) == r

StartRun_Unchecked(newState) ==
  /\ up
  /\ nRuns < MaxRuns
  /\ globalState' = newState
  /\ runActive' = TRUE
  /\ nRuns' = nRuns + 1
  /\ stopRun' = RunChannel(nRuns + 1)
  /\ pc' = [pc EXCEPT ![nRuns + 1] = "setup"]
  /\ UNCHANGED <<up, perHarvester, stopBuf, setupVars, resources, started, stopped, lpc,
                 manualEnd, sent, asked>>

(* startRunCmd with no run active and every field present.  newState is    *)
(* the state it carries, or the one already there if it carries none.       *)
StartRun(newState) ==
  /\ up
  /\ ~runActive
  /\ nRuns < MaxRuns
  /\ globalState' = newState
  /\ runActive' = TRUE
  /\ nRuns' = nRuns + 1
  /\ stopRun' = RunChannel(nRuns + 1)
  /\ pc' = [pc EXCEPT ![nRuns + 1] = "setup"]
  /\ UNCHANGED <<up, perHarvester, stopBuf, setupVars, resources, started, stopped, lpc,
                 manualEnd, sent, asked>>

(* stopRunCmd: a non-blocking send on the current run's channel. *)
StopRunCmd ==
  /\ up
  /\ runActive
  /\ stopRun # 0
  /\ stopBuf' = [stopBuf EXCEPT ![stopRun] = TRUE]
  /\ asked' = asked \cup {nRuns}
  /\ UNCHANGED <<control, pc, setupVars, resources, started, stopped, lpc,
                 manualEnd, sent>>

(* exitCmd returns from main, which ends the process and every goroutine   *)
(* wherever it is; the kernel closes its sockets and files.                *)
ExitCmd ==
  /\ up
  /\ up' = FALSE
  /\ runActive' = FALSE
  /\ pc' = [r \in Runs |-> IF InFlight(r) THEN "killed" ELSE pc[r]]
  /\ lpc' = [l \in Runs \X Slots |-> "off"]
  /\ socks' = {}
  /\ guiConn' = {}
  /\ files' = {}
  /\ UNCHANGED <<perHarvester, globalState, nRuns, stopRun, stopBuf, setupVars,
                 started, stopped, manualEnd, sent, asked>>

(* A new process, started by the GUI or by the service manager, with the   *)
(* layout its config file names.                                           *)
Restart ==
  /\ ~up
  /\ up' = TRUE
  /\ perHarvester' \in BOOLEAN
  /\ globalState' = <<>>
  /\ stopRun' = 0
  /\ UNCHANGED <<runActive, nRuns, stopBuf, pc, setupVars, resources, started,
                 stopped, lpc, manualEnd, sent, asked>>
-----------------------------------------------------------------------------
(* startHarvestersForRun: setup.  Nothing of the run is concurrent yet. *)

At(r, here) == pc[r] = here
Goto(r, there) == pc' = [pc EXCEPT ![r] = there]
MoreEntries(r) == step[r] <= Len(globalState)
EntryAt(r) == globalState[step[r]]

(* One telescope: a run file of its own unless the layout is perHarvester. *)
SetupTelescope(r) ==
  /\ At(r, "setup")
  /\ MoreEntries(r)
  /\ EntryAt(r).kind = "telescope"
  /\ EntryAt(r).valid
  /\ telFile' = [telFile EXCEPT ![r] = IF perHarvester THEN 0 ELSE step[r]]
  /\ files' = IF perHarvester THEN files ELSE files \cup {<<r, step[r]>>}
  /\ step' = [step EXCEPT ![r] = @ + 1]
  /\ UNCHANGED <<control, stopBuf, pc, fileOf, socks, guiConn, started, stopped,
                 lpc, manualEnd, sent, asked>>

PortFree(ip) == \A s \in socks : s[3] # ip

(* One harvester: bind its socket, and open its file or take the           *)
(* telescope's.  The bind fails while any socket holds the address.        *)
SetupHarvester(r) ==
  /\ At(r, "setup")
  /\ MoreEntries(r)
  /\ EntryAt(r).kind = "harvester"
  /\ EntryAt(r).valid
  /\ PortFree(EntryAt(r).ip)
  /\ socks' = socks \cup {<<r, step[r], EntryAt(r).ip>>}
  /\ files' = IF perHarvester THEN files \cup {<<r, step[r]>>} ELSE files
  /\ fileOf' = [fileOf EXCEPT ![<<r, step[r]>>] =
                  IF perHarvester THEN step[r] ELSE telFile[r]]
  /\ step' = [step EXCEPT ![r] = @ + 1]
  /\ UNCHANGED <<control, stopBuf, pc, telFile, guiConn, started, stopped, lpc,
                 manualEnd, sent, asked>>

(* Every entry done: the socket to the GUI. *)
SetupGui(r) ==
  /\ At(r, "setup")
  /\ ~MoreEntries(r)
  /\ guiConn' = guiConn \cup {r}
  /\ Goto(r, "spawn")
  /\ UNCHANGED <<control, stopBuf, setupVars, socks, files, started, stopped,
                 lpc, manualEnd, sent, asked>>

(* Where setup can go wrong: anywhere but at a valid telescope entry that  *)
(* opens no file.                                                          *)
SetupCanFail(r) ==
  MoreEntries(r) =>
  \/ ~EntryAt(r).valid
  \/ EntryAt(r).kind = "harvester"
  \/ ~perHarvester

SocketsOf(r) == {s \in socks : s[1] = r}
FilesOf(r)   == {f \in files : f[1] = r}

SetupFails_KeepsFiles(r) ==
  /\ At(r, "setup")
  /\ SetupCanFail(r)
  /\ socks' = socks \ SocketsOf(r)
  /\ sent' = [sent EXCEPT ![r] = Append(@, "aborted")]
  /\ Goto(r, "release")
  /\ UNCHANGED <<control, stopBuf, setupVars, guiConn, files, started, stopped,
                 lpc, manualEnd, asked>>

(* abort(): close what was opened, say "aborted", return. *)
SetupFails(r) ==
  /\ At(r, "setup")
  /\ SetupCanFail(r)
  /\ socks' = socks \ SocketsOf(r)
  /\ files' = files \ FilesOf(r)
  /\ sent' = [sent EXCEPT ![r] = Append(@, "aborted")]
  /\ Goto(r, "release")
  /\ UNCHANGED <<control, stopBuf, setupVars, guiConn, started, stopped, lpc,
                 manualEnd, asked>>

-----------------------------------------------------------------------------
(* startHarvestersForRun: the run itself. *)

(* The go statements: every listener waits at the gate. *)
Spawn(r) ==
  /\ At(r, "spawn")
  /\ lpc' = [l \in Runs \X Slots |->
               IF l[1] = r /\ l[2] \in Harvesters(r) THEN "gate" ELSE lpc[l]]
  /\ Goto(r, "gate")
  /\ UNCHANGED <<control, stopBuf, setupVars, resources, started, stopped,
                 manualEnd, sent, asked>>

(* close(startListening) *)
OpenGate(r) ==
  /\ At(r, "gate")
  /\ started' = started \cup {r}
  /\ Goto(r, "announce")
  /\ UNCHANGED <<control, stopBuf, setupVars, resources, stopped, lpc,
                 manualEnd, sent, asked>>

Announce(r) ==
  /\ At(r, "announce")
  /\ sent' = [sent EXCEPT ![r] = Append(@, "started")]
  /\ Goto(r, "select")
  /\ UNCHANGED <<control, stopBuf, setupVars, resources, started, stopped, lpc,
                 manualEnd, asked>>

(* select, case <-runTimer.C.  The duration is not modelled: the timer may *)
(* fire at any time, and with both cases ready Go picks either.            *)
TimerFires(r) ==
  /\ At(r, "select")
  /\ Goto(r, "stop")
  /\ UNCHANGED <<control, stopBuf, setupVars, resources, started, stopped, lpc,
                 manualEnd, sent, asked>>

(* select, case <-stopRun, the channel the goroutine was given. *)
TakeStop(r) ==
  /\ At(r, "select")
  /\ stopBuf[RunChannel(r)]
  /\ stopBuf' = [stopBuf EXCEPT ![RunChannel(r)] = FALSE]
  /\ manualEnd' = [manualEnd EXCEPT ![r] = TRUE]
  /\ Goto(r, "stop")
  /\ UNCHANGED <<control, setupVars, resources, started, stopped, lpc, sent,
                 asked>>

(* close(stopListening) *)
StopListening(r) ==
  /\ At(r, "stop")
  /\ stopped' = stopped \cup {r}
  /\ Goto(r, "close")
  /\ UNCHANGED <<control, stopBuf, setupVars, resources, started, lpc,
                 manualEnd, sent, asked>>

CloseConns_AfterWait(r) ==
  /\ At(r, "close")
  /\ \A i \in Slots : lpc[<<r, i>>] \in {"off", "done"}
  /\ socks' = socks \ SocketsOf(r)
  /\ guiConn' = guiConn \ {r}
  /\ Goto(r, "join")
  /\ UNCHANGED <<control, stopBuf, setupVars, files, started, stopped, lpc,
                 manualEnd, sent, asked>>

(* Mutant: only the socket to the GUI is closed. *)
CloseConns_GuiOnly(r) ==
  /\ At(r, "close")
  /\ guiConn' = guiConn \ {r}
  /\ Goto(r, "join")
  /\ UNCHANGED <<control, stopBuf, setupVars, socks, files, started, stopped, lpc,
                 manualEnd, sent, asked>>

(* closeConns(), which is what wakes a listener blocked in a read. *)
CloseConns(r) ==
  /\ At(r, "close")
  /\ socks' = socks \ SocketsOf(r)
  /\ guiConn' = guiConn \ {r}
  /\ Goto(r, "join")
  /\ UNCHANGED <<control, stopBuf, setupVars, files, started, stopped, lpc,
                 manualEnd, sent, asked>>

Join_NoWait(r) ==
  /\ At(r, "join")
  /\ Goto(r, "files")
  /\ UNCHANGED <<control, stopBuf, setupVars, resources, started, stopped, lpc,
                 manualEnd, sent, asked>>

(* listeners.Wait() *)
Join(r) ==
  /\ At(r, "join")
  /\ \A i \in Slots : lpc[<<r, i>>] \in {"off", "done"}
  /\ Goto(r, "files")
  /\ UNCHANGED <<control, stopBuf, setupVars, resources, started, stopped, lpc,
                 manualEnd, sent, asked>>

CloseFiles(r) ==
  /\ At(r, "files")
  /\ files' = files \ FilesOf(r)
  /\ Goto(r, "report")
  /\ UNCHANGED <<control, stopBuf, setupVars, socks, guiConn, started, stopped,
                 lpc, manualEnd, sent, asked>>

EndStatus_Unset(r) == IF manualEnd[r] THEN "unset" ELSE "ended"
EndStatus(r) == IF manualEnd[r] THEN "ended_manually" ELSE "ended"

Report(r) ==
  /\ At(r, "report")
  /\ sent' = [sent EXCEPT ![r] = Append(@, EndStatus(r))]
  /\ Goto(r, "release")
  /\ UNCHANGED <<control, stopBuf, setupVars, resources, started, stopped, lpc,
                 manualEnd, asked>>

(* The deferred runActive.Store(false): after the status, not before. *)
Release(r) ==
  /\ At(r, "release")
  /\ runActive' = FALSE
  /\ Goto(r, "done")
  /\ UNCHANGED <<up, perHarvester, globalState, nRuns, stopRun, stopBuf,
                 setupVars, resources, started, stopped, lpc, manualEnd, sent, asked>>

-----------------------------------------------------------------------------
(* startHarvesterListener *)

ListenerGoto(l, from, to) ==
  /\ lpc[l] = from
  /\ lpc' = [lpc EXCEPT ![l] = to]
  /\ UNCHANGED <<control, stopBuf, pc, setupVars, resources, started, stopped,
                 manualEnd, sent, asked>>

SocketOpen(l) == \E s \in socks : s[1] = l[1] /\ s[2] = l[2]

(* The first select: go, or never start. *)
ListenerGate(l) ==
  \/ l[1] \in started /\ ListenerGoto(l, "gate", "poll")
  \/ l[1] \in stopped /\ ListenerGoto(l, "gate", "done")

(* Mutant: the loop does not look at stopListening. *)
ListenerPoll_Deaf(l) == ListenerGoto(l, "poll", "read")

(* Top of the loop: return once stopListening is closed, else read. *)
ListenerPoll(l) ==
  \/ l[1] \in stopped /\ ListenerGoto(l, "poll", "done")
  \/ l[1] \notin stopped /\ ListenerGoto(l, "poll", "read")

(* A packet arrives. *)
ListenerRead(l) == SocketOpen(l) /\ ListenerGoto(l, "read", "write")

(* The socket was closed under the read: continue. *)
ListenerReadError(l) == ~SocketOpen(l) /\ ListenerGoto(l, "read", "poll")

(* outputFile.Write, then every sendInterval-th event goes to the builder. *)
ListenerWrite(l) ==
  \/ ListenerGoto(l, "write", "poll")
  \/ ListenerGoto(l, "write", "offer")

(* The builder's channel has room; if the builder is gone it may fill up   *)
(* and never have room again.                                              *)
ListenerOffer(l) == ListenerGoto(l, "offer", "poll")

ListenerGiveUp(l) == l[1] \in stopped /\ ListenerGoto(l, "offer", "poll")

-----------------------------------------------------------------------------

Control ==
  \/ \E s \in SystemStates \cup {globalState} : StartRun(s)
  \/ StopRunCmd \/ ExitCmd \/ Restart

RunStep(r) ==
  \/ SetupTelescope(r) \/ SetupHarvester(r) \/ SetupGui(r) \/ SetupFails(r)
  \/ Spawn(r) \/ OpenGate(r) \/ Announce(r)
  \/ TakeStop(r) \/ StopListening(r) \/ CloseConns(r) \/ Join(r)
  \/ CloseFiles(r) \/ Report(r) \/ Release(r)

ListenerStep(l) ==
  \/ ListenerGate(l) \/ ListenerPoll(l) \/ ListenerReadError(l)
  \/ ListenerWrite(l) \/ ListenerGiveUp(l)

Next ==
  \/ Control
  \/ \E r \in Runs : RunStep(r) \/ TimerFires(r)
  \/ \E l \in Runs \X Slots : ListenerStep(l) \/ ListenerRead(l) \/ ListenerOffer(l)

(* The Go scheduler runs every goroutine that can run.  Nothing makes a    *)
(* command or a packet arrive, the builder take a fragment, or the timer   *)
(* fire.                                                                   *)
Fairness ==
  /\ \A r \in Runs : WF_vars(RunStep(r))
  /\ \A l \in Runs \X Slots : WF_vars(ListenerStep(l))

Spec == Init /\ [][Next]_vars /\ Fairness

-----------------------------------------------------------------------------
(* Properties *)

TypeOK ==
  /\ up \in BOOLEAN
  /\ perHarvester \in BOOLEAN
  /\ runActive \in BOOLEAN
  /\ globalState \in SystemStates \cup {<<>>}
  /\ nRuns \in 0..MaxRuns
  /\ stopRun \in 0..MaxRuns
  /\ stopBuf \in [Runs -> BOOLEAN]
  /\ pc \in [Runs -> RunPC]
  /\ step \in [Runs -> Nat \ {0}]
  /\ telFile \in [Runs -> 0..MaxEntries]
  /\ fileOf \in [Runs \X Slots -> 0..MaxEntries]
  /\ socks \subseteq Runs \X Slots \X IPs
  /\ guiConn \subseteq Runs
  /\ files \subseteq Runs \X Slots
  /\ started \subseteq Runs
  /\ stopped \subseteq Runs
  /\ lpc \in [Runs \X Slots -> ListenerPC]
  /\ manualEnd \in [Runs -> BOOLEAN]
  /\ sent \in [Runs -> Seq(Final \cup {"started"})]
  /\ asked \subseteq 0..MaxRuns

(* At most one run goroutine is alive, and runActive is true for as long   *)
(* as it is: the check in startRunCmd (server.go:225) is enough to keep    *)
(* two runs apart.                                                         *)
OneRunAtATime ==
  \A r \in Runs : InFlight(r) => runActive /\ \A q \in Runs : InFlight(q) => q = r

(* A listener about to write a packet holds an open run file, whatever the *)
(* run goroutine is closing meanwhile (server.go:502-507, 671).            *)
WriterHoldsFile ==
  \A l \in Runs \X Slots : lpc[l] = "write" => <<l[1], fileOf[l]>> \in files

EndReported(r) == sent[r] # <<>> /\ sent[r][Len(sent[r])] \in Final

(* When the GUI can have heard that a run is over, or runActive lets the   *)
(* next one in, the run has no open socket, no open file and no listener   *)
(* left: its files are complete, and the next run can bind its ports       *)
(* (server.go:377-382, 502-513).                                           *)
QuietWhenReported ==
  \A r \in Runs : (EndReported(r) \/ ~InFlight(r)) =>
    /\ SocketsOf(r) = {}
    /\ FilesOf(r) = {}
    /\ r \notin guiConn
    /\ \A i \in Slots : lpc[<<r, i>>] \in {"off", "done"}

(* A run ends as "ended_manually" only if a stop command was taken during  *)
(* that very run: a stop left over from an earlier run, even one that came *)
(* while that run was already closing down, never ends this one            *)
(* (server.go:190-193, 255, 260-265).  ImplementsSession implies it.       *)
StopIsForThisRun ==
  \A r \in Runs : manualEnd[r] => r \in asked

(* The state that the goroutines of a run read under globalState's lock is *)
(* never replaced while the run is alive (server.go:223-228, 248-250).     *)
StateHeldDuringRun ==
  [][globalState' # globalState => \A r \in Runs : ~InFlight(r)]_vars

(* A stop taken at any time in a run, during setup too, ends the run, even *)
(* if its timer never fires, no packet ever comes and the builder takes    *)
(* nothing; and whatever began the teardown, it completes.  Closing the    *)
(* sockets before waiting for the listeners is what makes it so            *)
(* (server.go:190-193, 493-507, 674-677).                                  *)
RunEnds == \A r \in Runs : (r \in asked \/ r \in stopped) ~> ~InFlight(r)

(* The guards of RunStep(r) and of ListenerStep(l). *)
RunCanStep(r) ==
  \/ /\ pc[r] = "setup"
     /\ MoreEntries(r) => SetupCanFail(r) \/ (EntryAt(r).valid /\ EntryAt(r).kind = "telescope")
  \/ pc[r] = "select" /\ stopBuf[RunChannel(r)]
  \/ pc[r] = "join" /\ \A i \in Slots : lpc[<<r, i>>] \in {"off", "done"}
  \/ pc[r] \in {"spawn", "gate", "announce", "stop", "close", "files", "report", "release"}

ListenerCanStep(l) ==
  \/ lpc[l] = "gate" /\ l[1] \in started \cup stopped
  \/ lpc[l] \in {"poll", "write"}
  \/ lpc[l] = "read" /\ ~SocketOpen(l)
  \/ lpc[l] = "offer" /\ l[1] \in stopped

(* The two safety properties that make up RunEnds.  A run that is to end   *)
(* can always go on by itself, with no packet, no timer, no command and no *)
(* room in the builder's channel: its goroutine, or a listener it waits    *)
(* for (server.go:490-507, 655-677).                                       *)
EndsUnaided ==
  \A r \in Runs : InFlight(r) /\ r \in asked \cup stopped =>
    RunCanStep(r) \/ \E i \in Slots : ListenerCanStep(<<r, i>>)

RunLeft ==
  [unborn |-> 11, setup |-> 10, spawn |-> 9, gate |-> 8, announce |-> 7, select |-> 6, stop |-> 5,
   close |-> 4, join |-> 3, files |-> 2, report |-> 1, release |-> 0, done |-> -1, killed |-> -1]
ListenerLeft ==
  [gate |-> 4, read |-> 4, write |-> 3, offer |-> 2, poll |-> 1, done |-> 0, off |-> -1]

(* And nothing makes it start over: whatever a run does brings it closer to*)
(* its end, and once stopListening is closed so does whatever a listener   *)
(* of it does, packets that still come included (server.go:388-513,        *)
(* 655-694).                                                               *)
EndComesCloser ==
  [][\A r \in Runs :
       /\ pc'[r] # pc[r] => RunLeft[pc'[r]] < RunLeft[pc[r]]
       /\ step'[r] # step[r] => step'[r] = step[r] + 1 /\ step[r] <= Len(globalState)
       /\ r \in stopped => \A i \in Slots : lpc'[<<r, i>>] # lpc[<<r, i>>] =>
            ListenerLeft[lpc'[<<r, i>>]] < ListenerLeft[lpc[<<r, i>>]]]_vars

-----------------------------------------------------------------------------
(* The inductive invariant behind the safety properties: which run may be  *)
(* in flight, and what a run owns and has said at each point of its life.  *)

BeforeSpawn  == {"unborn", "setup", "spawn"}
BeforeReport == {"select", "stop", "close", "join", "files", "report"}
AfterReport  == {"release", "done", "killed"}
Listening    == {"gate", "announce", "select", "stop", "close", "join"}
HasSockets   == {"setup", "spawn", "gate", "announce", "select", "stop", "close"}
HasFiles     == HasSockets \cup {"join", "files"}

(* Only the newest run is in flight, under runActive, in a live process,   *)
(* and a stop can only reach its channel.                                  *)
NewestRunOnly ==
  /\ \A r \in Runs : InFlight(r) => r = nRuns /\ runActive /\ up
  /\ \A r \in Runs : r > nRuns => pc[r] = "unborn"
  /\ runActive => nRuns \in Runs /\ InFlight(nRuns)
  /\ stopRun \in {0, nRuns}
  /\ asked \subseteq 1..nRuns

(* What a run may hold, by where its goroutine is. *)
HoldsOnlyInRun ==
  \A r \in Runs :
    /\ SocketsOf(r) # {} => pc[r] \in HasSockets
    /\ FilesOf(r) # {} => pc[r] \in HasFiles
    /\ r \in guiConn => pc[r] \in HasSockets \ {"setup"}
    /\ \A i \in Slots : lpc[<<r, i>>] \notin {"off", "done"} => pc[r] \in Listening
    /\ pc[r] \in BeforeSpawn => \A i \in Slots : lpc[<<r, i>>] = "off"

(* The files that setup has handed out stay open until they are all closed. *)
HandedOutOpen ==
  \A r \in Runs :
    /\ pc[r] = "unborn" => telFile[r] = 0 /\ \A i \in Slots : fileOf[<<r, i>>] = 0
    /\ pc[r] = "setup" /\ telFile[r] # 0 => <<r, telFile[r]>> \in files
    /\ \A i \in Slots : pc[r] \in HasFiles /\ fileOf[<<r, i>>] # 0
                          => <<r, fileOf[<<r, i>>]>> \in files
    /\ \A i \in Slots : lpc[<<r, i>>] # "off" => fileOf[<<r, i>>] # 0

(* What a run has told the GUI. *)
ToldInOrder ==
  \A r \in Runs :
    /\ pc[r] \in BeforeSpawn \cup {"gate", "announce"} => sent[r] = <<>>
    /\ pc[r] \in BeforeReport => sent[r] = <<"started">>
    /\ EndReported(r) => pc[r] \in AfterReport

StopsAsked ==
  \A r \in Runs : /\ stopBuf[r] => r \in asked
                  /\ manualEnd[r] => r \in asked

IInv == /\ TypeOK
        /\ NewestRunOnly
        /\ HoldsOnlyInRun
        /\ HandedOutOpen
        /\ ToldInOrder
        /\ StopsAsked

(* A stop waits in the channel until the run takes it, and stopListening   *)
(* is closed before the sockets are.                                       *)
StopsKept ==
  \A r \in Runs :
    /\ r \in asked /\ pc[r] \in {"setup", "spawn", "gate", "announce", "select"} =>
         stopBuf[RunChannel(r)]
    /\ pc[r] \in {"close", "join"} => r \in stopped
    /\ r \in stopped => pc[r] \in {"close", "join", "files", "report"} \cup AfterReport

-----------------------------------------------------------------------------
(* The server implements RunSession: every step between "started" and the  *)
(* end status is a stuttering step of the session.                         *)

PhaseAt(here) ==
  CASE here \in {"unborn", "done", "killed"}           -> "idle"
    [] here \in {"setup", "spawn", "gate", "announce"} -> "setup"
    [] here \in BeforeReport                           -> "logging"
    [] here = "release"                                -> "reported"

SessionPhase == IF ~up THEN "down"
                ELSE IF nRuns = 0 THEN "idle" ELSE PhaseAt(pc[nRuns])

SessionTold ==
  [r \in Runs |-> IF sent[r] = <<>> THEN "nothing" ELSE sent[r][Len(sent[r])]]

Session == INSTANCE RunSession WITH
  phase <- SessionPhase, run <- nRuns, stopPending <- nRuns \in asked,
  told <- SessionTold

(* Runs are taken one at a time and each is told what happened to it once, *)
(* in order, and truthfully: what RunSession says.                         *)
ImplementsSession == Session!Spec
=============================================================================
