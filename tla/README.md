# Verification of VO_software

TLA+ models of the VERITAS optical (VO) data-acquisition software: the Go DAQ
server, the Qt run-control GUI and what passes between them. TLC checks the
models on small instances; TLAPS proves the safety properties for every
instance. Source lines below are relative to the repository (`server.go` is
`server/cmd/server/server.go`, `array.go` is `server/pkg/state/array.go`).

## 1. The system

| Component | State it keeps | Operations | Talks to |
|---|---|---|---|
| **Server control loop** (`server.go` `main`) | `runActive`, `globalState`, `stopRun` | startRun, stopRun, exit, heartbeat, test, forwarding, harvester relay | GUI (UDP commands in, heartbeats out); run goroutine (channel, atomic) |
| **Run goroutine** (`startHarvestersForRun`) | sockets, run files, timer, `manualEnd` | set up, announce, wait, tear down, report | listeners (two channels, a WaitGroup), GUI (UDP status) |
| **Harvester listeners** (`startHarvesterListener`) | buffer, packet count | read, write to file, offer to the builder | run goroutine, event builder (channel of 100000) |
| **Event builders** (`eventBuilder`, one per telescope) | pixels, present flags, counts | take, flush, land, send frame | listeners, guiListener (channel of 10000), `globalState` |
| **guiListener** | outgoing datagram, telescopes present | take, write, drain | builders, GUI (UDP) |
| **State package** (`array.go`) | `SystemState` behind an RWMutex | lookups by telescope, position, address | all server goroutines |
| **Support packages** (`netutils`, `ioutils`, `data_parsing`) | none | bind, send status, forward, create run file, order pixels | server |
| **GUI run control** (`gui/ui_server.py`) | `run_active`, `run_confirmed`, `server_connected`, three timers | start, stop, connect, statuses, heartbeats, timeouts | server (UDP), metadata panel |
| **Run metadata** (`gui/ui_run_metadata.py`) | run number on show, `last_used_run_id`, parameter lines | preview, reserve, write row | PostgreSQL sequence and table |
| **State editor** (`gui/ui_state_editor.py`) | loaded state, widgets, what is marked as edited | load, edit, set, undo, lock | run control |
| **send_command control** (`gui/ui_send_command.py`) and **tool** (`send_command.go`) | a QProcess; a state file | generate, kill; listen, generate, scan | boards' addresses, server |
| **Camera** (`gui/ui_camera.py`) | the newest datagram | take, cut into panels, draw | guiListener (UDP) |
| **Pointing worker** (`gui/veritas_db.py`, `db_worker_process.py`, `ui_star_overlay.py`) | thread, subprocess, one-place queue | start, stop, poll, redraw | VERITAS MySQL, camera panels |
| **Star options** (`gui/star_options.py`, `star_display.py`) | thresholds, a stored file | load, set, reset | pointing worker |
| **Star catalogue** (`scripts/build_star_catalog.py`, `gui/star_field.py`) | a table of stars | build, load, label | pointing worker |
| **Preflight check and service** (`deploy/check_deploy.py`, `vo-server.service`) | `server.json` on two machines | check, start, restart | server, GUI |
| **Offline scripts** (`scripts/`) | none | read run files and diagnostic packets | run files |
| Parked and vendored code (`gui/holder`, `fadc/washu-fadc`, `fadc/libfadc`) | | not used or driven by hand | |

What is hard about it:

- *Concurrency in the server.* A run is a goroutine per board, one per
  telescope and two more; they end by a closed channel, by their socket being
  closed under them, and by a WaitGroup, in an order that matters.
- *A protocol without identities.* Commands and statuses are UDP datagrams. A
  status is four bytes and does not say which run it is about; the GUI takes it
  for the run in hand.
- *Timers.* The GUI releases its lock after five seconds without "started" or
  three without a heartbeat. Both race the answer.
- *Crashes.* systemd restarts a crashed server after two seconds; the GUI can
  be closed and opened at any time; the database may be away.
- *Threads in the GUI.* The pointing worker has a thread and a subprocess of its own, but most of it runs
  in the window's thread: its timer and two of its slots were made and connected before it was moved. A stop
  is a call posted to a thread that is told to quit in the same breath, only to be passed back; and
  two threads use the worker's settings.
- *State shown and state sent.* The list of boards is in a file, in the editor's
  widgets, in the GUI's copy, in the server's; the row of a run is written from the widgets
  when it ends.
- *Layouts without a shared definition.* Packets, pixels and configuration are read by
  programs with a copy each of offsets, orders and key names.
- *Names.* A run's number names its files and its database row. It comes from a
  sequence, or from the panel when the database is away.

What makes each component correct is the list of hazards in `PROJECT.json`,
with the property that covers each.

## 2. Modules

```
  RunSession          what the server promises about runs
     ^    ^
     |    +---------- RunSystem          GUI + database + UDP + RunSession
  RunServer           the server's goroutines; implements RunSession
  EventPipeline       the preview inside one run, up to the camera ---+
  RunFiles            lists of boards, sockets, files, records ------ Formats
  Desk                state editor, lock, Start, generator
  PointingWorker      window, thread, subprocess -------------------- StarCatalog
  Machines            two machines, their server.json, the preflight check

  RunServer_proofs, RunSystem_proofs, EventPipeline_proofs, RunFiles_proofs,
  Desk_proofs, PointingWorker_proofs, StarCatalog_proofs, Machines_proofs
                      theorems, each about the module of its name
  MCRunServer, MCRunSystem, MCEventPipeline, MCRunFiles, MCDesk,
  MCPointingWorker, MCMachines           instances for TLC
```

Lines with dashes are EXTENDS of a module of pure definitions.

`RunSession` is the joint: `RunServer` is shown to implement it, and `RunSystem`
uses it for the server, so the GUI is checked against the promise and not
against a second model of the server.

### RunServer

One action per step of a goroutine that another can see.

| Code | Model |
|---|---|
| `runActive`, `globalState`, `stopRun` | variables of those names (`stopRun` names the run whose channel it is) |
| the goroutine of run r | `pc[r]`, `step[r]` (the entry setup is at), `manualEnd[r]` |
| listener of entry i of run r | `lpc[<<r, i>>]` |
| `startListening`, `stopListening` closed | `r \in started`, `r \in stopped` |
| `conns`, `files` | `socks`, `guiConn`, `files` |
| setup loop, 391-462 | `SetupTelescope`, `SetupHarvester`, `SetupGui`, `SetupFails` (which is `abort` and its `return`) |
| teardown, 502-513 and the `defer` | `StopListening`, `CloseConns`, `Join`, `CloseFiles`, `Report`, `Release` |

A system state is the list of telescopes and boards that setup walks, each with
the verdict of the range checks and the address it binds; channels and pixel
indices are abstracted into the verdict. A bind fails while any socket holds
the address; other failures (disk, permissions) may happen at any step that can
fail. The run's duration is not modelled: the timer may fire at any time or never.
A process exit (command or crash) ends every goroutine where it is.

`sent` and `asked` are history: no guard reads them.

### RunSystem

| Code | Model |
|---|---|
| server | `RunSession`'s variables, and `command[r]`, the start that run r was accepted from |
| UDP | `toServer` (a set), `toGui` (a sequence that may be taken from out of order) |
| `run_active`, `run_confirmed`, `start_confirm_timer` | `active`, `confirmed`, `confirming` |
| heartbeat timers, `server_connected` | `beating`, `connected` |
| run number line, `last_used_run_id`, start-time lines | `runId`, `lastUsed`, `startOf` |
| PostgreSQL sequence and `tblrun_info` | `seq`, `rows` |

Each slot is one action, with everything it calls: `GotEnded` writes the row and
then does what `end_run` does, including the query for the next number, and
each database call succeeds or fails on its own. `Faults` names what may go wrong,
so that a property is checked under the weakest assumption it holds under.
Heartbeats themselves are not datagrams of the model: a reply may come
whenever the server is up (`GotHeartbeat`), and three seconds without one is
`HeartbeatTimeout`, which without loss or delay needs a dead server.

The operator presses only buttons that are enabled. The debug override, which
enables Start during a run, is in `Desk`.

### EventPipeline

The run has a send interval above zero (at zero no builder is started). The run
goroutine is reduced to the three points the pipeline sees. A board's
pixels are represented by how many fragments the builder has taken since
they landed, which is what freshness is about. The state lookups keep their
indexing: flags by place in the list, fragments by position, `false` past
the end of the list. guiListener's drain is one step; the loop in the code could only
run on if builders filled the channel faster than it is emptied.

The camera is the reader at the end: the datagram waits for it (`waiting`), is taken and
cut into panels, whose pixels are placed by `Formats`. The GUI's socket may be full; loss in
the network is left out. What a panel shows is one of the run's frames, or an older one.

### RunFiles

A list of boards is a sequence of entries, as in the state file. Every look-up of
`array.go` that the set-up or the tool uses is an operator that takes the first match, as the code does
(`EntryOf`, `GetHarvestersPresent`, `GetHarvesterLocalPositionFromIP`, `GetHarvesterIP`, ...). What the two
nested loops of the set-up go through is a set of places in the list (`Visited`, and `SetupJobs` with the
telescopes' own steps), taken in the order of the list. `SetupTelescope` and
`SetupHarvester` are one pass each, with their checks, binds and files; `Spawn` is where
a list too long for the fixed arrays panics. A file is a sequence of units, the first 28 bytes and the
rest of a packet, so that a short packet or a lost write shifts what the readers cut
out. `CheckPasses` is `check_state`. After the check only marks are edited. A run is
started by the GUI (`StartRun`) or by the tool (`Listen`, whose scan always uses
number 1). The channel range is a flag of the board; the file name's random letters are fresh.

### Formats

A reader of packets only moves bits. A number is the set of pairs of a weight and a bit of
the packet, so that two readers are the same for every packet if the sets are equal. Of the event number the
server and the generator take the four bytes in the other order than the offline readers
(`ONSITE_CHECKLIST.md:180` says so of test data; the server's `server.go:672` reads alike), and
`ReadersAgree` says just that: the one is the other with its bytes reversed. There is one
definition for each of the four offline readers, for the server's and the generator's event numbers, for
the FITS columns of the mask, the diagnostic packets and the pixels' order. The comparison is an
invariant of `run_files` (records) and of `preview` (pixels).

### Desk

A state is a function from fields to numbers; the widgets are another. Each slot is
one action with the refresh of the Start button at its end, where the code has one. The server is
reduced to what it says of the start it accepted; rows and numbers are in `RunSystem`. `ran` is
history: the run in hand, with the boards, parameters and FADC window it was started with, while its
lock holds. ssh's outcome is only logged by the code, so the crate may keep its width.

### PointingWorker and StarCatalog

Three threads of control: the window's (`gui`), the worker's (`loop`, `slot`), the subprocess
(`proc`), with the queues between them: `events` for the window, `calls` for the worker's thread.
What runs where follows from how PyQt connects signals:

| Code | Thread | Why |
|---|---|---|
| `get_stars_in_fov`, with `calculate_star_offsets` | the window's | `vpm_timer` has no parent, so `moveToThread` leaves it, and the proxy of the undecorated slot was made in the constructor (`veritas_db.py:37`) |
| the slots its signals reach (`handle_VPM_data`, `draw_star_field`, `veritas_sql_status`) | the window's, called at once | emitted and received in one thread |
| `start_querying`, `stop_querying` with its joins | the window's, posted | connected in the constructor too (`veritas_db.py:67`); the window's signal goes to the worker's signal, which its thread passes on (`Relay`) |
| `apply_star_display`, `recompute_star_field` | the worker's | invoked by name (`ui_star_overlay.py:223-232`) |
| `draw_star_field` after a recompute | the window's, posted | emitted in the worker's thread |

So a poll may be in hand while settings arrive: `seen` is the set of settings it may have read, and what is
drawn is known by such a set (a redraw in the worker's thread has one member). After the disconnect of a
stop, polls go on until the stop is back in the window, and reach nobody; a redraw already posted is drawn or
not (`DrawRedraw`). When a new worker replaces an old one, what the old one posted is left as `"old"`.
A slot that blocks or computes is two actions. `signal` says which signal the subprocess was sent; only SIGKILL
is sure to work. A pointing is its place in time. `StarCatalog` has which stars and texts
these are: the join of four published tables as pandas does it (a missing key matches a missing
key), the guard that keeps an old file when a key is lost, both loaders, and the labels of every scheme. A table
is a sequence of records, what a reader keeps of it a set of places, so that of several rows with one key the first
can be told. `IsSky` says what the tables may hold; that Hipparcos gives each star a number of its own, the
code takes from the catalogue.

### Machines

Each machine has its `server.json`; a program has the one it loaded when it started. The check is run on either at any
moment and sees what is bound then. `Lands` is UDP and the firewalls: a socket bound to
loopback cannot send to another machine, 0.0.0.0 as a destination is this machine. The addresses are
all pairs of a host (either machine, loopback, any, unset) and a port.

## 3. Runs

| Run | Instance | Checks | Result |
|---|---|---|---|
| `server` | 2 runs, states of 3 entries (two boards; one address twice; a last entry that fails its checks) | `RunServer`'s properties and `ImplementsSession` | pass, 177,548 states |
| `run_control` | 2 runs, 3 numbers, no faults but server crashes | rows, lock, both liveness properties | pass, 4,626 states |
| `run_numbers` | 2 runs, 2 numbers, the GUI opened twice; loss, delay, reordering, database outages, quick restarts | numbers within a session, the preview | pass, 5.9 million states |
| `preview` | 2 telescopes of 2 boards, states with a missing board, a missing telescope, a list out of order, a short list; a flush after 2 | `EventPipeline`'s properties, pixel order | pass, 489,787 states |
| `run_files` | 327 lists within two changes of a good one, both layouts, 2 runs, 1 edit, 2 packets, 2 faults | files, records, set-up, test data | pass, 3.1 million states |
| `desk` | one board, one spin box, 2 state files (one with a number the box cannot hold) | `Desk`'s invariants | pass, 1.7 million states |
| `pointing` | 2 starts, 2 pointings, queues of 3 calls for the worker and 2 for the window, a stored file; 11,520 catalogues of 2 stars | `PointingWorker`'s properties, `OverlayIsSound` | pass, 375,341 states |
| `machines` | every address in every place, 2 mishaps, 3 firewalls | `CheckedMachinesTalk` | pass, 1.1 million states |
| `late_end` | as `run_control`, with loss | `RowNamesItsRun` | violated |
| `quick_restart` | as `run_control`, with quick restarts | `ControlsComeBack` | violated |
| `silent_telescope` | a telescope with no board that sends | `CameraRefreshed` | violated |
| `pointing_shutdown` | one start, one pointing | `ShutdownNeverFrozen` | violated |

**Why the bounds are enough.** Two runs give every way in which one run can
disturb the next; nothing in the code looks further back than the previous run
(and the theorems of section 5 have no bound). Three entries give a telescope file
shared by two boards, a bind that clashes, and a failure after something was
opened. Three run numbers give one more than the runs: a number spent without
a run. A flush after two fragments with two boards gives full frames, partial
frames, and frames in which one board is older than the other; the code's 32 and 8
play the same parts. Channel capacities of one make every sender meet a full
channel. `preview` and `pointing` do not check for deadlock, as the pipeline and the program really stop.

Two packets in `run_files` are a short one and one it shifts; two starts under one number are what
`createUniqueFile` is for. Two changes of a list reach every pair of a fault and a
second entry it could clash with. In `desk` one board suffices, as no slot relates two boards: the
masks do (a missing telescope), and a telescope with its board is both. In `pointing` a second start meets what the first
left behind, and three calls are two settings and the redraw between or after them. Two mishaps in `machines` are one for each copy of the file, or one and a killed GUI.

Some properties hold under conditions that say what the code does not see to; each was
checked to be needed:

- `CheckedStateSetsUp` is about lists that name each telescope, address and position once
  and are no longer than the arrays: `check_state` looks at neither for boards marked missing.
- `TestDataIsHeard` is about lists that are `Distinct` in the same sense.
- `CheckedMachinesTalk` is about GUI ports that differ, the usual command numbers (the GUI sends
  7 and 8 whatever the file says), firewalls open for data and statuses, and a server restarted
  since the file was edited.
- `DrawnWithDisplay` leaves out settings changed before the first pointing was handled: no redraw is asked for.
- `KeptWhenKeyLost` (in `PanelsNameTheirStars`), for the HD column of the SAO catalogue: the guard compares how many
  stars have an SAO number, and the BSC gives SAO numbers too. The loss is noticed where fewer than nine tenths of the
  expected numbers can be the BSC's: it has some 9,000 rows, and 90,000 are expected (`build_star_catalog.py:49`).
- `NumbersDistinct` compares runs of one session of the GUI; across sessions it holds if the database
  always answers, which the run does not assume and the theorem `DistinctNumbers` adds.

**What the violations show.**

- `late_end`: heartbeats are lost for three seconds in a run that is alive. The GUI
  releases its controls and moves the number on show to the next one
  (`ui_server.py:497`). When the run ends, the row is written under
  that next number. `ui_run_metadata.py:201` promises the number of the files.
  The run that later gets the number has its row refused by the primary key.
- `quick_restart`: the server crashes in a run and systemd has it back after two
  seconds (`deploy/vo-server.service:29`), before the GUI's three. The new process
  answers heartbeats and has no run to report. `run_active` stays true for good,
  which is what the comment at `ui_server.py:566` says the timeout prevents.
- `silent_telescope`: guiListener waits for a frame from every telescope that is
  not marked missing (`server.go:623`), and a builder sends none before a
  fragment arrives. One telescope whose boards are all silent blanks the others;
  `deploy/ONSITE_CHECKLIST.md:176` says the camera shows the boards that send.

- `pointing_shutdown`: the window is closed while the worker's thread computes a redraw. `stopWorker` posts the
  stop to that thread and calls `quit()` on it (`ui_star_overlay.py:237-238`). Qt ends a loop that was told to quit before it
  looks at what was posted during its last slot, so the stop is never passed back to the window; or the wait times out
  and the application's loop ends before it. Nothing signals the subprocess. It is no daemon (`veritas_db.py:73`), and Python
  joins it for ever at exit. The comment at 239 says that a wedged worker can never freeze shutdown.

Smaller remarks, not findings. After a flush the count is reset before the
fragment in hand lands (`server.go:577`), so a window is 33 fragments and not the 32 of
the comment at 556. `FrameIsFresh` states the bound that holds.
`process_and_save_to_fits` and its incremental twin (`scripts/utility_functions.py`) key their rows by
`event_number` where the writer reads `number`, so they end at the first event, and are not
modelled. The readers' comment gives the mask 13 bits of its halfword; they take
6, which is right. A stored `star_display.json` is not normalised when it is read. The debug frame
disables the generator's Kill button when debug is turned off. `netutils.StartDataForwarding`
forwards one packet and returns, its comment says until it is stopped.
`setup_postgres.sh --start-run-id` resets the sequence if it is run again on an empty table.

## 4. Fairness

- *RunServer*: weak fairness for each run goroutine and each listener, except
  for what comes from outside: commands, packets, room in the builder's channel
  and the timer. `RunEnds` therefore holds for a run of infinite length on silent
  boards with a dead builder: a stop alone ends it.
- *RunSystem*: weak fairness for the server's handling of commands and for
  completing a run (the duration is finite and `RunServer` shows the teardown completes),
  for Qt's delivery of statuses and for the two timers. Not for the operator,
  nor for the restart of a dead server. `ControlsComeBack` assumes that the
  server does not crash for ever.
- *EventPipeline*: fairness for the goroutines and for boards that send. Strong
  for a builder, because Go serves the senders blocked on a channel in order: a
  builder cannot be passed over for ever by another. Nothing makes the run stop.

- *EventPipeline's camera*: weak fairness, as the GUI's event loop runs.
- *PointingWorker*: the window's waits end, calls are delivered, slots and the
  subprocess go on; strong for posted calls and polls in the window's thread, as each pass of Qt's loop handles what
  has been posted and the timers that are due, whatever the operator does. MySQL need not
  answer, a read may fail for ever, and of the signals only SIGKILL is sure to end the process.
- *RunFiles*, *Desk* and *Machines* have safety properties only, and no fairness.

Safety properties use none of it.

## 5. Proofs

Every safety property of the passing runs is proved for all values of the constants. Each module of theorems about a specification has its inductive invariant (`RunServer_proofs` and `RunSystem_proofs` two), which TLC checked
on a finite instance before it was proved. Unless said otherwise the only hypotheses
are the assumptions in the module itself: that bounds are naturals, and of what form the lists, files and
addresses are.

| Module | Invariant | Theorems about properties of the runs |
|---|---|---|
| `RunServer_proofs` | `IInv`, `StopsKept` | `TypeCorrect`, `OneRun`, `NoLateWrite`, `QuietEnd`, `EndNeedsNoOne`, `EndIsNear`, `Refinement` (and `StopsStayPut`, `StateHeld`) |
| `RunSystem_proofs` | `NumbersInv`, `RoundInv` | `DistinctNumbers`, `FreshPreview`; `RowsNamed`, `RowsTimed`, `LockedWhileBusy` (and `EndsRecorded`) |
| `EventPipeline_proofs` | `PipelineInv` | `FramesFresh`, `FullFrames`, `LivePanels`, `PixelsPlaced` |
| `RunFiles_proofs` | `FilesInv` | `NothingLost`, `FilesHoldTheirRun`, `DamageStays`, `CheckedStatesSetUp`, `TestDataHeard`, `RecordsAlike` |
| `Desk_proofs` | `DeskInv` | `MarksAreTrue`, `LockIsUndone`, `StartFollowsChecks`, `RunsAreDescribed`, `GeneratorsAreKnown` |
| `PointingWorker_proofs` | `WorkerInv` | `ThreadsKnown`, `StopSilences`, `QueueIsNewest`, `DrawnAsSet`, `OverlayNames` |
| `StarCatalog_proofs` | (no state) | `BuiltNames`, `UnbuiltNames`, `LostKeyIsNoticed`: the three parts of `OverlayNames` |
| `Machines_proofs` | `MachinesInv` | `CheckedTalk` |

**RunServer.** The parts of `IInv`: `NewestRunOnly` (only the newest run is in flight, and `runActive` says so
exactly), `HoldsOnlyInRun` (what a run may own at each point of its
goroutine), `HandedOutOpen` (a file handed to a listener is open until all
are closed), `ToldInOrder` (what has been sent at each point), `StopsAsked`.
None of the safety properties is inductive alone: that a listener holds an open file,
for instance, needs that it was handed out open, that files are closed only after the
listeners have returned, and that no second run can have the same listener. `StateHeld` is a step
property, and `StopsStayPut` a consequence of the refinement with a proof of its own; no run checks these two by themselves.
`RunEnds` itself is out of reach, but for the scheduling it is proved: `EndNeedsNoOne` says that a run that is to end is
never held up by anything outside it, `EndIsNear` that all it and its listeners do uses up a finite stock of steps. Weak fairness is
what takes one from these two to `RunEnds`. They need `StopsKept`: a stop stays in its channel until it is taken, and
`stopListening` is closed before the sockets. That `EndsUnaided` names the guards of the actions rightly, TLC
checked against `ENABLED`.
`Refinement` is `Spec => ImplementsSession`: the mapping reads the phase from the
newest run's program counter and what was told from the last status
sent; one lemma each for the control loop, the run goroutine and the
listeners says which step of the session a step is, or that it is none.

**RunSystem, numbers.** For every set of faults. `NumbersInv`: start commands that exist, on the
wire or accepted, were made with numbers no higher than `last_used_run_id` of
their session (`MadeEarlier`), start one run at most (`TakenOnce`), and come from
the sequence if the database always answers (`FromSequence`).

**RunSystem, rows and lock.** Under `InTime`: the faults do not include loss, delay and closing the GUI. The database may
fail and the server may crash and be restarted at any time. The hypothesis is needed: with loss, the run `late_end` violates
`RowNamesItsRun`. `RoundInv` says that one run is in hand at a time. What is on the wire to
the GUI is the rest of that run's statuses, in order (`StatusesInOrder`); a start on the wire, a run in
the server or a status on its way each mean a locked GUI with that run's number on show (`OneRound`); and the
rows are about other runs than the one in hand (`RowsInv`). `EndsRecorded` is a step
property beyond those the runs check: if the database answers as well, the row of a run is in the table as soon
as the GUI hears of the end. Its proof needs both invariants, as a row is refused when its number is taken.

**EventPipeline.** `FrameIsFresh` is a bound on pixels at the moment a frame is sent; the invariant has to follow the
age of pixels against the builder's count through every point of its loop (`Counted`), because a flush leaves the
fragment in hand to the next window. `FullFrameHasAllBoards` relates two indexings: the flags that let a frame be sent are
set by position, but start out set by *place in the list* for missing boards. The argument is a count (lemma `ByPlace`): there
are as many flags to wait for as boards that can come, only boards that are present come (`OnlyBoardsSend`), so when all
flags are set all have come. `FullFrames` has the hypothesis `TelescopesOnce`: no list names a telescope twice. The code does not see to it (every
state file in the repository does): of two
entries with one number the look-ups take the first and the flags the entry in hand. With an entry twice, once marked missing
and once not, TLC finds a full frame that lacks a board, so the hypothesis is needed.

**RunFiles.** `DoneFirst`: the set-up goes through its places in order. `SharedFile`: between the step of a telescope and
its last board, `telFile` is that telescope's new, empty file. `Opened`: a listener's file is open and holds what
its own listeners wrote in this run. `AllHeard` and `WellNamed`: the listeners are those of the places gone
through, for lists that are `Distinct`. `Contained`: a file is whole packets or all it holds is spoiled. The lists' look-ups are
`CHOOSE`s of a first match; that there is one is `Least`, which derives the least-number principle from the
library's well-founded order of finite sets, since induction over an operator is out of reach. A free name exists because
files are finitely many (`FreeName`). `CheckedStateSetsUp` follows from what the check saw of the list as it was then (`Alike`:
edits since have only changed marks). The theorems hold for any lists, any number of edits, packets, crashes and faults.

**Formats** (in `EventPipeline_proofs` and `RunFiles_proofs`). `PixelsPlaced`: pixel k of the server's datagram is followed through
the copy into the fragment, the place of the telescope and the camera's slice, with one lemma for each. `RecordsAlike`: a
reader is a move of bit fields. A big-endian read of bytes is the field they span; a shift, a mask and a join of
fields are fields; then the readers of a packet are equal because they name the same field. For the server's number, the same
bytes the other way round, `NumberReversed` does it. Both are about a constant, so
TLC's one evaluation is as complete; the proofs say why it comes out so.

**StarCatalog.** A left join by a key that was made unique first has one partner for a row, or the blank (`OnePartner`).
So three joins in a row keep one row for each star (`RowsAreStars`, and `AsManyRows` by a bijection of stars and rows), and
all that is in the row comes from a record with the star's key (`Designated`, one case for each of the six identifiers). Where one
key could match another's blank, the dropped blanks are what the proof needs. `LabelIs` says of each scheme that a label is missing
only if all its keys are. `LostKeyIsNoticed` has two cases for each table: the good file used the key, and its loss is a
shortfall; or nothing came of the table before, and the new file is the same.

**Desk.** Each slot refreshes some of what depends on what it changed; `DeskInv` says that this is always
enough. `wasChecked` is the Edit box (`LockInv`), so the second lock of a run does no harm; the masks are those of the state
(`RunInv`); flags are bits, or a panel could be yellow for a difference no widget can show.

**PointingWorker.** `DrawnWithDisplay` speaks of the moment when nothing is in flight, which no step shows by itself.
`Settles` carries it. `WillShow`: the settings set last are in the worker, or last among the settings posted to it. `WillDraw`: a redraw
is posted behind them or in hand; or the last redraw posted to the window was computed with them; or, none being posted, what
is drawn and all that a poll in hand has read so far are these settings. A poll that has read older settings is harmless only because
the redraw is posted, and so drawn after the poll: the window's thread is the poll's until it has drawn.
`Stopped` has the silence: signals are connected exactly while the worker is active (`connected = active`), so what a poll still says, or a
stop still queued, meets no slot of the window. Posted calls are kept there as Qt keeps them, and the invariant holds of
any that are left. `StartedOnce` says that one start is under way to the window or done, and that the queue is empty before.

**Machines.** A verdict is about the past; `Passed` keeps what it still says of a file as long as no edit resets it.
`PortsStayFree` and `RemoteHolds` follow the sockets: while the control room's verdict stands, no server there can come to hold
the GUI's ports, so an open GUI in mode "remote" has what it could bind, for any firewall and any number of edits and killed GUIs.

TLC's check of the invariants:

| Invariant | Instance | States |
|---|---|---|
| `IInv`, `StopsKept`, `NumbersInv` | as the runs `server` and `run_numbers` | all |
| `RoundInv` | as `run_control`, with an unreliable database and quick restarts | all |
| `PipelineInv` | as `preview` | 489,787 |
| `FilesInv` | every list within one change of a good one | 485,779 |
| `DeskInv` | as `desk` | 1,673,280 |
| `WorkerInv` (without the types) | as `pointing`, without catalogues | 375,341 |
| `MachinesInv` | as `machines` | 1,119,600 |

**Only model-checked.**

- The liveness properties `RunEnds`, `EndedRunGetsRow`, `ControlsComeBack`, `PipelineStops`, `CameraRefreshed`, `SilenceIsReported` and
  `StopEndsSubprocess`: TLAPS does not do liveness under fairness.
- That `RunSystem` uses the promise of the server that `RunServer` keeps is by construction (both use `RunSession`), not a theorem of the whole.

## 6. Not modelled

- *Generated or parked code*: the widgets (`gui/GUI.py`, `resources_rc.py`, `star_options_ui.py`), the
  former GUI (`gui/holder`), the vendored FADC libraries. They are nearly half of the lines.
- *Floating point*: the sky's coordinates and the camera's, float32 pixels, fractions of a second in
  a double; averages of the time series.
- *The server*: data forwarding; a preview goroutine of one run that meets the next run's start
  (nothing waits for them: it could spoil a frame, never a file); the stale tail of the buffer after a short packet;
  two servers on one directory.
- *The GUI*: two GUIs at once; the hand-written row (`wrtie_db`); the debug override's run number; colours and plots;
  the MySQL ping.
- *The pointing worker*: `multiprocessing.Queue` is a queue of one place without its feeder thread; a redraw that
  raises (`veritas_db.py:220`), which draws nothing; a disconnect that leaves a posted redraw drawn or not is a choice of the
  model, as PyQt's proxies decide it.
- *The tool*: loading its two files; what a GUI does with the statuses of a run the tool started.
- *Scripts*: FITS and ROOT files beyond the mask columns, statistics, plots, the downloads of the catalogue and the
  positions and order of its stars.
- *Deployment*: a bind that fails for another program's socket after the check (a port in use is only a warning,
  `check_deploy.py:282`); the checks of database, SSH, clock, disk and buffers; the database set-up script.
- *FADC crates*: register writes of `set_variance.c`.

## 7. Plan

What is left to prove:

1. What `RunServer` has in `EndNeedsNoOne` and `EndIsNear`, for `PointingWorker`'s stop and for `EventPipeline`'s end.
2. `EventPipeline` as an implementation of a camera that shows, of every telescope, one of its frames in order.
