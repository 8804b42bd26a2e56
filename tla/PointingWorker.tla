--------------------------- MODULE PointingWorker ---------------------------
(***************************************************************************)
(* The star overlay's pointing worker (gui/ui_star_overlay.py,             *)
(* veritas_db.py, db_worker_process.py, star_options.py): the window's     *)
(* thread, the worker's thread, and the subprocess that reads the pointing *)
(* from MySQL, with a queue of one place between it and the window.        *)
(*                                                                         *)
(* The worker is moved to its thread after its constructor, where its timer*)
(* is made and its slots are connected: the timer's polls, start_querying  *)
(* and stop_querying run in the window's thread.  Only the two slots that  *)
(* are invoked by name run in the worker's, and the start and the stop pass*)
(* through it on their way back to the window.  So a stop is a call posted *)
(* to a thread that is told to quit in the same breath, and a poll reads   *)
(* settings that the other thread may replace under it.                    *)
(*                                                                         *)
(* A pointing is the number of its place in time, up to the queue; what is *)
(* drawn is known by the settings it was computed with; which stars and    *)
(* names these are is in StarCatalog.                                      *)
(***************************************************************************)
EXTENDS Integers, Sequences, FiniteSetsExt, StarCatalog

CONSTANTS
  MaxStarts,           \* starts of the worker
  MaxPointings,        \* pointings the telescopes take
  MaximumQueueChecks,  \* empty polls before "Timeout": 5 in the code
  MaxCalls,            \* bound on calls queued for the worker, before a stop
  MaxPending,          \* bound on calls queued for the window, before a redraw
  Thresholds,          \* thresholds the operator may set
  Default,             \* thresholds of DEFAULT_STAR_DISPLAY
  Stored,              \* what star_display.json may hold; <<>> is no such file
  Skies,               \* what the catalogue may have been built from
  LegacyLines          \* lines of the catalogue of older checkouts

ASSUME PointingAssumption ==
  /\ {MaxStarts, MaxPointings, MaximumQueueChecks, MaxCalls, MaxPending} \subseteq Nat \ {0}
  /\ {Default} \cup Thresholds \subseteq [magMin : Int, magMax : Int, labelMax : Int]
  /\ \A stored \in Stored : \A key \in DOMAIN stored : stored[key] \in Int
  /\ (\A sky \in Skies : IsSky(sky)) /\ LegacyLines \subseteq Line

VARIABLES
  gui,       \* what the window's thread is doing
  active,    \* db_worker_active
  connected, \* the worker's signals are connected to the window's slots
  starts,    \* workers started
  label,     \* veritas_sql_status_line
  display,   \* star_display
  vpm,       \* last_vpm is there
  drawn,     \* the settings this worker's stars on the panels were chosen by
  querying,  \* the worker's process is not None, and vpm_timer runs
  checks,    \* queue_check_counter
  seen,      \* settings the poll in hand may have read so far
  events,    \* calls queued for the window
  calls,     \* calls queued for the worker's thread
  loop,      \* that thread's event loop
  slot,      \* the slot in hand there
  shown,     \* the worker's star_display
  proc,      \* where the subprocess is
  signal,    \* the signal it was sent, after a command to exit
  row,       \* the pointing it has in hand
  queue,     \* the queue of one place
  strays,    \* subprocesses of earlier workers that nothing stopped
  blind      \* history: star_display last changed with no pointing on hand

link    == <<gui, active, connected, starts>>
shows   == <<label, display, vpm, drawn, blind>>
polling == <<querying, checks, seen>>
thread  == <<loop, slot, shown>>
process == <<proc, signal, row>>
vars == <<link, shows, polling, events, calls, thread, process, queue, strays>>

Alive == proc \notin {"none", "dead"}

(* load_star_display_settings: as stored, in whatever order.  The file that*)
(* applyStarDisplay saves is only read when the window opens.              *)
Loaded(stored) ==
  [key \in DOMAIN Default |-> IF key \in DOMAIN stored THEN stored[key] ELSE Default[key]]

Init ==
  /\ gui = "ready" /\ active = FALSE /\ connected = FALSE /\ starts = 0
  /\ label = "blank" /\ display \in {Loaded(stored) : stored \in Stored}
  /\ vpm = FALSE /\ drawn = {} /\ blind = FALSE
  /\ querying = FALSE /\ checks = 0 /\ seen = {} /\ events = <<>> /\ calls = <<>>
  /\ loop = "none" /\ slot = "idle" /\ shown = display
  /\ proc = "none" /\ signal = "none" /\ row = 0 /\ queue = <<>> /\ strays = 0

Call(name) == [name |-> name]

(* Calls cross to the worker's thread; none reaches one that has ended. *)
Post(cs) == calls' = IF loop = "ended" THEN calls ELSE calls \o cs

(* The window is closed, and the application's loop is asked to quit. *)
Closed == \E k \in 1..Len(events) : events[k].name = "quit"

-----------------------------------------------------------------------------
(* The window's thread: the operator *)

(* start_db_thread: a new worker, thread and queues.  The worker before it *)
(* is collected: calls queued for its slots find nobody.                   *)
StartDb ==
  /\ gui = "ready" /\ ~Closed /\ ~active /\ starts < MaxStarts
  /\ active' = TRUE /\ connected' = TRUE /\ starts' = starts + 1
  /\ strays' = strays + (IF Alive /\ signal = "none" THEN 1 ELSE 0)
  /\ events' = [k \in 1..Len(events) |-> Call("old")]
  /\ calls' = <<Call("start")>>
  /\ loop' = "running" /\ slot' = "idle" /\ shown' = display
  /\ querying' = FALSE /\ checks' = 0 /\ seen' = {}
  /\ proc' = "none" /\ signal' = "none" /\ row' = 0 /\ queue' = <<>>
  /\ drawn' = {}
  /\ UNCHANGED <<gui, label, display, vpm, blind>>

Quit == loop' = IF loop = "running" THEN "quitting" ELSE loop

(* stop_db_thread, up to its wait. *)
StopDb ==
  /\ gui = "ready" /\ ~Closed /\ active /\ Len(calls) <= MaxCalls
  /\ Post(<<Call("stop")>>) /\ Quit
  /\ gui' = "stopping"
  /\ UNCHANGED <<active, connected, starts, shows, polling, events, slot, shown,
                 process, queue, strays>>

(* Mutant: the signals stay connected. *)
WaitReturns_Connected ==
  /\ gui = "stopping" /\ loop = "ended"
  /\ gui' = "ready" /\ active' = FALSE /\ label' = "Stopped"
  /\ UNCHANGED <<connected, starts, display, vpm, drawn, blind, polling, events,
                 calls, thread, process, queue, strays>>

(* stop_db_thread, from a wait that found the thread ended.  What the      *)
(* thread has posted to the window stays there, the stop among it.         *)
WaitReturns ==
  /\ gui = "stopping" /\ loop = "ended"
  /\ gui' = "ready" /\ active' = FALSE /\ connected' = FALSE /\ label' = "Stopped"
  /\ UNCHANGED <<starts, display, vpm, drawn, blind, polling, events,
                 calls, thread, process, queue, strays>>

(* Mutant: stop_db_thread falls through, as stopWorker does. *)
WaitTimesOut_FallsThrough ==
  /\ gui = "stopping" /\ loop # "ended" /\ slot # "idle"
  /\ gui' = "ready" /\ active' = FALSE /\ connected' = FALSE /\ label' = "Stopped"
  /\ UNCHANGED <<starts, display, vpm, drawn, blind, polling, events,
                 calls, thread, process, queue, strays>>

(* The wait takes DB_THREAD_WAIT_MS: only a slot in hand lasts as long. *)
WaitTimesOut ==
  /\ gui = "stopping" /\ loop # "ended" /\ slot # "idle"
  /\ gui' = "ready" /\ label' = "StopFailed"
  /\ UNCHANGED <<active, connected, starts, display, vpm, drawn, blind, polling,
                 events, calls, thread, process, queue, strays>>

(* StarOptionsDialog._commit: the ends in order, the label between them. *)
Normalised(c) ==
  LET lo == Min({c.magMin, c.magMax})
      hi == Max({c.magMin, c.magMax})
  IN  [magMin |-> lo, magMax |-> hi, labelMax |-> Min({Max({c.labelMax, lo}), hi})]

(* Mutant: redraws before the settings are there. *)
Redraw_First(settings) ==
  (IF vpm THEN <<Call("recompute")>> ELSE <<>>)
    \o <<[name |-> "apply", with |-> settings]>>

(* What applyStarDisplay asks of the worker. *)
Redraw(settings) ==
  <<[name |-> "apply", with |-> settings]>>
    \o (IF vpm THEN <<Call("recompute")>> ELSE <<>>)

(* applyStarDisplay, on a new threshold or a reset.  What is posted to a   *)
(* worker whose thread has ended is never called.  The options window opens*)
(* while a worker is there (openStarOptions) and may stay.                 *)
ApplyStarDisplay ==
  /\ gui = "ready" /\ ~Closed /\ starts > 0
  /\ \E c \in Thresholds \cup {Default} :
       /\ Normalised(c) # display
       /\ display' = Normalised(c)
       /\ Len(calls) + 2 <= MaxCalls
       /\ IF active THEN Post(Redraw(display')) ELSE UNCHANGED calls
  /\ blind' = ~vpm
  /\ UNCHANGED <<link, label, vpm, drawn, polling, events, thread, process, queue, strays>>

(* closeEvent, with stopWorker up to its wait.  Qt posts the quit of the   *)
(* application's loop when the last window is closed.                      *)
CloseWindow ==
  /\ gui = "ready" /\ ~Closed
  /\ IF active
     THEN Post(<<Call("stop")>>) /\ Quit /\ gui' = "closing" /\ UNCHANGED events
     ELSE events' = Append(events, Call("quit")) /\ UNCHANGED <<calls, loop, gui>>
  /\ UNCHANGED <<active, connected, starts, shows, polling, slot, shown, process, queue,
                 strays>>

(* stopWorker's wait, over either way. *)
CloseWaitEnds ==
  /\ gui = "closing" /\ (loop = "ended" \/ slot # "idle")
  /\ gui' = "ready" /\ events' = Append(events, Call("quit"))
  /\ UNCHANGED <<active, connected, starts, shows, polling, calls, thread, process, queue,
                 strays>>

(* Python's exit joins the subprocesses, which are not daemons. *)
Exit ==
  /\ gui = "exiting" /\ ~Alive /\ strays = 0
  /\ gui' = "gone"
  /\ UNCHANGED <<active, connected, starts, shows, polling, events, calls, thread,
                 process, queue, strays>>

WindowWaits == WaitReturns \/ WaitTimesOut \/ CloseWaitEnds \/ Exit
Operator == StartDb \/ StopDb \/ ApplyStarDisplay \/ CloseWindow

-----------------------------------------------------------------------------
(* The window's thread: calls queued for it *)

Handling(name) ==
  gui = "ready" /\ events # <<>> /\ Head(events).name = name /\ events' = Tail(events)

(* start_querying; process is None, as a worker is started once. *)
StartQuerying ==
  /\ Handling("start") /\ ~querying
  /\ querying' = TRUE /\ proc' = "query"
  /\ UNCHANGED <<link, shows, checks, seen, calls, thread, signal, row, queue, strays>>

(* stop_querying, up to its first join. *)
StopQuerying ==
  /\ Handling("stop")
  /\ IF querying THEN gui' = "join" /\ signal' = "TERM" ELSE UNCHANGED <<gui, signal>>
  /\ UNCHANGED <<active, connected, starts, shows, polling, calls, thread, proc, row,
                 queue, strays>>

(* draw_star_field, for a redraw.  Once the signal is disconnected it may  *)
(* be drawn all the same: Qt keeps what is posted, though PyQt may pass    *)
(* over a slot that was disconnected.                                      *)
DrawRedraw ==
  /\ Handling("field")
  /\ drawn' = Head(events).with \/ (~connected /\ drawn' = drawn)
  /\ UNCHANGED <<link, label, display, vpm, blind, polling, calls, thread, process,
                 queue, strays>>

(* A call that an earlier worker left: a start or a stop, for nobody, or a *)
(* redraw, which puts stars of that worker on the panels.                  *)
HandleOld ==
  /\ Handling("old")
  /\ drawn' \in {drawn, {}}
  /\ UNCHANGED <<link, label, display, vpm, blind, polling, calls, thread, process,
                 queue, strays>>

(* The application's loop ends, and handles nothing more. *)
HandleQuit ==
  /\ Handling("quit")
  /\ gui' = "exiting"
  /\ UNCHANGED <<active, connected, starts, shows, polling, calls, thread, process,
                 queue, strays>>

(* Mutant: no SIGKILL. *)
JoinTimesOut_NoKill ==
  /\ gui = "join" /\ Alive
  /\ gui' = "killed"
  /\ UNCHANGED <<active, connected, starts, shows, polling, events, calls, thread,
                 process, queue, strays>>

(* Three seconds are over. *)
JoinTimesOut ==
  /\ gui = "join" /\ Alive
  /\ gui' = "killed" /\ signal' = "KILL"
  /\ UNCHANGED <<active, connected, starts, shows, polling, events, calls, thread,
                 proc, row, queue, strays>>

(* A join returns, the second one also after two seconds; the timer stops. *)
Joined ==
  /\ (gui = "join" /\ ~Alive) \/ gui = "killed"
  /\ gui' = "ready" /\ querying' = FALSE
  /\ UNCHANGED <<active, connected, starts, shows, checks, seen, events, calls, thread,
                 process, queue, strays>>

HandleCall == StartQuerying \/ StopQuerying \/ DrawRedraw \/ HandleOld \/ HandleQuit
Killing == JoinTimesOut \/ Joined

-----------------------------------------------------------------------------
(* The window's thread: the worker's timer.  Its signals call the window's *)
(* slots at once, while they are connected.                                *)

Polls == gui = "ready" /\ querying

(* Mutant: the counter starts again at every poll. *)
PollEmpty_Resets ==
  /\ Polls /\ queue = <<>>
  /\ checks' = 1
  /\ label' = IF connected /\ checks' >= MaximumQueueChecks THEN "Timeout" ELSE label
  /\ UNCHANGED <<link, display, vpm, drawn, blind, querying, seen, events, calls, thread,
                 process, queue, strays>>

(* get_stars_in_fov finds the queue empty, and veritas_sql_status tells.   *)
(* The counter only grows; beyond the maximum its value no longer matters. *)
PollEmpty ==
  /\ Polls /\ queue = <<>>
  /\ checks' = Min({checks + 1, MaximumQueueChecks})
  /\ label' = IF connected /\ checks' >= MaximumQueueChecks THEN "Timeout" ELSE label
  /\ UNCHANGED <<link, display, vpm, drawn, blind, querying, seen, events, calls, thread,
                 process, queue, strays>>

(* get_stars_in_fov finds a pointing, and is about to take it. *)
PollFinds ==
  /\ Polls /\ queue # <<>>
  /\ gui' = "take"
  /\ UNCHANGED <<active, connected, starts, shows, polling, events, calls, thread,
                 process, queue, strays>>

(* It has one, handle_VPM_data keeps it, and calculate_star_offsets begins.*)
TakePointing ==
  /\ gui = "take" /\ queue # <<>>
  /\ queue' = <<>> /\ gui' = "compute" /\ seen' = {shown}
  /\ vpm' = (vpm \/ connected)
  /\ UNCHANGED <<active, connected, starts, label, display, drawn, blind, querying, checks,
                 events, calls, thread, process, strays>>

(* calculate_star_offsets has read the settings, telescope by telescope,   *)
(* and key by key; draw_star_field and veritas_sql_status follow.          *)
DrawPointing ==
  /\ gui = "compute"
  /\ gui' = "ready" /\ seen' = {} /\ checks' = 0
  /\ drawn' = IF connected THEN seen ELSE drawn
  /\ label' = IF connected THEN "Running" ELSE label
  /\ UNCHANGED <<active, connected, starts, display, vpm, blind, querying, events, calls,
                 thread, process, queue, strays>>

Poll == PollEmpty \/ PollFinds
Polling == TakePointing \/ DrawPointing

-----------------------------------------------------------------------------
(* The worker's thread *)

Delivering(name) ==
  /\ loop \in {"running", "quitting"} /\ slot = "idle"
  /\ calls # <<>> /\ Head(calls).name = name /\ calls' = Tail(calls)

(* startWorkerSignal and stopWorkerSignal arrive at the worker's own       *)
(* signals, which call its slots in the window's thread.                   *)
Relay ==
  /\ \E name \in {"start", "stop"} :
       Delivering(name) /\ events' = Append(events, Call(name))
  /\ UNCHANGED <<link, shows, polling, thread, process, queue, strays>>

(* apply_star_display.  A poll in hand reads on from the new settings. *)
ApplySettings ==
  /\ Delivering("apply")
  /\ shown' = Head(calls).with
  /\ seen' = IF gui = "compute" THEN seen \cup {shown'} ELSE seen
  /\ UNCHANGED <<link, shows, querying, checks, events, loop, slot, process, queue, strays>>

(* recompute_star_field, up to its signal, and from there. *)
Recompute ==
  /\ Delivering("recompute") /\ Len(events) < MaxPending
  /\ slot' = "recompute"
  /\ UNCHANGED <<link, shows, polling, events, loop, shown, process, queue, strays>>

Recomputed ==
  /\ slot = "recompute"
  /\ slot' = "idle" /\ events' = Append(events, [name |-> "field", with |-> {shown}])
  /\ UNCHANGED <<link, shows, polling, calls, loop, shown, process, queue, strays>>

(* quit() ends the loop between two slots.  Calls still queued, as those   *)
(* posted while a redraw was computing, are lost.                          *)
ThreadEnds ==
  /\ loop = "quitting" /\ slot = "idle"
  /\ loop' = "ended" /\ calls' = <<>>
  /\ UNCHANGED <<link, shows, polling, events, slot, shown, process, queue, strays>>

DeliverCall == Relay \/ ApplySettings \/ Recompute

-----------------------------------------------------------------------------
(* The subprocess: query_last_pointing *)

(* What a read returns: the telescopes may have moved on since the last. *)
Reading == {row, row + 1} \cap 1..MaxPointings

(* Mutant: a full queue is left as it is. *)
Query_Skips ==
  /\ proc = "query"
  /\ row' \in Reading
  /\ proc' = IF queue = <<>> THEN "put" ELSE "command"
  /\ UNCHANGED <<link, shows, polling, events, calls, thread, signal, queue, strays>>

(* The four SELECTs, and queue.full() after them; a read that fails is     *)
(* tried again at once.                                                    *)
Query ==
  /\ proc = "query"
  /\ row' \in Reading
  /\ proc' = IF queue = <<>> THEN "put" ELSE "get"
  /\ UNCHANGED <<link, shows, polling, events, calls, thread, signal, queue, strays>>

GetOld ==
  /\ proc = "get" /\ queue # <<>>
  /\ queue' = <<>> /\ proc' = "put"
  /\ UNCHANGED <<link, shows, polling, events, calls, thread, signal, row, strays>>

Put ==
  /\ proc = "put" /\ queue = <<>>
  /\ queue' = <<row>> /\ proc' = "command"
  /\ UNCHANGED <<link, shows, polling, events, calls, thread, signal, row, strays>>

(* command_queue.get: a command ends the process, 2.5 s without one start  *)
(* the next round.                                                         *)
AwaitCommand ==
  /\ proc = "command"
  /\ proc' = IF signal # "none" THEN "dead" ELSE "query"
  /\ UNCHANGED <<link, shows, polling, events, calls, thread, signal, row, queue, strays>>

Die ==
  /\ Alive /\ signal # "none"
  /\ proc' = "dead"
  /\ UNCHANGED <<link, shows, polling, events, calls, thread, signal, row, queue, strays>>

Subprocess == GetOld \/ Put \/ AwaitCommand

-----------------------------------------------------------------------------

Next ==
  \/ Operator \/ WindowWaits \/ HandleCall \/ Killing \/ Poll \/ Polling
  \/ DeliverCall \/ Recomputed \/ ThreadEnds
  \/ Query \/ Subprocess \/ Die

(* The threads and the subprocess run, a wait ends, and each pass of the   *)
(* window's loop handles the calls posted to it and the timers that are    *)
(* due.  The operator need not do anything, MySQL need not answer, and only*)
(* SIGKILL is sure to end the subprocess.                                  *)
Fairness ==
  /\ WF_vars(WindowWaits) /\ SF_vars(HandleCall) /\ WF_vars(Killing)
  /\ SF_vars(Poll) /\ WF_vars(Polling)
  /\ WF_vars(DeliverCall) /\ WF_vars(Recomputed) /\ WF_vars(ThreadEnds)
  /\ WF_vars(Subprocess) /\ WF_vars(Die /\ signal = "KILL")

Spec == Init /\ [][Next]_vars /\ Fairness

-----------------------------------------------------------------------------
(* Properties *)

Display ==
  {Loaded(stored) : stored \in Stored} \cup {Normalised(c) : c \in Thresholds \cup {Default}}

(* A thread that runs is one the window knows of, so that no second worker *)
(* is started beside it and no running thread is destroyed: also after a   *)
(* wait that timed out, a second stop, or a thread that ended meanwhile    *)
(* (ui_star_overlay.py:119-143).                                           *)
NoLooseThread == loop \in {"running", "quitting"} => active

(* The status line stays at Stopped, though the stop itself only comes back*)
(* to the window afterwards, or never, and until then the worker's timer   *)
(* polls on, and finds pointings (ui_star_overlay.py:133-146).             *)
StoppedStaysStopped == ~active /\ starts > 0 => label = "Stopped"

(* Between two rounds of the subprocess the queue holds the newest pointing*)
(* or nothing, whoever took what in between (db_worker_process.py:64-68).  *)
QueueHoldsNewest == proc \in {"command", "query"} /\ queue # <<>> => queue = <<row>>

Quiet ==
  /\ active /\ loop = "running" /\ gui = "ready"
  /\ calls = <<>> /\ events = <<>> /\ slot = "idle"

(* Once threshold changes, polls and redraws in flight have settled, the   *)
(* stars on the panels were all chosen by the settings of the options      *)
(* window, though a poll in the window's thread may have read some before  *)
(* and some after the worker's thread replaced them, and may be drawn      *)
(* before or after the redraw; unless these were last changed when no      *)
(* pointing was at hand to redraw from                                     *)
(* (ui_star_overlay.py:213-232, veritas_db.py:186-217).                    *)
DrawnWithDisplay ==
  Quiet /\ drawn # {} /\ ~blind => drawn = {display}

(* The settings a poll may have in hand, some of one and some of another. *)
Mixed ==
  [magMin : {d.magMin : d \in Display}, magMax : {d.magMax : d \in Display},
   labelMax : {d.labelMax : d \in Display}]

OverlayIsSound ==
  \A sky \in Skies :
    /\ KeptWhenKeyLost(sky)
    /\ \A d \in Mixed : NamesItsStars(sky, d) /\ UnbuiltIsNamed(sky, LegacyLines, d)

(* Whatever settings the stars on the panels were chosen by, and be they   *)
(* mixed from two, with a faint end before the bright one: every text      *)
(* names the star it stands at, though four tables were joined for it by   *)
(* keys that some stars lack and others share; each star is there once;    *)
(* and a build that lost a key has not replaced the file                   *)
(* (build_star_catalog.py:123-156, 290-387, star_field.py:92-165).         *)
PanelsNameTheirStars == drawn # {} => drawn \subseteq Display /\ OverlayIsSound

(* The subprocess waits for a pointing that was taken under its hands.     *)
Wedged == proc = "get" /\ queue = <<>>

Undisturbed ==
  active /\ loop = "running" /\ ~Closed /\ gui \in {"ready", "take", "compute"}

(* A subprocess that is wedged is reported: the status line says Timeout,  *)
(* unless the worker is stopped first (veritas_db.py:109-115).             *)
SilenceIsReported == (Wedged /\ Undisturbed) ~> (label = "Timeout" \/ ~Undisturbed)

(* A stop that comes back to the window ends the subprocess, wedged or deaf*)
(* to SIGTERM as it may be (veritas_db.py:77-99).                          *)
StopEndsSubprocess == gui = "join" ~> ~Alive

(* "Bounded so a wedged worker can never freeze application shutdown."     *)
(* (ui_star_overlay.py:239): with a redraw in hand when the window closes, *)
(* the application still ends.                                             *)
ShutdownNeverFrozen == (gui = "closing" /\ slot = "recompute") ~> gui = "gone"

=============================================================================
