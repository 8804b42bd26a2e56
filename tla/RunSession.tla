----------------------------- MODULE RunSession -----------------------------
(***************************************************************************)
(* What the DAQ server promises about data runs, without sockets, files or *)
(* goroutines: runs are taken one at a time, each is told "started" once   *)
(* and then one end status, or "aborted" and nothing else; a run ends as   *)
(* "ended_manually" only when a stop was taken for that run; and the next  *)
(* run is accepted only after the last one has reported.                   *)
(*                                                                         *)
(* RunServer implements this specification; RunSystem composes it with the *)
(* GUI and the datagrams between them.                                     *)
(***************************************************************************)
EXTENDS Integers

CONSTANT MaxRuns      \* a number: runs the behaviour may accept (bound)

VARIABLES
  phase,        \* what the server is doing about runs
  run,          \* how many runs it has accepted; the last of them is current
  stopPending,  \* a stop has been taken for the current run
  told          \* told[r]: the last status sent about run r

vars == <<phase, run, stopPending, told>>

Runs    == 1..MaxRuns
Phases  == {"down", "idle", "setup", "logging", "reported"}
Final   == {"aborted", "ended", "ended_manually"}
Told    == {"nothing", "started"} \cup Final

TypeOK ==
  /\ phase \in Phases
  /\ run \in 0..MaxRuns
  /\ stopPending \in BOOLEAN
  /\ told \in [Runs -> Told]

Init ==
  /\ phase = "idle"
  /\ run = 0
  /\ stopPending = FALSE
  /\ told = [r \in Runs |-> "nothing"]

(* A well-formed start with no run in hand. *)
Accept ==
  /\ phase = "idle"
  /\ run < MaxRuns
  /\ run' = run + 1
  /\ phase' = "setup"
  /\ stopPending' = FALSE
  /\ UNCHANGED told

(* A stop is remembered from the moment the run is accepted. *)
TakeStop ==
  /\ phase \in {"setup", "logging", "reported"}
  /\ stopPending' = TRUE
  /\ UNCHANGED <<phase, run, told>>

(* Setup worked: "started". *)
Begin ==
  /\ phase = "setup"
  /\ phase' = "logging"
  /\ told' = [told EXCEPT ![run] = "started"]
  /\ UNCHANGED <<run, stopPending>>

(* Setup failed: "aborted", and never "started". *)
Abort ==
  /\ phase = "setup"
  /\ phase' = "reported"
  /\ told' = [told EXCEPT ![run] = "aborted"]
  /\ UNCHANGED <<run, stopPending>>

(* The timer ran out, or the stop was seen. *)
Finish(how) ==
  /\ phase = "logging"
  /\ how = "ended_manually" => stopPending
  /\ phase' = "reported"
  /\ told' = [told EXCEPT ![run] = how]
  /\ UNCHANGED <<run, stopPending>>

(* Between the end status and this step a new start is still ignored. *)
Release ==
  /\ phase = "reported"
  /\ phase' = "idle"
  /\ UNCHANGED <<run, stopPending, told>>

(* The process exits, with or without a run in hand, and tells nobody. *)
Exit ==
  /\ phase # "down"
  /\ phase' = "down"
  /\ UNCHANGED <<run, stopPending, told>>

Restart ==
  /\ phase = "down"
  /\ phase' = "idle"
  /\ UNCHANGED <<run, stopPending, told>>

Next ==
  \/ Accept
  \/ TakeStop
  \/ Begin
  \/ Abort
  \/ \E how \in {"ended", "ended_manually"} : Finish(how)
  \/ Release
  \/ Exit
  \/ Restart

Spec == Init /\ [][Next]_vars
=============================================================================
