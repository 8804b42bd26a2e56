---------------------------- MODULE MCRunSystem ----------------------------
(* RunSystem with two runs at the server, under the faults each question   *)
(* is about.                                                               *)
EXTENDS RunSystem

(* Datagrams arrive, within the timers' limits, and a dead server is       *)
(* missed before it is back.                                               *)
InGoodTime == {}

(* The network, the database and the operator at their worst. *)
Everything == {"loss", "delay", "db", "close", "quick"}

(* One wrong thing at a time. *)
Lossy     == {"loss"}
CrashOnly == {"quick"}
=============================================================================
