----------------------------- MODULE MCMachines -----------------------------
(* Machines with every host in every place, and the ports of the checklist *)
(* that can be mixed up.                                                   *)
EXTENDS Machines

At(h, p) == [host |-> h, port |-> p]

TwoMachines ==
  [serverControlConnIP |-> At("trailer", 0), guiDataConnIP |-> At("control", 1),
   guiHeartbeatConnIP |-> At("control", 2), guiStatusConnIP |-> At("control", 3),
   serverMode |-> "remote", harvesterCommandsViaServer |-> FALSE,
   harvesterCmd |-> TRUE, usualNumbers |-> TRUE, savePathExists |-> TRUE]

EveryAddress ==
  {At(h, p) : h \in {"trailer", "control", "loopback", "any", "unset"}, p \in 0..3}

(* The firewalls let all through, or drop what the round trip needs. *)
Firewalls == {{}, {0}, {2}}
=============================================================================
