---------------------------- MODULE MCRunServer ----------------------------
(* RunServer on small arrays: two harvesters of one telescope, a state     *)
(* that names one address twice, and one whose last entry fails its checks.*)
EXTENDS RunServer

Tel(ok)      == [kind |-> "telescope", valid |-> ok]
Harv(ok, ip) == [kind |-> "harvester", valid |-> ok, ip |-> ip]

MCIPs == {"a", "b"}

SameIP    == <<Tel(TRUE), Harv(TRUE, "a"), Harv(TRUE, "a")>>
BadTail   == <<Tel(TRUE), Harv(TRUE, "b"), Harv(FALSE, "a")>>
Shared    == <<Tel(TRUE), Harv(TRUE, "a"), Harv(TRUE, "b")>>

MCStates == {Shared, SameIP, BadTail}
=============================================================================
