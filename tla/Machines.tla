------------------------------ MODULE Machines ------------------------------
(***************************************************************************)
(* The two machines of a deployment: the trailer, where systemd keeps the  *)
(* server up, and the control room, where the GUI runs.  Each has its copy *)
(* of server.json, which its programs read when they start; the preflight  *)
(* check (check_deploy.py) is run on each, and what it finds depends on    *)
(* what is running then.  Which datagrams arrive follows from the          *)
(* addresses that were loaded.  A GUI in mode "local" has a server of its  *)
(* own; one that is killed leaves that server behind.                      *)
(*                                                                         *)
(* An address is [host, port].  The hosts are the two machines' addresses, *)
(* "loopback", "any" (0.0.0.0) and "unset" (a CHANGE_ME or no address).    *)
(* The protocol itself is in RunSystem, the list of boards and its check   *)
(* in RunFiles.                                                            *)
(***************************************************************************)
EXTENDS Naturals, FiniteSets

CONSTANTS
  Good,        \* the server.json of the checklist
  Addresses,   \* what may be written into it as an address
  Blocks,      \* sets of ports that the firewalls may drop
  MaxMishaps,  \* bound on wrong edits and killed GUIs
  Down, Closed \* no server, no GUI

Machine == {"trailer", "control"}
GuiKeys == {"guiDataConnIP", "guiHeartbeatConnIP", "guiStatusConnIP"}
Keys    == {"serverControlConnIP"} \cup GuiKeys

Config == [serverControlConnIP : Addresses, guiDataConnIP : Addresses,
           guiHeartbeatConnIP : Addresses, guiStatusConnIP : Addresses,
           serverMode : {"local", "remote"},
           harvesterCommandsViaServer : BOOLEAN,
           harvesterCmd : BOOLEAN,      \* commands.harvesterCmd is there
           usualNumbers : BOOLEAN,      \* the other commands are 1, 3, 7, 8
           savePathExists : BOOLEAN]    \* dataSavePath is a directory of the trailer

ASSUME MachinesAssumption ==
  /\ Good \in Config /\ MaxMishaps \in Nat /\ Down \notin Config
  /\ Closed \notin [loaded : Config, bound : SUBSET GuiKeys]

VARIABLES
  file,      \* server.json of each machine
  service,   \* what the trailer's server loaded, or Down
  own,       \* what the GUI's own server loaded, or Down
  handle,    \* server_process is not None
  orphans,   \* what servers left behind in the control room loaded
  gui,       \* what the GUI loaded and the sockets it could bind, or Closed
  blocked,   \* ports that datagrams between the machines do not get through to
  verdict,   \* last check of the file as it is now: none, fail, warn or pass
  mishaps    \* wrong edits and kills so far

vars == <<file, service, own, handle, orphans, gui, blocked, verdict, mishaps>>

-----------------------------------------------------------------------------
(* Addresses and datagrams *)

(* The hosts machine m can bind: bind_status does not say "not local". *)
LocalTo(m) == {m, "loopback", "any"}

Clash(a, b) == a.port = b.port /\ (a.host = b.host \/ "any" \in {a.host, b.host})

(* Servers that run on machine m; the sockets that are bound there. *)
ServersOn(m) == IF m = "trailer" THEN {service} \ {Down} ELSE ({own} \ {Down}) \cup orphans
SocketsOn(m) ==
  {c.serverControlConnIP : c \in ServersOn(m)} \cup
  IF m = "trailer" \/ gui = Closed THEN {} ELSE {gui.loaded[k] : k \in gui.bound}

Bindable(m, a) == a.host \in LocalTo(m)
InUse(m, a)    == \E b \in SocketsOn(m) : Clash(a, b)

(* A datagram sent on machine m to address a lands in the socket bound to  *)
(* b on machine n.  0.0.0.0 as a destination is this machine; a socket     *)
(* bound to 127.0.0.1 cannot send to another.                              *)
Lands(m, from, a, n, b) ==
  /\ a.port = b.port
  /\ IF a.host \in {"loopback", "any"}
     THEN m = n /\ b.host \in {"loopback", "any"}
     ELSE a.host = n /\ b.host \in {a.host, "any"}
  /\ m # n => from.host # "loopback" /\ a.port \notin blocked

(* The server that loaded s on machine n hears what is sent, by the        *)
(* addresses of c, from the heartbeat socket of the control room.          *)
Hears(n, s, c) ==
  Lands("control", c.guiHeartbeatConnIP, c.serverControlConnIP, n, s.serverControlConnIP)

(* What that server sends to key k arrives where c says the GUI listens. *)
Answers(n, s, k, c) ==
  Lands(n, [host |-> n, port |-> 0], s[k], "control", c[k])

-----------------------------------------------------------------------------
(* The preflight check *)

(* check_config, which both roles begin with. *)
ConfigFails(c) ==
  \/ \E k \in Keys : c[k].host \in {"unset", "any"}
  \/ c.harvesterCommandsViaServer /\ ~c.harvesterCmd

(* All of the file but the mode, as the digest does. *)
Fingerprint_ServerKeys(c) == [k \in DOMAIN c \ ({"serverMode"} \cup GuiKeys) |-> c[k]]
Fingerprint(c) == [k \in DOMAIN c \ {"serverMode"} |-> c[k]]

Worst(fails, warns) == CASE fails -> "fail" [] ~fails /\ warns -> "warn" [] OTHER -> "pass"

(* "In use" is expected on the trailer once the server runs, and no        *)
(* warning here.                                                           *)
TrailerFinds(c) ==
  Worst(ConfigFails(c) \/ ~Bindable("trailer", c.serverControlConnIP) \/ ~c.savePathExists,
        \/ c.serverControlConnIP.host = "loopback"
        \/ \E k \in GuiKeys : Bindable("trailer", c[k]))

(* The check binds the heartbeat address itself, sends the number that the *)
(* file has for a heartbeat, and waits for the answer there.               *)
RoundTrip(c) ==
  \E n \in Machine : \E s \in ServersOn(n) :
    /\ s.usualNumbers = c.usualNumbers
    /\ Hears(n, s, c) /\ Answers(n, s, "guiHeartbeatConnIP", c)

GuiPortsFree(c) == \A k \in GuiKeys : ~(Bindable("control", c[k]) /\ InUse("control", c[k]))

ControlFinds(c) ==
  Worst(\/ ConfigFails(c)
        \/ \E k \in GuiKeys : ~Bindable("control", c[k])
        \/ GuiPortsFree(c) /\ ~RoundTrip(c),
        \/ c.serverMode # "remote"
        \/ Bindable("control", c.serverControlConnIP)
        \/ ~GuiPortsFree(c))

Check ==
  /\ \/ verdict' = [verdict EXCEPT !["trailer"] = TrailerFinds(file["trailer"])]
     \/ verdict' = [verdict EXCEPT !["control"] = ControlFinds(file["control"])]
  /\ UNCHANGED <<file, service, own, handle, orphans, gui, blocked, mishaps>>

-----------------------------------------------------------------------------
(* The files *)

(* One host, port or other entry is changed at a time. *)
Edits(c) ==
  (UNION {{[c EXCEPT ![k] = a] :
             a \in {b \in Addresses : (b.host = c[k].host) # (b.port = c[k].port)}} :
            k \in Keys}) \cup
  {[c EXCEPT !.serverMode = IF @ = "local" THEN "remote" ELSE "local"]} \cup
  {[c EXCEPT ![k] = ~@] :
     k \in {"harvesterCommandsViaServer", "harvesterCmd", "usualNumbers", "savePathExists"}}

Write(m, c) ==
  /\ c # file[m]
  /\ file' = [file EXCEPT ![m] = c]
  /\ verdict' = [verdict EXCEPT ![m] = "none"]
  /\ UNCHANGED <<service, own, handle, orphans, gui, blocked>>

Edit ==
  /\ mishaps < MaxMishaps
  /\ mishaps' = mishaps + 1
  /\ \E m \in Machine : \E c \in Edits(file[m]) : Write(m, c)

CopyFile ==
  /\ \E m, n \in Machine : Write(m, file[n])
  /\ UNCHANGED mishaps

-----------------------------------------------------------------------------
(* The trailer's server *)

(* main: every address must resolve, and the control address be bound; the *)
(* harvesters' address may be bad, and only disables the relay.            *)
CanServe(m, c) ==
  /\ \A k \in Keys : c[k].host # "unset"
  /\ Bindable(m, c.serverControlConnIP)
  /\ ~InUse(m, c.serverControlConnIP)

ServiceStarts ==
  /\ service = Down
  /\ CanServe("trailer", file["trailer"])
  /\ service' = file["trailer"]
  /\ UNCHANGED <<file, own, handle, orphans, gui, blocked, verdict, mishaps>>

(* A crash, or systemctl stop. *)
ServiceStops ==
  /\ service # Down
  /\ service' = Down
  /\ UNCHANGED <<file, own, handle, orphans, gui, blocked, verdict, mishaps>>

-----------------------------------------------------------------------------
(* The GUI *)

(* establish_connections: data, heartbeat and status in turn; a bind that  *)
(* fails leaves that socket dead.                                          *)
Binds(c) ==
  LET Free(k, held) ==
        /\ Bindable("control", c[k]) /\ ~InUse("control", c[k])
        /\ \A h \in held : ~Clash(c[k], c[h])
      Add(k, held) == IF Free(k, held) THEN held \cup {k} ELSE held
  IN  Add("guiStatusConnIP", Add("guiHeartbeatConnIP", Add("guiDataConnIP", {})))

OpenGui ==
  /\ gui = Closed
  /\ gui' = [loaded |-> file["control"], bound |-> Binds(file["control"])]
  /\ handle' = FALSE
  /\ UNCHANGED <<file, service, own, orphans, blocked, verdict, mishaps>>

(* start_server in mode "local".  A child that died is forgotten first;    *)
(* one that cannot bind its control address dies at once.                  *)
StartServer ==
  /\ gui # Closed
  /\ gui.loaded.serverMode = "local"
  /\ own = Down
  /\ handle' = TRUE
  /\ own' = IF CanServe("control", file["control"]) THEN file["control"] ELSE Down
  /\ UNCHANGED <<file, service, orphans, gui, blocked, verdict, mishaps>>

OwnDies ==
  /\ own # Down
  /\ own' = Down
  /\ UNCHANGED <<file, service, handle, orphans, gui, blocked, verdict, mishaps>>

(* stop_server in mode "local": the exit command goes to whoever hears it  *)
(* at the control address; the child ends in any case, killed if need be.  *)
Told(n, s) == Hears(n, s, gui.loaded) /\ s.usualNumbers = gui.loaded.usualNumbers
StopOwn ==
  /\ own' = Down
  /\ handle' = FALSE
  /\ orphans' = {s \in orphans : ~Told("control", s)}
  /\ service' = IF service # Down /\ Told("trailer", service) THEN Down ELSE service

(* In mode "remote" it only disconnects. *)
StopServer ==
  IF gui.loaded.serverMode = "local" /\ handle
  THEN StopOwn
  ELSE UNCHANGED <<own, handle, orphans, service>>

PressStop ==
  /\ gui # Closed
  /\ StopServer
  /\ UNCHANGED <<file, gui, blocked, verdict, mishaps>>

CloseGui ==
  /\ gui # Closed
  /\ StopServer
  /\ gui' = Closed
  /\ UNCHANGED <<file, blocked, verdict, mishaps>>

(* A GUI that crashes or is killed does not run closeEvent. *)
KillGui ==
  /\ gui # Closed
  /\ mishaps < MaxMishaps
  /\ mishaps' = mishaps + 1
  /\ gui' = Closed
  /\ orphans' = orphans \cup ({own} \ {Down})
  /\ own' = Down
  /\ UNCHANGED <<file, service, handle, blocked, verdict>>

-----------------------------------------------------------------------------
Init ==
  /\ file = [m \in Machine |-> Good]
  /\ service = Down
  /\ own = Down
  /\ handle = FALSE
  /\ orphans = {}
  /\ gui = Closed
  /\ blocked \in Blocks
  /\ verdict = [m \in Machine |-> "none"]
  /\ mishaps = 0

Next ==
  \/ Check \/ Edit \/ CopyFile
  \/ ServiceStarts \/ ServiceStops
  \/ OpenGui \/ StartServer \/ OwnDies \/ PressStop \/ CloseGui \/ KillGui

Spec == Init /\ [][Next]_vars

-----------------------------------------------------------------------------
(* Properties *)

(* What the GUI needs of the trailer's server.  Heartbeats and stops carry *)
(* the fixed numbers 7 and 8, starts and relays the number in its file.    *)
StartAndStopUnderstood ==
  /\ Hears("trailer", service, gui.loaded)
  /\ service.usualNumbers /\ gui.loaded.usualNumbers
ReportsArrive ==
  \A k \in GuiKeys : k \in gui.bound /\ Answers("trailer", service, k, gui.loaded)
HarvestersReached ==
  gui.loaded.harvesterCommandsViaServer => gui.loaded.harvesterCmd /\ service.harvesterCmd
NobodyElseHears == \A s \in ServersOn("control") : ~Hears("control", s, gui.loaded)

(* What the check does not look at. *)
PortsApart(c) == \A k, l \in GuiKeys : k # l => ~Clash(c[k], c[l])
FirewallOpen(c) == blocked \cap {c.guiDataConnIP.port, c.guiStatusConnIP.port} = {}

(* If both checks found nothing, the fingerprints are equal, the files     *)
(* were not touched since and both programs have loaded them, then the GUI *)
(* controls the trailer's server and no other, hears its heartbeats,       *)
(* statuses and data, and runs have a directory to be saved in: provided   *)
(* that the GUI's ports are apart, the commands have the usual numbers and *)
(* the firewalls let data and statuses through, which the check does not   *)
(* look at (check_deploy.py:3-18, 116-166).                                *)
CheckedMachinesTalk ==
  /\ verdict = [m \in Machine |-> "pass"]
  /\ Fingerprint(file["trailer"]) = Fingerprint(file["control"])
  /\ service = file["trailer"]
  /\ gui # Closed
  /\ gui.loaded = file["control"]
  /\ PortsApart(file["control"])
  /\ file["control"].usualNumbers
  /\ FirewallOpen(file["control"])
  => /\ StartAndStopUnderstood
     /\ ReportsArrive
     /\ HarvestersReached
     /\ NobodyElseHears
     /\ service.savePathExists

=============================================================================
