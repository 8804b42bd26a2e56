--------------------------- MODULE Machines_proofs ---------------------------
(***************************************************************************)
(* Proofs about Machines, for every good server.json, every set of         *)
(* addresses, every firewall and any number of wrong edits and killed      *)
(* GUIs.                                                                   *)
(***************************************************************************)
EXTENDS Machines, TLAPS

Typed ==
  /\ file \in [Machine -> Config]
  /\ service \in Config \cup {Down} /\ own \in Config \cup {Down}
  /\ handle \in BOOLEAN /\ orphans \subseteq Config
  /\ gui \in [loaded : Config, bound : SUBSET GuiKeys] \cup {Closed}
  /\ verdict \in [Machine -> {"none", "fail", "warn", "pass"}]

(* A server of the GUI's own is that of an open GUI in mode "local". *)
OwnIsHandled ==
  own # Down => gui # Closed /\ handle /\ gui.loaded.serverMode = "local"

(* What a check that passed says of the file alone, and of the firewalls.  *)
TrailerPassed(c) ==
  /\ ~ConfigFails(c) /\ c.savePathExists
  /\ \A k \in GuiKeys : ~Bindable("trailer", c[k])
ControlPassed(c) ==
  /\ c.serverMode = "remote"
  /\ \A k \in GuiKeys : Bindable("control", c[k])
  /\ c.serverControlConnIP.host = "trailer"
  /\ c.guiHeartbeatConnIP.host # "loopback"
  /\ {c.serverControlConnIP.port, c.guiHeartbeatConnIP.port} \cap blocked = {}
Passed ==
  /\ verdict["trailer"] = "pass" => TrailerPassed(file["trailer"])
  /\ verdict["control"] = "pass" => ControlPassed(file["control"])

(* No server of the control room has a socket on the GUI's ports as long   *)
(* as the verdict stands.                                                  *)
OnGuiPort(c, k, s) == Clash(c[k], s.serverControlConnIP)
PortsStayFree ==
  verdict["control"] = "pass" =>
    \A k \in GuiKeys : \A s \in ServersOn("control") : ~OnGuiPort(file["control"], k, s)

(* A GUI in mode "remote" holds the sockets that the orphans leave it:     *)
(* they do not change under it.                                            *)
Held(c, os) ==
  LET Free(k, held) ==
        /\ Bindable("control", c[k]) /\ ~\E s \in os : OnGuiPort(c, k, s)
        /\ \A h \in held : ~Clash(c[k], c[h])
      Add(k, held) == IF Free(k, held) THEN held \cup {k} ELSE held
  IN  Add("guiStatusConnIP", Add("guiHeartbeatConnIP", Add("guiDataConnIP", {})))
RemoteHolds ==
  gui # Closed /\ gui.loaded.serverMode = "remote" => gui.bound = Held(gui.loaded, orphans)

MachinesInv == Typed /\ OwnIsHandled /\ Passed /\ PortsStayFree /\ RemoteHolds

-----------------------------------------------------------------------------
(* server.json *)

LEMMA ConfigKeys ==
  ASSUME NEW c \in Config
  PROVE  /\ DOMAIN c = Keys \cup {"serverMode", "harvesterCommandsViaServer",
                                  "harvesterCmd", "usualNumbers", "savePathExists"}
         /\ \A k \in Keys : c[k] \in Addresses
         /\ c.serverMode \in {"local", "remote"} /\ c.harvesterCommandsViaServer \in BOOLEAN
         /\ c.harvesterCmd \in BOOLEAN /\ c.usualNumbers \in BOOLEAN
         /\ c.savePathExists \in BOOLEAN
BY DEF Config, Keys, GuiKeys

LEMMA EditsTyped ==
  ASSUME NEW c \in Config
  PROVE  Edits(c) \subseteq Config
<1>1. ASSUME NEW k \in Keys, NEW a \in Addresses
      PROVE  [c EXCEPT ![k] = a] \in Config
  <2>1. CASE k = "serverControlConnIP"
    BY <2>1 DEF Config
  <2>2. CASE k = "guiDataConnIP"
    BY <2>2 DEF Config
  <2>3. CASE k = "guiHeartbeatConnIP"
    BY <2>3 DEF Config
  <2>4. CASE k = "guiStatusConnIP"
    BY <2>4 DEF Config
  <2> QED
    BY <2>1, <2>2, <2>3, <2>4 DEF Keys, GuiKeys
<1>2. [c EXCEPT !.serverMode = IF @ = "local" THEN "remote" ELSE "local"] \in Config
  BY DEF Config
<1>3. ASSUME NEW k \in {"harvesterCommandsViaServer", "harvesterCmd", "usualNumbers",
                        "savePathExists"}
      PROVE  [c EXCEPT ![k] = ~@] \in Config
  <2>1. CASE k = "harvesterCommandsViaServer"
    BY <2>1 DEF Config
  <2>2. CASE k = "harvesterCmd"
    BY <2>2 DEF Config
  <2>3. CASE k = "usualNumbers"
    BY <2>3 DEF Config
  <2>4. CASE k = "savePathExists"
    BY <2>4 DEF Config
  <2> QED
    BY <2>1, <2>2, <2>3, <2>4
<1> DEFINE Addressed == UNION {{[c EXCEPT ![k] = a] :
             a \in {b \in Addresses : (b.host = c[k].host) # (b.port = c[k].port)}} :
            k \in Keys}
           Flagged == {[c EXCEPT ![k] = ~@] : k \in {"harvesterCommandsViaServer",
                          "harvesterCmd", "usualNumbers", "savePathExists"}}
<1>4. Addressed \subseteq Config
  BY <1>1
<1>5. Flagged \subseteq Config
  BY <1>3
<1>6. Edits(c) = Addressed \cup
        {[c EXCEPT !.serverMode = IF @ = "local" THEN "remote" ELSE "local"]} \cup Flagged
  BY DEF Edits
<1> HIDE DEF Addressed, Flagged
<1> QED
  BY <1>2, <1>4, <1>5, <1>6

(* Files with one fingerprint differ in the mode at most. *)
LEMMA SameFingerprint ==
  ASSUME NEW c \in Config, NEW d \in Config, Fingerprint(c) = Fingerprint(d)
  PROVE  /\ \A k \in Keys : c[k] = d[k]
         /\ c.harvesterCommandsViaServer = d.harvesterCommandsViaServer
         /\ c.harvesterCmd = d.harvesterCmd /\ c.usualNumbers = d.usualNumbers
         /\ c.savePathExists = d.savePathExists
<1> DEFINE D == Keys \cup {"harvesterCommandsViaServer", "harvesterCmd", "usualNumbers",
                           "savePathExists"}
<1>1. D \subseteq DOMAIN c \ {"serverMode"} /\ D \subseteq DOMAIN d \ {"serverMode"}
  BY ConfigKeys DEF Keys, GuiKeys
<1>2. \A k \in D : Fingerprint(c)[k] = c[k] /\ Fingerprint(d)[k] = d[k]
  BY <1>1 DEF Fingerprint
<1>3. \A k \in D : c[k] = d[k]
  BY <1>2
<1> QED
  BY <1>3

LEMMA WorstPasses ==
  ASSUME NEW fails \in BOOLEAN, NEW warns \in BOOLEAN
  PROVE  /\ Worst(fails, warns) \in {"none", "fail", "warn", "pass"}
         /\ Worst(fails, warns) = "pass" => ~fails /\ ~warns
BY DEF Worst

-----------------------------------------------------------------------------
(* What the checks find *)

LEMMA TrailerFinding ==
  ASSUME NEW c \in Config
  PROVE  /\ TrailerFinds(c) \in {"none", "fail", "warn", "pass"}
         /\ TrailerFinds(c) = "pass" => TrailerPassed(c)
<1> DEFINE fails == ConfigFails(c) \/ ~Bindable("trailer", c.serverControlConnIP)
                      \/ ~c.savePathExists
           warns == \/ c.serverControlConnIP.host = "loopback"
                    \/ \E k \in GuiKeys : Bindable("trailer", c[k])
<1>1. fails \in BOOLEAN /\ warns \in BOOLEAN
  OBVIOUS
<1>2. TrailerFinds(c) = Worst(fails, warns)
  BY DEF TrailerFinds
<1>3. ~fails /\ ~warns => TrailerPassed(c)
  BY DEF TrailerPassed
<1> HIDE DEF fails, warns
<1> QED
  BY <1>1, <1>2, <1>3, WorstPasses

LEMMA ControlFinding ==
  ASSUME NEW c \in Config
  PROVE  /\ ControlFinds(c) \in {"none", "fail", "warn", "pass"}
         /\ ControlFinds(c) = "pass" =>
              /\ ControlPassed(c)
              /\ \A k \in GuiKeys : \A s \in ServersOn("control") : ~OnGuiPort(c, k, s)
<1> DEFINE fails == \/ ConfigFails(c)
                    \/ \E k \in GuiKeys : ~Bindable("control", c[k])
                    \/ GuiPortsFree(c) /\ ~RoundTrip(c)
           warns == \/ c.serverMode # "remote"
                    \/ Bindable("control", c.serverControlConnIP)
                    \/ ~GuiPortsFree(c)
<1>1. fails \in BOOLEAN /\ warns \in BOOLEAN
  OBVIOUS
<1>2. ControlFinds(c) = Worst(fails, warns)
  BY DEF ControlFinds
<1>3. ASSUME ~fails, ~warns
      PROVE  /\ ControlPassed(c)
             /\ \A k \in GuiKeys : \A s \in ServersOn("control") : ~OnGuiPort(c, k, s)
  <2>1. /\ GuiPortsFree(c) /\ RoundTrip(c) /\ c.serverMode = "remote"
        /\ \A k \in GuiKeys : Bindable("control", c[k])
        /\ ~Bindable("control", c.serverControlConnIP)
    BY <1>3
  <2>2. PICK n \in Machine : \E s \in ServersOn(n) :
          Hears(n, s, c) /\ Answers(n, s, "guiHeartbeatConnIP", c)
    BY <2>1 DEF RoundTrip
  <2>3. PICK s \in ServersOn(n) : Hears(n, s, c) /\ Answers(n, s, "guiHeartbeatConnIP", c)
    BY <2>2
  <2>4. c.serverControlConnIP.host \notin {"control", "loopback", "any"}
    BY <2>1 DEF Bindable, LocalTo
  <2>5. c.serverControlConnIP.host = n /\ n = "trailer"
    BY <2>3, <2>4 DEF Hears, Lands, Machine
  <2>6. /\ c.guiHeartbeatConnIP.host # "loopback"
        /\ c.serverControlConnIP.port \notin blocked
    BY <2>3, <2>5 DEF Hears, Lands
  <2>7. c.guiHeartbeatConnIP.port \notin blocked
    BY <2>3, <2>5 DEF Answers, Lands
  <2>8. ControlPassed(c)
    BY <2>1, <2>5, <2>6, <2>7 DEF ControlPassed
  <2>9. ASSUME NEW k \in GuiKeys, NEW t \in ServersOn("control")
        PROVE  ~OnGuiPort(c, k, t)
    <3>1. ~InUse("control", c[k])
      BY <2>1 DEF GuiPortsFree
    <3>2. t.serverControlConnIP \in SocketsOn("control")
      BY DEF SocketsOn
    <3> QED
      BY <3>1, <3>2 DEF InUse, OnGuiPort
  <2> QED
    BY <2>8, <2>9
<1> HIDE DEF fails, warns
<1> QED
  BY <1>1, <1>2, <1>3, WorstPasses

-----------------------------------------------------------------------------
(* The steps *)

LEMMA WriteTyped ==
  ASSUME Typed, Edit \/ CopyFile
  PROVE  \E m \in Machine : \E c \in Config : Write(m, c)
<1>1. CASE Edit
  <2>1. PICK m \in Machine : \E c \in Edits(file[m]) : Write(m, c)
    BY <1>1 DEF Edit
  <2>2. file[m] \in Config
    BY DEF Typed
  <2> QED
    BY <2>1, <2>2, EditsTyped
<1>2. CASE CopyFile
  <2>1. PICK m \in Machine : \E n \in Machine : Write(m, file[n])
    BY <1>2 DEF CopyFile
  <2> QED
    BY <2>1 DEF Typed
<1> QED
  BY <1>1, <1>2

(* PressStop and CloseGui in both modes. *)
Stopped ==
  /\ gui # Closed /\ gui' \in {gui, Closed}
  /\ UNCHANGED <<file, blocked, verdict>>
  /\ \/ gui.loaded.serverMode = "local" /\ handle /\ StopOwn
     \/ ~(gui.loaded.serverMode = "local" /\ handle)
          /\ UNCHANGED <<own, handle, orphans, service>>

LEMMA StopSteps == PressStop \/ CloseGui => Stopped
BY DEF PressStop, CloseGui, StopServer, Stopped

(* Every step, with what it leaves of the state. *)
LEMMA Steps ==
  ASSUME Typed, [Next]_vars
  PROVE  \/ Check
         \/ \E m \in Machine : \E c \in Config : Write(m, c)
         \/ ServiceStarts \/ ServiceStops
         \/ OpenGui \/ StartServer \/ OwnDies \/ Stopped \/ KillGui
         \/ UNCHANGED vars
BY WriteTyped, StopSteps DEF Next

LEMMA NextTyped == Typed /\ [Next]_vars => Typed'
<1> SUFFICES ASSUME Typed, [Next]_vars PROVE Typed'
  OBVIOUS
<1> USE DEF Typed
<1>0. file["trailer"] \in Config /\ file["control"] \in Config
  BY DEF Machine
<1>1. CASE Check
  <2>1. \A m \in Machine : \A v \in {"none", "fail", "warn", "pass"} :
          [verdict EXCEPT ![m] = v] \in [Machine -> {"none", "fail", "warn", "pass"}]
    OBVIOUS
  <2>2. "trailer" \in Machine /\ "control" \in Machine
    BY DEF Machine
  <2>3. verdict' \in [Machine -> {"none", "fail", "warn", "pass"}]
    BY <1>0, <1>1, <2>1, <2>2, TrailerFinding, ControlFinding DEF Check
  <2> QED
    BY <1>1, <2>3 DEF Check
<1>2. ASSUME NEW m \in Machine, NEW c \in Config, Write(m, c)
      PROVE  Typed'
  BY <1>2 DEF Write
<1>3. CASE ServiceStarts
  BY <1>0, <1>3 DEF ServiceStarts
<1>4. CASE ServiceStops
  BY <1>4 DEF ServiceStops
<1>5. CASE OpenGui
  <2>1. Binds(file["control"]) \subseteq GuiKeys
    BY DEF Binds, GuiKeys
  <2> QED
    BY <1>0, <1>5, <2>1 DEF OpenGui
<1>6. CASE StartServer
  BY <1>0, <1>6 DEF StartServer
<1>7. CASE OwnDies
  BY <1>7 DEF OwnDies
<1>8. CASE Stopped
  BY <1>8 DEF Stopped, StopOwn
<1>9. CASE KillGui
  BY <1>9 DEF KillGui
<1>10. CASE UNCHANGED vars
  BY <1>10 DEF vars
<1> QED
  BY <1>1, <1>2, <1>3, <1>4, <1>5, <1>6, <1>7, <1>8, <1>9, <1>10, Steps

LEMMA NextHandled == Typed /\ OwnIsHandled /\ [Next]_vars => OwnIsHandled'
<1> SUFFICES ASSUME Typed, OwnIsHandled, [Next]_vars PROVE OwnIsHandled'
  OBVIOUS
<1> USE DEF OwnIsHandled
<1>1. CASE Check
  BY <1>1 DEF Check
<1>2. ASSUME NEW m \in Machine, NEW c \in Config, Write(m, c)
      PROVE  OwnIsHandled'
  BY <1>2 DEF Write
<1>3. CASE ServiceStarts \/ ServiceStops
  BY <1>3 DEF ServiceStarts, ServiceStops
<1>4. CASE OpenGui
  BY <1>4 DEF OpenGui
<1>5. CASE StartServer
  BY <1>5 DEF StartServer
<1>6. CASE OwnDies \/ KillGui
  BY <1>6 DEF OwnDies, KillGui
<1>7. CASE Stopped
  BY <1>7 DEF Stopped, StopOwn
<1>8. CASE UNCHANGED vars
  BY <1>8 DEF vars
<1> QED
  BY <1>1, <1>2, <1>3, <1>4, <1>5, <1>6, <1>7, <1>8, Steps

LEMMA NextPassed == Typed /\ Passed /\ [Next]_vars => Passed'
<1> SUFFICES ASSUME Typed, Passed, [Next]_vars PROVE Passed'
  OBVIOUS
<1>1. blocked' = blocked
  BY Steps DEF Check, Write, ServiceStarts, ServiceStops, OpenGui, StartServer, OwnDies,
               Stopped, KillGui, vars
<1>2. \A c : TrailerPassed(c)' <=> TrailerPassed(c)
  BY DEF TrailerPassed, ConfigFails, Bindable
<1>3. \A c : ControlPassed(c)' <=> ControlPassed(c)
  BY <1>1 DEF ControlPassed, Bindable
<1>4. CASE file' = file /\ verdict' = verdict
  BY <1>2, <1>3, <1>4 DEF Passed
<1>5. CASE Check
  <2>1. file["trailer"] \in Config /\ file["control"] \in Config
    BY DEF Typed, Machine
  <2>2. /\ verdict'["trailer"] \in {verdict["trailer"], TrailerFinds(file["trailer"])}
        /\ verdict'["control"] \in {verdict["control"], ControlFinds(file["control"])}
        /\ file' = file
    BY <1>5 DEF Check, Typed, Machine
  <2> QED
    BY <1>2, <1>3, <2>1, <2>2, TrailerFinding, ControlFinding DEF Passed
<1>6. ASSUME NEW m \in Machine, NEW c \in Config, Write(m, c)
      PROVE  Passed'
  <2>1. /\ verdict'[m] = "none"
        /\ \A n \in Machine \ {m} : verdict'[n] = verdict[n] /\ file'[n] = file[n]
    BY <1>6 DEF Write, Typed
  <2> QED
    BY <1>2, <1>3, <2>1 DEF Passed, Machine
<1> QED
  BY <1>4, <1>5, <1>6, Steps
     DEF ServiceStarts, ServiceStops, OpenGui, StartServer, OwnDies, Stopped, KillGui, vars

LEMMA NextFree == Typed /\ Passed /\ PortsStayFree /\ [Next]_vars => PortsStayFree'
<1> SUFFICES ASSUME Typed, Passed, PortsStayFree, [Next]_vars,
                    (verdict["control"] = "pass")',
                    NEW k \in GuiKeys, NEW s \in ServersOn("control")'
             PROVE  ~OnGuiPort(file'["control"], k, s)
  BY DEF PortsStayFree, OnGuiPort, Clash
<1>1. CASE /\ file'["control"] = file["control"] /\ verdict'["control"] = verdict["control"]
           /\ ServersOn("control")' \subseteq ServersOn("control")
  BY <1>1 DEF PortsStayFree
<1>2. CASE Check
  <2>1. file["control"] \in Config
    BY DEF Typed, Machine
  <2>2. /\ verdict'["control"] \in {verdict["control"], ControlFinds(file["control"])}
        /\ file' = file /\ ServersOn("control")' = ServersOn("control")
    BY <1>2 DEF Check, Typed, Machine, ServersOn
  <2> QED
    BY <2>1, <2>2, ControlFinding DEF PortsStayFree
<1>3. ASSUME NEW m \in Machine, NEW c \in Config, Write(m, c)
      PROVE  ~OnGuiPort(file'["control"], k, s)
  <2>1. /\ verdict'[m] = "none"
        /\ \A n \in Machine \ {m} : verdict'[n] = verdict[n] /\ file'[n] = file[n]
        /\ ServersOn("control")' = ServersOn("control")
    BY <1>3 DEF Write, Typed, ServersOn
  <2> QED
    BY <1>1, <2>1 DEF Machine
<1>4. CASE StartServer
  <2>1. verdict' = verdict /\ file' = file /\ orphans' = orphans
    BY <1>4 DEF StartServer
  <2>2. ~Bindable("control", file["control"].serverControlConnIP)
    BY <2>1 DEF Passed, ControlPassed, Bindable, LocalTo
  <2>3. own' = Down
    BY <1>4, <2>2 DEF StartServer, CanServe
  <2>4. ServersOn("control")' \subseteq ServersOn("control")
    BY <2>1, <2>3 DEF ServersOn
  <2> QED
    BY <1>1, <2>1, <2>4
<1>5. CASE OwnDies \/ KillGui \/ Stopped
  <2>1. verdict' = verdict /\ file' = file
    BY <1>5 DEF OwnDies, KillGui, Stopped
  <2>2. ServersOn("control")' \subseteq ServersOn("control")
    BY <1>5 DEF OwnDies, KillGui, Stopped, StopOwn, ServersOn
  <2> QED
    BY <1>1, <2>1, <2>2
<1>6. CASE ServiceStarts \/ ServiceStops \/ OpenGui \/ UNCHANGED vars
  <2>1. verdict' = verdict /\ file' = file /\ ServersOn("control")' = ServersOn("control")
    BY <1>6 DEF ServiceStarts, ServiceStops, OpenGui, vars, ServersOn
  <2> QED
    BY <1>1, <2>1
<1> QED
  BY <1>2, <1>3, <1>4, <1>5, <1>6, Steps

LEMMA NextHolds ==
  Typed /\ OwnIsHandled /\ RemoteHolds /\ [Next]_vars => RemoteHolds'
<1> SUFFICES ASSUME Typed, OwnIsHandled, RemoteHolds, [Next]_vars PROVE RemoteHolds'
  OBVIOUS
<1>1. CASE gui' = gui /\ orphans' = orphans
  BY <1>1 DEF RemoteHolds
<1>2. CASE OpenGui
  <2>1. gui = Closed /\ own = Down /\ orphans' = orphans
    BY <1>2 DEF OpenGui, OwnIsHandled
  <2>2. SocketsOn("control") = {s.serverControlConnIP : s \in orphans}
    BY <2>1 DEF SocketsOn, ServersOn
  <2>3. ASSUME NEW c, NEW k
        PROVE  InUse("control", c[k]) <=> \E s \in orphans : OnGuiPort(c, k, s)
    BY <2>2 DEF InUse, OnGuiPort
  <2>4. \A c : Binds(c) = Held(c, orphans)
    BY <2>3 DEF Binds, Held
  <2>5. gui' = [loaded |-> file["control"], bound |-> Binds(file["control"])]
    BY <1>2 DEF OpenGui
  <2>6. gui'.bound = Held(gui'.loaded, orphans)
    BY <2>4, <2>5
  <2> QED
    BY <2>1, <2>6 DEF RemoteHolds
<1>3. CASE Stopped
  BY <1>3 DEF Stopped, RemoteHolds
<1>4. CASE KillGui
  BY <1>4 DEF KillGui, RemoteHolds
<1> QED
  BY <1>1, <1>2, <1>3, <1>4, Steps
     DEF Check, Write, ServiceStarts, ServiceStops, StartServer, OwnDies, vars

-----------------------------------------------------------------------------

(* The inductive invariant: what the verdicts say goes on to hold while    *)
(* the files are left alone, and the GUI holds its sockets (check_deploy,  *)
(* ui_server.establish_connections, start_server, stop_server).            *)
THEOREM MachinesInvariant == Spec => []MachinesInv
<1>1. Init => MachinesInv
  <2> SUFFICES ASSUME Init PROVE MachinesInv
    OBVIOUS
  <2>1. Typed
    BY MachinesAssumption DEF Init, Typed
  <2>2. OwnIsHandled /\ Passed /\ PortsStayFree /\ RemoteHolds
    BY DEF Init, OwnIsHandled, Passed, PortsStayFree, RemoteHolds, Machine
  <2> QED
    BY <2>1, <2>2 DEF MachinesInv
<1>2. MachinesInv /\ [Next]_vars => MachinesInv'
  BY NextTyped, NextHandled, NextPassed, NextFree, NextHolds DEF MachinesInv
<1> QED
  BY <1>1, <1>2, PTL DEF Spec

(* The sockets of a GUI whose ports are apart and free. *)
LEMMA AllHeld ==
  ASSUME NEW c, NEW os, PortsApart(c),
         \A k \in GuiKeys : Bindable("control", c[k]) /\ \A s \in os : ~OnGuiPort(c, k, s)
  PROVE  Held(c, os) = GuiKeys
BY DEF Held, PortsApart, GuiKeys

(* Where both checks passed on equal files that the programs then loaded,  *)
(* the GUI controls the trailer's server and no other and hears all it     *)
(* sends (check_deploy.py).                                                *)
THEOREM CheckedTalk == Spec => []CheckedMachinesTalk
<1> DEFINE c == file["control"]
<1>1. ASSUME MachinesInv, verdict = [m \in Machine |-> "pass"],
             Fingerprint(file["trailer"]) = Fingerprint(c),
             service = file["trailer"], gui # Closed, gui.loaded = c,
             PortsApart(c), c.usualNumbers, FirewallOpen(c)
      PROVE  /\ StartAndStopUnderstood /\ ReportsArrive
             /\ HarvestersReached /\ NobodyElseHears /\ service.savePathExists
  <2>1. c \in Config /\ file["trailer"] \in Config
    BY <1>1 DEF MachinesInv, Typed, Machine
  <2>2. TrailerPassed(service) /\ ControlPassed(c)
    BY <1>1 DEF MachinesInv, Passed, Machine
  <2>3. /\ \A k \in Keys : service[k] = c[k]
        /\ service.harvesterCommandsViaServer = c.harvesterCommandsViaServer
        /\ service.harvesterCmd = c.harvesterCmd
        /\ service.usualNumbers = c.usualNumbers
    BY <1>1, <2>1, SameFingerprint
  <2>4. service.serverControlConnIP = c.serverControlConnIP
    BY <2>3 DEF Keys
  <2> HIDE DEF c
  <2>5. StartAndStopUnderstood
    <3>1. Lands("control", c.guiHeartbeatConnIP, c.serverControlConnIP, "trailer",
                c.serverControlConnIP)
      BY <2>2 DEF ControlPassed, Lands
    <3> QED
      BY <1>1, <2>3, <2>4, <3>1 DEF StartAndStopUnderstood, Hears
  <2>6. gui.bound = GuiKeys
    <3>1. gui.bound = Held(c, orphans)
      BY <1>1, <2>2 DEF MachinesInv, RemoteHolds, ControlPassed
    <3>2. \A k \in GuiKeys : Bindable("control", c[k]) /\ \A s \in orphans : ~OnGuiPort(c, k, s)
      BY <1>1, <2>2 DEF MachinesInv, PortsStayFree, ServersOn, ControlPassed, Machine, c
    <3> QED
      BY <1>1, <3>1, <3>2, AllHeld
  <2>7. ASSUME NEW k \in GuiKeys
        PROVE  Answers("trailer", service, k, gui.loaded)
    <3>1. service[k] = c[k]
      BY <2>3 DEF Keys
    <3>2. c[k].host = "control"
      BY <2>2, <3>1 DEF TrailerPassed, ControlPassed, Bindable, LocalTo
    <3>3. c[k].port \notin blocked
      BY <1>1, <2>2 DEF GuiKeys, FirewallOpen, ControlPassed
    <3> QED
      BY <1>1, <3>1, <3>2, <3>3 DEF Answers, Lands
  <2>8. ReportsArrive
    BY <2>6, <2>7 DEF ReportsArrive
  <2>9. HarvestersReached
    <3>1. /\ c.harvesterCommandsViaServer \in BOOLEAN /\ c.harvesterCmd \in BOOLEAN
          /\ c.harvesterCommandsViaServer => c.harvesterCmd
      BY <2>1, <2>2, <2>3, ConfigKeys DEF TrailerPassed, ConfigFails
    <3> QED
      BY <1>1, <2>3, <3>1 DEF HarvestersReached
  <2>10. NobodyElseHears
    BY <1>1, <2>2 DEF NobodyElseHears, Hears, Lands, ControlPassed
  <2>11. service.savePathExists
    BY <2>2 DEF TrailerPassed
  <2> QED
    BY <2>5, <2>8, <2>9, <2>10, <2>11
<1>2. MachinesInv => CheckedMachinesTalk
  BY <1>1 DEF CheckedMachinesTalk
<1> QED
  BY <1>2, MachinesInvariant, PTL
=============================================================================
