------------------------------ MODULE RunFiles ------------------------------
(***************************************************************************)
(* The run files: how the set-up of a run turns the list of boards into    *)
(* sockets and files (server.go, state/array.go, ioutils.go), what the     *)
(* listeners put into the files, what the offline scripts read back, and   *)
(* the preflight check that is to find a bad list first (check_deploy.py). *)
(* A run is started by the GUI, or by the command-line tool with the list  *)
(* as it is on disk; the tool also sends test data to a list's boards      *)
(* (send_command.go).                                                      *)
(*                                                                         *)
(* A list of boards is a sequence of entries                               *)
(*   [number, missing, boards], each board [pos, missing, addr, fits],     *)
(* where fits says that its channel range lies within 0..560.  A packet of *)
(* 308 bytes is a head and a body; a unit of a file is one of the two.     *)
(* What a reader makes of the 308 bytes is in Formats.  The goroutines and *)
(* the control loop are in RunServer, the preview in EventPipeline.        *)
(***************************************************************************)
EXTENDS Integers, Sequences, FiniteSets, SequencesExt, Formats

CONSTANTS
  StateFiles,          \* lists of boards an operator may bring
  LocalAddrs,          \* addresses of this machine
  Slots, TelSlots,     \* sizes of the arrays of boards and of telescopes
  RunIds,              \* run numbers
  MaxRuns, MaxEdits, MaxPackets, MaxFaults  \* bounds on what may happen

Layouts == {"perTelescope", "perHarvester"}
NoPos   == -1          \* no local position in the name
NoAddr  == "none"

HarvesterState == [pos : Int, missing : BOOLEAN, addr : STRING, fits : BOOLEAN]
TelescopeState == [number : Int, missing : BOOLEAN, boards : Seq(HarvesterState)]

ASSUME RunFilesAssumption ==
  /\ Slots \in Nat /\ TelSlots \in Nat /\ NoAddr \notin LocalAddrs
  /\ StateFiles \subseteq Seq(TelescopeState)

VARIABLES
  file,      \* the list that was checked
  wanted,    \* the list the GUI sends with a start
  globalState,  \* the list of the last start
  layout,    \* config.RunFileLayout
  phase,     \* idle, setup or run
  runNumber, \* of the start that is carried out
  jobs,      \* the places the set-up has left to go through
  telFile,   \* telescopeRunFile, where there is one
  listeners, \* the harvesters opened: [addr, tel, pos, file]
  files,     \* the files of dataSaveDir: name -> sequence of units
  runs,      \* number of starts so far
  edits, packets, faults,  \* counted against the bounds
  outcome,   \* history: how the last run ended early: none, state, disk, panic
  hurt       \* history: <<run, addr>> that sent a short packet or lost a write

bounds == <<edits, packets, faults>>
vars == <<file, wanted, globalState, layout, phase, runNumber, jobs, telFile, listeners,
          files, runs, bounds, outcome, hurt>>

-----------------------------------------------------------------------------
(* What state/array.go looks up.  Every search takes the first match.      *)

Places(s)     == UNION {{i} \X DOMAIN s[i].boards : i \in DOMAIN s}
BoardAt(s, p) == s[p[1]].boards[p[2]]

Before(p, q) == p[1] < q[1] \/ (p[1] = q[1] /\ p[2] < q[2])
FirstOf(ps)  == CHOOSE p \in ps : \A q \in ps \ {p} : Before(p, q)

EntryOf(s, tel) ==
  s[CHOOSE i \in DOMAIN s :
      s[i].number = tel /\ \A k \in 1 .. i - 1 : s[k].number # tel]

(* By their places: the loops over what is returned go up the list. *)
GetTelescopesPresentInt(s) == {i \in DOMAIN s : ~s[i].missing}
GetHarvestersPresent(s, tel) ==
  {j \in DOMAIN EntryOf(s, tel).boards : ~EntryOf(s, tel).boards[j].missing}

(* What the server's and the tool's two nested loops go through: <<i, j>>  *)
(* is board j of the first entry that has entry i's number.                *)
Visited(s) ==
  UNION {{i} \X GetHarvestersPresent(s, s[i].number) : i \in GetTelescopesPresentInt(s)}
BoardOf(s, p) == EntryOf(s, s[p[1]].number).boards[p[2]]

(* Mutant: the place in the list of boards. *)
GetHarvesterLocalPositionFromIP_Place(s, addr) ==
  FirstOf({p \in Places(s) : BoardAt(s, p).addr = addr})[2] - 1

GetHarvesterLocalPositionFromIP(s, addr) ==
  BoardAt(s, FirstOf({p \in Places(s) : BoardAt(s, p).addr = addr})).pos

(* By telescope and position, boards marked missing included. *)
NumberedSo(s, tel, pos) ==
  {p \in Places(s) : s[p[1]].number = tel /\ BoardAt(s, p).pos = pos}

(* The range that GetHarvesterChannel finds exists and is within bounds.   *)
ChannelFits(s, tel, pos) ==
  LET found == NumberedSo(s, tel, pos)
  IN  found # {} /\ BoardAt(s, FirstOf(found)).fits

(* Mutant: by the place in the list, as GetHarvesterIPFuture does. *)
GetHarvesterIP_Place(s, tel, pos) ==
  IF pos + 1 \in DOMAIN EntryOf(s, tel).boards
  THEN EntryOf(s, tel).boards[pos + 1].addr ELSE NoAddr

GetHarvesterIP(s, tel, pos) ==
  IF NumberedSo(s, tel, pos) = {} THEN NoAddr
  ELSE BoardAt(s, FirstOf(NumberedSo(s, tel, pos))).addr

(* GetTelescopesMissingBool and GetHarvestersMissingBool write by place    *)
(* into arrays of fixed size: a longer list panics.                        *)
TooLong(s) ==
  \/ Len(s) > TelSlots
  \/ \E i \in GetTelescopesPresentInt(s) :
        Len(EntryOf(s, s[i].number).boards) > Slots

-----------------------------------------------------------------------------
(* The preflight check *)

PresentBoards(s) ==
  {p \in Places(s) : ~s[p[1]].missing /\ ~BoardAt(s, p).missing}

(* check_state reports no FAIL.  An address that is in use is a WARN.      *)
CheckPasses(s) ==
  /\ \E i \in DOMAIN s : ~s[i].missing
  /\ \A i \in DOMAIN s : ~s[i].missing => s[i].number \in 1 .. TelSlots
  /\ \A p \in PresentBoards(s) :
       /\ BoardAt(s, p).pos \in 0 .. Slots - 1
       /\ BoardAt(s, p).fits
       /\ BoardAt(s, p).addr \in LocalAddrs
       /\ \A q \in PresentBoards(s) :
            BoardAt(s, p).addr = BoardAt(s, q).addr => p = q

-----------------------------------------------------------------------------
(* Files *)

BaseName(run, tel, pos) == [run |-> run, tel |-> tel, pos |-> pos]

(* Mutant: the plain name, whether or not it is in use. *)
NewName_NoStat(base) == <<base, 0>>

(* createUniqueFile: the plain name if there is no such file, otherwise    *)
(* one with random letters, which no file has.                             *)
NewName(base) ==
  IF <<base, 0>> \notin DOMAIN files
  THEN <<base, 0>>
  ELSE <<base, CHOOSE k \in 1 .. Cardinality(DOMAIN files) + 1 :
                 <<base, k>> \notin DOMAIN files>>

(* os.Create: the file is there and empty. *)
Created(name) ==
  [n \in DOMAIN files \cup {name} |-> IF n = name THEN <<>> ELSE files[n]]

(* The offline readers take two units at a time and drop a rest.           *)
Records(content) ==
  [k \in 1 .. Len(content) \div 2 |-> <<content[2 * k - 1], content[2 * k]>>]

-----------------------------------------------------------------------------
(* The boards that send_command's test data is meant for, and where it is  *)
(* sent for each.                                                          *)
TestTargets(s) ==
  LET At(tel, pos) == [tel |-> tel, pos |-> pos, addr |-> GetHarvesterIP(s, tel, pos)]
  IN  {At(s[p[1]].number, BoardOf(s, p).pos) : p \in Visited(s)}

-----------------------------------------------------------------------------
Init ==
  /\ file \in StateFiles
  /\ wanted = file /\ globalState = file
  /\ layout \in Layouts
  /\ phase = "idle" /\ runNumber = 0 /\ jobs = {} /\ telFile = <<>> /\ listeners = {}
  /\ files = <<>>
  /\ runs = 0 /\ edits = 0 /\ packets = 0 /\ faults = 0
  /\ outcome = "none" /\ hurt = {}

(* The operator marks a telescope or a board as missing or as present.     *)
(* During a run this is only seen by the next one.                         *)
Toggle ==
  /\ phase = "idle" /\ edits < MaxEdits
  /\ \/ \E i \in DOMAIN wanted :
          wanted' = [wanted EXCEPT ![i].missing = ~@]
     \/ \E i \in DOMAIN wanted : \E j \in DOMAIN wanted[i].boards :
          wanted' = [wanted EXCEPT ![i].boards[j].missing = ~@]
  /\ edits' = edits + 1
  /\ UNCHANGED <<file, globalState, layout, phase, runNumber, jobs, telFile, listeners,
                 files, runs, packets, faults, outcome, hurt>>

(* The set-up's steps: each telescope, <<i, 0>>, and after it its boards.  *)
SetupJobs(s) == {<<i, 0>> : i \in GetTelescopesPresentInt(s)} \cup Visited(s)

Accept(s, run) ==
  /\ phase = "idle" /\ runs < MaxRuns
  /\ globalState' = s /\ runNumber' = run /\ jobs' = SetupJobs(s)
  /\ phase' = "setup" /\ telFile' = <<>>
  /\ runs' = runs + 1 /\ outcome' = "none"
  /\ UNCHANGED <<file, wanted, layout, listeners, files, bounds, hurt>>

StartRun == \E run \in RunIds : Accept(wanted, run)

(* send_command listen: the file's list, and a run number of the user's. *)
RequestListen(run) == Accept(file, run)
Listen == \E run \in RunIds : RequestListen(run)

(* Mutant: the sockets stay open. *)
Close_KeepsConns ==
  /\ phase' = "idle" /\ runNumber' = 0 /\ jobs' = {} /\ telFile' = <<>>
  /\ UNCHANGED listeners
  /\ UNCHANGED <<file, wanted, globalState, layout, runs, edits, packets, hurt>>

(* closeConns, closeFiles and back to waiting for commands. *)
Close ==
  /\ phase' = "idle" /\ runNumber' = 0 /\ jobs' = {} /\ telFile' = <<>>
  /\ listeners' = {}
  /\ UNCHANGED <<file, wanted, globalState, layout, runs, edits, packets, hurt>>

Abort(why) ==
  /\ Close
  /\ outcome' = why
  /\ faults' = IF why = "disk" THEN faults + 1 ELSE faults
  /\ why = "disk" => faults < MaxFaults
  /\ files' = files

SetupStep(p) ==
  /\ phase = "setup" /\ p \in jobs
  /\ \A q \in jobs \ {p} : Before(p, q)

SetupTelescope ==
  \E p \in jobs :
    /\ SetupStep(p) /\ p[2] = 0
    /\ LET tel == globalState[p[1]].number
           name == NewName(BaseName(runNumber, tel, NoPos))
       IN
       IF tel \notin 1 .. TelSlots
       THEN Abort("state")
       ELSE \/ /\ layout = "perTelescope"
               /\ Abort("disk")
            \/ /\ IF layout = "perTelescope"
                  THEN telFile' = name /\ files' = Created(name)
                  ELSE telFile' = <<>> /\ files' = files
               /\ jobs' = jobs \ {p}
               /\ UNCHANGED <<file, wanted, globalState, layout, phase, runNumber,
                              listeners, runs, bounds, outcome, hurt>>

Bound == {l.addr : l \in listeners}

SetupHarvester ==
  \E p \in jobs :
    /\ SetupStep(p) /\ p[2] # 0
    /\ LET tel  == globalState[p[1]].number
           addr == BoardOf(globalState, p).addr
           pos  == GetHarvesterLocalPositionFromIP(globalState, addr)
           own  == layout = "perHarvester"
           name == IF own THEN NewName(BaseName(runNumber, tel, pos)) ELSE telFile
       IN
       IF \/ pos \notin 0 .. Slots - 1
          \/ ~ChannelFits(globalState, tel, pos)
          \/ addr \notin LocalAddrs \/ addr \in Bound
       THEN Abort("state")
       ELSE \/ own /\ Abort("disk")
            \/ /\ files' = IF own THEN Created(name) ELSE files
               /\ listeners' = listeners \cup
                    {[addr |-> addr, tel |-> tel, pos |-> pos, file |-> name]}
               /\ jobs' = jobs \ {p}
               /\ UNCHANGED <<file, wanted, globalState, layout, phase, runNumber,
                              telFile, runs, bounds, outcome, hurt>>

(* The goroutines start; eventBuilder and guiListener make their arrays.   *)
Spawn ==
  /\ phase = "setup" /\ jobs = {}
  /\ IF TooLong(globalState)
     THEN Close /\ outcome' = "panic" /\ UNCHANGED <<files, faults>>
     ELSE /\ phase' = "run"
          /\ UNCHANGED <<file, wanted, globalState, layout, runNumber, jobs, telFile,
                         listeners, files, runs, bounds, outcome, hurt>>

(* A listener writes what it read, buf[:n].  The packet may be short, and  *)
(* the disk may take only the beginning of it: the error is not looked at. *)
Receive ==
  /\ phase = "run" /\ packets < MaxPackets
  /\ \E l \in listeners, sent \in {<<"head">>, <<"head", "body">>} :
     \E n \in 0 .. Len(sent) :
       LET bad  == Len(sent) = 1 \/ n < Len(sent)
           unit == [k \in 1 .. n |-> [run |-> runs, addr |-> l.addr, part |-> sent[k]]]
       IN /\ bad => faults < MaxFaults
          /\ files' = [files EXCEPT ![l.file] = @ \o unit]
          /\ faults' = IF bad THEN faults + 1 ELSE faults
          /\ hurt' = IF bad THEN hurt \cup {<<runs, l.addr>>} ELSE hurt
  /\ packets' = packets + 1
  /\ UNCHANGED <<file, wanted, globalState, layout, phase, runNumber, jobs, telFile,
                 listeners, runs, edits, outcome>>

EndRun ==
  /\ phase = "run"
  /\ Close
  /\ UNCHANGED <<files, faults, outcome>>

(* The server is killed, and comes back with the configuration as it is    *)
(* by then.  What was written stays.                                       *)
Crash ==
  /\ faults < MaxFaults
  /\ layout' \in Layouts
  /\ phase' = "idle" /\ runNumber' = 0 /\ jobs' = {} /\ telFile' = <<>>
  /\ listeners' = {}
  /\ faults' = faults + 1 /\ outcome' = "none"
  /\ UNCHANGED <<file, wanted, globalState, files, runs, edits, packets, hurt>>

Next ==
  \/ Toggle
  \/ StartRun
  \/ Listen
  \/ SetupTelescope
  \/ SetupHarvester
  \/ Spawn
  \/ Receive
  \/ EndRun
  \/ Crash

Spec == Init /\ [][Next]_vars

-----------------------------------------------------------------------------
(* Properties *)

(* createUniqueFile "never overwrites": whatever run number is used again, *)
(* after an abort, a crash or a change of layout, no step removes a file   *)
(* or changes what it already holds.                                       *)
NothingOverwritten ==
  [][\A n \in DOMAIN files : n \in DOMAIN files' /\ IsPrefix(files[n], files'[n])]_vars

Units(n) == ToSet(files[n])

(* The list names every telescope, address and position once, the entries  *)
(* marked missing included.                                                *)
Distinct(s) ==
  /\ \A i, k \in DOMAIN s : s[i].number = s[k].number => i = k
  /\ \A p, q \in Places(s) :
       \/ BoardAt(s, p).addr = BoardAt(s, q).addr
       \/ p[1] = q[1] /\ BoardAt(s, p).pos = BoardAt(s, q).pos
       => p = q

(* A file holds packets of one run, and a perHarvester file those of one   *)
(* board; if the list is Distinct the file is named after that very board. *)
FileHoldsItsRun ==
  /\ \A n \in DOMAIN files : \A u, v \in Units(n) :
       u.run = v.run /\ (n[1].pos # NoPos => u.addr = v.addr)
  /\ Distinct(file) =>
       \A n \in DOMAIN files : \A u \in Units(n) : \E p \in Places(file) :
         /\ file[p[1]].number = n[1].tel
         /\ BoardAt(file, p).addr = u.addr
         /\ n[1].pos \in {NoPos, BoardAt(file, p).pos}

(* Test data made for the list of a run is recorded under the boards it is *)
(* meant for, all of them and no other, if the list is Distinct: the tool  *)
(* finds a board's address by its number and position, the server a        *)
(* board's position by its address.                                        *)
TestDataIsHeard ==
  phase = "run" /\ Distinct(globalState) =>
    TestTargets(globalState) =
      {[tel |-> l.tel, pos |-> l.pos, addr |-> l.addr] : l \in listeners}

Whole(record) ==
  /\ record[1].addr = record[2].addr
  /\ record[1].part = "head" /\ record[2].part = "body"

(* A short packet or a lost write spoils records of the same run, and with *)
(* one file per board (the reason for that layout) no record of another    *)
(* board: every other record the readers cut out of a file is a packet.    *)
DamageIsContained ==
  \A n \in DOMAIN files : \A r \in ToSet(Records(files[n])) :
    \/ Whole(r)
    \/ \A u \in {r[1], r[2]} : \E h \in hurt :
         h[1] = u.run /\ (n[1].pos # NoPos => h[2] = u.addr)

(* Of a record that is a whole packet every offline reader, each with      *)
(* offsets and masks of its own, makes the same number, time, window,      *)
(* channel mask and variances, as do the tables written from it and the    *)
(* reader of the boards' diagnostic packets; the server makes the same     *)
(* variances, but the number it picks events for the camera by is not the  *)
(* one in those tables: it is that number with its bytes reversed, as the  *)
(* generator writes it (utility_functions.py, root_converter.py,           *)
(* passthrough_test.py, data_parsing.go, server.go:672,                    *)
(* send_command.go:263, ONSITE_CHECKLIST.md:180-181).                      *)
RecordsReadAlike ==
  \A n \in DOMAIN files : \A r \in ToSet(Records(files[n])) :
    Whole(r) => ReadersAgree

(* No board was marked present that was missing when the list was checked. *)
OnlyRemoved ==
  \A i \in DOMAIN file :
    /\ file[i].missing => globalState[i].missing
    /\ \A j \in DOMAIN file[i].boards :
         file[i].boards[j].missing => globalState[i].boards[j].missing

(* "0 FAIL required": a list that check_state passes, that is Distinct and *)
(* no longer than the arrays, never makes a run abort or the server panic, *)
(* also after boards have been marked missing.                             *)
CheckedStateSetsUp ==
  outcome \in {"state", "panic"} =>
    ~( /\ CheckPasses(file) /\ OnlyRemoved
       /\ Distinct(file) /\ ~TooLong(file) )

=============================================================================
