--------------------------- MODULE RunFiles_proofs ---------------------------
(***************************************************************************)
(* Proofs about RunFiles, for every set of lists of boards, every size of  *)
(* the arrays, and any number of runs, edits, packets and faults.          *)
(***************************************************************************)
EXTENDS RunFiles, FiniteSetTheorems, SequenceTheorems, TLAPS

Lists == Seq(TelescopeState)

(* The same boards, which may differ in what is marked missing. *)
Alike(s, t) ==
  /\ DOMAIN s = DOMAIN t
  /\ \A i \in DOMAIN t :
       /\ s[i].number = t[i].number
       /\ DOMAIN s[i].boards = DOMAIN t[i].boards
       /\ \A j \in DOMAIN t[i].boards :
            /\ s[i].boards[j].pos = t[i].boards[j].pos
            /\ s[i].boards[j].addr = t[i].boards[j].addr
            /\ s[i].boards[j].fits = t[i].boards[j].fits

Typed ==
  /\ file \in StateFiles /\ wanted \in Lists /\ globalState \in Lists
  /\ Alike(wanted, file) /\ Alike(globalState, file)
  /\ layout \in Layouts /\ phase \in {"idle", "setup", "run"} /\ runs \in Nat
  /\ jobs \subseteq SetupJobs(globalState)
  /\ phase = "idle" => listeners = {}
  /\ phase # "setup" => jobs = {}

Unit == [run : Nat, addr : STRING, part : {"head", "body"}]

FilesTyped ==
  /\ IsFiniteSet(DOMAIN files)
  /\ \A n \in DOMAIN files : files[n] \in Seq(Unit)

(* The set-up goes through its places in order. *)
DoneFirst == \A p \in jobs, q \in SetupJobs(globalState) \ jobs : Before(q, p)

(* Between the step of a telescope and its last board, telFile is the new  *)
(* file of that telescope.                                                 *)
SharedFile ==
  phase = "setup" /\ layout = "perTelescope" =>
    \A p \in jobs : <<p[1], 0>> \notin jobs =>
      /\ telFile \in DOMAIN files /\ files[telFile] = <<>>
      /\ telFile[1].tel = globalState[p[1]].number /\ telFile[1].pos = NoPos

(* An open file exists and holds what its listeners have received in this  *)
(* run, and no two listeners share a file that is named after a board.     *)
Opened ==
  \A l \in listeners :
    /\ l.file \in DOMAIN files /\ l.addr \in STRING
    /\ l.file[1].pos # NoPos => \A m \in listeners : m.file = l.file => m = l
    /\ \A u \in Units(l.file) :
         /\ phase = "run" /\ u.run = runs
         /\ l.file[1].pos # NoPos => u.addr = l.addr

(* The listeners are those of the boards gone through so far. *)
Describes(l, p) ==
  /\ l.tel = globalState[p[1]].number
  /\ l.pos = BoardAt(globalState, p).pos /\ l.addr = BoardAt(globalState, p).addr
AllHeard ==
  Distinct(globalState) =>
    /\ \A l \in listeners : \E p \in Visited(globalState) \ jobs : Describes(l, p)
    /\ phase # "idle" =>
         \A p \in Visited(globalState) \ jobs : \E l \in listeners : Describes(l, p)

Owns(name, addr, p) ==
  /\ file[p[1]].number = name[1].tel
  /\ BoardAt(file, p).addr = addr
  /\ name[1].pos \in {NoPos, BoardAt(file, p).pos}
WellNamed ==
  Distinct(file) => \A l \in listeners : \E p \in Places(file) : Owns(l.file, l.addr, p)

(* A file is made of whole packets, or all it holds may be spoiled. *)
Tidy(content) ==
  /\ Len(content) % 2 = 0
  /\ \A k \in 1 .. Len(content) \div 2 : Whole(<<content[2 * k - 1], content[2 * k]>>)
Spoiled(n, u) == \E h \in hurt : h[1] = u.run /\ (n[1].pos # NoPos => h[2] = u.addr)
Contained == \A n \in DOMAIN files : Tidy(files[n]) \/ \A u \in Units(n) : Spoiled(n, u)

FilesInv ==
  /\ Typed /\ FilesTyped /\ DoneFirst /\ SharedFile /\ Opened /\ AllHeard /\ WellNamed
  /\ FileHoldsItsRun /\ Contained /\ CheckedStateSetsUp

-----------------------------------------------------------------------------
(* The lists *)

(* A set of natural numbers has a least one. *)
LEMMA Least ==
  ASSUME NEW T \in SUBSET Nat, T # {}
  PROVE  \E m \in T : \A k \in T : m <= k
<1> DEFINE R == StrictSubsetOrdering(Nat)
           F == FiniteSubsetsOf(Nat)
           Initials == {0 .. k : k \in T}
<1>1. IsWellFoundedOn(R, F)
  BY FS_StrictSubsetOrderingWellFounded
<1>2. \A k \in T : 0 .. k \in F
  <2> SUFFICES ASSUME NEW k \in T PROVE 0 .. k \in F
    OBVIOUS
  <2>1. IsFiniteSet(0 .. k)
    BY FS_Interval
  <2> QED
    BY <2>1 DEF FiniteSubsetsOf
<1>3. \A x, y \in T : x < y => <<0 .. x, 0 .. y>> \in R
  BY DEF StrictSubsetOrdering
<1>4. Initials # {}
  OBVIOUS
<1> HIDE DEF R, F
<1>5. Initials \subseteq F
  BY <1>2
<1>6. \E u \in Initials : \A v \in Initials : <<v, u>> \notin R
  BY <1>1, <1>4, <1>5, WFMin
<1>7. PICK m \in T : \A v \in Initials : <<v, 0 .. m>> \notin R
  BY <1>6
<1>8. ASSUME NEW k \in T PROVE m <= k
  <2>1. <<0 .. k, 0 .. m>> \notin R
    BY <1>7
  <2> QED
    BY <2>1, <1>3
<1> QED
  BY <1>8

LEMMA ListTyped ==
  ASSUME NEW s \in Lists
  PROVE  /\ Len(s) \in Nat /\ DOMAIN s = 1 .. Len(s)
         /\ \A i \in DOMAIN s :
              /\ s[i] \in TelescopeState /\ s[i].number \in Int
              /\ s[i].boards \in Seq(HarvesterState)
              /\ DOMAIN s[i].boards = 1 .. Len(s[i].boards)
              /\ \A j \in DOMAIN s[i].boards :
                   /\ s[i].boards[j] \in HarvesterState
                   /\ s[i].boards[j].addr \in STRING
<1>1. Len(s) \in Nat /\ DOMAIN s = 1 .. Len(s)
  BY DEF Lists
<1>2. ASSUME NEW i \in DOMAIN s
      PROVE  s[i] \in TelescopeState
  BY DEF Lists
<1>3. ASSUME NEW i \in DOMAIN s
      PROVE  s[i].number \in Int /\ s[i].boards \in Seq(HarvesterState)
  BY <1>2 DEF TelescopeState
<1>4. ASSUME NEW i \in DOMAIN s
      PROVE  /\ DOMAIN s[i].boards = 1 .. Len(s[i].boards)
             /\ \A j \in DOMAIN s[i].boards : s[i].boards[j] \in HarvesterState
  BY <1>3
<1>5. \A b \in HarvesterState : b.addr \in STRING
  BY DEF HarvesterState
<1> QED
  BY <1>1, <1>2, <1>3, <1>4, <1>5

(* EntryOf finds the first entry of a number that the list has. *)
LEMMA FirstEntry ==
  ASSUME NEW s \in Lists, NEW i \in DOMAIN s
  PROVE  \E k \in DOMAIN s :
           EntryOf(s, s[i].number) = s[k] /\ s[k].number = s[i].number
<1> DEFINE tel == s[i].number
           Same == {k \in DOMAIN s : s[k].number = tel}
           First(k) == s[k].number = tel /\ \A h \in 1 .. k - 1 : s[h].number # tel
<1>1. DOMAIN s = 1 .. Len(s) /\ Len(s) \in Nat
  BY ListTyped
<1>2. PICK m \in Same : \A k \in Same : m <= k
  <2>1. Same \in SUBSET Nat /\ i \in Same
    BY <1>1
  <2> QED
    BY <2>1, Least
<1>3. m \in DOMAIN s /\ First(m)
  BY <1>1, <1>2
<1>4. \E k \in DOMAIN s : First(k)
  BY <1>3
<1> DEFINE c == CHOOSE k \in DOMAIN s : First(k)
<1>5. c \in DOMAIN s /\ First(c)
  BY <1>4
<1>6. EntryOf(s, tel) = s[c]
  BY DEF EntryOf
<1> QED
  BY <1>5, <1>6

(* What the nested loops go through. *)
LEMMA JobsTyped ==
  ASSUME NEW s \in Lists, NEW p \in SetupJobs(s)
  PROVE  /\ p = <<p[1], p[2]>> /\ p[1] \in Nat /\ p[2] \in Nat
         /\ p[1] \in DOMAIN s /\ ~s[p[1]].missing
         /\ p[2] # 0 <=> p \in Visited(s)
         /\ <<p[1], 0>> \in SetupJobs(s)
<1>1. DOMAIN s = 1 .. Len(s) /\ Len(s) \in Nat
  BY ListTyped
<1>2. ASSUME NEW i \in GetTelescopesPresentInt(s)
      PROVE  /\ GetHarvestersPresent(s, s[i].number) \subseteq Nat \ {0}
             /\ i \in DOMAIN s /\ i \in Nat /\ ~s[i].missing
  <2>1. i \in DOMAIN s /\ ~s[i].missing
    BY DEF GetTelescopesPresentInt
  <2>2. PICK k \in DOMAIN s : EntryOf(s, s[i].number) = s[k]
    BY <2>1, FirstEntry
  <2>3. DOMAIN s[k].boards \subseteq Nat \ {0}
    BY ListTyped
  <2> QED
    BY <1>1, <2>1, <2>2, <2>3 DEF GetHarvestersPresent
<1>3. CASE p \in Visited(s)
  <2>1. PICK i \in GetTelescopesPresentInt(s) :
          p \in {i} \X GetHarvestersPresent(s, s[i].number)
    BY <1>3 DEF Visited
  <2>2. PICK j \in GetHarvestersPresent(s, s[i].number) : p = <<i, j>>
    BY <2>1
  <2> QED
    BY <1>2, <1>3, <2>1, <2>2 DEF SetupJobs
<1>4. CASE p \notin Visited(s)
  <2>1. PICK i \in GetTelescopesPresentInt(s) : p = <<i, 0>>
    BY <1>4 DEF SetupJobs
  <2> QED
    BY <1>2, <1>4, <2>1 DEF SetupJobs
<1> QED
  BY <1>3, <1>4

(* The board of a place is one of the list's, and present. *)
LEMMA BoardTyped ==
  ASSUME NEW s \in Lists, NEW p \in Visited(s)
  PROVE  BoardOf(s, p) \in HarvesterState /\ ~BoardOf(s, p).missing
<1>1. p \in SetupJobs(s)
  BY DEF SetupJobs
<1>2. p[1] \in DOMAIN s
  BY <1>1, JobsTyped
<1>3. PICK k \in DOMAIN s : EntryOf(s, s[p[1]].number) = s[k]
  BY <1>2, FirstEntry
<1>4. p[2] \in GetHarvestersPresent(s, s[p[1]].number)
  BY DEF Visited
<1>5. p[2] \in DOMAIN s[k].boards /\ ~s[k].boards[p[2]].missing
  BY <1>3, <1>4 DEF GetHarvestersPresent
<1>6. s[k].boards[p[2]] \in HarvesterState
  BY <1>5, ListTyped
<1> QED
  BY <1>3, <1>5, <1>6 DEF BoardOf

(* In a list that is Distinct every search finds the one board meant.      *)
LEMMA FoundInDistinct ==
  ASSUME NEW s \in Lists, Distinct(s), NEW p \in Visited(s)
  PROVE  /\ p \in Places(s) /\ ~s[p[1]].missing
         /\ BoardOf(s, p) = BoardAt(s, p) /\ ~BoardAt(s, p).missing
         /\ GetHarvesterLocalPositionFromIP(s, BoardAt(s, p).addr) = BoardAt(s, p).pos
         /\ ChannelFits(s, s[p[1]].number, BoardAt(s, p).pos) = BoardAt(s, p).fits
         /\ GetHarvesterIP(s, s[p[1]].number, BoardAt(s, p).pos) = BoardAt(s, p).addr
<1>1. p \in SetupJobs(s)
  BY DEF SetupJobs
<1>2. p = <<p[1], p[2]>> /\ p[1] \in DOMAIN s /\ ~s[p[1]].missing
  BY <1>1, JobsTyped
<1>3. EntryOf(s, s[p[1]].number) = s[p[1]]
  <2>1. PICK k \in DOMAIN s :
          EntryOf(s, s[p[1]].number) = s[k] /\ s[k].number = s[p[1]].number
    BY <1>2, FirstEntry
  <2> QED
    BY <1>2, <2>1 DEF Distinct
<1>4. p[2] \in GetHarvestersPresent(s, s[p[1]].number)
  BY DEF Visited
<1>5. p[2] \in DOMAIN s[p[1]].boards /\ ~s[p[1]].boards[p[2]].missing
  BY <1>3, <1>4 DEF GetHarvestersPresent
<1>6. p \in Places(s)
  BY <1>2, <1>5 DEF Places
<1>7. BoardOf(s, p) = BoardAt(s, p) /\ ~BoardAt(s, p).missing
  BY <1>3, <1>5 DEF BoardOf, BoardAt
<1>8. {q \in Places(s) : BoardAt(s, q).addr = BoardAt(s, p).addr} = {p}
  BY <1>6 DEF Distinct
<1>9. NumberedSo(s, s[p[1]].number, BoardAt(s, p).pos) = {p}
  <2>1. \A q \in Places(s) : q[1] \in DOMAIN s
    BY DEF Places
  <2> QED
    BY <1>2, <1>6, <2>1 DEF Distinct, NumberedSo
<1>10. FirstOf({p}) = p
  BY DEF FirstOf
<1>11. GetHarvesterLocalPositionFromIP(s, BoardAt(s, p).addr) = BoardAt(s, p).pos
  BY <1>8, <1>10 DEF GetHarvesterLocalPositionFromIP
<1>12. ChannelFits(s, s[p[1]].number, BoardAt(s, p).pos) = BoardAt(s, p).fits
  <2>1. BoardAt(s, p).fits \in BOOLEAN
    BY <1>7, BoardTyped DEF HarvesterState
  <2> QED
    BY <1>9, <1>10, <2>1 DEF ChannelFits
<1>13. GetHarvesterIP(s, s[p[1]].number, BoardAt(s, p).pos) = BoardAt(s, p).addr
  BY <1>9, <1>10 DEF GetHarvesterIP
<1> QED
  BY <1>2, <1>6, <1>7, <1>11, <1>12, <1>13

(* Marks apart, lists that are alike are the same. *)
LEMMA AlikeBoards ==
  ASSUME NEW s, NEW t, Alike(s, t)
  PROVE  /\ Places(s) = Places(t)
         /\ \A p \in Places(t) :
              /\ p[1] \in DOMAIN t /\ p[2] \in DOMAIN t[p[1]].boards
              /\ s[p[1]].number = t[p[1]].number
              /\ BoardAt(s, p).pos = BoardAt(t, p).pos
              /\ BoardAt(s, p).addr = BoardAt(t, p).addr
              /\ BoardAt(s, p).fits = BoardAt(t, p).fits
<1>1. Places(s) = Places(t)
  BY DEF Alike, Places
<1>2. \A p \in Places(t) : p[1] \in DOMAIN t /\ p[2] \in DOMAIN t[p[1]].boards
  BY DEF Places
<1> QED
  BY <1>1, <1>2 DEF Alike, BoardAt

LEMMA AlikeDistinct ==
  ASSUME NEW s, NEW t, Alike(s, t)
  PROVE  Distinct(s) <=> Distinct(t)
<1>1. \A i \in DOMAIN t : s[i].number = t[i].number
  BY DEF Alike
<1>2. DOMAIN s = DOMAIN t
  BY DEF Alike
<1> QED
  BY <1>1, <1>2, AlikeBoards DEF Distinct

-----------------------------------------------------------------------------
(* The files *)

(* createUniqueFile always finds a name that no file has. *)
LEMMA FreeName ==
  ASSUME NEW base, IsFiniteSet(DOMAIN files)
  PROVE  NewName(base) \notin DOMAIN files /\ NewName(base)[1] = base
<1>1. CASE <<base, 0>> \notin DOMAIN files
  BY <1>1 DEF NewName
<1>2. CASE <<base, 0>> \in DOMAIN files
  <2> DEFINE N == Cardinality(DOMAIN files)
             f == [k \in 1 .. N + 1 |-> <<base, k>>]
             Free(k) == <<base, k>> \notin DOMAIN files
  <2>1. N \in Nat
    BY FS_CardinalityType
  <2>2. \E k \in 1 .. N + 1 : Free(k)
    <3> SUFFICES ASSUME \A k \in 1 .. N + 1 : ~Free(k) PROVE FALSE
      OBVIOUS
    <3>1. f \in [1 .. N + 1 -> DOMAIN files]
      OBVIOUS
    <3>2. IsFiniteSet(1 .. N + 1) /\ Cardinality(1 .. N + 1) = N + 1
      BY <2>1, FS_Interval
    <3> HIDE DEF f
    <3>3. \E x, y \in 1 .. N + 1 : x # y /\ f[x] = f[y]
      <4>1. Cardinality(DOMAIN files) < Cardinality(1 .. N + 1)
        BY <2>1, <3>2
      <4> HIDE DEF N
      <4> QED
        BY <3>1, <3>2, <4>1, FS_PigeonHole
    <3> QED
      BY <3>3 DEF f
  <2> DEFINE c == CHOOSE k \in 1 .. N + 1 : Free(k)
  <2>3. Free(c)
    BY <2>2
  <2>4. NewName(base) = <<base, c>>
    BY <1>2 DEF NewName
  <2> QED
    BY <2>3, <2>4
<1> QED
  BY <1>1, <1>2

LEMMA CreatedFiles ==
  ASSUME NEW name, name \notin DOMAIN files
  PROVE  /\ DOMAIN Created(name) = DOMAIN files \cup {name}
         /\ Created(name)[name] = <<>>
         /\ \A n \in DOMAIN files : Created(name)[n] = files[n]
BY DEF Created

(* What a listener writes goes behind what its file holds. *)
LEMMA Appended ==
  ASSUME NEW S, NEW c \in Seq(S), NEW d \in Seq(S)
  PROVE  /\ c \o d \in Seq(S) /\ Len(c \o d) = Len(c) + Len(d)
         /\ \A k \in 1 .. Len(c) : (c \o d)[k] = c[k]
         /\ \A k \in 1 .. Len(d) : (c \o d)[Len(c) + k] = d[k]
         /\ ToSet(c \o d) = ToSet(c) \cup ToSet(d)
         /\ IsPrefix(c, c \o d)
<1>1. /\ c \o d \in Seq(S) /\ Len(c \o d) = Len(c) + Len(d)
      /\ \A k \in 1 .. Len(c) : (c \o d)[k] = c[k]
      /\ \A k \in 1 .. Len(d) : (c \o d)[Len(c) + k] = d[k]
  OBVIOUS
<1>2. ToSet(c \o d) = ToSet(c) \cup ToSet(d)
  <2>1. ASSUME NEW k \in 1 .. Len(c) + Len(d), k > Len(c)
        PROVE  /\ k - Len(c) \in 1 .. Len(d)
               /\ (c \o d)[k] = d[k - Len(c)]
    <3>1. Len(c) \in Nat /\ Len(d) \in Nat
      OBVIOUS
    <3>2. k - Len(c) \in 1 .. Len(d) /\ Len(c) + (k - Len(c)) = k
      BY <2>1, <3>1
    <3> QED
      BY <1>1, <3>2
  <2>2. /\ DOMAIN (c \o d) = 1 .. Len(c) + Len(d)
        /\ DOMAIN c = 1 .. Len(c) /\ DOMAIN d = 1 .. Len(d)
        /\ Len(c) \in Nat /\ Len(d) \in Nat
    OBVIOUS
  <2>3. ToSet(c \o d) \subseteq ToSet(c) \cup ToSet(d)
    BY <1>1, <2>1, <2>2 DEF ToSet
  <2>4. ToSet(c) \subseteq ToSet(c \o d)
    BY <1>1, <2>2 DEF ToSet
  <2>5. ToSet(d) \subseteq ToSet(c \o d)
    <3>1. \A k \in 1 .. Len(d) : Len(c) + k \in 1 .. Len(c) + Len(d)
      BY <2>2
    <3> QED
      BY <1>1, <2>2, <3>1 DEF ToSet
  <2> QED
    BY <2>3, <2>4, <2>5
<1>3. IsPrefix(c, c \o d)
  <2>1. SubSeq(c \o d, 1, Len(c)) = SubSeq(c, 1, Len(c))
    OBVIOUS
  <2> QED
    BY <1>1, <2>1 DEF IsPrefix
<1> QED
  BY <1>1, <1>2, <1>3

LEMMA PrefixOfItself ==
  ASSUME NEW c, Len(c) \in Nat
  PROVE  IsPrefix(c, c)
BY DEF IsPrefix

-----------------------------------------------------------------------------
(* The steps *)

(* A telescope's step, and a board's, where nothing goes wrong. *)
TelescopeDone(p) ==
  /\ SetupStep(p) /\ p[2] = 0
  /\ LET name == NewName(BaseName(runNumber, globalState[p[1]].number, NoPos))
     IN  IF layout = "perTelescope"
         THEN telFile' = name /\ files' = Created(name)
         ELSE telFile' = <<>> /\ files' = files
  /\ jobs' = jobs \ {p}
  /\ UNCHANGED <<file, wanted, globalState, layout, phase, runNumber, listeners, runs,
                 bounds, outcome, hurt>>

Opens(l, p) ==
  LET own == layout = "perHarvester"
  IN  /\ l = [addr |-> BoardOf(globalState, p).addr,
              tel  |-> globalState[p[1]].number,
              pos  |-> GetHarvesterLocalPositionFromIP(globalState,
                                                       BoardOf(globalState, p).addr),
              file |-> IF own THEN NewName(BaseName(runNumber, globalState[p[1]].number,
                                 GetHarvesterLocalPositionFromIP(globalState,
                                                       BoardOf(globalState, p).addr)))
                              ELSE telFile]
      /\ l.pos \in 0 .. Slots - 1
      /\ files' = IF own THEN Created(l.file) ELSE files

HarvesterDone(p, l) ==
  /\ SetupStep(p) /\ p[2] # 0
  /\ Opens(l, p)
  /\ listeners' = listeners \cup {l}
  /\ jobs' = jobs \ {p}
  /\ UNCHANGED <<file, wanted, globalState, layout, phase, runNumber, telFile, runs,
                 bounds, outcome, hurt>>

(* However a run comes to its end. *)
Stops ==
  /\ layout' \in Layouts
  /\ phase' = "idle" /\ jobs' = {} /\ listeners' = {}
  /\ UNCHANGED <<file, wanted, globalState, files, runs, hurt>>

Starts ==
  /\ phase = "setup" /\ jobs = {} /\ phase' = "run"
  /\ UNCHANGED <<file, wanted, globalState, layout, runNumber, jobs, telFile, listeners,
                 files, runs, bounds, outcome, hurt>>

(* A listener appends what it took of a packet; only a whole packet leaves *)
(* the run as it was.                                                      *)
Writes(l, unit) ==
  /\ phase = "run" /\ l \in listeners
  /\ \A k \in 1 .. Len(unit) :
       unit[k].run = runs /\ unit[k].addr = l.addr
  /\ unit \in Seq([run : {runs}, addr : {l.addr}, part : {"head", "body"}])
  /\ \/ /\ Len(unit) = 2 /\ unit[1].part = "head" /\ unit[2].part = "body"
        /\ hurt' = hurt
     \/ hurt' = hurt \cup {<<runs, l.addr>>}
  /\ files' = [files EXCEPT ![l.file] = @ \o unit]
  /\ UNCHANGED <<file, wanted, globalState, layout, phase, runNumber, jobs, telFile,
                 listeners, runs, edits, outcome>>

LEMMA TelescopeStep ==
  ASSUME SetupTelescope
  PROVE  \E p \in jobs : Abort("state") \/ Abort("disk") \/ TelescopeDone(p)
BY DEF SetupTelescope, TelescopeDone

LEMMA HarvesterStep ==
  ASSUME SetupHarvester
  PROVE  \/ Abort("state") \/ Abort("disk")
         \/ \E p \in jobs : \E l : HarvesterDone(p, l)
<1>1. PICK p \in jobs :
        /\ SetupStep(p) /\ p[2] # 0
        /\ LET tel  == globalState[p[1]].number
               addr == BoardOf(globalState, p).addr
               pos  == GetHarvesterLocalPositionFromIP(globalState, addr)
               own == layout = "perHarvester"
               name == IF own THEN NewName(BaseName(runNumber, tel, pos)) ELSE telFile
           IN  \/ Abort("state") \/ Abort("disk")
               \/ /\ pos \in 0 .. Slots - 1
                  /\ files' = IF own THEN Created(name) ELSE files
                  /\ listeners' = listeners \cup
                       {[addr |-> addr, tel |-> tel, pos |-> pos, file |-> name]}
                  /\ jobs' = jobs \ {p}
                  /\ UNCHANGED <<file, wanted, globalState, layout, phase, runNumber,
                                 telFile, runs, bounds, outcome, hurt>>
  BY DEF SetupHarvester
<1> DEFINE addr == BoardOf(globalState, p).addr
           tel == globalState[p[1]].number
           pos == GetHarvesterLocalPositionFromIP(globalState, addr)
           l == [addr |-> addr, tel |-> tel, pos |-> pos,
                 file |-> IF layout = "perHarvester"
                          THEN NewName(BaseName(runNumber, tel, pos)) ELSE telFile]
<1>2. CASE Abort("state") \/ Abort("disk")
  BY <1>2
<1>3. CASE ~(Abort("state") \/ Abort("disk"))
  <2>1. HarvesterDone(p, l)
    BY <1>1, <1>3 DEF HarvesterDone, Opens
  <2> QED
    BY <2>1
<1> QED
  BY <1>2, <1>3

LEMMA ReceiveStep ==
  ASSUME Receive
  PROVE  \E l \in listeners : \E unit : Writes(l, unit)
<1>1. PICK l \in listeners : \E sent \in {<<"head">>, <<"head", "body">>} :
       \E n \in 0 .. Len(sent) :
       LET bad  == Len(sent) = 1 \/ n < Len(sent)
           unit == [k \in 1 .. n |-> [run |-> runs, addr |-> l.addr, part |-> sent[k]]]
       IN /\ files' = [files EXCEPT ![l.file] = @ \o unit]
          /\ hurt' = IF bad THEN hurt \cup {<<runs, l.addr>>} ELSE hurt
  BY DEF Receive
<1>2. PICK sent \in {<<"head">>, <<"head", "body">>} :
       \E n \in 0 .. Len(sent) :
       LET bad  == Len(sent) = 1 \/ n < Len(sent)
           unit == [k \in 1 .. n |-> [run |-> runs, addr |-> l.addr, part |-> sent[k]]]
       IN /\ files' = [files EXCEPT ![l.file] = @ \o unit]
          /\ hurt' = IF bad THEN hurt \cup {<<runs, l.addr>>} ELSE hurt
  BY <1>1
<1>3. PICK n \in 0 .. Len(sent) :
       LET bad  == Len(sent) = 1 \/ n < Len(sent)
           unit == [k \in 1 .. n |-> [run |-> runs, addr |-> l.addr, part |-> sent[k]]]
       IN /\ files' = [files EXCEPT ![l.file] = @ \o unit]
          /\ hurt' = IF bad THEN hurt \cup {<<runs, l.addr>>} ELSE hurt
  BY <1>2
<1> DEFINE unit == [k \in 1 .. n |-> [run |-> runs, addr |-> l.addr, part |-> sent[k]]]
<1>4. /\ n \in 0 .. 2 /\ Len(sent) \in 1 .. 2
      /\ \A k \in 1 .. n : sent[k] \in {"head", "body"}
      /\ Len(sent) = 2 => sent[1] = "head" /\ sent[2] = "body"
  <2>1. CASE sent = <<"head">>
    <3>1. Len(sent) = 1 /\ sent[1] = "head"
      BY <2>1
    <3> QED
      BY <1>3, <3>1
  <2>2. CASE sent = <<"head", "body">>
    <3>1. Len(sent) = 2 /\ sent[1] = "head" /\ sent[2] = "body"
      BY <2>2
    <3> QED
      BY <1>3, <3>1
  <2> QED
    BY <2>1, <2>2
<1>5. /\ unit \in Seq([run : {runs}, addr : {l.addr}, part : {"head", "body"}])
      /\ Len(unit) = n
  BY <1>4
<1>6. \A k \in 1 .. Len(unit) : unit[k].run = runs /\ unit[k].addr = l.addr
  BY <1>5
<1>7. CASE Len(sent) = 2 /\ n = 2
  <2>1. unit[1].part = "head" /\ unit[2].part = "body"
    BY <1>4, <1>7
  <2>2. hurt' = hurt
    BY <1>3, <1>7
  <2>3. Writes(l, unit)
    BY <1>3, <1>5, <1>6, <1>7, <2>1, <2>2 DEF Receive, Writes
  <2> QED
    BY <2>3
<1>8. CASE ~(Len(sent) = 2 /\ n = 2)
  <2>1. hurt' = hurt \cup {<<runs, l.addr>>}
    BY <1>3, <1>4, <1>8
  <2>2. Writes(l, unit)
    BY <1>3, <1>5, <1>6, <2>1 DEF Receive, Writes
  <2> QED
    BY <2>2
<1> QED
  BY <1>7, <1>8

(* Every step of the system. *)
LEMMA Steps ==
  ASSUME layout \in Layouts, [Next]_vars
  PROVE  \/ UNCHANGED vars
         \/ Toggle
         \/ \E s \in {wanted, file}, run \in RunIds : Accept(s, run)
         \/ \E p \in jobs : TelescopeDone(p)
         \/ \E p \in jobs : \E l : HarvesterDone(p, l)
         \/ Starts
         \/ \E l \in listeners : \E unit : Writes(l, unit)
         \/ Stops
<1>1. Close /\ files' = files => Stops
  BY DEF Close, Stops
<1>2. ASSUME NEW why, Abort(why) PROVE Stops
  BY <1>1, <1>2 DEF Abort
<1>3. CASE Toggle
  BY <1>3
<1>4. CASE StartRun \/ Listen
  BY <1>4 DEF StartRun, Listen, RequestListen
<1>5. CASE SetupTelescope
  BY <1>2, <1>5, TelescopeStep
<1>6. CASE SetupHarvester
  BY <1>2, <1>6, HarvesterStep
<1>7. CASE Spawn
  BY <1>1, <1>7 DEF Spawn, Starts
<1>8. CASE Receive
  BY <1>8, ReceiveStep
<1>9. CASE EndRun
  BY <1>1, <1>9 DEF EndRun
<1>10. CASE Crash
  BY <1>10 DEF Crash, Stops
<1> QED
  BY <1>3, <1>4, <1>5, <1>6, <1>7, <1>8, <1>9, <1>10 DEF Next

-----------------------------------------------------------------------------
(* The lists and the order of the set-up *)

LEMMA InitTyped == Init => Typed
<1> SUFFICES ASSUME Init PROVE Typed
  OBVIOUS
<1>1. file \in StateFiles /\ file \in Lists
  BY RunFilesAssumption DEF Init, Lists
<1> QED
  BY <1>1 DEF Init, Typed, Alike

(* Marking a board or a telescope leaves everything else of the list. *)
LEMMA MarkedAlike ==
  ASSUME NEW s \in Lists, NEW t, Alike(s, t), NEW i \in DOMAIN s
  PROVE  /\ [s EXCEPT ![i].missing = ~@] \in Lists
         /\ Alike([s EXCEPT ![i].missing = ~@], t)
         /\ \A j \in DOMAIN s[i].boards :
              /\ [s EXCEPT ![i].boards[j].missing = ~@] \in Lists
              /\ Alike([s EXCEPT ![i].boards[j].missing = ~@], t)
<1>1. /\ s[i] \in TelescopeState /\ s[i].boards \in Seq(HarvesterState)
      /\ \A j \in DOMAIN s[i].boards : s[i].boards[j] \in HarvesterState
  BY ListTyped
<1>2. ASSUME NEW e \in TelescopeState,
             e.number = s[i].number, DOMAIN e.boards = DOMAIN s[i].boards,
             \A j \in DOMAIN s[i].boards :
               /\ e.boards[j].pos = s[i].boards[j].pos
               /\ e.boards[j].addr = s[i].boards[j].addr
               /\ e.boards[j].fits = s[i].boards[j].fits
      PROVE  [s EXCEPT ![i] = e] \in Lists /\ Alike([s EXCEPT ![i] = e], t)
  <2>1. [s EXCEPT ![i] = e] \in Lists
    BY DEF Lists
  <2>2. Alike([s EXCEPT ![i] = e], t)
    BY <1>2 DEF Alike
  <2> QED
    BY <2>1, <2>2
<1>3. /\ [s EXCEPT ![i].missing = ~@] \in Lists
      /\ Alike([s EXCEPT ![i].missing = ~@], t)
  <2> DEFINE e == [s[i] EXCEPT !.missing = ~@]
  <2>1. e \in TelescopeState /\ e.number = s[i].number /\ e.boards = s[i].boards
    BY <1>1 DEF TelescopeState
  <2>2. [s EXCEPT ![i].missing = ~@] = [s EXCEPT ![i] = e]
    OBVIOUS
  <2> HIDE DEF e
  <2> QED
    BY <1>2, <2>1, <2>2
<1>4. ASSUME NEW j \in DOMAIN s[i].boards
      PROVE  /\ [s EXCEPT ![i].boards[j].missing = ~@] \in Lists
             /\ Alike([s EXCEPT ![i].boards[j].missing = ~@], t)
  <2> DEFINE b == [s[i].boards[j] EXCEPT !.missing = ~@]
             bs == [s[i].boards EXCEPT ![j] = b]
             e == [s[i] EXCEPT !.boards = bs]
  <2>1. /\ b \in HarvesterState
        /\ b.pos = s[i].boards[j].pos /\ b.addr = s[i].boards[j].addr
        /\ b.fits = s[i].boards[j].fits
    BY <1>1 DEF HarvesterState
  <2> HIDE DEF b
  <2>2. /\ bs \in Seq(HarvesterState) /\ DOMAIN bs = DOMAIN s[i].boards
        /\ \A h \in DOMAIN s[i].boards :
             bs[h] = IF h = j THEN b ELSE s[i].boards[h]
    BY <1>1, <2>1
  <2> HIDE DEF bs
  <2>3. e \in TelescopeState /\ e.number = s[i].number /\ e.boards = bs
    BY <1>1, <2>2 DEF TelescopeState
  <2>4. [s EXCEPT ![i].boards[j].missing = ~@] = [s EXCEPT ![i] = e]
    BY DEF b, bs
  <2> HIDE DEF e
  <2> QED
    BY <1>2, <2>1, <2>2, <2>3, <2>4
<1> QED
  BY <1>3, <1>4

LEMMA NextTyped == Typed /\ [Next]_vars => Typed'
<1> SUFFICES ASSUME Typed, [Next]_vars PROVE Typed'
  OBVIOUS
<1> USE DEF Typed
<1>1. CASE Toggle
  <2>1. wanted' \in Lists /\ Alike(wanted', file)
    <3>1. ASSUME NEW i \in DOMAIN wanted, wanted' = [wanted EXCEPT ![i].missing = ~@]
          PROVE  wanted' \in Lists /\ Alike(wanted', file)
      BY <3>1, MarkedAlike
    <3>2. ASSUME NEW i \in DOMAIN wanted, NEW j \in DOMAIN wanted[i].boards,
                 wanted' = [wanted EXCEPT ![i].boards[j].missing = ~@]
          PROVE  wanted' \in Lists /\ Alike(wanted', file)
      BY <3>2, MarkedAlike
    <3> QED
      BY <1>1, <3>1, <3>2 DEF Toggle
  <2>2. UNCHANGED <<file, globalState, layout, phase, runs, jobs, listeners>>
    BY <1>1 DEF Toggle
  <2> QED
    BY <2>1, <2>2
<1>2. ASSUME NEW s \in {wanted, file}, NEW run \in RunIds, Accept(s, run)
      PROVE  Typed'
  <2>1. file \in Lists /\ Alike(file, file)
    BY RunFilesAssumption DEF Lists, Alike
  <2>2. phase' = "setup" /\ runs' \in Nat /\ jobs' = SetupJobs(globalState')
    BY <1>2 DEF Accept
  <2>3. globalState' \in Lists /\ Alike(globalState', file)
    BY <1>2, <2>1 DEF Accept
  <2> QED
    BY <1>2, <2>2, <2>3 DEF Accept
<1>3. CASE \E p \in jobs : TelescopeDone(p)
  BY <1>3 DEF TelescopeDone, SetupStep
<1>4. CASE \E p \in jobs : \E l : HarvesterDone(p, l)
  BY <1>4 DEF HarvesterDone, SetupStep
<1>5. CASE Starts
  BY <1>5 DEF Starts
<1>6. CASE \E l \in listeners : \E unit : Writes(l, unit)
  BY <1>6 DEF Writes
<1>7. CASE Stops
  BY <1>7 DEF Stops
<1>8. CASE UNCHANGED vars
  BY <1>8 DEF vars
<1> QED
  BY <1>1, <1>2, <1>3, <1>4, <1>5, <1>6, <1>7, <1>8, Steps

LEMMA NextDone == Typed /\ DoneFirst /\ [Next]_vars => DoneFirst'
<1> SUFFICES ASSUME Typed, DoneFirst, [Next]_vars PROVE DoneFirst'
  OBVIOUS
<1> USE DEF DoneFirst
<1>1. CASE Toggle
  BY <1>1 DEF Toggle
<1>2. ASSUME NEW s \in {wanted, file}, NEW run \in RunIds, Accept(s, run)
      PROVE  DoneFirst'
  BY <1>2 DEF Accept
<1>3. ASSUME NEW p \in jobs, SetupStep(p), jobs' = jobs \ {p}, globalState' = globalState
      PROVE  DoneFirst'
  BY <1>3 DEF SetupStep
<1>4. CASE \E p \in jobs : TelescopeDone(p)
  BY <1>3, <1>4 DEF TelescopeDone
<1>5. CASE \E p \in jobs : \E l : HarvesterDone(p, l)
  BY <1>3, <1>5 DEF HarvesterDone
<1>6. CASE Starts
  BY <1>6 DEF Starts
<1>7. CASE \E l \in listeners : \E unit : Writes(l, unit)
  BY <1>7 DEF Writes
<1>8. CASE Stops
  BY <1>8 DEF Stops
<1>9. CASE UNCHANGED vars
  BY <1>9 DEF vars
<1> QED
  BY <1>1, <1>2, <1>4, <1>5, <1>6, <1>7, <1>8, <1>9, Steps DEF Typed

-----------------------------------------------------------------------------
(* The files are sequences of units, and none is lost *)

(* What a step makes of the files: nothing, a new file, or more of one.    *)
LEMMA FileSteps ==
  ASSUME Typed, FilesTyped, Opened, [Next]_vars
  PROVE  \/ files' = files
         \/ \E name : name \notin DOMAIN files /\ files' = Created(name)
         \/ \E l \in listeners : \E unit : Writes(l, unit)
<1>1. ASSUME NEW p, TelescopeDone(p)
      PROVE  \/ files' = files
             \/ \E name : name \notin DOMAIN files /\ files' = Created(name)
  <2>1. NewName(BaseName(runNumber, globalState[p[1]].number, NoPos)) \notin DOMAIN files
    BY FreeName DEF FilesTyped
  <2> QED
    BY <1>1, <2>1 DEF TelescopeDone
<1>2. ASSUME NEW p, NEW l, HarvesterDone(p, l)
      PROVE  \/ files' = files
             \/ \E name : name \notin DOMAIN files /\ files' = Created(name)
  <2>1. \A base : NewName(base) \notin DOMAIN files
    BY FreeName DEF FilesTyped
  <2>2. CASE layout = "perHarvester"
    <3>1. l.file \notin DOMAIN files /\ files' = Created(l.file)
      BY <1>2, <2>1, <2>2 DEF HarvesterDone, Opens
    <3> QED
      BY <3>1
  <2>3. CASE layout # "perHarvester"
    BY <1>2, <2>3 DEF HarvesterDone, Opens
  <2> QED
    BY <2>2, <2>3
<1>3. Toggle \/ Starts \/ Stops \/ UNCHANGED vars => files' = files
  BY DEF Toggle, Starts, Stops, vars
<1>4. \A s, run : Accept(s, run) => files' = files
  BY DEF Accept
<1> QED
  BY <1>1, <1>2, <1>3, <1>4, Steps DEF Typed

LEMMA WiderSeq ==
  ASSUME NEW S, NEW T, S \subseteq T, NEW c \in Seq(S)
  PROVE  c \in Seq(T) /\ DOMAIN c = 1 .. Len(c)
OBVIOUS

(* The units of a packet, as a sequence. *)
LEMMA WrittenUnits ==
  ASSUME Typed, Opened, NEW l \in listeners, NEW unit, Writes(l, unit)
  PROVE  /\ unit \in Seq(Unit) /\ l.file \in DOMAIN files
         /\ \A u \in ToSet(unit) : u.run = runs /\ u.addr = l.addr
         /\ DOMAIN files' = DOMAIN files
         /\ \A n \in DOMAIN files :
              files'[n] = IF n = l.file THEN files[n] \o unit ELSE files[n]
<1>1. l.file \in DOMAIN files /\ l.addr \in STRING /\ runs \in Nat
  BY DEF Opened, Typed
<1>2. unit \in Seq([run : {runs}, addr : {l.addr}, part : {"head", "body"}])
  BY DEF Writes
<1>3. [run : {runs}, addr : {l.addr}, part : {"head", "body"}] \subseteq Unit
  BY <1>1 DEF Unit
<1>4. unit \in Seq(Unit) /\ DOMAIN unit = 1 .. Len(unit)
  BY <1>2, <1>3, WiderSeq
<1>5. \A u \in ToSet(unit) : u.run = runs /\ u.addr = l.addr
  BY <1>4 DEF ToSet, Writes
<1> QED
  BY <1>1, <1>4, <1>5 DEF Writes

LEMMA NextFiles ==
  Typed /\ FilesTyped /\ Opened /\ [Next]_vars => FilesTyped'
<1> SUFFICES ASSUME Typed, FilesTyped, Opened, [Next]_vars PROVE FilesTyped'
  OBVIOUS
<1>1. CASE files' = files
  BY <1>1 DEF FilesTyped
<1>2. ASSUME NEW name, name \notin DOMAIN files, files' = Created(name)
      PROVE  FilesTyped'
  <2>1. IsFiniteSet(DOMAIN files \cup {name})
    BY FS_AddElement DEF FilesTyped
  <2>2. DOMAIN files' = DOMAIN files \cup {name}
    BY <1>2, CreatedFiles
  <2>3. ASSUME NEW n \in DOMAIN files' PROVE files'[n] \in Seq(Unit)
    <3>1. CASE n = name
      <4>1. files'[n] = <<>>
        BY <1>2, <3>1, CreatedFiles
      <4>2. <<>> \in Seq(Unit)
        OBVIOUS
      <4> QED
        BY <4>1, <4>2
    <3>2. CASE n \in DOMAIN files
      BY <1>2, <3>2, CreatedFiles DEF FilesTyped
    <3> QED
      BY <2>2, <3>1, <3>2
  <2> QED
    BY <2>1, <2>2, <2>3 DEF FilesTyped
<1>3. ASSUME NEW l \in listeners, NEW unit, Writes(l, unit)
      PROVE  FilesTyped'
  <2>1. unit \in Seq(Unit) /\ files[l.file] \in Seq(Unit)
    BY <1>3, WrittenUnits DEF FilesTyped
  <2>2. files[l.file] \o unit \in Seq(Unit)
    BY <2>1
  <2>3. /\ DOMAIN files' = DOMAIN files
        /\ \A n \in DOMAIN files :
             files'[n] = IF n = l.file THEN files[n] \o unit ELSE files[n]
    BY <1>3, WrittenUnits
  <2>4. \A n \in DOMAIN files : files'[n] \in Seq(Unit)
    BY <2>2, <2>3 DEF FilesTyped
  <2> QED
    BY <2>3, <2>4 DEF FilesTyped
<1> QED
  BY <1>1, <1>2, <1>3, FileSteps

LEMMA NextKeepsFiles ==
  ASSUME Typed, FilesTyped, Opened, [Next]_vars
  PROVE  \A n \in DOMAIN files : n \in DOMAIN files' /\ IsPrefix(files[n], files'[n])
<1>1. \A n \in DOMAIN files : files[n] \in Seq(Unit) /\ IsPrefix(files[n], files[n])
  <2> SUFFICES ASSUME NEW n \in DOMAIN files
               PROVE  files[n] \in Seq(Unit) /\ IsPrefix(files[n], files[n])
    OBVIOUS
  <2>1. files[n] \in Seq(Unit)
    BY DEF FilesTyped
  <2>2. Len(files[n]) \in Nat
    BY <2>1
  <2> QED
    BY <2>1, <2>2, PrefixOfItself
<1>2. CASE files' = files
  BY <1>1, <1>2
<1>3. ASSUME NEW name, name \notin DOMAIN files, files' = Created(name),
             NEW n \in DOMAIN files
      PROVE  n \in DOMAIN files' /\ IsPrefix(files[n], files'[n])
  BY <1>1, <1>3, CreatedFiles
<1>4. ASSUME NEW l \in listeners, NEW unit, Writes(l, unit), NEW n \in DOMAIN files
      PROVE  n \in DOMAIN files' /\ IsPrefix(files[n], files'[n])
  <2>1. unit \in Seq(Unit) /\ files[n] \in Seq(Unit)
    BY <1>1, <1>4, WrittenUnits
  <2>2. IsPrefix(files[n], files[n] \o unit)
    BY <2>1, Appended
  <2> QED
    BY <1>1, <1>4, <2>2, WrittenUnits
<1> QED
  BY <1>2, <1>3, <1>4, FileSteps

-----------------------------------------------------------------------------
(* The shared file of a telescope *)

LEMMA TelescopeFile ==
  ASSUME Typed, FilesTyped, NEW p, TelescopeDone(p), layout = "perTelescope"
  PROVE  /\ telFile' \notin DOMAIN files
         /\ DOMAIN files' = DOMAIN files \cup {telFile'}
         /\ files'[telFile'] = <<>>
         /\ \A n \in DOMAIN files : files'[n] = files[n]
         /\ telFile'[1].tel = globalState[p[1]].number /\ telFile'[1].pos = NoPos
<1> DEFINE base == BaseName(runNumber, globalState[p[1]].number, NoPos)
           name == NewName(base)
<1>1. telFile' = name /\ files' = Created(name)
  BY DEF TelescopeDone
<1>2. name \notin DOMAIN files /\ name[1] = base
  BY FreeName DEF FilesTyped
<1>3. base.tel = globalState[p[1]].number /\ base.pos = NoPos
  BY DEF BaseName
<1> HIDE DEF name, base
<1> QED
  BY <1>1, <1>2, <1>3, CreatedFiles

LEMMA NextShared ==
  Typed /\ FilesTyped /\ DoneFirst /\ SharedFile /\ [Next]_vars => SharedFile'
<1> SUFFICES ASSUME Typed, FilesTyped, DoneFirst, SharedFile, [Next]_vars,
                    phase' = "setup", layout' = "perTelescope",
                    NEW q \in jobs', <<q[1], 0>> \notin jobs'
             PROVE  /\ telFile' \in DOMAIN files' /\ files'[telFile'] = <<>>
                    /\ telFile'[1].tel = globalState'[q[1]].number
                    /\ telFile'[1].pos = NoPos
  BY DEF SharedFile
<1>1. CASE Toggle
  BY <1>1 DEF Toggle, SharedFile
<1>2. ASSUME NEW s \in {wanted, file}, NEW run \in RunIds, Accept(s, run)
      PROVE  FALSE
  <2>1. s \in Lists
    BY RunFilesAssumption DEF Typed, Lists
  <2> QED
    BY <1>2, <2>1, JobsTyped DEF Accept
<1>3. CASE \E p \in jobs : TelescopeDone(p)
  <2>1. PICK p \in jobs : TelescopeDone(p)
    BY <1>3
  <2>2. /\ layout = "perTelescope" /\ globalState' = globalState
        /\ p[2] = 0 /\ SetupStep(p) /\ jobs' = jobs \ {p}
    BY <2>1 DEF TelescopeDone
  <2>3. p \in SetupJobs(globalState) /\ q \in SetupJobs(globalState) /\ globalState \in Lists
    BY <2>2 DEF Typed
  <2>4. /\ p = <<p[1], 0>> /\ p[1] \in Nat /\ q[1] \in Nat /\ q[2] \in Nat
        /\ <<q[1], 0>> \in SetupJobs(globalState)
    BY <2>2, <2>3, JobsTyped
  <2>5. p[1] = q[1]
    <3>1. CASE <<q[1], 0>> \in jobs
      BY <2>2, <2>4, <3>1
    <3>2. CASE <<q[1], 0>> \notin jobs
      <4>1. Before(<<q[1], 0>>, p)
        BY <2>4, <3>2 DEF DoneFirst
      <4>2. Before(p, q)
        BY <2>2 DEF SetupStep
      <4> QED
        BY <2>2, <2>4, <4>1, <4>2 DEF Before
    <3> QED
      BY <3>1, <3>2
  <2> QED
    BY <2>1, <2>2, <2>5, TelescopeFile
<1>4. CASE \E p \in jobs : \E l : HarvesterDone(p, l)
  <2>1. PICK p \in jobs : \E l : HarvesterDone(p, l)
    BY <1>4
  <2>2. /\ layout = "perTelescope" /\ phase = "setup" /\ telFile' = telFile
        /\ globalState' = globalState /\ files' = files
        /\ jobs' = jobs \ {p} /\ p[2] # 0
    BY <2>1 DEF HarvesterDone, Opens, SetupStep
  <2>3. <<q[1], 0>> # p
    BY <2>2
  <2> QED
    BY <2>2, <2>3 DEF SharedFile
<1>5. CASE \E l \in listeners : \E unit : Writes(l, unit)
  BY <1>5 DEF Writes
<1>6. CASE Starts \/ Stops
  BY <1>6 DEF Starts, Stops
<1>7. CASE UNCHANGED vars
  BY <1>7 DEF vars, SharedFile
<1> QED
  BY <1>1, <1>2, <1>3, <1>4, <1>5, <1>6, <1>7, Steps DEF Typed

-----------------------------------------------------------------------------
(* The open files *)

(* The file and the address of a new listener. *)
LEMMA NewListener ==
  ASSUME Typed, FilesTyped, DoneFirst, SharedFile,
         NEW p \in jobs, NEW l, HarvesterDone(p, l)
  PROVE  /\ p \in Visited(globalState) /\ l.addr = BoardOf(globalState, p).addr
         /\ l.tel = globalState[p[1]].number
         /\ l.pos = GetHarvesterLocalPositionFromIP(globalState, l.addr)
         /\ l.addr \in STRING
         /\ l.file[1].tel = globalState[p[1]].number
         /\ IF layout = "perHarvester"
            THEN /\ l.file \notin DOMAIN files /\ l.file[1].pos = l.pos
                 /\ DOMAIN files' = DOMAIN files \cup {l.file}
                 /\ files'[l.file] = <<>>
                 /\ \A n \in DOMAIN files : files'[n] = files[n]
            ELSE /\ l.file \in DOMAIN files /\ l.file[1].pos = NoPos
                 /\ files' = files /\ files[l.file] = <<>>
<1>1. p \in SetupJobs(globalState) /\ globalState \in Lists
  BY DEF Typed
<1>2. p[2] # 0 /\ phase = "setup" /\ Opens(l, p) /\ \A q \in jobs \ {p} : Before(p, q)
  BY DEF HarvesterDone, SetupStep
<1>3. p \in Visited(globalState) /\ p[1] \in Nat /\ p[2] \in Nat
  BY <1>1, <1>2, JobsTyped
<1>4. BoardOf(globalState, p).addr \in STRING
  BY <1>1, <1>3, BoardTyped DEF HarvesterState
<1> DEFINE base == BaseName(runNumber, globalState[p[1]].number, l.pos)
<1>5. /\ l.addr = BoardOf(globalState, p).addr /\ l.tel = globalState[p[1]].number
      /\ l.pos = GetHarvesterLocalPositionFromIP(globalState, l.addr)
      /\ l.file = IF layout = "perHarvester" THEN NewName(base) ELSE telFile
      /\ files' = IF layout = "perHarvester" THEN Created(l.file) ELSE files
  BY <1>2 DEF Opens
<1>6. CASE layout = "perHarvester"
  <2>1. l.file \notin DOMAIN files /\ l.file[1] = base
    BY <1>5, <1>6, FreeName DEF FilesTyped
  <2>2. base.tel = globalState[p[1]].number /\ base.pos = l.pos
    BY DEF BaseName
  <2> HIDE DEF base
  <2>3. /\ DOMAIN files' = DOMAIN files \cup {l.file}
        /\ files'[l.file] = <<>>
        /\ \A n \in DOMAIN files : files'[n] = files[n]
    BY <1>5, <1>6, <2>1, CreatedFiles
  <2> QED
    BY <1>3, <1>4, <1>5, <1>6, <2>1, <2>2, <2>3
<1>7. CASE layout # "perHarvester"
  <2>1. layout = "perTelescope"
    BY <1>7 DEF Typed, Layouts
  <2>2. <<p[1], 0>> \notin jobs
    <3>1. SUFFICES ASSUME <<p[1], 0>> \in jobs PROVE FALSE
      OBVIOUS
    <3>2. <<p[1], 0>> # p
      BY <1>2
    <3>3. Before(p, <<p[1], 0>>)
      BY <1>2, <3>1, <3>2
    <3> QED
      BY <1>2, <1>3, <3>3 DEF Before
  <2>3. /\ telFile \in DOMAIN files /\ files[telFile] = <<>>
        /\ telFile[1].tel = globalState[p[1]].number /\ telFile[1].pos = NoPos
    BY <1>2, <2>1, <2>2 DEF SharedFile
  <2>4. l.file = telFile /\ files' = files
    BY <1>5, <1>7
  <2> QED
    BY <1>3, <1>4, <1>5, <1>7, <2>3, <2>4
<1> QED
  BY <1>6, <1>7

LEMMA NoUnits ==
  ASSUME NEW n, files[n] = <<>>
  PROVE  Units(n) = {}
BY DEF Units, ToSet

LEMMA InSetupEmpty ==
  ASSUME Opened, phase # "run", NEW l \in listeners
  PROVE  Units(l.file) = {}
BY DEF Opened

LEMMA NextOpened ==
  Typed /\ FilesTyped /\ DoneFirst /\ SharedFile /\ Opened /\ [Next]_vars => Opened'
<1> SUFFICES ASSUME Typed, FilesTyped, DoneFirst, SharedFile, Opened, [Next]_vars
             PROVE  Opened'
  OBVIOUS
<1>1. CASE Toggle
  BY <1>1 DEF Toggle, Opened, Units
<1>2. ASSUME NEW s \in {wanted, file}, NEW run \in RunIds, Accept(s, run)
      PROVE  Opened'
  BY <1>2 DEF Accept, Opened, Typed
<1>3. CASE \E p \in jobs : TelescopeDone(p)
  <2>1. PICK p \in jobs : TelescopeDone(p)
    BY <1>3
  <2>2. /\ listeners' = listeners /\ phase' = phase /\ runs' = runs
        /\ \A n \in DOMAIN files : n \in DOMAIN files' /\ files'[n] = files[n]
    <3>1. CASE layout = "perTelescope"
      BY <2>1, <3>1, TelescopeFile DEF TelescopeDone
    <3>2. CASE layout # "perTelescope"
      BY <2>1, <3>2 DEF TelescopeDone
    <3> QED
      BY <3>1, <3>2
  <2> QED
    BY <2>2 DEF Opened, Units
<1>4. CASE \E p \in jobs : \E l : HarvesterDone(p, l)
  <2>1. PICK p \in jobs : \E l : HarvesterDone(p, l)
    BY <1>4
  <2>2. PICK new : HarvesterDone(p, new)
    BY <2>1
  <2>3. /\ listeners' = listeners \cup {new} /\ phase' = phase /\ runs' = runs
        /\ phase = "setup"
    BY <2>2 DEF HarvesterDone, SetupStep
  <2>4. /\ \A n \in DOMAIN files : n \in DOMAIN files' /\ files'[n] = files[n]
        /\ new.file \in DOMAIN files' /\ files'[new.file] = <<>>
        /\ new.addr \in STRING
        /\ new.file[1].pos # NoPos => new.file \notin DOMAIN files
    BY <2>2, NewListener
  <2>5. \A l \in listeners' : Units(l.file)' = {}
    <3>1. ASSUME NEW l \in listeners PROVE Units(l.file)' = {}
      <4>1. Units(l.file) = {} /\ l.file \in DOMAIN files
        BY <2>3, InSetupEmpty DEF Opened
      <4> QED
        BY <2>4, <4>1 DEF Units
    <3>2. Units(new.file)' = {}
      BY <2>4 DEF Units, ToSet
    <3> QED
      BY <2>3, <3>1, <3>2
  <2>6. \A l \in listeners : l.file \in DOMAIN files /\ l.addr \in STRING
    BY DEF Opened
  <2>7. ASSUME NEW l \in listeners', l.file[1].pos # NoPos,
               NEW m \in listeners', m.file = l.file
        PROVE  m = l
    BY <2>3, <2>4, <2>6, <2>7 DEF Opened
  <2>8. \A l \in listeners' : l.file \in DOMAIN files' /\ l.addr \in STRING
    BY <2>3, <2>4, <2>6
  <2> QED
    BY <2>5, <2>7, <2>8 DEF Opened
<1>5. CASE Starts
  <2>1. \A l \in listeners : Units(l.file) = {}
    BY <1>5, InSetupEmpty DEF Starts
  <2> QED
    BY <1>5, <2>1 DEF Starts, Opened, Units
<1>6. ASSUME NEW l \in listeners, NEW unit, Writes(l, unit)
      PROVE  Opened'
  <2>1. /\ unit \in Seq(Unit) /\ l.file \in DOMAIN files
        /\ \A u \in ToSet(unit) : u.run = runs /\ u.addr = l.addr
        /\ DOMAIN files' = DOMAIN files
        /\ \A n \in DOMAIN files :
             files'[n] = IF n = l.file THEN files[n] \o unit ELSE files[n]
    BY <1>6, WrittenUnits
  <2>2. /\ listeners' = listeners /\ phase' = phase /\ runs' = runs /\ phase = "run"
    BY <1>6 DEF Writes
  <2>3. \A n \in DOMAIN files : n # l.file => Units(n)' = Units(n)
    BY <2>1 DEF Units
  <2>4. Units(l.file)' = Units(l.file) \cup ToSet(unit)
    <3>1. files[l.file] \in Seq(Unit)
      BY <2>1 DEF FilesTyped
    <3>2. ToSet(files[l.file] \o unit) = ToSet(files[l.file]) \cup ToSet(unit)
      BY <2>1, <3>1, Appended
    <3> QED
      BY <2>1, <3>2 DEF Units
  <2>5. ASSUME NEW m \in listeners, NEW u \in Units(m.file)'
        PROVE  u.run = runs /\ (m.file[1].pos # NoPos => u.addr = m.addr)
    <3>1. CASE u \in Units(m.file)
      BY <3>1 DEF Opened
    <3>2. CASE u \notin Units(m.file)
      <4>1. m.file = l.file /\ u \in ToSet(unit)
        <5>1. m.file \in DOMAIN files
          BY DEF Opened
        <5> QED
          BY <2>3, <2>4, <2>5, <3>2, <5>1
      <4>2. m.file[1].pos # NoPos => m = l
        BY <4>1 DEF Opened
      <4> QED
        BY <2>1, <4>1, <4>2
    <3> QED
      BY <3>1, <3>2
  <2>6. \A m \in listeners :
          /\ m.file \in DOMAIN files /\ m.addr \in STRING
          /\ m.file[1].pos # NoPos => \A k \in listeners : k.file = m.file => k = m
    BY DEF Opened
  <2> QED
    BY <2>1, <2>2, <2>5, <2>6 DEF Opened
<1>7. CASE Stops
  BY <1>7 DEF Stops, Opened
<1>8. CASE UNCHANGED vars
  BY <1>8 DEF vars, Opened, Units
<1> QED
  BY <1>1, <1>2, <1>3, <1>4, <1>5, <1>6, <1>7, <1>8, Steps DEF Typed

-----------------------------------------------------------------------------
(* The listeners are those of the boards gone through *)

LEMMA InitHeard == Init => AllHeard
BY DEF Init, AllHeard

LEMMA NextHeard ==
  Typed /\ FilesTyped /\ DoneFirst /\ SharedFile /\ AllHeard /\ [Next]_vars => AllHeard'
<1> SUFFICES ASSUME Typed, FilesTyped, DoneFirst, SharedFile, AllHeard, [Next]_vars,
                    Distinct(globalState)'
             PROVE  /\ \A l \in listeners' :
                         \E p \in Visited(globalState') \ jobs' : Describes(l, p)'
                    /\ phase' # "idle" =>
                         \A p \in Visited(globalState') \ jobs' :
                           \E l \in listeners' : Describes(l, p)'
  BY DEF AllHeard
<1>1. CASE Toggle
  BY <1>1 DEF Toggle, AllHeard, Describes
<1>2. ASSUME NEW s \in {wanted, file}, NEW run \in RunIds, Accept(s, run)
      PROVE  /\ listeners' = {} /\ Visited(globalState') \subseteq jobs'
  BY <1>2 DEF Accept, Typed, SetupJobs
<1>3. CASE \E p \in jobs : TelescopeDone(p)
  <2>1. PICK p \in jobs : TelescopeDone(p)
    BY <1>3
  <2>2. /\ UNCHANGED <<globalState, listeners, phase>> /\ jobs' = jobs \ {p}
        /\ p[2] = 0
    BY <2>1 DEF TelescopeDone
  <2>3. p \notin Visited(globalState)
    BY <2>2, JobsTyped DEF Typed
  <2>4. Visited(globalState) \ jobs' = Visited(globalState) \ jobs
    BY <2>2, <2>3
  <2> QED
    BY <2>2, <2>4 DEF AllHeard, Describes
<1>4. CASE \E p \in jobs : \E l : HarvesterDone(p, l)
  <2>1. PICK p \in jobs : \E l : HarvesterDone(p, l)
    BY <1>4
  <2>2. PICK new : HarvesterDone(p, new)
    BY <2>1
  <2>3. /\ UNCHANGED <<globalState, phase>> /\ jobs' = jobs \ {p}
        /\ listeners' = listeners \cup {new} /\ phase = "setup"
    BY <2>2 DEF HarvesterDone, SetupStep
  <2>4. /\ p \in Visited(globalState) /\ new.addr = BoardOf(globalState, p).addr
        /\ new.tel = globalState[p[1]].number
        /\ new.pos = GetHarvesterLocalPositionFromIP(globalState, new.addr)
    BY <2>2, NewListener
  <2>5. Describes(new, p)
    <3>1. globalState \in Lists /\ Distinct(globalState)
      BY <2>3 DEF Typed
    <3> QED
      BY <2>4, <3>1, FoundInDistinct DEF Describes
  <2>6. Visited(globalState) \ jobs' = (Visited(globalState) \ jobs) \cup {p}
    BY <2>3, <2>4
  <2>7. \A l, q : Describes(l, q)' <=> Describes(l, q)
    BY <2>3 DEF Describes
  <2>8. /\ \A l \in listeners : \E q \in Visited(globalState) \ jobs : Describes(l, q)
        /\ \A q \in Visited(globalState) \ jobs : \E l \in listeners : Describes(l, q)
    BY <2>3 DEF AllHeard
  <2> QED
    BY <2>3, <2>5, <2>6, <2>7, <2>8
<1>5. CASE Starts
  BY <1>5 DEF Starts, AllHeard, Describes
<1>6. CASE \E l \in listeners : \E unit : Writes(l, unit)
  BY <1>6 DEF Writes, AllHeard, Describes
<1>7. CASE Stops
  BY <1>7 DEF Stops
<1>8. CASE UNCHANGED vars
  BY <1>8 DEF vars, AllHeard, Describes
<1> QED
  BY <1>1, <1>2, <1>3, <1>4, <1>5, <1>6, <1>7, <1>8, Steps DEF Typed

-----------------------------------------------------------------------------
(* Every file is named after what it holds *)

LEMMA NextNamed ==
  Typed /\ FilesTyped /\ DoneFirst /\ SharedFile /\ WellNamed /\ [Next]_vars
    => WellNamed'
<1> SUFFICES ASSUME Typed, FilesTyped, DoneFirst, SharedFile, WellNamed, [Next]_vars
             PROVE  WellNamed'
  OBVIOUS
<1>1. CASE Toggle
  BY <1>1 DEF Toggle, WellNamed, Owns
<1>2. ASSUME NEW s \in {wanted, file}, NEW run \in RunIds, Accept(s, run)
      PROVE  WellNamed'
  BY <1>2 DEF Accept, WellNamed, Owns
<1>3. CASE \E p \in jobs : TelescopeDone(p)
  BY <1>3 DEF TelescopeDone, WellNamed, Owns
<1>4. CASE \E p \in jobs : \E l : HarvesterDone(p, l)
  <2>1. PICK p \in jobs : \E l : HarvesterDone(p, l)
    BY <1>4
  <2>2. PICK new : HarvesterDone(p, new)
    BY <2>1
  <2>3. file' = file /\ listeners' = listeners \cup {new}
    BY <2>2 DEF HarvesterDone
  <2>4. ASSUME Distinct(file)
        PROVE  p \in Places(file) /\ Owns(new.file, new.addr, p)
    <3>1. /\ globalState \in Lists /\ Alike(globalState, file)
          /\ Distinct(globalState)
      BY <2>4, AlikeDistinct DEF Typed
    <3>2. /\ p \in Visited(globalState) /\ new.addr = BoardOf(globalState, p).addr
          /\ new.pos = GetHarvesterLocalPositionFromIP(globalState, new.addr)
          /\ new.file[1].tel = globalState[p[1]].number
          /\ new.file[1].pos \in {NoPos, new.pos}
      BY <2>2, NewListener
    <3>3. /\ p \in Places(globalState)
          /\ new.addr = BoardAt(globalState, p).addr
          /\ new.pos = BoardAt(globalState, p).pos
      BY <3>1, <3>2, FoundInDistinct
    <3>4. /\ p \in Places(file) /\ globalState[p[1]].number = file[p[1]].number
          /\ new.addr = BoardAt(file, p).addr /\ new.pos = BoardAt(file, p).pos
      BY <3>1, <3>3, AlikeBoards
    <3> QED
      BY <3>2, <3>4 DEF Owns
  <2> QED
    BY <2>3, <2>4 DEF WellNamed, Owns
<1>5. CASE Starts
  BY <1>5 DEF Starts, WellNamed, Owns
<1>6. CASE \E l \in listeners : \E unit : Writes(l, unit)
  BY <1>6 DEF Writes, WellNamed, Owns
<1>7. CASE Stops
  BY <1>7 DEF Stops, WellNamed
<1>8. CASE UNCHANGED vars
  BY <1>8 DEF vars, WellNamed, Owns
<1> QED
  BY <1>1, <1>2, <1>3, <1>4, <1>5, <1>6, <1>7, <1>8, Steps DEF Typed

(* The units of each file after a step: those it had, and what one         *)
(* listener wrote.                                                         *)
LEMMA UnitSteps ==
  ASSUME Typed, FilesTyped, Opened, [Next]_vars, NEW n \in DOMAIN files'
  PROVE  \/ Units(n)' = {}
         \/ n \in DOMAIN files /\ files'[n] = files[n]
         \/ \E l \in listeners : \E unit :
              /\ Writes(l, unit) /\ n = l.file /\ n \in DOMAIN files
              /\ unit \in Seq(Unit) /\ files'[n] = files[n] \o unit
              /\ files[n] \in Seq(Unit)
              /\ Units(n)' = Units(n) \cup ToSet(unit)
              /\ \A u \in ToSet(unit) : u.run = runs /\ u.addr = l.addr
<1>1. CASE files' = files
  BY <1>1
<1>2. ASSUME NEW name, name \notin DOMAIN files, files' = Created(name)
      PROVE  Units(n)' = {} \/ (n \in DOMAIN files /\ files'[n] = files[n])
  <2>1. CASE n = name
    <3>1. files'[n] = <<>>
      BY <1>2, <2>1, CreatedFiles
    <3> QED
      BY <3>1 DEF Units, ToSet
  <2>2. CASE n # name
    BY <1>2, <2>2, CreatedFiles
  <2> QED
    BY <2>1, <2>2
<1>3. ASSUME NEW l \in listeners, NEW unit, Writes(l, unit)
      PROVE  \/ n \in DOMAIN files /\ files'[n] = files[n]
             \/ /\ n = l.file /\ n \in DOMAIN files
                /\ unit \in Seq(Unit) /\ files'[n] = files[n] \o unit
                /\ files[n] \in Seq(Unit)
                /\ Units(n)' = Units(n) \cup ToSet(unit)
                /\ \A u \in ToSet(unit) : u.run = runs /\ u.addr = l.addr
  <2>1. /\ unit \in Seq(Unit) /\ n \in DOMAIN files
        /\ \A u \in ToSet(unit) : u.run = runs /\ u.addr = l.addr
        /\ files'[n] = IF n = l.file THEN files[n] \o unit ELSE files[n]
    BY <1>3, WrittenUnits
  <2>2. files[n] \in Seq(Unit)
    BY <2>1 DEF FilesTyped
  <2>3. ToSet(files[n] \o unit) = ToSet(files[n]) \cup ToSet(unit)
    BY <2>1, <2>2, Appended
  <2>4. n = l.file => Units(n)' = Units(n) \cup ToSet(unit)
    BY <2>1, <2>3 DEF Units
  <2> QED
    BY <2>1, <2>2, <2>4
<1> QED
  BY <1>1, <1>2, <1>3, FileSteps

LEMMA FileKept == [Next]_vars /\ Typed => file' = file
<1> SUFFICES ASSUME [Next]_vars, Typed PROVE file' = file
  OBVIOUS
<1> QED
  BY Steps DEF Typed, Toggle, Accept, TelescopeDone, HarvesterDone, Starts, Writes,
               Stops, vars

LEMMA NextHolds ==
  Typed /\ FilesTyped /\ Opened /\ WellNamed /\ FileHoldsItsRun /\ [Next]_vars
    => FileHoldsItsRun'
<1> SUFFICES ASSUME Typed, FilesTyped, Opened, WellNamed, FileHoldsItsRun, [Next]_vars
             PROVE  FileHoldsItsRun'
  OBVIOUS
<1>1. ASSUME NEW n \in DOMAIN files'
      PROVE  /\ \A u, v \in Units(n)' :
                  u.run = v.run /\ (n[1].pos # NoPos => u.addr = v.addr)
             /\ Distinct(file) =>
                  \A u \in Units(n)' : \E p \in Places(file) : Owns(n, u.addr, p)
  <2>1. CASE Units(n)' = {}
    BY <2>1
  <2>2. CASE n \in DOMAIN files /\ files'[n] = files[n]
    <3>1. Units(n)' = Units(n)
      BY <2>2 DEF Units
    <3> QED
      BY <2>2, <3>1 DEF FileHoldsItsRun, Owns
  <2>3. ASSUME NEW l \in listeners, NEW unit,
               n = l.file, n \in DOMAIN files, Writes(l, unit),
               Units(n)' = Units(n) \cup ToSet(unit),
               \A u \in ToSet(unit) : u.run = runs /\ u.addr = l.addr
        PROVE  /\ \A u, v \in Units(n)' :
                    u.run = v.run /\ (n[1].pos # NoPos => u.addr = v.addr)
               /\ Distinct(file) =>
                    \A u \in Units(n)' : \E p \in Places(file) : Owns(n, u.addr, p)
    <3>1. \A u \in Units(n)' : u.run = runs /\ (n[1].pos # NoPos => u.addr = l.addr)
      BY <2>3 DEF Opened
    <3>2. Distinct(file) => \E p \in Places(file) : Owns(n, l.addr, p)
      BY <2>3 DEF WellNamed
    <3>3. Distinct(file) =>
            \A u \in Units(n) : \E p \in Places(file) : Owns(n, u.addr, p)
      BY <2>3 DEF FileHoldsItsRun, Owns
    <3> QED
      BY <2>3, <3>1, <3>2, <3>3
  <2> QED
    BY <2>1, <2>2, <2>3, UnitSteps
<1>2. file' = file
  BY FileKept
<1> QED
  BY <1>1, <1>2 DEF FileHoldsItsRun, Owns

-----------------------------------------------------------------------------
(* Damage *)

LEMMA EmptyIsTidy ==
  ASSUME NEW c \in Seq(Unit), ToSet(c) = {}
  PROVE  Tidy(c)
<1>1. Len(c) = 0
  <2>1. Len(c) \in Nat /\ DOMAIN c = 1 .. Len(c)
    OBVIOUS
  <2>2. Len(c) # 0 => c[1] \in ToSet(c)
    BY <2>1 DEF ToSet
  <2> QED
    BY <2>1, <2>2
<1> QED
  BY <1>1 DEF Tidy

LEMMA UnitsAppended ==
  \A c, d \in Seq(Unit) :
    /\ Len(c \o d) = Len(c) + Len(d)
    /\ \A k \in 1 .. Len(c) : (c \o d)[k] = c[k]
    /\ \A k \in 1 .. Len(d) : (c \o d)[Len(c) + k] = d[k]
BY Appended

LEMMA WholeIsTidy ==
  ASSUME NEW c \in Seq(Unit), NEW d \in Seq(Unit), Tidy(c),
         Len(d) = 2, d[1].part = "head", d[2].part = "body", d[1].addr = d[2].addr
  PROVE  Tidy(c \o d)
<1>1. /\ Len(c) \in Nat /\ Len(c) % 2 = 0 /\ Len(c \o d) = Len(c) + 2
      /\ \A k \in 1 .. Len(c) : (c \o d)[k] = c[k]
      /\ (c \o d)[Len(c) + 1] = d[1] /\ (c \o d)[Len(c) + 2] = d[2]
  <2>1. Len(c) \in Nat /\ 1 \in 1 .. Len(d) /\ 2 \in 1 .. Len(d)
    OBVIOUS
  <2>2. /\ Len(c \o d) = Len(c) + Len(d)
        /\ \A k \in 1 .. Len(c) : (c \o d)[k] = c[k]
        /\ \A k \in 1 .. Len(d) : (c \o d)[Len(c) + k] = d[k]
    BY UnitsAppended
  <2>3. (c \o d)[Len(c) + 1] = d[1] /\ (c \o d)[Len(c) + 2] = d[2]
    BY <2>1, <2>2
  <2> QED
    BY <2>1, <2>2, <2>3 DEF Tidy
<1> DEFINE L == Len(c)
           e == c \o d
<1>2. L \in Nat /\ L % 2 = 0 /\ Len(e) = L + 2
  BY <1>1
<1> HIDE DEF L, e
<1>3. /\ (L + 2) % 2 = 0
      /\ \A k \in 1 .. (L + 2) \div 2 :
           \/ k \in 1 .. L \div 2 /\ 2 * k - 1 \in 1 .. L /\ 2 * k \in 1 .. L
           \/ 2 * k - 1 = L + 1 /\ 2 * k = L + 2
  BY <1>2
<1>4. ASSUME NEW k \in 1 .. (L + 2) \div 2
      PROVE  Whole(<<e[2 * k - 1], e[2 * k]>>)
  <2>1. CASE k \in 1 .. L \div 2 /\ 2 * k - 1 \in 1 .. L /\ 2 * k \in 1 .. L
    <3>1. e[2 * k - 1] = c[2 * k - 1] /\ e[2 * k] = c[2 * k]
      BY <1>1, <2>1 DEF e, L
    <3>2. Whole(<<c[2 * k - 1], c[2 * k]>>)
      BY <2>1 DEF Tidy, L
    <3> QED
      BY <3>1, <3>2
  <2>2. CASE 2 * k - 1 = L + 1 /\ 2 * k = L + 2
    <3>1. e[2 * k - 1] = d[1] /\ e[2 * k] = d[2]
      BY <1>1, <2>2 DEF e, L
    <3> QED
      BY <3>1 DEF Whole
  <2> QED
    BY <1>3, <2>1, <2>2
<1> QED
  BY <1>2, <1>3, <1>4 DEF Tidy, e

LEMMA HurtGrows == Typed /\ [Next]_vars => hurt \subseteq hurt'
<1> SUFFICES ASSUME Typed, [Next]_vars PROVE hurt \subseteq hurt'
  OBVIOUS
<1> QED
  BY Steps DEF Typed, Toggle, Accept, TelescopeDone, HarvesterDone, Starts, Writes,
               Stops, vars

LEMMA NextContained ==
  Typed /\ FilesTyped /\ Opened /\ Contained /\ [Next]_vars => Contained'
<1> SUFFICES ASSUME Typed, FilesTyped, Opened, Contained, [Next]_vars,
                    NEW n \in DOMAIN files'
             PROVE  Tidy(files'[n]) \/ \A u \in Units(n)' : Spoiled(n, u)'
  BY DEF Contained
<1>1. files'[n] \in Seq(Unit)
  BY NextFiles DEF FilesTyped
<1>2. CASE Units(n)' = {}
  BY <1>1, <1>2, EmptyIsTidy DEF Units
<1>3. CASE n \in DOMAIN files /\ files'[n] = files[n]
  <2>1. Units(n)' = Units(n)
    BY <1>3 DEF Units
  <2>2. \A u : Spoiled(n, u) => Spoiled(n, u)'
    BY HurtGrows DEF Spoiled
  <2> QED
    BY <1>3, <2>1, <2>2 DEF Contained
<1>4. ASSUME NEW l \in listeners, NEW unit,
             Writes(l, unit), n = l.file, n \in DOMAIN files,
             unit \in Seq(Unit), files'[n] = files[n] \o unit, files[n] \in Seq(Unit),
             Units(n)' = Units(n) \cup ToSet(unit),
             \A u \in ToSet(unit) : u.run = runs /\ u.addr = l.addr
      PROVE  Tidy(files'[n]) \/ \A u \in Units(n)' : Spoiled(n, u)'
  <2>1. \A u \in Units(n)' : u.run = runs /\ (n[1].pos # NoPos => u.addr = l.addr)
    BY <1>4 DEF Opened
  <2>2. CASE hurt' = hurt \cup {<<runs, l.addr>>}
    <3>1. ASSUME NEW u \in Units(n)' PROVE Spoiled(n, u)'
      <4>1. <<runs, l.addr>> \in hurt'
        BY <2>2
      <4> QED
        BY <2>1, <4>1 DEF Spoiled
    <3> QED
      BY <3>1
  <2>3. CASE /\ Len(unit) = 2 /\ unit[1].part = "head" /\ unit[2].part = "body"
             /\ hurt' = hurt
    <3>1. CASE Tidy(files[n])
      <4>1. unit[1].addr = unit[2].addr
        <5>1. 1 \in 1 .. Len(unit) /\ 2 \in 1 .. Len(unit)
          BY <2>3
        <5> QED
          BY <1>4, <5>1 DEF Writes
      <4> QED
        BY <1>4, <2>3, <3>1, <4>1, WholeIsTidy
    <3>2. CASE ~Tidy(files[n])
      <4>1. PICK u \in Units(n) : Spoiled(n, u)
        <5>1. Units(n) # {}
          BY <1>4, <3>2, EmptyIsTidy DEF Units
        <5> QED
          BY <1>4, <3>2, <5>1 DEF Contained
      <4>2. u.run = runs /\ (n[1].pos # NoPos => u.addr = l.addr)
        BY <1>4, <2>1
      <4>3. \A v \in Units(n)' : Spoiled(n, v)'
        BY <2>1, <2>3, <4>1, <4>2 DEF Spoiled
      <4> QED
        BY <4>3
    <3> QED
      BY <3>1, <3>2
  <2> QED
    BY <1>4, <2>2, <2>3 DEF Writes
<1> QED
  BY <1>2, <1>3, <1>4, UnitSteps

LEMMA ContainedIsEnough == FilesTyped /\ Contained => DamageIsContained
<1> SUFFICES ASSUME FilesTyped, Contained, NEW n \in DOMAIN files,
                    NEW r \in ToSet(Records(files[n]))
             PROVE  \/ Whole(r)
                    \/ \A u \in {r[1], r[2]} : \E h \in hurt :
                         h[1] = u.run /\ (n[1].pos # NoPos => h[2] = u.addr)
  BY DEF DamageIsContained
<1> DEFINE c == files[n]
<1>1. c \in Seq(Unit) /\ Len(c) \in Nat /\ DOMAIN c = 1 .. Len(c)
  <2>1. c \in Seq(Unit)
    BY DEF FilesTyped
  <2> QED
    BY <2>1
<1>2. PICK k \in 1 .. Len(c) \div 2 : r = <<c[2 * k - 1], c[2 * k]>>
  BY DEF ToSet, Records
<1>3. 2 * k - 1 \in DOMAIN c /\ 2 * k \in DOMAIN c
  <2> HIDE DEF c
  <2> QED
    BY <1>1
<1>4. c[2 * k - 1] \in Units(n) /\ c[2 * k] \in Units(n)
  BY <1>3 DEF Units, ToSet
<1> QED
  BY <1>2, <1>4 DEF Contained, Tidy, Spoiled

-----------------------------------------------------------------------------
(* A list that the preflight check passes *)

GoodState ==
  CheckPasses(file) /\ OnlyRemoved /\ Distinct(file) /\ ~TooLong(file)

LEMMA PresentBefore ==
  ASSUME Typed, GoodState, NEW p \in SetupJobs(globalState)
  PROVE  /\ p[1] \in DOMAIN file /\ ~file[p[1]].missing
         /\ file[p[1]].number = globalState[p[1]].number
<1>1. p[1] \in DOMAIN globalState /\ ~globalState[p[1]].missing
  BY JobsTyped DEF Typed
<1>2. p[1] \in DOMAIN file /\ file[p[1]].number = globalState[p[1]].number
  BY <1>1 DEF Typed, Alike
<1> QED
  BY <1>1, <1>2 DEF GoodState, OnlyRemoved

LEMMA GoodTelescope ==
  ASSUME Typed, GoodState, NEW p \in SetupJobs(globalState)
  PROVE  globalState[p[1]].number \in 1 .. TelSlots
BY PresentBefore DEF GoodState, CheckPasses

LEMMA GoodBoard ==
  ASSUME Typed, GoodState, NEW p \in Visited(globalState)
  PROVE  /\ Distinct(globalState) /\ globalState \in Lists
         /\ p \in Places(globalState)
         /\ BoardOf(globalState, p) = BoardAt(globalState, p)
         /\ BoardAt(globalState, p).pos \in 0 .. Slots - 1
         /\ BoardAt(globalState, p).fits
         /\ BoardAt(globalState, p).addr \in LocalAddrs
<1>1. /\ Distinct(globalState) /\ globalState \in Lists /\ Alike(globalState, file)
  BY AlikeDistinct DEF Typed, GoodState
<1>2. /\ p \in Places(globalState) /\ ~BoardAt(globalState, p).missing
      /\ BoardOf(globalState, p) = BoardAt(globalState, p)
  BY <1>1, FoundInDistinct
<1>3. /\ p \in Places(file) /\ p[1] \in DOMAIN file /\ p[2] \in DOMAIN file[p[1]].boards
      /\ BoardAt(globalState, p).pos = BoardAt(file, p).pos
      /\ BoardAt(globalState, p).addr = BoardAt(file, p).addr
      /\ BoardAt(globalState, p).fits = BoardAt(file, p).fits
  BY <1>1, <1>2, AlikeBoards
<1>4. ~BoardAt(file, p).missing
  BY <1>2, <1>3 DEF GoodState, OnlyRemoved, BoardAt
<1>5. p \in SetupJobs(globalState)
  BY DEF SetupJobs
<1>6. p \in PresentBoards(file)
  BY <1>3, <1>4, <1>5, PresentBefore DEF PresentBoards
<1> QED
  BY <1>1, <1>2, <1>3, <1>6 DEF GoodState, CheckPasses

LEMMA TelescopeGoesWell ==
  ASSUME Typed, GoodState, SetupTelescope
  PROVE  outcome' \in {outcome, "disk"}
<1>1. PICK p \in jobs :
        \/ Abort("disk") \/ outcome' = outcome
        \/ globalState[p[1]].number \notin 1 .. TelSlots
  BY DEF SetupTelescope
<1>2. globalState[p[1]].number \in 1 .. TelSlots
  BY GoodTelescope DEF Typed
<1> QED
  BY <1>1, <1>2 DEF Abort

LEMMA HarvesterGoesWell ==
  ASSUME Typed, DoneFirst, AllHeard, GoodState, SetupHarvester
  PROVE  outcome' \in {outcome, "disk"}
<1>1. PICK p \in jobs :
        /\ SetupStep(p) /\ p[2] # 0
        /\ LET tel  == globalState[p[1]].number
               addr == BoardOf(globalState, p).addr
               pos  == GetHarvesterLocalPositionFromIP(globalState, addr)
           IN  \/ Abort("disk") \/ outcome' = outcome
               \/ pos \notin 0 .. Slots - 1
               \/ ~ChannelFits(globalState, tel, pos)
               \/ addr \notin LocalAddrs \/ addr \in Bound
  BY DEF SetupHarvester
<1>2. p \in Visited(globalState)
  BY <1>1, JobsTyped DEF Typed
<1> DEFINE b == BoardAt(globalState, p)
<1>3. /\ Distinct(globalState) /\ globalState \in Lists /\ p \in Places(globalState)
      /\ BoardOf(globalState, p) = b
      /\ b.pos \in 0 .. Slots - 1 /\ b.fits /\ b.addr \in LocalAddrs
  BY <1>2, GoodBoard
<1>4. /\ GetHarvesterLocalPositionFromIP(globalState, b.addr) = b.pos
      /\ ChannelFits(globalState, globalState[p[1]].number, b.pos)
  BY <1>2, <1>3, FoundInDistinct
<1>5. b.addr \notin Bound
  <2>1. SUFFICES ASSUME NEW l \in listeners, l.addr = b.addr PROVE FALSE
    BY DEF Bound
  <2>2. PICK q \in Visited(globalState) \ jobs : Describes(l, q)
    BY <1>3 DEF AllHeard
  <2>3. q \in Places(globalState) /\ BoardAt(globalState, q).addr = b.addr
    BY <1>3, <2>1, <2>2, FoundInDistinct DEF Describes
  <2>4. q = p
    BY <1>3, <2>3 DEF Distinct
  <2> QED
    BY <1>1, <2>2, <2>4
<1> HIDE DEF b
<1> QED
  BY <1>1, <1>3, <1>4, <1>5 DEF Abort

LEMMA FitsTheArrays ==
  ASSUME Typed, GoodState
  PROVE  ~TooLong(globalState)
<1>1. /\ Distinct(globalState) /\ globalState \in Lists /\ Alike(globalState, file)
      /\ Distinct(file) /\ file \in Lists
  BY AlikeDistinct, RunFilesAssumption DEF Typed, GoodState, Lists
<1>2. Len(globalState) = Len(file)
  <2>1. DOMAIN globalState = DOMAIN file
    BY <1>1 DEF Alike
  <2>2. DOMAIN globalState = 1 .. Len(globalState) /\ Len(globalState) \in Nat
    BY <1>1, ListTyped
  <2>3. DOMAIN file = 1 .. Len(file) /\ Len(file) \in Nat
    BY <1>1, ListTyped
  <2>4. \A m, n \in Nat : 1 .. m = 1 .. n => m = n
    <3> SUFFICES ASSUME NEW m \in Nat, NEW n \in Nat, 1 .. m = 1 .. n PROVE m = n
      OBVIOUS
    <3>1. \A k \in Nat \ {0} : k \in 1 .. m <=> k \in 1 .. n
      OBVIOUS
    <3> QED
      BY <3>1
  <2> QED
    BY <2>1, <2>2, <2>3, <2>4
<1>3. ASSUME NEW s \in Lists, Distinct(s), NEW i \in DOMAIN s
      PROVE  EntryOf(s, s[i].number) = s[i]
  BY <1>3, FirstEntry DEF Distinct
<1>4. ASSUME NEW i \in GetTelescopesPresentInt(globalState)
      PROVE  ~(Len(EntryOf(globalState, globalState[i].number).boards) > Slots)
  <2>1. i \in DOMAIN globalState /\ ~globalState[i].missing
    BY DEF GetTelescopesPresentInt
  <2>2. i \in DOMAIN file /\ DOMAIN globalState[i].boards = DOMAIN file[i].boards
    BY <1>1, <2>1 DEF Alike
  <2>3. i \in GetTelescopesPresentInt(file)
    BY <2>1, <2>2 DEF GetTelescopesPresentInt, GoodState, OnlyRemoved
  <2>4. ~(Len(file[i].boards) > Slots)
    BY <1>1, <1>3, <2>2, <2>3 DEF GoodState, TooLong
  <2>5. Len(globalState[i].boards) = Len(file[i].boards)
    <3>1. file[i].boards \in Seq(HarvesterState)
      BY <1>1, <2>2, ListTyped
    <3>2. globalState[i].boards \in Seq(HarvesterState)
      BY <1>1, <2>1, ListTyped
    <3> QED
      BY <2>2, <3>1, <3>2
  <2> QED
    BY <1>1, <1>3, <2>1, <2>4, <2>5
<1> QED
  BY <1>2, <1>4 DEF TooLong, GoodState

LEMMA NextChecked ==
  Typed /\ DoneFirst /\ AllHeard /\ CheckedStateSetsUp /\ [Next]_vars
    => CheckedStateSetsUp'
<1> SUFFICES ASSUME Typed, DoneFirst, AllHeard, CheckedStateSetsUp, [Next]_vars,
                    outcome' \in {"state", "panic"}, GoodState'
             PROVE  FALSE
  BY DEF CheckedStateSetsUp, GoodState
<1>1. globalState' = globalState => GoodState
  <2>1. file' = file
    BY FileKept
  <2> QED
    BY <2>1 DEF GoodState, OnlyRemoved
<1>2. GoodState => outcome \notin {"state", "panic"}
  BY DEF CheckedStateSetsUp, GoodState
<1>3. CASE Toggle \/ Receive \/ UNCHANGED vars
  BY <1>1, <1>2, <1>3 DEF Toggle, Receive, vars
<1>4. CASE StartRun \/ Listen
  BY <1>4 DEF StartRun, Listen, RequestListen, Accept
<1>5. CASE EndRun \/ Crash
  BY <1>1, <1>2, <1>5 DEF EndRun, Crash, Close
<1>6. CASE SetupTelescope
  <2>1. globalState' = globalState
    BY <1>6 DEF SetupTelescope, Abort, Close
  <2> QED
    BY <1>1, <1>2, <1>6, <2>1, TelescopeGoesWell
<1>7. CASE SetupHarvester
  <2>1. globalState' = globalState
    BY <1>7 DEF SetupHarvester, Abort, Close
  <2> QED
    BY <1>1, <1>2, <1>7, <2>1, HarvesterGoesWell
<1>8. CASE Spawn
  <2>1. globalState' = globalState /\ (TooLong(globalState) \/ outcome' = outcome)
    BY <1>8 DEF Spawn, Close
  <2> QED
    BY <1>1, <1>2, <2>1, FitsTheArrays
<1> QED
  BY <1>3, <1>4, <1>5, <1>6, <1>7, <1>8 DEF Next

-----------------------------------------------------------------------------

LEMMA InitFiles == Init => FilesInv
<1> SUFFICES ASSUME Init PROVE FilesInv
  OBVIOUS
<1>1. files = <<>> /\ listeners = {} /\ jobs = {} /\ phase = "idle" /\ outcome = "none"
  BY DEF Init
<1>2. DOMAIN files = {}
  BY <1>1
<1>3. FilesTyped
  BY <1>2, FS_EmptySet DEF FilesTyped
<1>4. FileHoldsItsRun /\ Contained
  BY <1>2 DEF FileHoldsItsRun, Contained
<1>5. DoneFirst /\ SharedFile /\ Opened /\ WellNamed /\ CheckedStateSetsUp
  BY <1>1 DEF DoneFirst, SharedFile, Opened, WellNamed, CheckedStateSetsUp
<1> QED
  BY <1>3, <1>4, <1>5, InitTyped, InitHeard DEF FilesInv

(* The inductive invariant: the lists differ in marks only, the set-up     *)
(* goes through its places in order, the listeners are those of the places *)
(* gone through, an open file holds what its listeners wrote in this run,  *)
(* and a file is whole packets or spoiled (startHarvestersForRun,          *)
(* createUniqueFile, startHarvesterListener).                              *)
THEOREM FilesInvariant == Spec => []FilesInv
<1>1. Init => FilesInv
  BY InitFiles
<1>2. FilesInv /\ [Next]_vars => FilesInv'
  BY NextTyped, NextFiles, NextDone, NextShared, NextOpened, NextHeard, NextNamed,
     NextHolds, NextContained, NextChecked DEF FilesInv
<1> QED
  BY <1>1, <1>2, PTL DEF Spec

(* createUniqueFile "never overwrites": no step takes away a file or what  *)
(* one holds, for any run numbers used again (ioutils.go).                 *)
THEOREM NothingLost == Spec => NothingOverwritten
<1>1. FilesInv /\ [Next]_vars =>
        [\A n \in DOMAIN files : n \in DOMAIN files' /\ IsPrefix(files[n], files'[n])]_vars
  BY NextKeepsFiles DEF FilesInv
<1> QED
  BY <1>1, FilesInvariant, PTL DEF Spec, NothingOverwritten

(* Every file holds packets of one run and, named after a board, of that   *)
(* board only (CreateRunFile, CreateHarvesterRunFile).                     *)
THEOREM FilesHoldTheirRun == Spec => []FileHoldsItsRun
<1>1. FilesInv => FileHoldsItsRun
  BY DEF FilesInv
<1> QED
  BY <1>1, FilesInvariant, PTL

(* A short packet or a lost write spoils no other run's file and, with one *)
(* file per board, no other board's (startHarvesterListener and the        *)
(* offline readers, which cut a file every 308 bytes).                     *)
THEOREM DamageStays == Spec => []DamageIsContained
<1>1. FilesInv => DamageIsContained
  BY ContainedIsEnough DEF FilesInv
<1> QED
  BY <1>1, FilesInvariant, PTL

(* A list that the preflight check passes never makes a run abort or the   *)
(* server panic, whatever has been marked missing since (check_state and   *)
(* startHarvestersForRun).                                                 *)
THEOREM CheckedStatesSetUp == Spec => []CheckedStateSetsUp
<1>1. FilesInv => CheckedStateSetsUp
  BY DEF FilesInv
<1> QED
  BY <1>1, FilesInvariant, PTL

(* The tool's test data reaches exactly the boards the run listens to,     *)
(* each under its own telescope and position (send_command.go, which looks *)
(* addresses up by position, and server.go, which does the reverse).       *)
THEOREM TestDataHeard == Spec => []TestDataIsHeard
<1>1. FilesInv => TestDataIsHeard
  <2> SUFFICES ASSUME FilesInv, phase = "run", Distinct(globalState)
               PROVE  TestTargets(globalState) =
                        {[tel |-> l.tel, pos |-> l.pos, addr |-> l.addr] : l \in listeners}
    BY DEF TestDataIsHeard
  <2> DEFINE At(p) == [tel  |-> globalState[p[1]].number,
                       pos  |-> BoardAt(globalState, p).pos,
                       addr |-> BoardAt(globalState, p).addr]
             Of(l) == [tel |-> l.tel, pos |-> l.pos, addr |-> l.addr]
  <2>1. globalState \in Lists /\ jobs = {}
    BY DEF FilesInv, Typed
  <2>2. TestTargets(globalState) = {At(p) : p \in Visited(globalState)}
    BY <2>1, FoundInDistinct DEF TestTargets
  <2>3. \A l, p : Describes(l, p) => Of(l) = At(p)
    BY DEF Describes
  <2>4. /\ \A l \in listeners : \E p \in Visited(globalState) : Describes(l, p)
        /\ \A p \in Visited(globalState) : \E l \in listeners : Describes(l, p)
    BY <2>1 DEF FilesInv, AllHeard
  <2> HIDE DEF At, Of
  <2>5. {At(p) : p \in Visited(globalState)} = {Of(l) : l \in listeners}
    BY <2>3, <2>4
  <2> QED
    BY <2>2, <2>5 DEF Of
<1> QED
  BY <1>1, FilesInvariant, PTL

-----------------------------------------------------------------------------
(* The records (Formats) *)

(* A reader takes fields out of the packet: what it does to them one after *)
(* the other makes fields again.                                           *)
LEMMA FieldIs ==
  ASSUME NEW f \in Int, NEW w \in Int
  PROVE  \A p : p \in Field(f, w) <=> \E j \in Int : 0 <= j /\ j < w /\ p = <<w - 1 - j, f + j>>
BY DEF Field

LEMMA BigEndianIs ==
  ASSUME NEW at \in Int, NEW bytes \in Int
  PROVE  BigEndian(at, bytes) = Field(8 * at, 8 * bytes)
BY DEF BigEndian, Field

LEMMA ShiftedRight ==
  ASSUME NEW f \in Int, NEW w \in Int, NEW k \in Int, 0 <= k, k <= w
  PROVE  Shr(Field(f, w), k) = Field(f, w - k)
<1>1. \A p : p \in Shr(Field(f, w), k) <=>
         \E j \in 0..w - 1 : w - 1 - j >= k /\ p = <<w - 1 - j - k, f + j>>
  <2>1. \A p : p \in Shr(Field(f, w), k) <=>
           \E q \in Field(f, w) : q[1] >= k /\ p = <<q[1] - k, q[2]>>
    BY DEF Shr
  <2>2. \A q : q \in Field(f, w) <=> \E j \in 0 .. w - 1 : q = <<w - 1 - j, f + j>>
    BY DEF Field
  <2>3. \A j : LET q == <<w - 1 - j, f + j>> IN q[1] = w - 1 - j /\ q[2] = f + j
    OBVIOUS
  <2>4. ASSUME NEW p, NEW q \in Field(f, w), q[1] >= k, p = <<q[1] - k, q[2]>>
        PROVE  \E j \in 0..w - 1 : w - 1 - j >= k /\ p = <<w - 1 - j - k, f + j>>
    <3>1. PICK j \in 0..w - 1 : q = <<w - 1 - j, f + j>>
      BY <2>2
    <3>2. q[1] = w - 1 - j /\ q[2] = f + j
      BY <3>1
    <3>3. QED
      BY <2>4, <3>2
  <2>5. ASSUME NEW p, NEW j \in 0..w - 1, w - 1 - j >= k, p = <<w - 1 - j - k, f + j>>
        PROVE  \E q \in Field(f, w) : q[1] >= k /\ p = <<q[1] - k, q[2]>>
    BY <2>2, <2>3, <2>5, Zenon
  <2>6. QED
    BY <2>1, <2>4, <2>5, Zenon
<1>2. \A p : p \in Field(f, w - k) <=> \E j \in 0 .. w - k - 1 : p = <<w - k - 1 - j, f + j>>
  BY DEF Field
<1>3. \A j : (j \in 0..w - 1 /\ w - 1 - j >= k) <=> j \in 0..w - k - 1
  OBVIOUS
<1>4. \A j \in 0..w-1 : w - 1 - j - k = w - k - 1 - j
  OBVIOUS
<1>5. QED
  BY <1>1, <1>2, <1>3, <1>4

LEMMA Lowest ==
  ASSUME NEW f \in Int, NEW w \in Int, NEW k \in Int, 0 <= k, k <= w
  PROVE  Low(Field(f, w), k) = Field(f + w - k, k)
<1>1. \A p : p \in Low(Field(f, w), k) <=>
         \E j \in 0..w - 1 : w - 1 - j < k /\ p = <<w - 1 - j, f + j>>
  BY DEF Low, Field
<1>2. \A p : p \in Field(f + w - k, k) <=> \E i \in 0 .. k - 1 : p = <<k - 1 - i, f + w - k + i>>
  BY DEF Field
<1>3. ASSUME NEW j \in 0..w-1, w - 1 - j < k
      PROVE  j - (w - k) \in 0..k-1 /\ w - 1 - j = k - 1 - (j - (w - k)) /\ f + j = f + w - k + (j - (w - k))
  BY <1>3
<1>4. ASSUME NEW i \in 0..k-1
      PROVE  i + (w - k) \in 0..w-1 /\ w - 1 - (i + (w - k)) < k
             /\ w - 1 - (i + (w - k)) = k - 1 - i /\ f + (i + (w - k)) = f + w - k + i
  OBVIOUS
<1>5. \A p : p \in Low(Field(f, w), k) => p \in Field(f + w - k, k)
  BY <1>1, <1>2, <1>3
<1>6. \A p : p \in Field(f + w - k, k) => p \in Low(Field(f, w), k)
  BY <1>1, <1>2, <1>4
<1>7. QED
  BY <1>5, <1>6

LEMMA Joined ==
  ASSUME NEW f \in Int, NEW a \in Int, NEW b \in Int, 0 <= a, 0 <= b
  PROVE  Shl(Field(f, a), b) \cup Field(f + a, b) = Field(f, a + b)
<1>1. \A p : p \in Shl(Field(f, a), b) <=> \E j \in 0 .. a - 1 : p = <<a - 1 - j + b, f + j>>
  <2>1. \A p : p \in Shl(Field(f, a), b) <=> \E q \in Field(f, a) : p = <<q[1] + b, q[2]>>
    BY DEF Shl
  <2>2. \A q : q \in Field(f, a) <=> \E j \in 0 .. a - 1 : q = <<a - 1 - j, f + j>>
    BY DEF Field
  <2>3. \A j : LET q == <<a - 1 - j, f + j>> IN q[1] = a - 1 - j /\ q[2] = f + j
    OBVIOUS
  <2>4. ASSUME NEW p, NEW q \in Field(f, a), p = <<q[1] + b, q[2]>>
        PROVE  \E j \in 0..a - 1 : p = <<a - 1 - j + b, f + j>>
    <3>1. PICK j \in 0..a - 1 : q = <<a - 1 - j, f + j>>
      BY <2>2
    <3>2. q[1] = a - 1 - j /\ q[2] = f + j
      BY <3>1
    <3>3. QED
      BY <2>4, <3>2
  <2>5. ASSUME NEW p, NEW j \in 0..a - 1, p = <<a - 1 - j + b, f + j>>
        PROVE  \E q \in Field(f, a) : p = <<q[1] + b, q[2]>>
    BY <2>2, <2>3, <2>5, Zenon
  <2>6. QED
    BY <2>1, <2>4, <2>5, Zenon
<1>2. \A p : p \in Field(f + a, b) <=> \E i \in 0 .. b - 1 : p = <<b - 1 - i, f + a + i>>
  BY DEF Field
<1>3. \A p : p \in Field(f, a + b) <=> \E j \in 0 .. a + b - 1 : p = <<a + b - 1 - j, f + j>>
  BY DEF Field
<1>4. ASSUME NEW j \in 0..a-1
      PROVE  j \in 0..a + b - 1 /\ a - 1 - j + b = a + b - 1 - j
  OBVIOUS
<1>5. ASSUME NEW i \in 0..b-1
      PROVE  i + a \in 0..a + b - 1 /\ b - 1 - i = a + b - 1 - (i + a) /\ f + a + i = f + (i + a)
  OBVIOUS
<1>6. ASSUME NEW j \in 0..a+b-1
      PROVE  \/ j \in 0..a - 1 /\ a - 1 - j + b = a + b - 1 - j
             \/ j - a \in 0..b-1 /\ b - 1 - (j - a) = a + b - 1 - j /\ f + a + (j - a) = f + j
  OBVIOUS
<1>7. \A p : p \in Field(f, a + b) => p \in Shl(Field(f, a), b) \cup Field(f + a, b)
  BY <1>1, <1>2, <1>3, <1>6
<1>8. \A p : p \in Shl(Field(f, a), b) => p \in Field(f, a + b)
  BY <1>1, <1>3, <1>4
<1>9. \A p : p \in Field(f + a, b) => p \in Field(f, a + b)
  BY <1>2, <1>3, <1>5
<1>10. QED
  BY <1>7, <1>8, <1>9

(* A number in halves of 16 bits is a whole one, 16 bits lower. *)
LEMMA DecimalIs ==
  ASSUME NEW f \in Int
  PROVE  /\ convert_to_decimal(Field(f, 32)) = {<<p[1] - 16, p[2]>> : p \in Field(f, 32)}
         /\ ConvertToDecimal(Field(f, 32)) = convert_to_decimal(Field(f, 32))
<1>1. \A p \in Field(f, 32) : p[1] \in Int
  <2> SUFFICES ASSUME NEW p \in Field(f, 32) PROVE p[1] \in Int
    OBVIOUS
  <2>1. PICK j \in 0..31 : p = <<31 - j, f + j>>
    BY DEF Field
  <2>2. QED
    BY <2>1
<1>2. \A p \in Field(f, 32) : p[1] >= 16 \/ p[1] < 16
  BY <1>1
<1>3. convert_to_decimal(Field(f, 32)) = {<<p[1] - 16, p[2]>> : p \in Field(f, 32)}
  BY <1>2 DEF convert_to_decimal, Shr, Low
<1>4. Low(Shr(Field(f, 32), 16), 16) = Shr(Field(f, 32), 16)
  <2>1. Shr(Field(f, 32), 16) = Field(f, 32 - 16)
    BY ShiftedRight
  <2>2. 32 - 16 = 16 /\ f + 16 - 16 = f
    OBVIOUS
  <2>3. Low(Field(f, 16), 16) = Field(f + 16 - 16, 16)
    BY Lowest
  <2>4. QED
    BY ONLY <2>1, <2>2, <2>3, Zenon
<1>5. QED
  BY <1>3, <1>4 DEF ConvertToDecimal, convert_to_decimal

(* The offsets of the readers are those of the fields. *)
LEMMA HeaderIs == Header(0, 4, 8, 12, 18, 20) = PacketHeader
<1>1. /\ BigEndian(0, 4) = Field(0, 32) /\ BigEndian(4, 4) = Field(32, 32)
      /\ BigEndian(8, 4) = Field(64, 32) /\ BigEndian(12, 2) = Field(96, 16)
      /\ BigEndian(12 + 2, 2) = Field(112, 16) /\ BigEndian(12 + 4, 2) = Field(128, 16)
      /\ BigEndian(18, 2) = Field(144, 16) /\ BigEndian(20, 8) = Field(160, 64)
  BY BigEndianIs
<1>2. Shr(Field(144, 16), 13) = Field(144, 3)
  BY ShiftedRight
<1>3. MaskOf(Field(144, 16), Field(160, 64)) = Field(154, 70)
  <2>1. Low(Field(144, 16), 6) = Field(154, 6)
    BY Lowest
  <2>2. Shl(Field(154, 6), 64) \cup Field(160, 64) = Field(154, 70)
    BY Joined
  <2>3. QED
    BY <2>1, <2>2 DEF MaskOf
<1>4. QED
  BY ONLY <1>1, <1>2, <1>3, Zenon DEF Header, PacketHeader, Timestamp

LEMMA VariancesAre ==
  ASSUME NEW c \in Channels
  PROVE  /\ BigEndian(28 + c * 4, 4) = Field(224 + 32 * c, 32)
         /\ Variances(28)[c] = Packet.data[c]
         /\ ConvertByteArrayToDecimals(28)[c] = Packet.data[c]
<1>1. c \in Int
  BY DEF Channels
<1>2. BigEndian(28 + c * 4, 4) = Field(224 + 32 * c, 32)
  BY <1>1, BigEndianIs
<1>3. BigEndian(28 + c * 4, 4) = BigEndian(28 + c * 4, 4) /\ 224 + 32 * c \in Int
  BY <1>1
<1>4. QED
  BY <1>2, <1>3, DecimalIs DEF Variances, Packet, ConvertByteArrayToDecimals

LEMMA MaskBit ==
  ASSUME NEW c \in Channels
  PROVE  BitAt(PacketHeader.ch_mask_bits, 69 - c) = ChannelMasked(c)
<1>1. c \in 0..69
  BY DEF Channels
<1>2. Shr(Field(154, 70), 69 - c) = Field(154, c + 1)
  <2>1. 69 - c \in Int /\ 0 <= 69 - c /\ 69 - c <= 70 /\ 70 - (69 - c) = c + 1
    BY <1>1
  <2>2. QED
    BY <2>1, ShiftedRight
<1>3. Low(Field(154, c + 1), 1) = Field(154 + c, 1)
  <2>1. c + 1 \in Int /\ 1 <= c + 1 /\ 154 + (c + 1) - 1 = 154 + c
    BY <1>1
  <2>2. QED
    BY <2>1, Lowest
<1>4. Field(154 + c, 1) = {<<0, 154 + c>>}
  <2>1. Field(154 + c, 1) = {<<1 - 1 - j, 154 + c + j>> : j \in 0 .. 1 - 1}
    BY DEF Field
  <2>2. 0 .. 1 - 1 = {0} /\ 1 - 1 - 0 = 0 /\ 154 + c + 0 = 154 + c
    BY <1>1
  <2>3. QED
    BY <2>1, <2>2
<1>5. QED
  BY <1>2, <1>3, <1>4 DEF BitAt, PacketHeader, ChannelMasked

LEMMA DiagnosticsAre ==
  ASSUME NEW c \in Channels
  PROVE  PassthroughSums(c) = DiagnosticSums(c)
<1> DEFINE f == 224 + 64 * c
<1>1. c \in Int /\ f \in Int
  BY DEF Channels
<1>2. BigEndian(28 + c * 8, 4) = Field(f, 32) /\ BigEndian(28 + c * 8 + 4, 4) = Field(f + 32, 32)
  BY <1>1, BigEndianIs
<1> HIDE DEF f
<1>3. Shr(Field(f, 32), 16) = Field(f, 16) /\ Shr(Field(f, 32), 5) = Field(f, 27)
  BY <1>1, ShiftedRight
<1>4. /\ Low(Field(f, 16), 16) = Field(f, 16) /\ Low(Field(f, 27), 11) = Field(f + 16, 11)
      /\ Low(Field(f, 32), 3) = Field(f + 29, 3)
  <2>1. f + 16 - 16 = f /\ f + 27 - 11 = f + 16 /\ f + 32 - 3 = f + 29
    BY <1>1
  <2>2. Low(Field(f, 16), 16) = Field(f + 16 - 16, 16)
    BY <1>1, Lowest
  <2>3. Low(Field(f, 27), 11) = Field(f + 27 - 11, 11)
    BY <1>1, Lowest
  <2>4. Low(Field(f, 32), 3) = Field(f + 32 - 3, 3)
    BY <1>1, Lowest
  <2>5. QED
    BY <2>1, <2>2, <2>3, <2>4
<1>5. /\ Shl(Field(f, 16), 11) \cup Field(f + 16, 11) = Field(f, 27)
      /\ Shl(Field(f + 29, 3), 32) \cup Field(f + 32, 32) = Field(f + 29, 35)
  BY <1>1, Joined
<1>6. PassthroughSums(c) = [sum |-> Field(f, 27), sum_sq |-> Field(f + 29, 35)]
  BY <1>2, <1>3, <1>4, <1>5 DEF PassthroughSums
<1>7. QED
  BY <1>6 DEF DiagnosticSums, f

(* The server's number is the offline readers' with its bytes reversed.    *)
LEMMA NumberReversed == extractEventNumber = BytesReversed(PacketHeader.number, 4)
<1> DEFINE little == {<<8 * i + 7 - b, 8 * i + b>> : i \in 0..3, b \in 0..7}
           swapped == {<<8 * (3 - (31 - j) \div 8) + ((31 - j) % 8), j>> : j \in 0..31}
<1>1. extractEventNumber = little
  BY DEF extractEventNumber, ParseDWord0, LittleEndian
<1>2. BytesReversed(PacketHeader.number, 4) = swapped
  <2>1. PacketHeader.number = {<<31 - j, j>> : j \in 0..31}
    BY DEF PacketHeader, Field
  <2> DEFINE Moved(p) == <<8 * (3 - p[1] \div 8) + (p[1] % 8), p[2]>>
             At(j) == <<8 * (3 - (31 - j) \div 8) + ((31 - j) % 8), j>>
  <2>2. BytesReversed(PacketHeader.number, 4) = {Moved(p) : p \in {<<31 - j, j>> : j \in 0..31}}
    BY <2>1 DEF BytesReversed
  <2>3. \A j \in 0..31 : Moved(<<31 - j, j>>) = At(j)
    OBVIOUS
  <2>4. swapped = {At(j) : j \in 0..31}
    OBVIOUS
  <2> HIDE DEF Moved, At, swapped
  <2>5. QED
    BY <2>2, <2>3, <2>4
<1>3. ASSUME NEW i \in 0..3, NEW b \in 0..7
      PROVE  /\ 8 * i + b \in 0..31
             /\ 8 * (3 - (31 - (8 * i + b)) \div 8) + ((31 - (8 * i + b)) % 8) = 8 * i + 7 - b
  OBVIOUS
<1>4. ASSUME NEW j \in 0..31
      PROVE  /\ j \div 8 \in 0..3 /\ j % 8 \in 0..7 /\ j = 8 * (j \div 8) + (j % 8)
  OBVIOUS
<1>5. little \subseteq swapped
  BY <1>3
<1>6. swapped \subseteq little
  <2> SUFFICES ASSUME NEW j \in 0..31
               PROVE  <<8 * (3 - (31 - j) \div 8) + ((31 - j) % 8), j>> \in little
    OBVIOUS
  <2>1. PICK i \in 0..3, b \in 0..7 : j = 8 * i + b
    BY <1>4
  <2>2. 8 * (3 - (31 - j) \div 8) + ((31 - j) % 8) = 8 * i + 7 - b
    BY <1>3, <2>1
  <2>3. QED
    BY <2>1, <2>2
<1>7. QED
  BY <1>1, <1>2, <1>5, <1>6

(* Four readers, the mask in FITS, the server and the generator, and the   *)
(* diagnostic packets: all take the same bits, and the server and the      *)
(* generator those of the number in another order.                         *)
LEMMA AllReadAlike == ReadersAgree
<1>1. /\ \A c \in Channels : Variances(28)[c] = Packet.data[c]
      /\ \A c \in Channels : ConvertByteArrayToDecimals(28)[c] = Packet.data[c]
  BY VariancesAre
<1>2. Variances(28) = Packet.data /\ ConvertByteArrayToDecimals(28) = Packet.data
  BY <1>1 DEF Variances, ConvertByteArrayToDecimals, Packet
<1>3. Packet = [header |-> PacketHeader, data |-> Variances(28)]
  BY <1>2 DEF Packet
<1>4. /\ Packet = parse_data_from_event /\ Packet = extract_data
      /\ Packet = extract_data_from_chunk
      /\ Packet = [header |-> RootHeader, data |-> RootVariances]
      /\ RootHeader = PacketHeader
  BY <1>3, HeaderIs
     DEF parse_data_from_event, extract_data, extract_data_from_chunk, RootHeader, RootVariances
<1>5. \A c \in Channels : ChannelMasked(c) = DataProcessorMask[c] /\ ChannelMasked(c) = RootMask[c]
  BY HeaderIs, MaskBit DEF DataProcessorMask, RootMask, extract_data, RootHeader
<1>6. LET fits == FitsColumns(PacketHeader.ch_mask_bits)
      IN  reconstruct_channel_mask(fits.low, fits.high) = PacketHeader.ch_mask_bits
  <2>1. Low(Field(154, 70), 64) = Field(160, 64)
    BY Lowest
  <2>2. Shr(Field(154, 70), 64) = Field(154, 6)
    BY ShiftedRight
  <2>3. Shl(Field(154, 6), 64) \cup Field(160, 64) = Field(154, 70)
    BY Joined
  <2>4. QED
    BY <2>1, <2>2, <2>3 DEF FitsColumns, reconstruct_channel_mask, PacketHeader
<1>7. extractEventNumber = GeneratedNumber
  BY DEF extractEventNumber, ParseDWord0, GeneratedNumber
<1>8. PassthroughHeader = PacketHeader
  BY HeaderIs DEF PassthroughHeader
<1>9. QED
  BY <1>2, <1>4, <1>5, <1>6, <1>7, <1>8, NumberReversed, DiagnosticsAre DEF ReadersAgree

(* Every reader of a file or a diagnostic packet takes the same bits for   *)
(* the same field, each with offsets and shifts of its own; the event      *)
(* number the server picks events by is the one the offline readers find in*)
(* the record with its bytes reversed (utility_functions.py,               *)
(* root_converter.py, passthrough_test.py, data_parsing.go, server.go:672).*)
THEOREM RecordsAlike == Spec => []RecordsReadAlike
<1>1. RecordsReadAlike
  BY AllReadAlike DEF RecordsReadAlike
<1>2. QED
  BY <1>1, PTL

=============================================================================
