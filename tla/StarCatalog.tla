---------------------------- MODULE StarCatalog ----------------------------
(***************************************************************************)
(* The star catalogue: how four published tables are joined into one file  *)
(* (scripts/build_star_catalog.py), and what the overlay makes of a star   *)
(* of it (gui/star_field.py).  Where a star is on the sky is left out.     *)
(*                                                                         *)
(* A sky is what the four servers answer: tables hipparcos, bsc, sao and   *)
(* csn, each a sequence of records.  A number that is not there is None,   *)
(* a name that is not there <<>>; otherwise a name is a sequence of words. *)
(***************************************************************************)
EXTENDS Integers, Sequences, FiniteSets, SequencesExt

None == -1

Words == Seq(STRING)
Star  == [hip : Int, hd : Int, vmag : Int, placed : BOOLEAN]
Name  == [flam : Words, bayer : Words, sup : Words, con : Words] \cup [other : Words, con : Words]
Bsc   == [hr : Int, hd : Int, sao : Int, name : Name]
Sao   == [hd : Int, sao : Int]
Csn   == [hip : Int, proper_name : Words, bayer : Words, sup : Words, con : Words, tail : BOOLEAN]

(* Hipparcos has a number for each star; any other key may come twice.     *)
IsSky(sky) ==
  /\ sky \in [hipparcos : Seq(Star), bsc : Seq(Bsc), sao : Seq(Sao), csn : Seq(Csn)]
  /\ \A i, j \in DOMAIN sky.hipparcos :
       sky.hipparcos[i].hip # None /\ sky.hipparcos[i].hip = sky.hipparcos[j].hip => i = j

Line == [name : Words \ {<<>>}, vmag : Int]

(* Rows are known by their place in the table, as the first of several     *)
(* counts.                                                                 *)
RowsAt(table, places) == {table[i] : i \in places}

(* vizier_tsv: a row without its first column is no row. *)
vizier_tsv(table, first) == {i \in DOMAIN table : table[i][first] # None}

(* Mutant: rows with no HD number stay, and join stars with none. *)
KeepFirst_KeepsBlanks(table, rows, key) ==
  RowsAt(table, {j \in rows : \A k \in rows : k < j => table[k][key] # table[j][key]})

(* dropna and drop_duplicates(keep='first'). *)
KeepFirst(table, rows, key) ==
  RowsAt(table, {j \in rows : /\ table[j][key] # None
                              /\ \A k \in rows : k < j => table[k][key] # table[j][key]})

(* A star without a position cannot be drawn. *)
fetch_hipparcos(sky) ==
  RowsAt(sky.hipparcos, {i \in vizier_tsv(sky.hipparcos, "hip") : sky.hipparcos[i].placed})
fetch_bsc(sky) == KeepFirst(sky.bsc, vizier_tsv(sky.bsc, "hr"), "hd")
fetch_sao(sky) == KeepFirst(sky.sao, vizier_tsv(sky.sao, "sao"), "hd")

(* parse_iau_csn: a line is a record if the end of it can be read; too few *)
(* HIP numbers are taken for a change of the layout, and no record at all  *)
(* is an error of its own, of a table without columns.                     *)
CsnRecords(sky) == {i \in DOMAIN sky.csn : sky.csn[i].tail}
WithHip(sky) == {i \in CsnRecords(sky) : sky.csn[i].hip # None}
CsnReadable(sky) ==
  CsnRecords(sky) # {} /\ 10 * Cardinality(WithHip(sky)) >= 8 * Cardinality(CsnRecords(sky))
fetch_iau_names(sky) == KeepFirst(sky.csn, WithHip(sky), "hip")

(* merge(how='left'): to pandas a missing key is a key like any other. *)
Left(table, key, value, blank) ==
  LET found == {r \in table : r[key] = value}
  IN  IF found = {} THEN {blank} ELSE found

GREEK == [alp |-> "alpha", alf |-> "alpha", the |-> "theta", tet |-> "theta"]
NOT_GREEK == {"nov", "ngc"}

(* The BSC's name of a star is [flam, bayer, sup, con], where flam, bayer  *)
(* and sup may be <<>>, or [other, con] if it is nothing of the kind; the  *)
(* IAU's is [bayer, sup] and a constellation.                              *)
NoName == [flam |-> <<>>, bayer |-> <<>>, sup |-> <<>>, con |-> <<>>]
Greek(bayer) == bayer # <<>> /\ bayer[1] \in DOMAIN GREEK
Word(bayer) == IF Greek(bayer) THEN <<GREEK[bayer[1]]>> ELSE bayer

clean_bayer_flamsteed(name, csn, constellation) ==
  LET con == IF constellation # <<>> THEN constellation ELSE name.con
  IN  IF Greek(csn.bayer) THEN Word(csn.bayer) \o csn.sup \o constellation
      ELSE IF name = NoName THEN <<>>
      ELSE IF "other" \in DOMAIN name THEN name.other \o con
      ELSE IF name.bayer # <<>>
        THEN (IF name.bayer[1] \in NOT_GREEK THEN name.bayer ELSE Word(name.bayer))
               \o name.sup \o con
      ELSE name.flam \o con

NoBsc == [hd |-> None, hr |-> None, sao |-> None, name |-> NoName]
NoSao == [hd |-> None, sao |-> None]
NoCsn == [hip |-> None, proper_name |-> <<>>, bayer |-> <<>>, sup |-> <<>>, con |-> <<>>]

Row(star, b, s, c) ==
  [hip |-> star.hip, vmag |-> star.vmag, hd |-> star.hd, hr |-> b.hr,
   sao |-> IF b.sao # None THEN b.sao ELSE s.sao,
   proper_name |-> c.proper_name, constellation |-> c.con,
   bayer_flamsteed |-> clean_bayer_flamsteed(b.name, c, c.con)]

(* The order of the rows, by magnitude, is left out. *)
build(sky) ==
  UNION {{Row(star, b, s, c) : b \in Left(fetch_bsc(sky), "hd", star.hd, NoBsc),
                               s \in Left(fetch_sao(sky), "hd", star.hd, NoSao),
                               c \in Left(fetch_iau_names(sky), "hip", star.hip, NoCsn)}
           : star \in fetch_hipparcos(sky)}

Absent(key, value) ==
  value = IF key \in {"proper_name", "bayer_flamsteed", "constellation"} THEN <<>> ELSE None
coverage(rows, key) == Cardinality({r \in rows : ~Absent(key, r[key])})

(* report and main: an identifier that fell short by more than a tenth     *)
(* keeps the file as it was, unless the operator forces it.                *)
Shortfalls(rows, expected) ==
  {key \in DOMAIN expected : 10 * coverage(rows, key) < 9 * expected[key]}
Written(sky, expected, force, old) ==
  IF ~CsnReadable(sky) \/ (Shortfalls(build(sky), expected) # {} /\ ~force)
  THEN old ELSE build(sky)

-----------------------------------------------------------------------------
(* What the overlay makes of a row *)

NotBuilt == {}   \* there is no catalogue file

(* The catalogue of older checkouts: lines of a name, a place and mostly a *)
(* magnitude.                                                              *)
load_legacy(lines) ==
  {[hip |-> None, vmag |-> line.vmag, hd |-> None, hr |-> None, sao |-> None,
    proper_name |-> <<>>, constellation |-> <<>>, bayer_flamsteed |-> line.name] : line \in lines}

load_star_catalog(file, lines) == IF file = NotBuilt THEN load_legacy(lines) ELSE file

LABEL_PRIORITY == <<"proper_name", "bayer_flamsteed", "hr", "hd", "hip", "sao">>
LABEL_SCHEMES == {"best"} \cup ToSet(LABEL_PRIORITY)

(* _load_enriched: a star without a magnitude is a faint one. *)
LoadedVmag(r) == IF r.vmag = None THEN 99 ELSE r.vmag

NoLabel == <<>>

(* The keys under which a star has an identifier, by their places. *)
Known(r, keys) == {k \in DOMAIN keys : ~Absent(keys[k], r[keys[k]])}

(* Every identifier the star has; the order is left out. *)
describe(r) ==
  {<<LABEL_PRIORITY[k], r[LABEL_PRIORITY[k]]>> : k \in Known(r, LABEL_PRIORITY)}

LabelOf(r, scheme) ==
  LET keys  == IF scheme = "best" THEN LABEL_PRIORITY ELSE <<scheme>>
      known == Known(r, keys)
      key   == keys[CHOOSE k \in known : \A i \in known : k <= i]
  IN  IF known = {} THEN NoLabel ELSE <<key, r[key]>>

(* stars_in_fov, of the stars that are in the field. *)
stars_in_fov(rows, limits, scheme) ==
  {[star |-> r,
    label |-> IF LoadedVmag(r) <= limits.labelMax THEN LabelOf(r, scheme) ELSE NoLabel]
   : r \in {q \in rows : LoadedVmag(q) \in limits.magMin .. limits.magMax}}

-----------------------------------------------------------------------------
(* What the four tables say a star is called *)

Designations(sky, star) ==
  LET Of(table, key, value) == {r \in ToSet(table) : value # None /\ r[key] = value}
      bsc == Of(sky.bsc, "hd", star.hd)
      csn == {c \in Of(sky.csn, "hip", star.hip) : c.tail}
  IN  [hip |-> {star.hip}, hd |-> {star.hd},
       hr  |-> {b.hr : b \in bsc},
       sao |-> {b.sao : b \in bsc} \cup {s.sao : s \in Of(sky.sao, "hd", star.hd)},
       proper_name |-> {c.proper_name : c \in csn},
       bayer_flamsteed |->
         {clean_bayer_flamsteed(b.name, c, c.con) : b \in bsc \cup {NoBsc}, c \in csn \cup {NoCsn}}]

(* Each star with a position has one row; all text at it names it and no   *)
(* other star, in the scheme that was asked for, and 'best' always finds a *)
(* name.                                                                   *)
NamesItsStars(sky, limits) ==
  LET stars == fetch_hipparcos(sky)
      rows == build(sky)
      Own(r) == Designations(sky, CHOOSE star \in stars : star.hip = r.hip)
  IN  /\ {r.hip : r \in rows} = {star.hip : star \in stars}
      /\ Cardinality(rows) = Cardinality(stars)
      /\ \A scheme \in LABEL_SCHEMES : \A d \in stars_in_fov(rows, limits, scheme) :
           /\ d.label # NoLabel =>
                scheme \in {"best", d.label[1]} /\ d.label[2] \in Own(d.star)[d.label[1]]
           /\ scheme = "best" /\ LoadedVmag(d.star) <= limits.labelMax => d.label # NoLabel
           /\ \A id \in describe(d.star) : id[2] \in Own(d.star)[id[1]]

(* While a build has yet to succeed, the stars of the older file have their*)
(* one name in every scheme that can show it, and no other scheme a text.  *)
UnbuiltIsNamed(sky, lines, limits) ==
  LET expected == [key \in {"hip"} |-> 2 * Len(sky.hipparcos) + 1]
      rows == load_star_catalog(Written(sky, expected, FALSE, NotBuilt), lines)
  IN  \A scheme \in LABEL_SCHEMES : \A d \in stars_in_fov(rows, limits, scheme) :
        d.label = IF scheme \in {"best", "bayer_flamsteed"} /\ LoadedVmag(d.star) <= limits.labelMax
                  THEN <<"bayer_flamsteed", d.star.bayer_flamsteed>> ELSE NoLabel

(* The tables when the column key of one of them cannot be read. *)
KeyLost(sky, table, key) ==
  [sky EXCEPT ![table] = [i \in DOMAIN sky[table] |-> [sky[table][i] EXCEPT ![key] = None]]]

(* Stars that may have their SAO number from the BSC. *)
BrightStars(sky) == {star \in fetch_hipparcos(sky) : \E b \in ToSet(sky.bsc) : b.hd = star.hd}

(* A table whose key to the others is lost does not replace a good file:   *)
(* the SAO catalogue's only where the BSC does not give nine tenths of the *)
(* SAO numbers by itself.                                                  *)
KeptWhenKeyLost(sky) ==
  LET good == build(sky)
      expected == [key \in ToSet(LABEL_PRIORITY) |-> coverage(good, key)]
      Kept(table, key) == Written(KeyLost(sky, table, key), expected, FALSE, good) = good
  IN  /\ Kept("bsc", "hd") /\ Kept("csn", "hip") /\ Kept("hipparcos", "hd")
      /\ 10 * Cardinality(BrightStars(sky)) < 9 * expected["sao"] => Kept("sao", "hd")

=============================================================================
