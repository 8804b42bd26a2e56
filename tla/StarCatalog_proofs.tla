------------------------- MODULE StarCatalog_proofs -------------------------
(***************************************************************************)
(* What the star catalogue promises, for every sky.  A join by a key that  *)
(* was made unique first gives each star one row, and what is in the row   *)
(* comes from a record of that star: RowOf names the row.  The theorems of *)
(* PointingWorker_proofs rest on the three at the end.                     *)
(***************************************************************************)
EXTENDS StarCatalog, FiniteSetTheorems, TLAPS

(* The row that each table has for a star, and the row they make. *)
Partner(kept, key, value, blank) == CHOOSE x : Left(kept, key, value, blank) = {x}
BscOf(sky, star) == Partner(fetch_bsc(sky), "hd", star.hd, NoBsc)
SaoOf(sky, star) == Partner(fetch_sao(sky), "hd", star.hd, NoSao)
CsnOf(sky, star) == Partner(fetch_iau_names(sky), "hip", star.hip, NoCsn)
RowOf(sky, star) == Row(star, BscOf(sky, star), SaoOf(sky, star), CsnOf(sky, star))

-----------------------------------------------------------------------------
(* One join *)

(* Of the rows with one key, the first is kept, and none without a key. *)
LEMMA OnlyTheFirst ==
  ASSUME NEW table, NEW places \in SUBSET Nat, NEW key,
         NEW r \in KeepFirst(table, places, key)
  PROVE  /\ r[key] # None
         /\ \E i \in places : r = table[i]
         /\ \A q \in KeepFirst(table, places, key) : q[key] = r[key] => q = r
<1> USE DEF KeepFirst, RowsAt
<1>1. PICK i \in places : /\ r = table[i] /\ table[i][key] # None
                          /\ \A k \in places : k < i => table[k][key] # table[i][key]
  OBVIOUS
<1>2. ASSUME NEW q \in KeepFirst(table, places, key), q[key] = r[key]
      PROVE  q = r
  <2>1. PICK j \in places : /\ q = table[j]
                            /\ \A k \in places : k < j => table[k][key] # table[j][key]
    OBVIOUS
  <2>2. ~(i < j) /\ ~(j < i)
    BY <1>1, <1>2, <2>1
  <2>3. i = j
    BY <2>2
  <2>4. QED
    BY <1>1, <2>1, <2>3
<1>3. QED
  BY <1>1, <1>2

(* So a join gives each row one partner, or the blank. *)
LEMMA OnePartner ==
  ASSUME NEW table, NEW places \in SUBSET Nat, NEW key, NEW value, NEW blank,
         NEW kept, kept = KeepFirst(table, places, key),
         NEW x, x = Partner(kept, key, value, blank)
  PROVE  /\ Left(kept, key, value, blank) = {x}
         /\ \/ x = blank /\ \A r \in kept : r[key] # value
            \/ x \in kept /\ x[key] = value /\ value # None
<1> DEFINE found == {r \in kept : r[key] = value}
           Found == Left(kept, key, value, blank)
<1>0. Found = IF found = {} THEN {blank} ELSE found
  BY DEF Left
<1>1. \A r \in kept : r[key] # None /\ \A q \in kept : q[key] = r[key] => q = r
  BY OnlyTheFirst
<1>2. CASE found = {}
  <2>1. Found = {blank}
    BY <1>0, <1>2
  <2>2. x = blank
    BY ONLY <2>1, x = Partner(kept, key, value, blank) DEF Partner
  <2>3. QED
    BY <1>2, <2>1, <2>2
<1>3. CASE found # {}
  <2>1. PICK r \in kept : r[key] = value
    BY <1>3
  <2>2. found = {r}
    BY <1>1, <2>1
  <2>3. Found = {r}
    BY <1>0, <2>2
  <2>4. x = r
    BY ONLY <2>3, x = Partner(kept, key, value, blank) DEF Partner
  <2>5. value # None
    BY <1>1, <2>1
  <2>6. QED
    BY <2>1, <2>3, <2>4, <2>5
<1>4. QED
  BY <1>2, <1>3

-----------------------------------------------------------------------------
(* The catalogue *)

(* Rows are at the places of their tables. *)
LEMMA PlacesAre ==
  ASSUME NEW sky, IsSky(sky)
  PROVE  /\ vizier_tsv(sky.hipparcos, "hip") \in SUBSET (1 .. Len(sky.hipparcos))
         /\ vizier_tsv(sky.bsc, "hr") \in SUBSET Nat
         /\ vizier_tsv(sky.sao, "sao") \in SUBSET Nat
         /\ CsnRecords(sky) \in SUBSET (1 .. Len(sky.csn))
         /\ WithHip(sky) \in SUBSET CsnRecords(sky) /\ WithHip(sky) \in SUBSET Nat
         /\ Len(sky.hipparcos) \in Nat /\ Len(sky.csn) \in Nat
<1>1. /\ sky.hipparcos \in Seq(Star) /\ sky.bsc \in Seq(Bsc)
      /\ sky.sao \in Seq(Sao) /\ sky.csn \in Seq(Csn)
  BY DEF IsSky
<1>2. /\ DOMAIN sky.hipparcos = 1 .. Len(sky.hipparcos) /\ Len(sky.hipparcos) \in Nat
      /\ DOMAIN sky.bsc \subseteq Nat /\ DOMAIN sky.sao \subseteq Nat
      /\ DOMAIN sky.csn = 1 .. Len(sky.csn) /\ Len(sky.csn) \in Nat
  BY <1>1
<1>3. QED
  BY <1>2 DEF vizier_tsv, CsnRecords, WithHip

(* What is known of a star's partners. *)
BscFits(sky, star, b) ==
  \/ b = NoBsc /\ \A r \in fetch_bsc(sky) : r.hd # star.hd
  \/ b \in fetch_bsc(sky) /\ b \in ToSet(sky.bsc) /\ b.hr # None /\ b.hd = star.hd /\ star.hd # None
SaoFits(sky, star, s) ==
  \/ s = NoSao
  \/ s \in ToSet(sky.sao) /\ s.sao # None /\ s.hd = star.hd /\ star.hd # None
CsnFits(sky, star, c) ==
  \/ c = NoCsn
  \/ c \in ToSet(sky.csn) /\ c.tail /\ c.hip = star.hip /\ star.hip # None

(* What a table was reduced to is still rows of it. *)
LEMMA KeptFromTable ==
  ASSUME NEW sky, IsSky(sky)
  PROVE  /\ \A b \in fetch_bsc(sky) : b \in ToSet(sky.bsc) /\ b.hr # None
         /\ \A s \in fetch_sao(sky) : s \in ToSet(sky.sao) /\ s.sao # None
         /\ \A c \in fetch_iau_names(sky) : c \in ToSet(sky.csn) /\ c.tail
<1>1. \A b \in fetch_bsc(sky) : \E i \in vizier_tsv(sky.bsc, "hr") : b = sky.bsc[i]
  BY PlacesAre, OnlyTheFirst DEF fetch_bsc
<1>2. \A s \in fetch_sao(sky) : \E i \in vizier_tsv(sky.sao, "sao") : s = sky.sao[i]
  BY PlacesAre, OnlyTheFirst DEF fetch_sao
<1>3. \A c \in fetch_iau_names(sky) : \E i \in WithHip(sky) : c = sky.csn[i]
  BY PlacesAre, OnlyTheFirst DEF fetch_iau_names
<1>4. QED
  BY <1>1, <1>2, <1>3 DEF vizier_tsv, WithHip, CsnRecords, ToSet

(* A partner is the blank, or a record with the key of the star. *)
LEMMA PartnersFit ==
  ASSUME NEW sky, IsSky(sky), NEW star
  PROVE  /\ Left(fetch_bsc(sky), "hd", star.hd, NoBsc) = {BscOf(sky, star)}
         /\ Left(fetch_sao(sky), "hd", star.hd, NoSao) = {SaoOf(sky, star)}
         /\ Left(fetch_iau_names(sky), "hip", star.hip, NoCsn) = {CsnOf(sky, star)}
         /\ BscFits(sky, star, BscOf(sky, star))
         /\ SaoFits(sky, star, SaoOf(sky, star))
         /\ CsnFits(sky, star, CsnOf(sky, star))
<1>0. /\ vizier_tsv(sky.bsc, "hr") \in SUBSET Nat
      /\ vizier_tsv(sky.sao, "sao") \in SUBSET Nat
      /\ WithHip(sky) \in SUBSET Nat
  BY PlacesAre
<1>1. /\ Left(fetch_bsc(sky), "hd", star.hd, NoBsc) = {BscOf(sky, star)}
      /\ \/ BscOf(sky, star) = NoBsc /\ \A r \in fetch_bsc(sky) : r["hd"] # star.hd
         \/ BscOf(sky, star) \in fetch_bsc(sky) /\ BscOf(sky, star)["hd"] = star.hd /\ star.hd # None
  <2> DEFINE b == BscOf(sky, star)
  <2>1. b = Partner(fetch_bsc(sky), "hd", star.hd, NoBsc)
    BY DEF BscOf
  <2>2. fetch_bsc(sky) = KeepFirst(sky.bsc, vizier_tsv(sky.bsc, "hr"), "hd")
    BY DEF fetch_bsc
  <2> HIDE DEF b
  <2>3. QED
    BY <1>0, <2>1, <2>2, OnePartner DEF b
<1>2. /\ Left(fetch_sao(sky), "hd", star.hd, NoSao) = {SaoOf(sky, star)}
      /\ \/ SaoOf(sky, star) = NoSao
         \/ SaoOf(sky, star) \in fetch_sao(sky) /\ SaoOf(sky, star)["hd"] = star.hd /\ star.hd # None
  BY <1>0, OnePartner DEF fetch_sao, SaoOf
<1>3. /\ Left(fetch_iau_names(sky), "hip", star.hip, NoCsn) = {CsnOf(sky, star)}
      /\ \/ CsnOf(sky, star) = NoCsn
         \/ CsnOf(sky, star) \in fetch_iau_names(sky) /\ CsnOf(sky, star)["hip"] = star.hip /\ star.hip # None
  BY <1>0, OnePartner DEF fetch_iau_names, CsnOf
<1>4. QED
  BY <1>1, <1>2, <1>3, KeptFromTable DEF BscFits, SaoFits, CsnFits

(* The joins of four tables keep one row for each star. *)
LEMMA RowsAreStars ==
  ASSUME NEW sky, IsSky(sky)
  PROVE  build(sky) = {RowOf(sky, star) : star \in fetch_hipparcos(sky)}
<1>1. \A star : {Row(star, b, s, c) : b \in {BscOf(sky, star)}, s \in {SaoOf(sky, star)},
                                      c \in {CsnOf(sky, star)}} = {RowOf(sky, star)}
  BY DEF RowOf
<1>2. build(sky) = UNION {{RowOf(sky, star)} : star \in fetch_hipparcos(sky)}
  <2>1. \A star : /\ Left(fetch_bsc(sky), "hd", star.hd, NoBsc) = {BscOf(sky, star)}
                  /\ Left(fetch_sao(sky), "hd", star.hd, NoSao) = {SaoOf(sky, star)}
                  /\ Left(fetch_iau_names(sky), "hip", star.hip, NoCsn) = {CsnOf(sky, star)}
    BY PartnersFit
  <2> DEFINE Rows(star) == {Row(star, b, s, c) : b \in Left(fetch_bsc(sky), "hd", star.hd, NoBsc),
                                                s \in Left(fetch_sao(sky), "hd", star.hd, NoSao),
                                                c \in Left(fetch_iau_names(sky), "hip", star.hip, NoCsn)}
  <2>2. \A star : Rows(star) = {RowOf(sky, star)}
    <3> TAKE star
    <3>1. Rows(star) = {Row(star, b, s, c) : b \in {BscOf(sky, star)}, s \in {SaoOf(sky, star)},
                                             c \in {CsnOf(sky, star)}}
      BY ONLY <2>1
    <3>2. QED
      BY ONLY <3>1, <1>1
  <2>3. build(sky) = UNION {Rows(star) : star \in fetch_hipparcos(sky)}
    BY ONLY DEF build
  <2> HIDE DEF Rows
  <2>4. QED
    BY ONLY <2>2, <2>3
<1>3. QED
  BY <1>2

(* A HIP number is one star, and there are no more than lines. *)
LEMMA StarsAre ==
  ASSUME NEW sky, IsSky(sky)
  PROVE  /\ \A star \in fetch_hipparcos(sky) : star \in Star /\ star.hip # None
         /\ \A star, other \in fetch_hipparcos(sky) : star.hip = other.hip => star = other
         /\ IsFiniteSet(fetch_hipparcos(sky))
         /\ Cardinality(fetch_hipparcos(sky)) \in Nat
         /\ Cardinality(fetch_hipparcos(sky)) <= Len(sky.hipparcos)
<1> DEFINE table == sky.hipparcos
           places == {i \in vizier_tsv(table, "hip") : table[i].placed}
           stars == fetch_hipparcos(sky)
<1>1. stars = {table[i] : i \in places}
  BY DEF fetch_hipparcos, RowsAt
<1>2. table \in Seq(Star) /\ places \subseteq 1 .. Len(table) /\ Len(table) \in Nat
  BY PlacesAre DEF IsSky
<1>3. \A i \in places : table[i] \in Star /\ table[i].hip # None
  BY <1>2 DEF vizier_tsv
<1>4. \A i, j \in places : table[i].hip = table[j].hip => i = j
  BY <1>2, <1>3 DEF IsSky
<1>5. IsFiniteSet(places) /\ Cardinality(places) <= Len(table) /\ Cardinality(places) \in Nat
  <2>1. IsFiniteSet(1 .. Len(table)) /\ Cardinality(1 .. Len(table)) = Len(table)
    BY <1>2, FS_Interval
  <2>2. IsFiniteSet(places) /\ Cardinality(places) <= Len(table)
    BY <1>2, <2>1, FS_Subset
  <2>3. QED
    BY <2>2, FS_CardinalityType
<1> HIDE DEF places, table, stars
<1>6. [i \in places |-> table[i]] \in Surjection(places, stars)
  BY <1>1 DEF Surjection
<1>7. IsFiniteSet(stars) /\ Cardinality(stars) <= Cardinality(places)
  BY <1>5, <1>6, FS_Surjection
<1>8. Cardinality(stars) \in Nat
  BY <1>7, FS_CardinalityType
<1>9. QED
  BY <1>1, <1>2, <1>3, <1>4, <1>5, <1>7, <1>8 DEF stars, table

(* The columns that are copied. *)
LEMMA RowIs ==
  \A sky, star : /\ RowOf(sky, star).hip = star.hip /\ RowOf(sky, star).hd = star.hd
                 /\ RowOf(sky, star).vmag = star.vmag
                 /\ RowOf(sky, star).hr = BscOf(sky, star).hr
BY DEF RowOf, Row

(* A row for a star is no other star's. *)
LEMMA AsManyRows ==
  ASSUME NEW sky, IsSky(sky)
  PROVE  /\ IsFiniteSet(build(sky))
         /\ Cardinality(build(sky)) = Cardinality(fetch_hipparcos(sky))
<1> DEFINE stars == fetch_hipparcos(sky)
           f == [star \in stars |-> RowOf(sky, star)]
<1>1. f \in Bijection(stars, build(sky))
  <2>1. \A star, other \in stars : RowOf(sky, star) = RowOf(sky, other) => star = other
    BY StarsAre, RowIs
  <2>2. build(sky) = {RowOf(sky, star) : star \in stars}
    BY RowsAreStars
  <2> HIDE DEF stars
  <2>3. f \in Injection(stars, build(sky))
    BY <2>1, <2>2 DEF Injection, IsInjective
  <2>4. f \in Surjection(stars, build(sky))
    BY <2>2 DEF Surjection
  <2>5. QED
    BY <2>3, <2>4 DEF Bijection
<1>2. ExistsBijection(stars, build(sky))
  BY <1>1 DEF ExistsBijection
<1>3. QED
  BY <1>2, StarsAre, FS_Bijection

-----------------------------------------------------------------------------
(* The texts *)

(* The keys that a scheme may show. *)
Keys(scheme) == IF scheme = "best" THEN ToSet(LABEL_PRIORITY) ELSE {scheme}

(* The six keys, and the one that every star has. *)
LEMMA PriorityIs ==
  /\ DOMAIN LABEL_PRIORITY = 1 .. 6 /\ LABEL_PRIORITY[5] = "hip"
  /\ ToSet(LABEL_PRIORITY) = {"proper_name", "bayer_flamsteed", "hr", "hd", "hip", "sao"}
<1>1. DOMAIN LABEL_PRIORITY = 1 .. 6
  BY DEF LABEL_PRIORITY
<1>2. 1 .. 6 = {1, 2, 3, 4, 5, 6}
  OBVIOUS
<1>3. /\ LABEL_PRIORITY[1] = "proper_name" /\ LABEL_PRIORITY[2] = "bayer_flamsteed"
      /\ LABEL_PRIORITY[3] = "hr" /\ LABEL_PRIORITY[4] = "hd" /\ LABEL_PRIORITY[5] = "hip"
      /\ LABEL_PRIORITY[6] = "sao"
  BY DEF LABEL_PRIORITY
<1>4. QED
  BY <1>1, <1>2, <1>3 DEF ToSet

(* The first key that a star has is one it has. *)
LEMMA LeastOfSome ==
  ASSUME NEW S \in SUBSET (1 .. 6), S # {}
  PROVE  (CHOOSE k \in S : \A i \in S : k <= i) \in S
<1>1. \E k \in S : \A i \in S : k <= i
  <2>1. CASE 1 \in S
    BY <2>1
  <2>2. CASE 1 \notin S /\ 2 \in S
    BY <2>2
  <2>3. CASE S \subseteq 3 .. 6 /\ 3 \in S
    BY <2>3
  <2>4. CASE S \subseteq 4 .. 6 /\ 4 \in S
    BY <2>4
  <2>5. CASE S \subseteq 5 .. 6
    <3>1. CASE 5 \in S
      BY <2>5, <3>1
    <3>2. CASE 5 \notin S
      <4>1. \A i \in S : i = 6
        BY <2>5, <3>2
      <4>2. PICK k \in S : k = 6
        BY <4>1
      <4>3. \A i \in S : k <= i
        BY <4>1, <4>2
      <4>4. QED
        BY <4>3
    <3>3. QED
      BY <3>1, <3>2
  <2>6. QED
    BY <2>1, <2>2, <2>3, <2>4, <2>5
<1>2. QED
  BY <1>1

(* A label is the text of a key that the star has, and is missing only if  *)
(* it has none that the scheme asks for.                                   *)
LEMMA LabelIs ==
  ASSUME NEW r, NEW scheme \in LABEL_SCHEMES
  PROVE  \/ LabelOf(r, scheme) = NoLabel /\ \A key \in Keys(scheme) : Absent(key, r[key])
         \/ \E key \in Keys(scheme) : ~Absent(key, r[key]) /\ LabelOf(r, scheme) = <<key, r[key]>>
<1> DEFINE keys == IF scheme = "best" THEN LABEL_PRIORITY ELSE <<scheme>>
           known == Known(r, keys)
           least == CHOOSE k \in known : \A i \in known : k <= i
<1>1. DOMAIN keys \subseteq 1 .. 6 /\ ToSet(keys) = Keys(scheme)
  <2>1. CASE scheme = "best"
    BY <2>1, PriorityIs DEF Keys
  <2>2. CASE scheme # "best"
    BY <2>2 DEF Keys, ToSet
  <2>3. QED
    BY <2>1, <2>2
<1>2. LabelOf(r, scheme) = IF known = {} THEN NoLabel ELSE <<keys[least], r[keys[least]]>>
  BY DEF LabelOf
<1>3. known = {k \in DOMAIN keys : ~Absent(keys[k], r[keys[k]])}
  BY DEF Known
<1>4. Keys(scheme) = {keys[k] : k \in DOMAIN keys}
  BY <1>1 DEF ToSet
<1> HIDE DEF keys, known
<1>5. CASE known = {}
  BY <1>2, <1>3, <1>4, <1>5
<1>6. CASE known # {}
  <2>1. least \in known
    BY <1>1, <1>3, <1>6, LeastOfSome
  <2> HIDE DEF least
  <2>2. QED
    BY <1>2, <1>3, <1>4, <1>6, <2>1
<1>7. QED
  BY <1>5, <1>6

(* Every identifier of a row is one that a table gives its star. *)
LEMMA Designated ==
  ASSUME NEW sky, IsSky(sky), NEW star, star.hip # None, NEW key \in ToSet(LABEL_PRIORITY),
         ~Absent(key, RowOf(sky, star)[key])
  PROVE  RowOf(sky, star)[key] \in Designations(sky, star)[key]
<1> DEFINE r == RowOf(sky, star)
           b == BscOf(sky, star)
           s == SaoOf(sky, star)
           c == CsnOf(sky, star)
           Of(table, k, value) == {q \in ToSet(table) : value # None /\ q[k] = value}
           bsc == Of(sky.bsc, "hd", star.hd)
           csn == {q \in Of(sky.csn, "hip", star.hip) : q.tail}
           sao == Of(sky.sao, "hd", star.hd)
           own == Designations(sky, star)
<1>1. b = NoBsc \/ b \in bsc
  BY PartnersFit DEF BscFits
<1>2. s = NoSao \/ s \in sao
  BY PartnersFit DEF SaoFits
<1>3. c = NoCsn \/ c \in csn
  BY PartnersFit DEF CsnFits
<1>4. /\ own.hip = {star.hip} /\ own.hd = {star.hd} /\ own.hr = {q.hr : q \in bsc}
      /\ own.sao = {q.sao : q \in bsc} \cup {q.sao : q \in sao}
      /\ own.proper_name = {q.proper_name : q \in csn}
      /\ own.bayer_flamsteed =
           {clean_bayer_flamsteed(p.name, q, q.con) : p \in bsc \cup {NoBsc}, q \in csn \cup {NoCsn}}
  BY DEF Designations
<1>5. /\ r.hip = star.hip /\ r.hd = star.hd /\ r.hr = b.hr
      /\ r.sao = IF b.sao # None THEN b.sao ELSE s.sao
      /\ r.proper_name = c.proper_name
      /\ r.bayer_flamsteed = clean_bayer_flamsteed(b.name, c, c.con)
  BY DEF RowOf, Row
<1>6. /\ NoBsc.hr = None /\ NoBsc.sao = None /\ NoSao.sao = None /\ NoCsn.proper_name = <<>>
  BY DEF NoBsc, NoSao, NoCsn
<1>7. ~Absent(key, r[key])
  OBVIOUS
<1> HIDE DEF r, b, s, c, bsc, csn, sao, own
<1>8. CASE key = "hip"
  BY <1>4, <1>5, <1>8 DEF r, own
<1>9. CASE key = "hd"
  BY <1>4, <1>5, <1>9 DEF r, own
<1>10. CASE key = "hr"
  <2>1. r.hr # None
    BY <1>7, <1>10 DEF Absent
  <2>2. r.hr \in own.hr
    BY <1>1, <1>4, <1>5, <1>6, <2>1
  <2>3. QED
    BY <1>10, <2>2 DEF r, own
<1>11. CASE key = "sao"
  <2>1. r.sao # None
    BY <1>7, <1>11 DEF Absent
  <2>2. r.sao \in own.sao
    BY <1>1, <1>2, <1>4, <1>5, <1>6, <2>1
  <2>3. QED
    BY <1>11, <2>2 DEF r, own
<1>12. CASE key = "proper_name"
  <2>1. r.proper_name # <<>>
    BY <1>7, <1>12 DEF Absent
  <2>2. r.proper_name \in own.proper_name
    BY <1>3, <1>4, <1>5, <1>6, <2>1
  <2>3. QED
    BY <1>12, <2>2 DEF r, own
<1>13. CASE key = "bayer_flamsteed"
  <2>1. r.bayer_flamsteed \in own.bayer_flamsteed
    BY <1>1, <1>3, <1>4, <1>5
  <2>2. QED
    BY <1>13, <2>1 DEF r, own
<1>14. QED
  BY <1>8, <1>9, <1>10, <1>11, <1>12, <1>13, PriorityIs

-----------------------------------------------------------------------------
(* The overlay's texts name their stars *)

(* What is built of four tables, however they miss and share their keys,   *)
(* gives each star with a position one row and each text at it to it       *)
(* (build_star_catalog.py:290-387, star_field.py:92-165).                  *)
THEOREM BuiltNames ==
  \A sky, limits : IsSky(sky) => NamesItsStars(sky, limits)
<1> SUFFICES ASSUME NEW sky, NEW limits, IsSky(sky)
             PROVE  NamesItsStars(sky, limits)
  OBVIOUS
<1> DEFINE stars == fetch_hipparcos(sky)
           rows == build(sky)
           Own(r) == Designations(sky, CHOOSE star \in stars : star.hip = r.hip)
<1>1. rows = {RowOf(sky, star) : star \in stars}
  BY RowsAreStars
<1>2. \A star \in stars : RowOf(sky, star).hip = star.hip /\ star.hip # None
  BY RowIs, StarsAre
<1>3. {r.hip : r \in rows} = {star.hip : star \in stars}
  BY <1>1, <1>2
<1>4. Cardinality(rows) = Cardinality(stars)
  BY AsManyRows
<1>5. ASSUME NEW r \in rows
      PROVE  /\ ~Absent("hip", r.hip)
             /\ \A key \in ToSet(LABEL_PRIORITY) : ~Absent(key, r[key]) => r[key] \in Own(r)[key]
  <2>1. PICK star \in stars : r = RowOf(sky, star)
    BY <1>1
  <2>2. (CHOOSE other \in stars : other.hip = r.hip) = star
    BY <1>2, <2>1, StarsAre
  <2>3. \A key \in ToSet(LABEL_PRIORITY) :
          ~Absent(key, RowOf(sky, star)[key]) => RowOf(sky, star)[key] \in Designations(sky, star)[key]
    BY <1>2, Designated
  <2>4. ~Absent("hip", r.hip)
    BY <1>2, <2>1 DEF Absent
  <2>5. QED
    BY <2>1, <2>2, <2>3, <2>4
<1>6. ASSUME NEW scheme \in LABEL_SCHEMES, NEW d \in stars_in_fov(rows, limits, scheme)
      PROVE  /\ d.label # NoLabel =>
                  scheme \in {"best", d.label[1]} /\ d.label[2] \in Own(d.star)[d.label[1]]
             /\ scheme = "best" /\ LoadedVmag(d.star) <= limits.labelMax => d.label # NoLabel
             /\ \A id \in describe(d.star) : id[2] \in Own(d.star)[id[1]]
  <2> DEFINE r == d.star
  <2>1. /\ r \in rows
        /\ d.label = IF LoadedVmag(r) <= limits.labelMax THEN LabelOf(r, scheme) ELSE NoLabel
    BY DEF stars_in_fov
  <2>2. \/ LabelOf(r, scheme) = NoLabel /\ \A key \in Keys(scheme) : Absent(key, r[key])
        \/ \E key \in Keys(scheme) : ~Absent(key, r[key]) /\ LabelOf(r, scheme) = <<key, r[key]>>
    BY LabelIs
  <2>3. Keys(scheme) \subseteq ToSet(LABEL_PRIORITY) /\ (scheme # "best" => Keys(scheme) = {scheme})
    BY DEF Keys, LABEL_SCHEMES
  <2>4. "hip" \in Keys("best")
    BY PriorityIs DEF Keys
  <2>5. \A id \in describe(r) : \E key \in ToSet(LABEL_PRIORITY) : ~Absent(key, r[key]) /\ id = <<key, r[key]>>
    BY DEF describe, Known, ToSet
  <2>6. \A a, b : <<a, b>> # NoLabel
    BY DEF NoLabel
  <2> HIDE DEF r, Own, rows
  <2>7. d.label # NoLabel => scheme \in {"best", d.label[1]} /\ d.label[2] \in Own(r)[d.label[1]]
    BY <1>5, <2>1, <2>2, <2>3
  <2>8. scheme = "best" /\ LoadedVmag(r) <= limits.labelMax => d.label # NoLabel
    BY <1>5, <2>1, <2>2, <2>4, <2>6
  <2>9. \A id \in describe(r) : id[2] \in Own(r)[id[1]]
    BY <1>5, <2>1, <2>5
  <2>10. QED
    BY <2>7, <2>8, <2>9 DEF r
<1>7. QED
  BY <1>3, <1>4, <1>6 DEF NamesItsStars

(* What a key covers is rows. *)
LEMMA CoverageIs ==
  ASSUME NEW rows, NEW key, IsFiniteSet(rows)
  PROVE  /\ coverage(rows, key) \in Nat /\ coverage(rows, key) <= Cardinality(rows)
         /\ coverage(rows, key) = 0 <=> \A r \in rows : Absent(key, r[key])
<1> DEFINE named == {r \in rows : ~Absent(key, r[key])}
<1>1. IsFiniteSet(named) /\ Cardinality(named) <= Cardinality(rows)
  BY FS_Subset
<1>2. Cardinality(named) \in Nat /\ (Cardinality(named) = 0 <=> named = {})
  BY <1>1, FS_CardinalityType, FS_EmptySet
<1>3. QED
  BY <1>1, <1>2 DEF coverage

(* Until a build succeeds, a star of the older file has its one name in    *)
(* the schemes that can show it (build_star_catalog.py:372-387,            *)
(* star_field.py:68-89).                                                   *)
THEOREM UnbuiltNames ==
  \A sky, lines, limits :
    IsSky(sky) /\ lines \subseteq Line => UnbuiltIsNamed(sky, lines, limits)
<1> SUFFICES ASSUME NEW sky, NEW lines, NEW limits, IsSky(sky), lines \subseteq Line
             PROVE  UnbuiltIsNamed(sky, lines, limits)
  OBVIOUS
<1> DEFINE expected == [key \in {"hip"} |-> 2 * Len(sky.hipparcos) + 1]
           file == Written(sky, expected, FALSE, NotBuilt)
           rows == load_star_catalog(file, lines)
<1>1. file = NotBuilt
  <2>1. coverage(build(sky), "hip") \in Nat /\ coverage(build(sky), "hip") <= Len(sky.hipparcos)
    BY AsManyRows, StarsAre, CoverageIs
  <2>2. Len(sky.hipparcos) \in Nat
    BY PlacesAre
  <2>3. 10 * coverage(build(sky), "hip") < 9 * expected["hip"]
    BY <2>1, <2>2
  <2>4. "hip" \in Shortfalls(build(sky), expected)
    BY <2>3 DEF Shortfalls
  <2>5. QED
    BY <2>4 DEF Written
<1>2. rows = load_legacy(lines)
  BY <1>1 DEF load_star_catalog
<1>3. ASSUME NEW r \in rows
      PROVE  \A key \in ToSet(LABEL_PRIORITY) : Absent(key, r[key]) <=> key # "bayer_flamsteed"
  <2>1. PICK line \in lines :
          r = [hip |-> None, vmag |-> line.vmag, hd |-> None, hr |-> None, sao |-> None,
               proper_name |-> <<>>, constellation |-> <<>>, bayer_flamsteed |-> line.name]
    BY <1>2 DEF load_legacy
  <2>2. line.name # <<>>
    BY DEF Line
  <2>3. /\ r.hip = None /\ r.hd = None /\ r.hr = None /\ r.sao = None
        /\ r.proper_name = <<>> /\ r.bayer_flamsteed # <<>>
    BY ONLY <2>1, <2>2
  <2>4. QED
    BY ONLY <2>3, PriorityIs DEF Absent
<1> HIDE DEF rows
<1>4. ASSUME NEW scheme \in LABEL_SCHEMES, NEW d \in stars_in_fov(rows, limits, scheme)
      PROVE  d.label = IF scheme \in {"best", "bayer_flamsteed"} /\ LoadedVmag(d.star) <= limits.labelMax
                       THEN <<"bayer_flamsteed", d.star.bayer_flamsteed>> ELSE NoLabel
  <2> DEFINE r == d.star
  <2>1. /\ r \in rows
        /\ d.label = IF LoadedVmag(r) <= limits.labelMax THEN LabelOf(r, scheme) ELSE NoLabel
    BY DEF stars_in_fov
  <2>2. \/ LabelOf(r, scheme) = NoLabel /\ \A key \in Keys(scheme) : Absent(key, r[key])
        \/ \E key \in Keys(scheme) : ~Absent(key, r[key]) /\ LabelOf(r, scheme) = <<key, r[key]>>
    BY LabelIs
  <2>3. /\ Keys(scheme) \subseteq ToSet(LABEL_PRIORITY)
        /\ "bayer_flamsteed" \in Keys(scheme) <=> scheme \in {"best", "bayer_flamsteed"}
    BY PriorityIs DEF Keys, LABEL_SCHEMES
  <2> HIDE DEF r
  <2>4. LabelOf(r, scheme) = IF scheme \in {"best", "bayer_flamsteed"}
                             THEN <<"bayer_flamsteed", r.bayer_flamsteed>> ELSE NoLabel
    BY <1>3, <2>1, <2>2, <2>3
  <2>5. QED
    BY <2>1, <2>4 DEF r
<1>5. QED
  BY <1>4 DEF UnbuiltIsNamed, rows

-----------------------------------------------------------------------------
(* A key that was lost *)

(* The rows of KeyLost. *)
RowWithout(row, key) == [row EXCEPT ![key] = None]
Unkeyed(rows, key) == [i \in DOMAIN rows |-> RowWithout(rows[i], key)]

(* A table without a key is as long as it was. *)
LEMMA UnkeyedIs ==
  ASSUME NEW T, NEW rows \in Seq(T), NEW key, \A row \in T : RowWithout(row, key) \in T
  PROVE  /\ Unkeyed(rows, key) \in Seq(T)
         /\ DOMAIN Unkeyed(rows, key) = DOMAIN rows
         /\ \A i \in DOMAIN rows : Unkeyed(rows, key)[i] = RowWithout(rows[i], key)
BY DEF Unkeyed

(* A key that is missing is a key like any other. *)
LEMMA RowsWithout ==
  /\ \A row \in Bsc : RowWithout(row, "hd") \in Bsc
  /\ \A row \in Sao : RowWithout(row, "hd") \in Sao
  /\ \A row \in Csn : RowWithout(row, "hip") \in Csn
  /\ \A row \in Star : RowWithout(row, "hd") \in Star
<1>1. None \in Int
  BY DEF None
<1>2. \A row \in Bsc : RowWithout(row, "hd") \in Bsc
  BY <1>1 DEF Bsc, RowWithout
<1>3. \A row \in Sao : RowWithout(row, "hd") \in Sao
  BY <1>1 DEF Sao, RowWithout
<1>4. \A row \in Csn : RowWithout(row, "hip") \in Csn
  BY <1>1 DEF Csn, RowWithout
<1>5. \A row \in Star : RowWithout(row, "hd") \in Star
  BY <1>1 DEF Star, RowWithout
<1>6. QED
  BY <1>2, <1>3, <1>4, <1>5

(* It stays a sky: only the rows of the one table lose the one key. *)
LEMMA SkyWithout ==
  ASSUME NEW sky, IsSky(sky),
         NEW table, NEW key, \/ table = "bsc" /\ key = "hd"
                             \/ table = "sao" /\ key = "hd"
                             \/ table = "csn" /\ key = "hip"
                             \/ table = "hipparcos" /\ key = "hd"
  PROVE  LET lost == KeyLost(sky, table, key)
         IN  /\ IsSky(lost)
             /\ \A other \in {"hipparcos", "bsc", "sao", "csn"} \ {table} : lost[other] = sky[other]
             /\ DOMAIN lost[table] = DOMAIN sky[table]
             /\ \A i \in DOMAIN sky[table] : lost[table][i] = [sky[table][i] EXCEPT ![key] = None]
<1> DEFINE lost == KeyLost(sky, table, key)
           rows == Unkeyed(sky[table], key)
           Sky == [hipparcos : Seq(Star), bsc : Seq(Bsc), sao : Seq(Sao), csn : Seq(Csn)]
<1>1. /\ sky \in Sky /\ table \in {"hipparcos", "bsc", "sao", "csn"}
      /\ \A i, j \in DOMAIN sky.hipparcos :
           sky.hipparcos[i].hip # None /\ sky.hipparcos[i].hip = sky.hipparcos[j].hip => i = j
  BY DEF IsSky
<1>2. lost = [sky EXCEPT ![table] = rows]
  BY DEF KeyLost, Unkeyed, RowWithout
<1> HIDE DEF lost, rows
<1>3. /\ lost[table] = rows
      /\ \A other \in {"hipparcos", "bsc", "sao", "csn"} \ {table} : lost[other] = sky[other]
  BY <1>1, <1>2
<1>4. /\ table = "bsc" => rows \in Seq(Bsc)
      /\ table = "sao" => rows \in Seq(Sao)
      /\ table = "csn" => rows \in Seq(Csn)
      /\ table = "hipparcos" => rows \in Seq(Star)
      /\ DOMAIN rows = DOMAIN sky[table]
      /\ \A i \in DOMAIN sky[table] : rows[i] = RowWithout(sky[table][i], key)
  <2> DEFINE Unkeys(T) == /\ rows \in Seq(T) /\ DOMAIN rows = DOMAIN sky[table]
                          /\ \A i \in DOMAIN sky[table] : rows[i] = RowWithout(sky[table][i], key)
  <2>1. CASE table = "bsc" /\ key = "hd"
    <3>1. sky[table] \in Seq(Bsc) /\ \A row \in Bsc : RowWithout(row, key) \in Bsc
      BY <1>1, <2>1, RowsWithout
    <3>2. Unkeys(Bsc)
      BY ONLY <3>1, UnkeyedIs DEF rows
    <3>3. QED
      BY ONLY <2>1, <3>2
  <2>2. CASE table = "sao" /\ key = "hd"
    <3>1. sky[table] \in Seq(Sao) /\ \A row \in Sao : RowWithout(row, key) \in Sao
      BY <1>1, <2>2, RowsWithout
    <3>2. Unkeys(Sao)
      BY ONLY <3>1, UnkeyedIs DEF rows
    <3>3. QED
      BY ONLY <2>2, <3>2
  <2>3. CASE table = "csn" /\ key = "hip"
    <3>1. sky[table] \in Seq(Csn) /\ \A row \in Csn : RowWithout(row, key) \in Csn
      BY <1>1, <2>3, RowsWithout
    <3>2. Unkeys(Csn)
      BY ONLY <3>1, UnkeyedIs DEF rows
    <3>3. QED
      BY ONLY <2>3, <3>2
  <2>4. CASE table = "hipparcos" /\ key = "hd"
    <3>1. sky[table] \in Seq(Star) /\ \A row \in Star : RowWithout(row, key) \in Star
      BY <1>1, <2>4, RowsWithout
    <3>2. Unkeys(Star)
      BY ONLY <3>1, UnkeyedIs DEF rows
    <3>3. QED
      BY ONLY <2>4, <3>2
  <2>5. QED
    BY <2>1, <2>2, <2>3, <2>4
<1>5. lost \in Sky
  BY <1>1, <1>2, <1>4
<1>6. \A i, j \in DOMAIN lost.hipparcos :
        lost.hipparcos[i].hip # None /\ lost.hipparcos[i].hip = lost.hipparcos[j].hip => i = j
  <2>1. CASE table = "hipparcos"
    <3>1. \A i \in DOMAIN sky.hipparcos : sky.hipparcos[i] \in Star
      BY <1>1
    <3>2. \A i \in DOMAIN sky.hipparcos : rows[i].hip = sky.hipparcos[i].hip
      BY <1>4, <2>1, <3>1 DEF Star, RowWithout
    <3>3. lost.hipparcos = rows /\ DOMAIN rows = DOMAIN sky.hipparcos
      BY <1>3, <1>4, <2>1
    <3>4. QED
      BY <1>1, <3>2, <3>3
  <2>2. CASE table # "hipparcos"
    BY <1>1, <1>3, <2>2
  <2>3. QED
    BY <2>1, <2>2
<1>7. IsSky(lost)
  BY <1>5, <1>6 DEF IsSky
<1>8. QED
  BY <1>3, <1>4, <1>7 DEF lost, RowWithout

(* The rows of a sky are those of another with the same tables. *)
LEMMA SamePartners ==
  ASSUME NEW sky, NEW lost, NEW star
  PROVE  /\ lost.bsc = sky.bsc => BscOf(lost, star) = BscOf(sky, star)
         /\ lost.sao = sky.sao => SaoOf(lost, star) = SaoOf(sky, star)
         /\ fetch_iau_names(lost) = fetch_iau_names(sky) => CsnOf(lost, star) = CsnOf(sky, star)
         /\ lost.csn = sky.csn => fetch_iau_names(lost) = fetch_iau_names(sky)
         /\ lost.hipparcos = sky.hipparcos => fetch_hipparcos(lost) = fetch_hipparcos(sky)
<1>1. lost.bsc = sky.bsc => BscOf(lost, star) = BscOf(sky, star)
  BY DEF BscOf, fetch_bsc
<1>2. lost.sao = sky.sao => SaoOf(lost, star) = SaoOf(sky, star)
  BY DEF SaoOf, fetch_sao
<1>3. fetch_iau_names(lost) = fetch_iau_names(sky) => CsnOf(lost, star) = CsnOf(sky, star)
  BY DEF CsnOf
<1>4. lost.csn = sky.csn => fetch_iau_names(lost) = fetch_iau_names(sky)
  BY DEF fetch_iau_names, WithHip, CsnRecords
<1>5. lost.hipparcos = sky.hipparcos => fetch_hipparcos(lost) = fetch_hipparcos(sky)
  BY DEF fetch_hipparcos
<1>6. QED
  BY <1>1, <1>2, <1>3, <1>4, <1>5

(* What the operator sees: a key that no row has left, while the file had  *)
(* one, is a shortfall.                                                    *)
LEMMA ShortIsKept ==
  ASSUME NEW sky, IsSky(sky), NEW lost, IsSky(lost), NEW key \in ToSet(LABEL_PRIORITY),
         NEW expected, expected = [k \in ToSet(LABEL_PRIORITY) |-> coverage(build(sky), k)],
         \A star \in fetch_hipparcos(lost) : Absent(key, RowOf(lost, star)[key]),
         ~ \A star \in fetch_hipparcos(sky) : Absent(key, RowOf(sky, star)[key])
  PROVE  Written(lost, expected, FALSE, build(sky)) = build(sky)
<1>1. \A r \in build(lost) : Absent(key, r[key])
  BY RowsAreStars
<1>2. ~ \A r \in build(sky) : Absent(key, r[key])
  BY RowsAreStars
<1>3. coverage(build(lost), key) = 0
  BY <1>1, AsManyRows, CoverageIs
<1>4. coverage(build(sky), key) \in Nat /\ coverage(build(sky), key) # 0
  BY <1>2, AsManyRows, CoverageIs
<1>5. 10 * coverage(build(lost), key) < 9 * expected[key]
  BY <1>3, <1>4
<1>6. key \in Shortfalls(build(lost), expected)
  BY <1>5 DEF Shortfalls
<1>7. QED
  BY <1>6 DEF Written

(* A build that lost the key of a table does not replace a good file       *)
(* (build_star_catalog.py:331-387).                                        *)
THEOREM LostKeyIsNoticed == \A sky : IsSky(sky) => KeptWhenKeyLost(sky)
<1> SUFFICES ASSUME NEW sky, IsSky(sky)
             PROVE  KeptWhenKeyLost(sky)
  OBVIOUS
<1> DEFINE good == build(sky)
           expected == [key \in ToSet(LABEL_PRIORITY) |-> coverage(good, key)]
           Kept(lost) == Written(lost, expected, FALSE, good) = good
<1>0. /\ \A lost : build(lost) = good => Kept(lost)
      /\ \A lost : ~CsnReadable(lost) => Kept(lost)
  BY DEF Written
<1> DEFINE Short(lost, key) ==
             /\ \A star \in fetch_hipparcos(lost) : Absent(key, RowOf(lost, star)[key])
             /\ ~ \A star \in fetch_hipparcos(sky) : Absent(key, RowOf(sky, star)[key])
<1>short. \A lost : IsSky(lost) => \A key \in ToSet(LABEL_PRIORITY) : Short(lost, key) => Kept(lost)
  BY ShortIsKept
<1>1. Kept(KeyLost(sky, "bsc", "hd"))
  <2> DEFINE lost == KeyLost(sky, "bsc", "hd")
  <2>1. /\ IsSky(lost) /\ lost.hipparcos = sky.hipparcos /\ lost.sao = sky.sao /\ lost.csn = sky.csn
        /\ DOMAIN lost.bsc = DOMAIN sky.bsc
        /\ \A i \in DOMAIN lost.bsc : lost.bsc[i] = [sky.bsc[i] EXCEPT !["hd"] = None]
    BY SkyWithout
  <2> HIDE DEF lost
  <2>2. \A b \in ToSet(lost.bsc) : b.hd = None
    <3>1. \A i \in DOMAIN sky.bsc : sky.bsc[i] \in Bsc
      BY DEF IsSky
    <3>2. \A i \in DOMAIN lost.bsc : lost.bsc[i].hd = None
      BY <2>1, <3>1 DEF Bsc
    <3>3. QED
      BY <3>2 DEF ToSet
  <2>3. \A star : BscOf(lost, star) = NoBsc
    BY <2>1, <2>2, PartnersFit DEF BscFits
  <2>4. fetch_hipparcos(lost) = fetch_hipparcos(sky)
    BY <2>1, SamePartners
  <2>5. CASE \A star \in fetch_hipparcos(sky) : Absent("hr", RowOf(sky, star).hr)
    <3>1. \A star \in fetch_hipparcos(sky) : BscOf(sky, star) = NoBsc
      BY <2>5, RowIs, PartnersFit DEF BscFits, Absent
    <3>2. \A star : SaoOf(lost, star) = SaoOf(sky, star) /\ CsnOf(lost, star) = CsnOf(sky, star)
      BY <2>1, SamePartners
    <3>3. \A star \in fetch_hipparcos(sky) : RowOf(lost, star) = RowOf(sky, star)
      BY <2>3, <3>1, <3>2 DEF RowOf
    <3>4. build(lost) = good
      BY <2>1, <2>4, <3>3, RowsAreStars
    <3>5. QED
      BY <1>0, <3>4 DEF lost
  <2>6. CASE ~ \A star \in fetch_hipparcos(sky) : Absent("hr", RowOf(sky, star).hr)
    <3>1. \A star \in fetch_hipparcos(lost) : Absent("hr", RowOf(lost, star).hr)
      BY <2>3, RowIs DEF NoBsc, Absent
    <3>2. Kept(lost)
      BY <1>short, <2>1, <2>6, <3>1, PriorityIs
    <3>3. QED
      BY <3>2 DEF lost
  <2>7. QED
    BY <2>5, <2>6
<1>2. Kept(KeyLost(sky, "csn", "hip"))
  <2> DEFINE lost == KeyLost(sky, "csn", "hip")
  <2>1. /\ IsSky(lost) /\ lost.hipparcos = sky.hipparcos /\ lost.sao = sky.sao /\ lost.bsc = sky.bsc
        /\ DOMAIN lost.csn = DOMAIN sky.csn
        /\ \A i \in DOMAIN lost.csn : lost.csn[i] = [sky.csn[i] EXCEPT !["hip"] = None]
    BY SkyWithout
  <2> HIDE DEF lost
  <2>2. \A i \in DOMAIN lost.csn : lost.csn[i].hip = None /\ lost.csn[i].tail = sky.csn[i].tail
    <3>1. \A i \in DOMAIN sky.csn : sky.csn[i] \in Csn
      BY DEF IsSky
    <3>2. QED
      BY <2>1, <3>1 DEF Csn
  <2>3. WithHip(lost) = {} /\ CsnRecords(lost) = CsnRecords(sky)
    BY <2>1, <2>2 DEF WithHip, CsnRecords
  <2>4. CASE CsnRecords(sky) = {}
    <3>1. ~CsnReadable(lost)
      BY <2>3, <2>4 DEF CsnReadable
    <3>2. QED
      BY <1>0, <3>1 DEF lost
  <2>5. CASE CsnRecords(sky) # {}
    <3>1. CsnRecords(lost) \in SUBSET (1 .. Len(lost.csn)) /\ Len(lost.csn) \in Nat
      BY <2>1, PlacesAre
    <3>0. IsFiniteSet(1 .. Len(lost.csn))
      BY <3>1, FS_Interval
    <3>2. IsFiniteSet(CsnRecords(lost))
      BY <3>1, <3>0, FS_Subset
    <3>3. Cardinality(CsnRecords(lost)) \in Nat /\ Cardinality(CsnRecords(lost)) # 0
      BY <2>3, <2>5, <3>2, FS_CardinalityType, FS_EmptySet
    <3>4. Cardinality(WithHip(lost)) = 0
      BY <2>3, FS_EmptySet
    <3>5. ~CsnReadable(lost)
      BY <3>3, <3>4 DEF CsnReadable
    <3>6. QED
      BY <1>0, <3>5 DEF lost
  <2>6. QED
    BY <2>4, <2>5
<1>3. Kept(KeyLost(sky, "hipparcos", "hd"))
  <2> DEFINE lost == KeyLost(sky, "hipparcos", "hd")
             stars == fetch_hipparcos(sky)
             Nameless(star) == [star EXCEPT !["hd"] = None]
  <2>1. /\ IsSky(lost) /\ lost.bsc = sky.bsc /\ lost.sao = sky.sao /\ lost.csn = sky.csn
        /\ DOMAIN lost.hipparcos = DOMAIN sky.hipparcos
        /\ \A i \in DOMAIN lost.hipparcos : lost.hipparcos[i] = Nameless(sky.hipparcos[i])
    BY SkyWithout
  <2> HIDE DEF lost
  <2>2. /\ \A i \in DOMAIN sky.hipparcos : sky.hipparcos[i] \in Star
        /\ \A i \in DOMAIN sky.hipparcos : /\ lost.hipparcos[i].hip = sky.hipparcos[i].hip
                                           /\ lost.hipparcos[i].placed = sky.hipparcos[i].placed
                                           /\ lost.hipparcos[i].hd = None
    <3>1. \A i \in DOMAIN sky.hipparcos : sky.hipparcos[i] \in Star
      BY DEF IsSky
    <3>2. QED
      BY <2>1, <3>1 DEF Star
  <2>3. \A star \in fetch_hipparcos(lost) : star.hd = None
    BY <2>1, <2>2 DEF fetch_hipparcos, vizier_tsv, RowsAt
  <2>4. \A star : RowOf(lost, star) = RowOf(sky, star)
    BY <2>1, SamePartners DEF RowOf
  <2>5. CASE \A star \in stars : Absent("hd", RowOf(sky, star).hd)
    <3>1. \A star \in stars : star.hd = None
      BY <2>5, RowIs DEF Absent
    <3>2. \A i \in DOMAIN sky.hipparcos : sky.hipparcos[i].hd = None => lost.hipparcos[i] = sky.hipparcos[i]
      BY <2>1, <2>2 DEF Star
    <3>3. fetch_hipparcos(lost) = stars
      <4> DEFINE places == {i \in vizier_tsv(sky.hipparcos, "hip") : sky.hipparcos[i].placed}
      <4>1. {i \in vizier_tsv(lost.hipparcos, "hip") : lost.hipparcos[i].placed} = places
        BY <2>1, <2>2 DEF vizier_tsv
      <4>2. /\ fetch_hipparcos(lost) = {lost.hipparcos[i] : i \in places}
            /\ stars = {sky.hipparcos[i] : i \in places}
        BY <4>1 DEF fetch_hipparcos, RowsAt
      <4>3. \A i \in places : lost.hipparcos[i] = sky.hipparcos[i]
        BY <3>1, <3>2, <4>2 DEF vizier_tsv
      <4> HIDE DEF places, stars
      <4>4. QED
        BY <4>2, <4>3
    <3>4. build(lost) = good
      BY <2>1, <2>4, <3>3, RowsAreStars
    <3>5. QED
      BY <1>0, <3>4 DEF lost
  <2>6. CASE ~ \A star \in stars : Absent("hd", RowOf(sky, star).hd)
    <3>1. \A star \in fetch_hipparcos(lost) : Absent("hd", RowOf(lost, star).hd)
      BY <2>3, RowIs DEF Absent
    <3>2. Kept(lost)
      BY <1>short, <2>1, <2>6, <3>1, PriorityIs
    <3>3. QED
      BY <3>2 DEF lost
  <2>7. QED
    BY <2>5, <2>6
<1>4. ASSUME 10 * Cardinality(BrightStars(sky)) < 9 * expected["sao"]
      PROVE  Kept(KeyLost(sky, "sao", "hd"))
  <2> DEFINE lost == KeyLost(sky, "sao", "hd")
             bright == BrightStars(sky)
             named == {r \in build(lost) : ~Absent("sao", r.sao)}
  <2>1. /\ IsSky(lost) /\ lost.hipparcos = sky.hipparcos /\ lost.bsc = sky.bsc
        /\ DOMAIN lost.sao = DOMAIN sky.sao
        /\ \A i \in DOMAIN lost.sao : lost.sao[i] = [sky.sao[i] EXCEPT !["hd"] = None]
    BY SkyWithout
  <2> HIDE DEF lost
  <2>2. \A s \in ToSet(lost.sao) : s.hd = None
    <3>1. \A i \in DOMAIN sky.sao : sky.sao[i] \in Sao
      BY DEF IsSky
    <3>2. \A i \in DOMAIN lost.sao : lost.sao[i].hd = None
      BY <2>1, <3>1 DEF Sao
    <3>3. QED
      BY <3>2 DEF ToSet
  <2>3. \A star : SaoOf(lost, star) = NoSao
    BY <2>1, <2>2, PartnersFit DEF SaoFits
  <2>4. named \subseteq {RowOf(lost, star) : star \in bright}
    <3>1. \A star : RowOf(lost, star).sao = BscOf(sky, star).sao \/ RowOf(lost, star).sao = None
      BY <2>1, <2>3, SamePartners DEF RowOf, Row, NoSao
    <3>2. \A star \in fetch_hipparcos(sky) : BscOf(sky, star) = NoBsc \/ star \in bright
      BY PartnersFit DEF BscFits, BrightStars
    <3>3. build(lost) = {RowOf(lost, star) : star \in fetch_hipparcos(sky)}
      BY <2>1, SamePartners, RowsAreStars
    <3>4. QED
      BY <3>1, <3>2, <3>3 DEF NoBsc, Absent
  <2>5. IsFiniteSet(bright) /\ Cardinality(bright) \in Nat
    BY StarsAre, FS_Subset, FS_CardinalityType DEF BrightStars
  <2>6. IsFiniteSet({RowOf(lost, star) : star \in bright})
        /\ Cardinality({RowOf(lost, star) : star \in bright}) <= Cardinality(bright)
    <3>1. [star \in bright |-> RowOf(lost, star)] \in Surjection(bright, {RowOf(lost, star) : star \in bright})
      BY DEF Surjection
    <3>2. QED
      BY <2>5, <3>1, FS_Surjection
  <2>7. Cardinality(named) <= Cardinality(bright) /\ Cardinality(named) \in Nat
    BY <2>4, <2>5, <2>6, FS_Subset, FS_CardinalityType
  <2>8. 10 * coverage(build(lost), "sao") < 9 * expected["sao"]
    <3>1. coverage(build(lost), "sao") = Cardinality(named)
      BY DEF coverage
    <3>2. expected["sao"] = coverage(good, "sao") /\ expected["sao"] \in Nat
      BY AsManyRows, CoverageIs, PriorityIs
    <3> HIDE DEF named, bright, expected
    <3>3. QED
      BY <1>4, <2>5, <2>7, <3>1, <3>2 DEF bright
  <2>9. "sao" \in Shortfalls(build(lost), expected)
    BY <2>8, PriorityIs DEF Shortfalls
  <2>10. QED
    BY <2>9 DEF Written, lost
<1>5. QED
  BY <1>1, <1>2, <1>3, <1>4 DEF KeptWhenKeyLost

=============================================================================
