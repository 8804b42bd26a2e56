-------------------------- MODULE MCPointingWorker --------------------------
(* PointingWorker with two settings of the thresholds: what is left of a   *)
(* stored file, and the default, reached by a reset or by ends given the   *)
(* wrong way round; and skies of two stars.                                *)
EXTENDS PointingWorker

At(lo, hi, name) == [magMin |-> lo, magMax |-> hi, labelMax |-> name]

MCDefault == At(0, 99, 99)
MCThresholds == {At(99, 0, 120)}
MCStored == {[magMin |-> 5, labelMax |-> 6]}
MCLegacyLines == {[name |-> <<"a">>, vmag |-> None], [name |-> <<"b">>, vmag |-> 6]}

StarRow(hip, hd, vmag, placed) == [hip |-> hip, hd |-> hd, vmag |-> vmag, placed |-> placed]
BscRow(hr, hd, sao, name) == [hr |-> hr, hd |-> hd, sao |-> sao, name |-> name]
CsnRow(hip, name, bayer) ==
  [hip |-> hip, proper_name |-> <<name>>, bayer |-> bayer, sup |-> <<>>,
   con |-> <<"Cen">>, tail |-> TRUE]
BscName(flam, bayer, sup) == [flam |-> flam, bayer |-> bayer, sup |-> sup, con |-> <<"Psc">>]

Names ==
  {BscName(<<"33">>, <<>>, <<>>), BscName(<<"9">>, <<"alp">>, <<"1">>), BscName(<<>>, <<"nov">>, <<>>),
   BscName(<<>>, <<>>, <<>>), [other |-> <<"x">>, con |-> <<"Psc">>]}

(* Stars without an HD number, without a magnitude or a position, or with  *)
(* one HD number for two; rows without a key or with the same one; and     *)
(* named stars that are not in the catalogue, enough for the file of names *)
(* to be readable.                                                         *)
MCSkies ==
  {[hipparcos |-> <<StarRow(1, hd1, vmag, TRUE), StarRow(2, hd2, 3, placed)>>,
    bsc |-> <<BscRow(11, b1, sao, name), BscRow(12, b2, 22, BscName(<<"33">>, <<>>, <<>>))>>,
    sao |-> <<[hd |-> 5, sao |-> 21], [hd |-> s2, sao |-> 23]>>,
    csn |-> <<CsnRow(c1, "A", <<"alf">>), CsnRow(c2, "B", <<>>),
              CsnRow(7, "C", <<>>), CsnRow(8, "D", <<>>), CsnRow(9, "E", <<>>)>>] :
     hd1 \in {None, 5}, hd2 \in {None, 5, 6}, vmag \in {None, 9}, placed \in BOOLEAN,
     b1 \in {None, 5, 6}, b2 \in {None, 5}, sao \in {None, 21}, name \in Names,
     s2 \in {None, 5}, c1 \in {None, 1}, c2 \in {1, 2}}
=============================================================================
