------------------------------- MODULE MCDesk -------------------------------
(* Desk with one telescope of one board and one number, and two state      *)
(* files, one of them with a number too large for its spin box.            *)
EXTENDS Desk

MCBoards == {<<0, 0>>}
Spin     == <<0, 0, "arrayPosition">>
MCSpins  == {Spin}

File(missing, n) ==
  [f \in Telescopes \cup MCBoards \cup MCSpins |->
     IF f = Spin THEN n ELSE IF f \in missing THEN 1 ELSE 0]
MCStateFiles == {File({}, 2), File({<<0>>}, 0)}
=============================================================================
