----------------------------- MODULE MCRunFiles -----------------------------
(* RunFiles with two telescopes of two boards and of one, and every list   *)
(* that differs from a good one in at most two places.                     *)
EXTENDS RunFiles

Board(pos, missing, addr) ==
  [pos |-> pos, missing |-> missing, addr |-> addr, fits |-> TRUE]
Good ==
  <<[number |-> 1, missing |-> FALSE,
     boards |-> <<Board(0, FALSE, "a"), Board(1, FALSE, "b")>>],
    [number |-> 2, missing |-> FALSE, boards |-> <<Board(0, TRUE, "c")>>]>>

(* The lists one change away: a number, a mark, a position, an address, a  *)
(* range; or one board or telescope too many.                              *)
Changed(s) ==
  UNION {
    {[s EXCEPT ![i].number = n] : n \in 1 .. 3, i \in DOMAIN s},
    {[s EXCEPT ![i].missing = ~@] : i \in DOMAIN s},
    {[s EXCEPT ![i].boards = Append(@, Board(2, TRUE, "d"))] : i \in DOMAIN s},
    {Append(s, [number |-> 3, missing |-> TRUE, boards |-> <<>>])},
    UNION {UNION {
      {[s EXCEPT ![i].boards[j].pos = p] : p \in 0 .. 2},
      {[s EXCEPT ![i].boards[j].missing = ~@]},
      {[s EXCEPT ![i].boards[j].addr = a] : a \in {"a", "b", "far"}},
      {[s EXCEPT ![i].boards[j].fits = FALSE]}} : i \in {1}, j \in 1 .. 2},
    {[s EXCEPT ![2].boards[1].pos = 2], [s EXCEPT ![2].boards[1].addr = "a"],
     [s EXCEPT ![2].boards[1].missing = ~@], [s EXCEPT ![2].boards[1].fits = FALSE]}}
MCStateFiles == UNION {Changed(s) : s \in Changed(Good)}
=============================================================================
