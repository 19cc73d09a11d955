---------------------------- MODULE Concatenation ----------------------------
(***************************************************************************)
(* Sums from place to place (cumsum, a loop that adds up) and sequences    *)
(* put one behind another (cat, extend), as recursive functions, of which  *)
(* theorems can speak.                                                     *)
(***************************************************************************)
EXTENDS Integers, Sequences

SumOver(d, from, to) ==
  LET sum[k \in from - 1 .. to] == IF k < from THEN 0 ELSE sum[k - 1] + d[k]
  IN  sum[to]

Concat(pieces) ==
  LET whole[k \in 0 .. Len(pieces)] == IF k = 0 THEN <<>> ELSE whole[k - 1] \o pieces[k]
  IN  whole[Len(pieces)]
=============================================================================
