------------------------------- MODULE MCSwap -------------------------------
(***************************************************************************)
(* Instances of the LP swap for TLC: prices that give redemptions of two   *)
(* and of five sats, a coin large enough for both and one for the smaller  *)
(* only.                                                                   *)
(***************************************************************************)
EXTENDS LpSwap, TLC

CONSTANTS s1, s2, s3,    \* sessions
          k1, k2,        \* coins
          a1             \* asset output

Value == [k \in Coin |-> IF k = k1 THEN 10 ELSE 5]

Interchangeable == Permutations(Session)
=============================================================================
