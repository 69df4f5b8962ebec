---------------------------- MODULE MCOptimistic ----------------------------
(***************************************************************************)
(* The optimistic reserve for TLC: claims of one and of three sats, and    *)
(* values two of which are borne out by real lineages.                     *)
(***************************************************************************)
EXTENDS OptimisticReserve

CONSTANTS c1, c2,             \* claims
          lin1, lin2, fake    \* committed values

MCSats == [c \in Claim |-> IF c = c1 THEN 1 ELSE 3]
=============================================================================
