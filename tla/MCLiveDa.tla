------------------------------- MODULE MCLiveDa -------------------------------
(***************************************************************************)
(* The Live DA of one claim for one redemption, whose lineage is sound.    *)
(***************************************************************************)
EXTENDS LiveDa

CONSTANTS c1, burn1

MCBatch == [c \in Claim |-> <<burn1>>]
=============================================================================
