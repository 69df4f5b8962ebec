------------------------------ MODULE MCCohort ------------------------------
(***************************************************************************)
(* An instance of the cohort for TLC: two members, the first of which may  *)
(* deal twice, with either of two seeds.                                   *)
(***************************************************************************)
EXTENDS Cohort, TLC

CONSTANTS s1, s2, t2   \* seeds

DealtWith == <<{s1, s2}, {t2}>>
Twice == <<2, 1>>
Both == {<<1, 2>>}

EitherSeed == Permutations({s1, s2})
=============================================================================
