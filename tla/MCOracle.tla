------------------------------ MODULE MCOracle ------------------------------
(***************************************************************************)
(* Instances of the oracle daemon for TLC: ticks two seconds apart, one    *)
(* tick of lead, digits for the outcomes 0 .. 3.                           *)
(***************************************************************************)
EXTENDS OracleDaemon

CONSTANTS v1, v2, v3   \* venues

LiveOrFixed == {{}, {4}}
=============================================================================
