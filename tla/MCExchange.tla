----------------------------- MODULE MCExchange -----------------------------
(***************************************************************************)
(* An instance of the exchange for TLC.                                    *)
(***************************************************************************)
EXTENDS Exchange
=============================================================================
