----------------------------- MODULE MCEvidence -----------------------------
(***************************************************************************)
(* An instance of the evidence tasks for TLC: trees of three levels, files *)
(* of up to three steps, two liars among five signers.                     *)
(***************************************************************************)
EXTENDS EvidenceRuns, TLC

(* Places for the keys that share a tree; any that differ would do.        *)
KeySlot(key) ==
    CASE key = Spent -> 6
      [] key[1] = "ack" -> IF Last(key) = <<"lock">> THEN 2 ELSE IF Last(key) = <<"issuer">> THEN 3 ELSE 5
      [] OTHER -> 4

SmallSets == {S \in SUBSET (0..7) : Cardinality(S) <= 2} \cup {{0, 1, 2, 3}, {1, 4, 6, 7}}
SmallBatches == SeqOf({0, 1, 4, 5}, 3)

HonestThree == UNION {[1..n -> {10000, 10150}] : n \in 0..3}
LyingPair ==
    {[signer |-> s, price |-> p, epoch |-> 7, ts |-> 1000] : s \in {4, 5}, p \in {1, 10300, 20000}}
    \cup {[signer |-> 3, price |-> 5000, epoch |-> 7, ts |-> 300],
          [signer |-> 2, price |-> 5000, epoch |-> 6, ts |-> 1000],
          [signer |-> 6, price |-> 20000, epoch |-> 7, ts |-> 1000]}

ThreeReports == [1..2 -> [price : {10000, 10200}, stake : 1..2]]
Bonded == {Append(r, [price |-> p, stake |-> s]) :
                r \in ThreeReports, p \in {6000, 14000}, s \in 0..4}
BothSides == [price : {10000, 10100, 10390, 6000}, disputed : {-1, 10000, 10200, 14000}, block : {12, 13}]
=============================================================================
