------------------------------- MODULE Prices -------------------------------
(***************************************************************************)
(* Where a price comes from when several give one: the node's aggregate of *)
(* the oracles' messages (satusd-state oracle.rs), the median of bonded    *)
(* reports and the resolution of a disputed assertion (satusd-oracle       *)
(* median.rs and dispute.rs).                                              *)
(***************************************************************************)
EXTENDS Integers, SequencesExt

CONSTANTS
    Threshold,        \* ORACLE_THRESHOLD, 3
    SetSize,          \* ORACLE_SET_SIZE, 5
    DevBps,           \* ORACLE_OUTLIER_DEV_BPS, 200
    MaxLag,           \* max_epoch_lag_sec
    FutureTolerance   \* oracle_future_tolerance_sec

ASSUME PricesAssumption ==
    {Threshold, SetSize, DevBps, MaxLag, FutureTolerance} \subseteq Nat /\ Threshold > 0

Distance(a, b) == IF a > b THEN a - b ELSE b - a
NoPrice == -1

(***************************************************************************)
(* The aggregate the node mints and settles with.                          *)
(***************************************************************************)
Fresh(m, chainTime) ==
    /\ chainTime > m.ts => chainTime - m.ts <= MaxLag
    /\ m.ts > chainTime => m.ts - chainTime <= FutureTolerance

(* Mutant of Acceptable: a signer may send several messages.               *)
AcceptableTwice(messages, set, epoch, chainTime) ==
    /\ Len(messages) \in Threshold..SetSize
    /\ \A n \in DOMAIN messages :
        /\ messages[n].signer \in set
        /\ messages[n].epoch = epoch
        /\ Fresh(messages[n], chainTime)

Acceptable(messages, set, epoch, chainTime) ==
    /\ Len(messages) \in Threshold..SetSize
    /\ \A n \in DOMAIN messages :
        /\ messages[n].signer \in set
        /\ \A k \in 1..n - 1 : messages[k].signer /= messages[n].signer
        /\ messages[n].epoch = epoch
        /\ Fresh(messages[n], chainTime)

(* In order of price the one with half of the messages before it, of an    *)
(* even number the upper of the two in the middle: the lowest price that   *)
(* more than half of the messages do not exceed.                           *)
MedianOf(messages) ==
    LET upTo(p) == {n \in DOMAIN messages : messages[n].price <= p}
        prices == {messages[n].price : n \in DOMAIN messages}
    IN Min({p \in prices : Cardinality(upTo(p)) > Len(messages) \div 2})

Inliers(messages, median) ==
    {n \in DOMAIN messages : Distance(messages[n].price, median) * 10000 <= median * DevBps}

Aggregate(messages, set, epoch, chainTime) ==
    LET median == MedianOf(messages) IN
    IF /\ Acceptable(messages, set, epoch, chainTime)
       /\ Cardinality(Inliers(messages, median)) >= Threshold
    THEN median ELSE NoPrice

(***************************************************************************)
(* The reference of bonded reports.                                        *)
(***************************************************************************)
StakeOf(reports, S) == FoldSet(LAMBDA n, sum : reports[n].stake + sum, 0, S)

(* The lowest price at which the stake behind it and below reaches half.   *)
StakeWeightedMedian(reports) ==
    LET total == StakeOf(reports, DOMAIN reports)
        upTo(p) == StakeOf(reports, {n \in DOMAIN reports : reports[n].price <= p})
        prices == {reports[n].price : n \in DOMAIN reports}
        crossing == {p \in prices : upTo(p) >= (total + 1) \div 2}
    IN IF total = 0 THEN NoPrice ELSE Min(crossing)

(***************************************************************************)
(* The price of an assertion, disputed or not.                             *)
(***************************************************************************)
WithinBand(price, reference, bandBps) ==
    Distance(price, reference) <= (reference * bandBps) \div 10000

WindowOpen(a, block) == block < a.at + a.window
Closer(target, a, b) == Distance(a, target) <= Distance(b, target)

Accepted(price) == [signs |-> price, slashed |-> "nobody"]
Disputed(price, loser) == [signs |-> price, slashed |-> loser]
Rejected == [signs |-> NoPrice, slashed |-> "nobody"]

(* NoPrice stands for an assertion nobody disputes.                        *)
Resolve(a, disputed, reference, bandBps, block) ==
    LET asserted == Closer(reference, a.price, disputed)
        winner == IF asserted THEN a.price ELSE disputed
        loser == IF asserted THEN "disputer" ELSE "proposer" IN
    IF disputed = NoPrice
    THEN IF ~WindowOpen(a, block) /\ WithinBand(a.price, reference, bandBps)
         THEN Accepted(a.price) ELSE Rejected
    ELSE IF WithinBand(winner, reference, bandBps) THEN Disputed(winner, loser) ELSE Rejected
=============================================================================
