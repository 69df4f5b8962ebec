------------------------------ MODULE Anchoring ------------------------------
(***************************************************************************)
(* The transaction that settles a Rail-0 conversion, from the virtual      *)
(* transfer tapd funds to what anyone reads off the chain: the template    *)
(* of satusd-rail0 builder.rs, the burn key of burn_key.rs, the            *)
(* verification of a settlement (satusd-verify settlement.rs) and the      *)
(* price made of many (marker.rs).                                         *)
(*                                                                         *)
(* A virtual transfer is a record of inputs and outputs whose fields are   *)
(* the proprietary fields tapd writes: <<value>>, or Missing.              *)
(***************************************************************************)
EXTENDS Rails

CONSTANTS ANCHOR_DUST_SATS,   \* 1000
          TRIM_BPS            \* 500

ASSUME AnchoringAssumption == {ANCHOR_DUST_SATS, TRIM_BPS} \subseteq Nat

Missing == <<>>
Nums == <<"nums">>

(***************************************************************************)
(* Funding.  tapd chooses an asset output for the transfer, or takes the   *)
(* pinned one, and describes it and the outputs it wants.                  *)
(***************************************************************************)
Funded(utxo, slots) ==
    [inputs |-> <<[prev |-> <<[txid |-> utxo.txid, vout |-> utxo.vout]>>, value |-> <<utxo.value>>,
                   script |-> <<utxo.script>>, key |-> <<utxo.key>>, root |-> <<utxo.root>>]>>,
     outputs |-> slots]

(* The first input; all but the merkle root must be there.                 *)
AnchorInput(v) ==
    LET first == Head(v.inputs) IN
    IF v.inputs = <<>> THEN Refused
    ELSE IF \E f \in {"prev", "value", "script", "key"} : first[f] = Missing THEN Refused
    ELSE <<first>>

(* The slots by their anchor index, which must count from 0.               *)
AnchorOutputs(v) ==
    LET slots == SortedBy(v.outputs, LAMBDA out : out.index[1]) IN
    IF \E i \in DOMAIN v.outputs : v.outputs[i].index = Missing \/ v.outputs[i].key = Missing
    THEN Refused
    ELSE IF \E i \in DOMAIN slots : slots[i].index[1] /= i - 1 THEN Refused
    ELSE <<slots>>

(***************************************************************************)
(* The template: the asset's anchor and the LP's coin come in; the slots,  *)
(* the payout and what else was asked for go out.                          *)
(***************************************************************************)
AnchorTemplate(t, in, slots) ==
    [inputs |-> <<[spends |-> in.prev[1], value |-> in.value[1], script |-> in.script[1],
                   key |-> in.key, root |-> in.root],
                  [spends |-> t.lpCoin, value |-> t.lpValue, script |-> t.lpScript,
                   key |-> t.lpKey, root |-> Missing]>>,
     outputs |-> [i \in DOMAIN slots |->
                     [sats |-> ANCHOR_DUST_SATS, script |-> Nums,
                      key |-> slots[i].key, origin |-> slots[i].origin]]
                 \o <<[sats |-> t.payout.sats, script |-> t.payout.script,
                       key |-> t.payoutKey, origin |-> t.payoutOrigin]>>
                 \o [i \in DOMAIN t.extra |->
                       [sats |-> t.extra[i].sats, script |-> t.extra[i].script,
                        key |-> Missing, origin |-> Missing]]]

(* tapd puts the commitment to the assets of a slot in its place and adds  *)
(* an output for the change of the fee; the rest is left alone.            *)
Committed(template, slots, change) ==
    [template EXCEPT !.outputs =
        [i \in DOMAIN template.outputs |->
            IF i \in DOMAIN slots
            THEN [template.outputs[i] EXCEPT !.script = <<"commitment", slots[i].key[1], i - 1>>]
            ELSE template.outputs[i]]
        \o <<[sats |-> change, script |-> <<"change">>, key |-> Missing, origin |-> Missing]>>]

(* fund, sign_commit: refused, or the transaction to sign and publish.     *)
SignCommit(v, t, change) ==
    LET in == AnchorInput(v)
        slots == AnchorOutputs(v) IN
    IF in = Refused \/ slots = Refused THEN Refused
    ELSE <<Committed(AnchorTemplate(t, in[1], slots[1]), slots[1], change)>>

(***************************************************************************)
(* The burn key is a function of the first input alone.  Its output index  *)
(* is written with the low byte first, that of the virtual transfer with   *)
(* the high one; a txid is shown with its bytes reversed.                  *)
(***************************************************************************)
DeriveBurnKey(prev) ==
    <<"tweak", Nums, prev.txid \o Reverse(U32(prev.vout)) \o prev.asset \o prev.script>>

ParseAnchorPoint(shown) == [txid |-> Reverse(shown.txid), vout |-> shown.vout]

(***************************************************************************)
(* What anyone concludes from a settlement: the price and the volume of    *)
(* the quote, if the transaction pays what the plan says.                  *)
(***************************************************************************)
(* Mutant of VerifySettlement: any output to the payout script will do.    *)
VerifySettlementUnpriced(m, q, script, tx) ==
    IF q.rail /= RailId(m) THEN Refused
    ELSE IF PlanError(m, q) /= "none" THEN Refused
    ELSE IF q.commitment /= LockTemplateCommitment(PlanOf(m, q)) THEN Refused
    ELSE IF \E i \in DOMAIN tx.outputs : tx.outputs[i].script = script
    THEN <<[price |-> q.price, volume |-> q.amount]>>
    ELSE Refused

VerifySettlement(m, q, script, tx) ==
    IF q.rail /= RailId(m) THEN Refused
    ELSE IF PlanError(m, q) /= "none" THEN Refused
    ELSE IF q.commitment /= LockTemplateCommitment(PlanOf(m, q)) THEN Refused
    ELSE IF \E i \in DOMAIN tx.outputs :
                tx.outputs[i].sats = PlanOf(m, q).user /\ tx.outputs[i].script = script
    THEN <<[price |-> q.price, volume |-> q.amount]>>
    ELSE Refused

(***************************************************************************)
(* The marker.                                                             *)
(***************************************************************************)
Apart(a, b) == IF a > b THEN a - b ELSE b - a
BpsOf(x, bps) == (x * bps) \div 10000

(* Of an even number the lower of the two in the middle.                   *)
RawMedian(prices) == SortedBy(prices, LAMBDA p : p)[(Len(prices) - 1) \div 2 + 1]

(* Points within the band, the lowest price at which half the volume is    *)
(* reached; Refused when there is too little of it.                        *)
InternalTwap(points, minVolume) ==
    LET median == RawMedian([i \in DOMAIN points |-> points[i].price])
        kept == {i \in DOMAIN points : Apart(points[i].price, median) <= BpsOf(median, TRIM_BPS)}
        volume(S) == TotalOf([i \in S |-> points[i].volume])
        upTo(p) == volume({i \in kept : points[i].price <= p})
        total == volume(kept) IN
    IF points = <<>> THEN Refused
    ELSE IF total < minVolume \/ total = 0 THEN Refused
    ELSE <<Min({points[i].price : i \in {j \in kept : upTo(points[j].price) >= (total + 1) \div 2}})>>

(* <<price>>, or Invalid when the two sources are too far apart.           *)
Invalid == <<>>
AdaptiveMarker(external, internal, b) ==
    LET w == Min({b.weight, 10000})
        blended == (w * internal[1] + (10000 - w) * external) \div 10000
        clip == BpsOf(external, b.clip) IN
    IF internal = Refused THEN <<external>>
    ELSE IF Apart(internal[1], external) > BpsOf(external, b.halt) THEN Invalid
    ELSE <<Max({Max({0, external - clip}), Min({external + clip, blended})})>>
==============================================================================
