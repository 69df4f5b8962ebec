------------------------------- MODULE Vaults -------------------------------
(***************************************************************************)
(* A vault: the outputs that hold its collateral (satusd-rail1 and         *)
(* satusd-vault funding.rs), its terms and ratios (contract.rs), the       *)
(* payouts of a crash (settle.rs) and the schedule of settlements signed   *)
(* in advance (satusd-vault cet.rs, satusd-rail1 cet.rs), and what a buyer *)
(* verifies of it (satusd-verify position.rs).                             *)
(*                                                                         *)
(* Keys, scripts and points are terms here: what makes an aggregate or an  *)
(* adaptor signature of them is the subject of Signatures.                 *)
(***************************************************************************)
EXTENDS Integers, SequencesExt

CONSTANTS SATS_PER_BTC, MICRO_PER_USD,
          MaxU32, MaxSats,   \* u32::MAX, u64::MAX
          PriceDigits        \* NB_DIGITS, 20

ASSUME VaultsAssumption ==
    /\ {SATS_PER_BTC, MICRO_PER_USD, MaxU32, MaxSats, PriceDigits} \subseteq Nat \ {0}

(***************************************************************************)
(* The outputs.  A script is the sequence of its opcodes and constants.    *)
(***************************************************************************)
RefundLeaf(csv, user, lp) ==
    <<csv, "CSV", "DROP", user, "CHECKSIGVERIFY", lp, "CHECKSIG">>
RefundLeafHolderOnly(csv, holder) == <<csv, "CSV", "DROP", holder, "CHECKSIG">>

Leaf(script) == <<"leaf", script>>
Branch(a, b) == <<"branch", {a, b}>>      \* the two hashes are sorted
Tweaked(internal, root) == <<"tweak", internal, root>>

(* Rail 1 keeps an asset commitment beside the refund, a vault does not.   *)
FundingOutput(internal, taLeaf, refund) ==
    LET root == Branch(taLeaf, Leaf(refund)) IN
    [internal |-> internal, root |-> root, output |-> Tweaked(internal, root)]
VaultFundingOutput(internal, refund) ==
    [internal |-> internal, root |-> Leaf(refund), output |-> Tweaked(internal, Leaf(refund))]

(* What consensus makes of a refund leaf: the time, then every key of it.  *)
SpendsByLeaf(script, signers, age) ==
    /\ script[2] = "CSV" => age >= script[1]
    /\ \A i \in 2..Len(script) :
            script[i] \in {"CHECKSIG", "CHECKSIGVERIFY"} => script[i - 1] \in signers

(* KeyAgg of two keys in order; the key path of an aggregate takes both.   *)
Aggregate(lp, holder) == <<"agg", lp, holder>>
SpendsByKey(internal, signers) ==
    internal[1] = "agg" /\ {internal[2], internal[3]} \subseteq signers

(***************************************************************************)
(* Ratios.                                                                 *)
(***************************************************************************)
CrBps(collateral, mint, price) ==
    IF mint = 0 THEN MaxU32
    ELSE Min({(collateral * price * MICRO_PER_USD * 10000) \div (SATS_PER_BTC * mint), MaxU32})

OpeningOk(terms, price) == CrBps(terms.collateral, terms.mint, price) >= terms.opening

(* The highest price of a crash.                                           *)
CrashPriceCeiling(terms) ==
    IF terms.collateral = 0 THEN MaxU32
    ELSE Min({(terms.liq * terms.mint * SATS_PER_BTC)
                 \div (terms.collateral * MICRO_PER_USD * 10000), MaxU32})

(***************************************************************************)
(* Payouts of a crash: the bounty, then the reserve, then the minter.      *)
(***************************************************************************)
FaceSats(mint, price) ==
    IF price = 0 THEN MaxSats
    ELSE Min({(mint * SATS_PER_BTC + price * MICRO_PER_USD - 1) \div (price * MICRO_PER_USD),
              MaxSats})

(* Mutant of CrashPayout: the bounty comes on top of what the reserve gets. *)
CrashPayoutOnTop(terms, price, p) ==
    LET face == FaceSats(terms.mint, price)
        penalty == (face * p.penalty) \div 10000
        spendable == Max({0, terms.collateral - p.fee})
        bounty == Min({(penalty * p.bounty) \div 10000, p.cap, spendable})
        reserve == Min({Min({face + penalty, MaxSats}), spendable}) IN
    [reserve |-> reserve, broadcaster |-> bounty, minter |-> Max({0, spendable - bounty - reserve})]

CrashPayout(terms, price, p) ==
    LET face == FaceSats(terms.mint, price)
        penalty == (face * p.penalty) \div 10000
        spendable == Max({0, terms.collateral - p.fee})
        bounty == Min({(penalty * p.bounty) \div 10000, p.cap, spendable})
        wanted == Max({0, Min({face + penalty, MaxSats}) - bounty})
        reserve == Min({wanted, spendable - bounty}) IN
    [reserve |-> reserve, broadcaster |-> bounty, minter |-> spendable - bounty - reserve]

ReserveShortfall(payout, terms, price) ==
    Max({0, FaceSats(terms.mint, price) - payout.reserve})

(***************************************************************************)
(* Settlements signed in advance.                                          *)
(***************************************************************************)
BucketSchedule(m) ==
    LET width == 2 ^ (PriceDigits - m) IN
    [i \in 1..2 ^ m |-> [index |-> i - 1, lo |-> (i - 1) * width, hi |-> i * width]]

(* One for each bucket that begins below the ceiling, at its midpoint.     *)
(* The buckets are in order, so those that do are the first of them.       *)
CrashSchedule(terms, p) ==
    LET all == BucketSchedule(terms.m)
        at(b) == b.lo + (b.hi - b.lo) \div 2 IN
    [i \in {i \in DOMAIN all : all[i].lo < CrashPriceCeiling(terms)} |->
        [bucket |-> all[i], price |-> at(all[i]), payout |-> CrashPayout(terms, at(all[i]), p)]]

(* A price beyond the digits is attested as the highest.                   *)
Attested(price) == Min({price, 2 ^ PriceDigits - 1})
BucketOfPrice(price, m) == Attested(price) \div 2 ^ (PriceDigits - m)

(***************************************************************************)
(* What a buyer is handed, and verifies.                                   *)
(***************************************************************************)
PositionQ(pos) ==
    Tweaked(Aggregate(pos.lp, pos.holder), Leaf(RefundLeaf(pos.csv, pos.refundUser, pos.refundLp)))

(* The first check that fails.                                             *)
BackingError(pos, q, price) ==
    IF "bad" \in {pos.lp, pos.holder} THEN "BadKeys"
    ELSE IF q.key /= PositionQ(pos) THEN "QMismatch"
    ELSE IF q.sats /= pos.terms.collateral THEN "CollateralMismatch"
    ELSE IF ~OpeningOk(pos.terms, price) THEN "UnderCollateralised"
    ELSE "none"

(* <<holder's leg, LP's leg>> at a price, which is never 0.                *)
PayoutAt(terms, price) ==
    LET face == (terms.mint * SATS_PER_BTC) \div (price * MICRO_PER_USD)
        p == Min({face, terms.collateral})
    IN <<p, terms.collateral - p>>

(* The sum of the points of the first m digits; too few nonces are an      *)
(* error.                                                                  *)
BucketPoint(ann, key, m, bucket) ==
    IF Len(ann.nonces) < m THEN <<>>
    ELSE <<"sum", key, {<<ann.nonces[i], (bucket \div 2 ^ (m - i)) % 2>> : i \in 1..m}>>

(* A signature encrypted to a point: of both keys, on that message.        *)
Presignature(key, msg, point) == [key |-> key, msg |-> msg, point |-> point]
VerifyCetAdaptor(key, msg, ann, oracle, m, bucket, pre) ==
    LET point == BucketPoint(ann, oracle, m, bucket)
    IN point /= <<>> /\ pre = Presignature(key, msg, point)

(* What the attestation of a price makes of the announced nonces opens the *)
(* presignatures whose digits are its own.                                 *)
Opens(ann, oracle, price, m, pre) ==
    pre.point = <<"sum", oracle,
                  {<<ann.nonces[i], (Attested(price) \div 2 ^ (PriceDigits - i)) % 2>> : i \in 1..m}>>
=============================================================================
