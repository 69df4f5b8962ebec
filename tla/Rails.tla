-------------------------------- MODULE Rails --------------------------------
(***************************************************************************)
(* A rail (satusd-rail): its manifest and the identity made of it, the     *)
(* quotes given on it, the phases of a conversion and its capacity; the    *)
(* manifest and the plan of Rail 0 (satusd-rail0 rail.rs, plan.rs); and    *)
(* the allotment of the common reserve to the rails (satusd-allot).        *)
(*                                                                         *)
(* A hash is the tuple of its tag and the bytes under it.                  *)
(***************************************************************************)
EXTENDS Wire

CONSTANTS MaxU64,            \* u64::MAX
          UNIT,              \* milli-satoshis of a sat times micro-dollars of a dollar, 10^9
          DUST_FLOOR_SATS    \* 546

ASSUME RailsAssumption == {MaxU64, UNIT, DUST_FLOOR_SATS} \subseteq Nat \ {0}

(***************************************************************************)
(* The manifest.                                                           *)
(***************************************************************************)
Directions == [redeem |-> 0, mint |-> 1, both |-> 2]
Primitives == [atomicSwap |-> 0, dlcTaproot |-> 1, optimisticClaim |-> 2]
Transitions == [lock |-> 0, settle |-> 1, refund |-> 2, dispute |-> 3]
Tiers == [consensus |-> 1, anyoneCanAct |-> 2, federationCrypto |-> 3]

EventTemplate(e) ==
    VarBytes(e.pair) \o U32(e.cadence) \o U16(e.base) \o U16(e.digits)
        \o U8(IF e.signed THEN 1 ELSE 0) \o U32(e.precision) \o VarBytes(e.unit)

OracleSpec(o) ==
    CASE o.class = "none" -> U8(0)
      [] o.class = "dlcspecs" -> U8(1) \o U16(o.k) \o U16(o.n) \o BigSize(Len(o.keys))
                                    \o Joined(o.keys) \o EventTemplate(o.template)
      [] o.class = "optimistic" -> U8(2) \o U32(o.window) \o U64(o.bond)
      [] o.class = "internalTwap" -> U8(3) \o U32(o.window) \o U64(o.volume)

LivenessEscape(l) ==
    CASE l.class = "none" -> U8(0)
      [] l.class = "tlock" -> U8(1) \o l.beacon \o U32(l.delay)
      [] l.class = "decayScript" -> U8(2) \o VarBytes(l.params)

(* From the lowest key to the highest, equal ones as they came.            *)
Before(keys, i, j) == keys[i] < keys[j] \/ (keys[i] = keys[j] /\ i < j)
StableOrder(keys) ==
    CHOOSE p \in [DOMAIN keys -> DOMAIN keys] :
        \A i, j \in DOMAIN keys : i < j => Before(keys, p[i], p[j])

SortedBy(s, Key(_)) ==
    LET order == StableOrder([i \in DOMAIN s |-> Key(s[i])]) IN [i \in DOMAIN s |-> s[order[i]]]

(* The tiers in the order of their transitions, whichever they came in.    *)
CanonicalEncode(m) ==
    U16(m.version) \o U8(m.direction) \o m.asset \o OracleSpec(m.oracle) \o U8(m.settle)
        \o U64(m.maxSize) \o U32(m.term) \o U16(m.retain) \o U16(m.service) \o U64(m.fixed)
        \o U16(m.devBound) \o U32(m.validity) \o U32(m.window) \o U32(m.refundDelta)
        \o U64(m.stake) \o BigSize(Len(m.slash)) \o Joined(m.slash) \o m.hook
        \o LivenessEscape(m.escape)
        \o BigSize(Len(m.tiers))
        \o Joined([i \in DOMAIN m.tiers |->
              LET t == SortedBy(m.tiers, LAMBDA tier : tier[1])[i] IN U8(t[1]) \o U8(t[2])])

RailId(m) == <<"rail-manifest", CanonicalEncode(m)>>

(* p names the knobs an LP chooses; the rest of Rail 0 is fixed.  A rail   *)
(* that draws on the reserve must bound its price.                         *)
Rail0Manifest(p) ==
    IF p.devBound = 0 THEN Refused
    ELSE <<[version |-> 1, direction |-> Directions.mint, asset |-> p.asset,
            oracle |-> [class |-> "none"], settle |-> Primitives.atomicSwap,
            maxSize |-> p.maxSize, term |-> p.term,
            retain |-> p.retain, service |-> p.service, fixed |-> p.fixed,
            devBound |-> p.devBound, validity |-> p.validity, window |-> p.validity,
            refundDelta |-> 0, stake |-> p.stake, slash |-> p.slash,
            hook |-> [i \in 1..KeyLen |-> 0], escape |-> [class |-> "none"],
            tiers |-> << <<Transitions.settle, Tiers.anyoneCanAct>>,
                         <<Transitions.dispute, Tiers.anyoneCanAct>> >>]>>

(***************************************************************************)
(* The phases of a conversion.                                             *)
(***************************************************************************)
MayTransition(from, to, collapsed) ==
    \/ <<from, to>> = <<"quote", "settle">> /\ collapsed
    \/ <<from, to>> \in {<<"quote", "lock">>, <<"lock", "settle">>, <<"lock", "refund">>}
        /\ ~collapsed

IsTerminal(phase) == phase \in {"settle", "refund"}

(***************************************************************************)
(* Quotes and plans.                                                       *)
(***************************************************************************)
SigningPayload(q) ==
    <<"quote", q.rail, U64(q.price) \o U64(q.amount) \o U64(q.expiry), q.commitment>>

(* What does not fit saturates.                                            *)
Gross(q) == Min({(q.amount * q.price) \div UNIT, MaxU64})

RoundHalfUp(amount, bps) == (amount * bps + 5000) \div 10000

(* The first check that fails.                                             *)
PlanError(m, q) ==
    LET gross == Gross(q)
        fee == RoundHalfUp(gross, m.service) IN
    IF m.oracle.class /= "none" \/ m.settle /= Primitives.atomicSwap THEN "NotRail0"
    ELSE IF q.rail /= RailId(m) THEN "RailIdMismatch"
    ELSE IF gross > m.maxSize THEN "OverMaxSize"
    ELSE IF gross - fee - m.fixed < DUST_FLOOR_SATS THEN "DustPayout"
    ELSE "none"

PlanOf(m, q) ==
    LET gross == Gross(q)
        fee == RoundHalfUp(gross, m.service) IN
    [rail |-> q.rail, burn |-> q.amount, gross |-> gross, fee |-> fee,
     user |-> gross - fee - m.fixed, retained |-> RoundHalfUp(gross, m.retain)]

LockTemplateCommitment(plan) ==
    <<"rail0-lock-template", plan.rail,
      U64(plan.burn) \o U64(plan.gross) \o U64(plan.fee) \o U64(plan.user) \o U64(plan.retained)>>

MatchesSettlement(plan, burned, paid) == burned = plan.burn /\ paid = plan.user

(***************************************************************************)
(* Capacity and allotment.                                                 *)
(***************************************************************************)
Capacity(retainedCum, stake) == (retainedCum + stake) \div 2

TotalOf(f) == SumFunctionOnSet(f, DOMAIN f)

(* All of a capacity while they fit together, then in proportion.          *)
Scaled(cap, reserve, total) ==
    IF total <= reserve \/ total = 0 THEN cap ELSE (cap * reserve) \div total

DuplicateRail(positions) ==
    \E i, j \in DOMAIN positions : i /= j /\ positions[i].rail = positions[j].rail

AllotmentInputHash(input) ==
    <<"allotment-input", input.epoch, input.reserve,
      SortedBy(input.positions, LAMBDA p : p.rail)>>

Allot(input) ==
    LET sorted == SortedBy(input.positions, LAMBDA p : p.rail)
        cap(i) == Capacity(sorted[i].retained, sorted[i].stake)
        total == TotalOf([i \in DOMAIN sorted |-> cap(i)])
        tranche(i) == Scaled(cap(i), input.reserve, total) IN
    [input |-> AllotmentInputHash(input), epoch |-> input.epoch, reserve |-> input.reserve,
     tranches |-> [i \in DOMAIN sorted |->
                      [rail |-> sorted[i].rail, capacity |-> cap(i), sats |-> tranche(i)]],
     unallocated |-> Max({0, input.reserve - TotalOf([i \in DOMAIN sorted |-> tranche(i)])})]

PlanHash(plan) == <<"allotment-plan", plan>>
==============================================================================
