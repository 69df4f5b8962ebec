---------------------------- MODULE PositionRuns ----------------------------
(***************************************************************************)
(* Messages, settlements and vaults put before the readers and verifiers   *)
(* of Wire, Rails, Anchoring and Vaults: as honest parties make them and   *)
(* with one part or another exchanged.  A task names the parts; running it *)
(* gives the verdict.                                                      *)
(***************************************************************************)
EXTENDS Anchoring, Vaults

CONSTANTS
    Sizes, MaxBytes,                 \* lengths written, bytes read
    Attestations, Announcements,     \* messages, and the
    Altered,                         \* bytes put in the place of one of theirs
    Manifests,                       \* all of them are compared
    QuotePrices, QuoteAmounts,
    Slots,                           \* anchor outputs tapd may ask for
    Points, MaxPoints, Blends, ExternalPrices,
    Positions, MaxPositions, Reserves,
    Terms, Params, Prices,
    Ages                             \* blocks since the output was confirmed

(* Amounts fit their type, a schedule is of no more digits than a price    *)
(* has, the penalty is a share of the face and the bounty of the penalty.  *)
ASSUME PositionAssumption ==
    /\ Terms \subseteq [collateral : 0..MaxSats, mint : Nat, opening : Nat, liq : Nat,
                        m : 1..PriceDigits]
    /\ Params \subseteq [penalty : Nat, bounty : Nat, cap : Nat, fee : Nat]
    /\ \A p \in Params : p.penalty <= 10000 /\ p.bounty <= 10000
    /\ Prices \subseteq Nat /\ Ages \subseteq Nat

(* tapd writes an index as a number, or none.                              *)
ASSUME SettlementAssumption ==
    /\ QuotePrices \subseteq Nat /\ QuoteAmounts \subseteq Nat
    /\ \A s \in Slots :
        s \in Seq(ToSet(s)) /\ \A i \in DOMAIN s : s[i].index \in {Missing} \cup [1..1 -> Nat]
    /\ Points \subseteq [price : Nat, volume : Nat] /\ MaxPoints \in Nat
    /\ Blends \subseteq [weight : Nat, clip : Nat, halt : Nat] /\ ExternalPrices \subseteq Nat
    /\ Positions \subseteq [rail : Nat, retained : Nat, stake : Nat] /\ MaxPositions \in Nat
    /\ Reserves \subseteq Nat

VARIABLES task, verdict

(***************************************************************************)
(* Tasks on encodings.                                                     *)
(***************************************************************************)
SizeTasks == [about : {"size"}, v : Sizes]
ByteTasks == [about : {"bytes"}, s : SeqOf(0..Byte - 1, MaxBytes)]

(* One byte of the message is changed, or one comes after it.              *)
Alterations(kind, msg, length) ==
    [about : {kind}, msg : {msg}, at : 0..length + 1, byte : Altered]
MessageTasks ==
    (UNION {Alterations("attestation", a, Len(OracleAttestation(a))) : a \in Attestations})
    \cup UNION {Alterations("announcement", a, Len(OracleAnnouncement(a))) : a \in Announcements}

(* Two manifests, two quotes, two inputs of a burn.                        *)
IdentityTasks == [about : {"identity"}, one : Manifests, other : Manifests]
QuoteTasks ==
    LET quotes == [rail : {1, 2}, price : QuotePrices, amount : QuoteAmounts, expiry : {9},
                   commitment : {1, 2}]
    IN [about : {"quotes"}, one : quotes, other : quotes]
PrevIds == [txid : [1..2 -> {1, 2}], vout : {0, 1, Byte}, asset : {<<1>>}, script : {<<3>>, <<4>>}]
BurnTasks == [about : {"burn"}, one : PrevIds, other : PrevIds]

Changed(s, at, byte) ==
    IF at = 0 THEN s ELSE IF at > Len(s) THEN Append(s, byte) ELSE [s EXCEPT ![at] = byte]

PerformSize(t) ==
    [back |-> ReadBigSize(BigSize(t.v)) = <<t.v, <<>>>>, width |-> Len(BigSize(t.v))]
PerformBytes(t) ==
    LET r == ReadBigSize(t.s) IN
    [read |-> r /= Refused, canonical |-> r /= Refused => BigSize(r[1]) \o r[2] = t.s]
PerformMessage(t) ==
    LET bytes == IF t.about = "attestation" THEN OracleAttestation(t.msg)
                 ELSE OracleAnnouncement(t.msg)
        given == Changed(bytes, t.at, t.byte)
        parsed == IF t.about = "attestation" THEN ParseAttestation(given)
                  ELSE ParseAnnouncement(given)
        again == IF t.about = "attestation" THEN OracleAttestation(parsed[1])
                 ELSE OracleAnnouncement(parsed[1] @@ t.msg) IN
    [same |-> given = bytes, parsed |-> parsed, again |-> parsed /= Refused => again = given]

PerformIdentity(t) == RailId(t.one) = RailId(t.other)
PerformQuotes(t) == SigningPayload(t.one) = SigningPayload(t.other)

(* The key of the transfer's input, and the one from what tapd shows.      *)
Shown(prev) == [txid |-> Reverse(prev.txid), vout |-> prev.vout]
PerformBurn(t) ==
    [same |-> DeriveBurnKey(t.one) = DeriveBurnKey(t.other),
     shown |-> DeriveBurnKey(ParseAnchorPoint(Shown(t.one)) @@ t.one) = DeriveBurnKey(t.one)]

(***************************************************************************)
(* Tasks on settlements.  The LP quotes on its manifest, commits to the    *)
(* plan of this quote or of another amount; the client asks for the        *)
(* planned payout or another, to its script or another.                    *)
(***************************************************************************)
Knobs == [asset |-> [i \in 1..KeyLen |-> 1], maxSize |-> 120, term |-> 5, retain |-> 30,
          service |-> 100, fixed |-> 1, devBound |-> 50, validity |-> 6, stake |-> 9, slash |-> <<>>]
Rail == Rail0Manifest(Knobs)[1]
OtherRail == Rail0Manifest([Knobs EXCEPT !.service = 0])[1]

(* The fee fits its two bytes, and an amount that saturates is over size.  *)
ASSUME KnobsAssumption == Knobs.service < Weight[2] /\ Knobs.maxSize < MaxU64

SettlementTasks ==
    [about : {"settlement"}, price : QuotePrices, amount : QuoteAmounts, committed : QuoteAmounts,
     on : {Rail, OtherRail}, off : {-1, 0, 1}, to : {<<"user">>, <<"lp">>}, slots : Slots]

QuoteFor(t) ==
    LET q(amount, commitment) == [rail |-> RailId(Rail), price |-> t.price, amount |-> amount,
                                  expiry |-> 9, commitment |-> commitment]
    IN q(t.amount, LockTemplateCommitment(PlanOf(Rail, q(t.committed, Missing))))

Utxo == [txid |-> <<1, 2>>, vout |-> 1, value |-> 10, script |-> <<"note">>, key |-> "n", root |-> "r"]
TemplateFor(t) ==
    [lpCoin |-> "lp-coin", lpValue |-> 200, lpScript |-> <<"lp">>, lpKey |-> Missing,
     payout |-> [sats |-> PlanOf(Rail, QuoteFor(t)).user + t.off, script |-> t.to],
     payoutKey |-> <<"pay">>, payoutOrigin |-> Missing, extra |-> <<[sats |-> 7, script |-> <<"lp">>]>>]

PerformSettlement(t) ==
    LET made == SignCommit(Funded(Utxo, t.slots), TemplateFor(t), 3) IN
    IF made = Refused THEN [made |-> FALSE]
    ELSE [made |-> TRUE, tx |-> made[1],
          point |-> VerifySettlement(t.on, QuoteFor(t), <<"user">>, made[1])]

(* A conversion that goes through these phases.                            *)
PhaseTasks == [about : {"phases"}, walk : SeqOf({"quote", "lock", "settle", "refund"}, 4),
               collapsed : BOOLEAN]
PerformPhases(t) ==
    /\ t.walk /= <<>> => t.walk[1] = "quote"
    /\ \A i \in 2..Len(t.walk) : MayTransition(t.walk[i - 1], t.walk[i], t.collapsed)

(***************************************************************************)
(* Tasks on the marker and the allotment.                                  *)
(***************************************************************************)
MarkerTasks == [about : {"marker"}, points : SeqOf(Points, MaxPoints), minVolume : {0, 4},
                external : ExternalPrices, blend : Blends]
PerformMarker(t) ==
    LET internal == InternalTwap(t.points, t.minVolume)
    IN [internal |-> internal, marker |-> AdaptiveMarker(t.external, internal, t.blend)]

AllotTasks == [about : {"allot"}, positions : SeqOf(Positions, MaxPositions), reserve : Reserves]
AllotInput(positions, t) == [epoch |-> 1, reserve |-> t.reserve, positions |-> positions]
PerformAllot(t) ==
    IF DuplicateRail(t.positions) THEN [refused |-> TRUE]
    ELSE [refused |-> FALSE, plan |-> Allot(AllotInput(t.positions, t)),
          otherWay |-> PlanHash(Allot(AllotInput(Reverse(t.positions), t)))]

(***************************************************************************)
(* Tasks on vaults.                                                        *)
(***************************************************************************)
CrashTasks == [about : {"crash"}, terms : Terms, params : Params, price : Prices]
PerformCrash(t) ==
    [schedule |-> CrashSchedule(t.terms, t.params), ceiling |-> CrashPriceCeiling(t.terms),
     ratio |-> CrBps(t.terms.collateral, t.terms.mint, t.price),
     legs |-> IF t.price = 0 THEN <<>> ELSE PayoutAt(t.terms, t.price)]

(* The output may be of this position, of one that differs in a part, or   *)
(* have the leaf that pays the holder alone or an asset beside the leaf.   *)
BackingTasks ==
    [about : {"backing"}, terms : Terms, price : Prices \ {0}, sats : {-1, 0},
     of : {"it", "lp", "holder", "order", "csv", "holderOnly", "asset"}]
Position == [lp |-> "L", holder |-> "H", csv |-> 2, refundUser |-> "H", refundLp |-> "L"]
Described(t) ==
    [f \in DOMAIN Position \cup {"terms"} |-> IF f = "terms" THEN t.terms ELSE Position[f]]
OutputOf(t) ==
    LET p == Position
        keys == Aggregate(p.lp, p.holder)
        refund == RefundLeaf(p.csv, "H", "L") IN
    CASE t.of = "it" -> VaultFundingOutput(keys, refund).output
      [] t.of = "lp" -> VaultFundingOutput(Aggregate("M", "H"), refund).output
      [] t.of = "holder" -> VaultFundingOutput(Aggregate("L", "I"), refund).output
      [] t.of = "order" -> VaultFundingOutput(Aggregate("H", "L"), refund).output
      [] t.of = "csv" -> VaultFundingOutput(keys, RefundLeaf(1, "H", "L")).output
      [] t.of = "holderOnly" -> VaultFundingOutput(keys, RefundLeafHolderOnly(p.csv, "H")).output
      [] t.of = "asset" -> FundingOutput(keys, <<"assets">>, refund).output
PerformBacking(t) ==
    BackingError(Described(t), [key |-> OutputOf(t), sats |-> t.terms.collateral + t.sats], t.price)

SpendTasks == [about : {"spend"}, signers : SUBSET {"H", "L"}, age : Ages, holderOnly : BOOLEAN]
PerformSpend(t) ==
    LET leaf == IF t.holderOnly THEN RefundLeafHolderOnly(2, "H") ELSE RefundLeaf(2, "H", "L") IN
    [key |-> SpendsByKey(Aggregate("L", "H"), t.signers),
     leaf |-> SpendsByLeaf(leaf, t.signers, t.age)]

(* Both sign a settlement for a bucket; the buyer checks it for a bucket   *)
(* of an announcement, which may have been cut or be that of another time. *)
Announced(which) ==
    [nonces |-> CASE which = "this" -> [i \in 1..PriceDigits |-> <<"this", i>>]
                  [] which = "other" -> [i \in 1..PriceDigits |-> <<"other", i>>]
                  [] which = "cut" -> [i \in 1..PriceDigits - 2 |-> <<"this", i>>]]
PresignTasks ==
    UNION {[about : {"presigned"}, m : {m}, signed : 0..2 ^ m - 1, checked : 0..2 ^ m - 1,
            under : {"this", "other", "cut"}, msg : {"settle", "sweep"}, price : Prices] :
           m \in 1..PriceDigits}
PerformPresigned(t) ==
    LET q == PositionQ(Position)
        pre == Presignature(q, t.msg, BucketPoint(Announced("this"), "oracle", t.m, t.signed)) IN
    [accepted |-> VerifyCetAdaptor(q, "settle", Announced(t.under), "oracle", t.m, t.checked, pre),
     opens |-> Opens(Announced("this"), "oracle", t.price, t.m, pre)]

(***************************************************************************)
(* Running a task.                                                         *)
(***************************************************************************)
Done(v) == verdict = <<>> /\ verdict' = <<v>> /\ UNCHANGED task

RunSize == task.about = "size" /\ Done(PerformSize(task))
RunBytes == task.about = "bytes" /\ Done(PerformBytes(task))
RunMessage == task.about \in {"attestation", "announcement"} /\ Done(PerformMessage(task))
RunIdentity == task.about = "identity" /\ Done(PerformIdentity(task))
RunQuotes == task.about = "quotes" /\ Done(PerformQuotes(task))
RunBurn == task.about = "burn" /\ Done(PerformBurn(task))
RunPhases == task.about = "phases" /\ Done(PerformPhases(task))
RunSettlement == task.about = "settlement" /\ Done(PerformSettlement(task))
RunMarker == task.about = "marker" /\ Done(PerformMarker(task))
RunAllot == task.about = "allot" /\ Done(PerformAllot(task))
RunCrash == task.about = "crash" /\ Done(PerformCrash(task))
RunBacking == task.about = "backing" /\ Done(PerformBacking(task))
RunSpend == task.about = "spend" /\ Done(PerformSpend(task))
RunPresigned == task.about = "presigned" /\ Done(PerformPresigned(task))

Init ==
    /\ verdict = <<>>
    /\ \/ task \in SizeTasks
       \/ task \in ByteTasks
       \/ task \in MessageTasks
       \/ task \in IdentityTasks
       \/ task \in QuoteTasks
       \/ task \in BurnTasks
       \/ task \in PhaseTasks
       \/ task \in SettlementTasks
       \/ task \in MarkerTasks
       \/ task \in AllotTasks
       \/ task \in CrashTasks
       \/ task \in BackingTasks
       \/ task \in SpendTasks
       \/ task \in PresignTasks

Next ==
    \/ RunSize \/ RunBytes \/ RunMessage \/ RunIdentity \/ RunQuotes
    \/ RunBurn \/ RunPhases \/ RunSettlement \/ RunMarker \/ RunAllot
    \/ RunCrash \/ RunBacking \/ RunSpend \/ RunPresigned

Spec == Init /\ [][Next]_<<task, verdict>>

(***************************************************************************)
(* Properties.                                                             *)
(***************************************************************************)
Finished(kinds) == verdict /= <<>> /\ task.about \in kinds

(* Equal but for the order of the tiers of different transitions.          *)
SameRail(a, b) ==
    LET of(m, t) == SelectSeq(m.tiers, LAMBDA x : x[1] = t) IN
    /\ [a EXCEPT !.tiers = <<>>] = [b EXCEPT !.tiers = <<>>]
    /\ \A t \in 0..3 : of(a, t) = of(b, t)

(* What is written is read back, and nothing is read that the writer would *)
(* not have written: a length has one form, an attestation with a byte     *)
(* changed is refused or is another attestation's own encoding, an         *)
(* announcement likewise but for the descriptor its reader skips, and      *)
(* neither bears a byte more.  Two manifests, quotes or inputs of a burn   *)
(* that differ have different identities, payloads and keys, but for the   *)
(* order in which a manifest lists its tiers, and a burn key is the same   *)
(* from either of the two notations of an outpoint.                        *)
EncodingsAreExact ==
    /\ Finished({"size"}) => verdict[1].back /\ verdict[1].width \in {1, 3, 5, 9}
    /\ Finished({"bytes"}) => verdict[1].canonical
    /\ Finished({"attestation", "announcement"}) =>
        LET p == verdict[1].parsed IN
        /\ verdict[1].same => p /= Refused /\ p[1] = [f \in DOMAIN p[1] |-> task.msg[f]]
        /\ task.at > Len(IF task.about = "attestation" THEN OracleAttestation(task.msg)
                         ELSE OracleAnnouncement(task.msg)) => p = Refused
        /\ p /= Refused /\ ~verdict[1].same =>
            IF task.about = "attestation" THEN p[1] /= task.msg /\ verdict[1].again
            ELSE p[1] = [f \in DOMAIN p[1] |-> task.msg[f]] \/ verdict[1].again
    /\ Finished({"identity"}) => verdict[1] = SameRail(task.one, task.other)
    /\ Finished({"quotes"}) => verdict[1] = (task.one = task.other)
    /\ Finished({"burn"}) => verdict[1].same = (task.one = task.other) /\ verdict[1].shown

(* Honest points agree within the band and have more than half of the      *)
(* points and of their volume.                                             *)
HonestMarket(points, honest) ==
    LET volume(S) == TotalOf([i \in S |-> points[i].volume]) IN
    /\ 2 * Cardinality(honest) > Len(points)
    /\ 2 * volume(honest) > volume(DOMAIN points)

(* A conversion ends once, in a settlement or a refund, and a collapsed    *)
(* one in a settlement, with nothing locked before.                        *)
ConversionsEndOnce ==
    Finished({"phases"}) /\ verdict[1] =>
        /\ \A i \in DOMAIN task.walk : IsTerminal(task.walk[i]) => i = Len(task.walk)
        /\ task.collapsed => ToSet(task.walk) \subseteq {"quote", "settle"}
        /\ Len(task.walk) = (IF task.collapsed THEN 2 ELSE 3) => IsTerminal(Last(task.walk))

(* What the builder makes of a funded transfer spends the output tapd      *)
(* funded it from and gives every slot the key of its index, or is not     *)
(* made.                                                                   *)
SlotsKeepTheirKeys ==
    Finished({"settlement"}) =>
        LET v == verdict[1]
            slots == task.slots
            n == Len(slots)
            indexes == {slots[i].index[1] : i \in {j \in 1..n : slots[j].index /= Missing}} IN
        /\ v.made = (indexes = 0..n - 1 /\ \A i \in 1..n : slots[i].key /= Missing)
        /\ v.made =>
            /\ v.tx.inputs[1].spends = [txid |-> Utxo.txid, vout |-> Utxo.vout]
            /\ \A i \in 1..n :
                v.tx.outputs[slots[i].index[1] + 1].script
                    = <<"commitment", slots[i].key[1], slots[i].index[1]>>
            /\ v.tx.outputs[n + 1].script = task.to

(* A settlement counts with the price and the volume of its quote only if  *)
(* the transaction pays the client exactly the value at that price less    *)
(* the fees of that rail, on a commitment to that plan; and what the       *)
(* builder makes of a quote does count.                                    *)
SettlementsPayTheQuote ==
    Finished({"settlement"}) /\ verdict[1].made =>
        LET point == verdict[1].point
            paid == verdict[1].tx.outputs[Len(task.slots) + 1].sats
            q == QuoteFor(task)
            gross == (task.price * task.amount) \div UNIT
            own == task.on = Rail /\ task.off = 0 /\ task.to = <<"user">> IN
        /\ point /= Refused =>
            /\ own
            /\ point[1] = [price |-> task.price, volume |-> task.amount]
            /\ MatchesSettlement(PlanOf(Rail, q), task.amount, paid)
            /\ paid >= DUST_FLOOR_SATS /\ gross <= Rail.maxSize
            /\ 2 * Apart((gross - paid - Rail.fixed) * 10000, gross * Rail.service) <= 10000
        /\ own /\ task.committed = task.amount /\ PlanError(Rail, q) = "none" => point /= Refused

(* The price made of settlements stays within the prices of an honest      *)
(* majority of points and volume.                                          *)
MarketPriceIsHonest ==
    Finished({"marker"}) /\ verdict[1].internal /= Refused =>
        \A honest \in SUBSET DOMAIN task.points :
            LET prices == {task.points[i].price : i \in honest} IN
            /\ HonestMarket(task.points, honest)
            /\ Max(prices) - Min(prices) <= BpsOf(Min(prices), TRIM_BPS)
            => verdict[1].internal[1] \in Min(prices)..Max(prices)

(* The marker stays within the clip band of the external price whoever     *)
(* settles, and is none only when settlements say otherwise.               *)
MarkerStaysInItsBand ==
    Finished({"marker"}) =>
        LET internal == verdict[1].internal
            marker == verdict[1].marker IN
        /\ marker /= Invalid =>
            /\ Apart(marker[1], task.external) <= BpsOf(task.external, task.blend.clip)
            /\ internal /= Refused =>
                Apart(internal[1], task.external) <= BpsOf(task.external, task.blend.halt)
        /\ marker = Invalid => internal /= Refused

(* The rails are never allotted more than the reserve, which loses less    *)
(* than a satoshi for each to rounding, in whichever order they are        *)
(* listed, and no rail is listed twice.                                    *)
AllotmentsFitTheReserve ==
    Finished({"allot"}) =>
        /\ verdict[1].refused =
            (Cardinality({task.positions[i].rail : i \in DOMAIN task.positions}) < Len(task.positions))
        /\ ~verdict[1].refused =>
            LET plan == verdict[1].plan
                allotted == TotalOf([i \in DOMAIN plan.tranches |-> plan.tranches[i].sats]) IN
            /\ allotted + plan.unallocated = plan.reserve
            /\ \A i \in DOMAIN plan.tranches :
                /\ plan.tranches[i].sats <= plan.tranches[i].capacity
                /\ plan.tranches[i].sats < plan.tranches[i].capacity =>
                    plan.unallocated < Len(plan.tranches)
            /\ verdict[1].otherWay = PlanHash(plan)

(* From the phases of a conversion to the price made of it and the share   *)
(* of the reserve its rail gets, everyone is held to what was quoted.      *)
SettlementsBind ==
    /\ ConversionsEndOnce /\ SlotsKeepTheirKeys /\ SettlementsPayTheQuote
    /\ MarketPriceIsHonest /\ MarkerStaysInItsBand /\ AllotmentsFitTheReserve

(* A position that verifies is backed: its output is the two parties' with *)
(* the described refund and holds the collateral, which suffices for the   *)
(* opening ratio, and no price that does is one of a crash.                *)
VerifiedIsBacked ==
    Finished({"backing"}) =>
        /\ verdict[1] = "none" =>
            /\ task.of = "it" /\ task.sats = 0
            /\ task.terms.collateral * task.price * MICRO_PER_USD * 10000
                    >= task.terms.opening * task.terms.mint * SATS_PER_BTC
            /\ task.terms.liq < task.terms.opening /\ task.terms.mint > 0
                    => task.price > CrashPriceCeiling(task.terms)
        /\ task.of = "it" /\ task.sats = 0 /\ OpeningOk(task.terms, task.price)
                => verdict[1] = "none"

(* Before the refund opens neither party moves it alone, and the LP never. *)
SpentByBoth ==
    Finished({"spend"}) =>
        /\ verdict[1].key \/ verdict[1].leaf => "H" \in task.signers
        /\ (verdict[1].key \/ verdict[1].leaf) /\ task.age < 2 => task.signers = {"H", "L"}
        /\ task.holderOnly /\ task.age >= 2 /\ "H" \in task.signers => verdict[1].leaf

(* The settlement the buyer checked is opened by the attestation of a      *)
(* price in its bucket and by no other.                                    *)
OpenedByItsBucket ==
    Finished({"presigned"}) =>
        /\ verdict[1].accepted =>
            /\ task.checked = task.signed /\ task.under /= "other" /\ task.msg = "settle"
            /\ verdict[1].opens = (BucketOfPrice(task.price, task.m) = task.checked)
        /\ task.checked = task.signed /\ task.under = "this" /\ task.msg = "settle"
            => verdict[1].accepted

(* In a crash each price below the ceiling has the one settlement of its   *)
(* bucket.                                                                 *)
CrashHasOneBucket ==
    Finished({"crash"}) =>
        LET v == verdict[1]
            covers(c) == task.price >= c.bucket.lo /\ task.price < c.bucket.hi IN
        /\ task.price < v.ceiling /\ task.price < 2 ^ PriceDigits =>
            Cardinality({n \in DOMAIN v.schedule : covers(v.schedule[n])}) = 1
        /\ \A n \in DOMAIN v.schedule :
            covers(v.schedule[n]) =>
                BucketOfPrice(task.price, task.terms.m) = v.schedule[n].bucket.index

(* It shares out all that is left after the fee, nothing to the minter     *)
(* before the reserve has the face and no more than the cap to whoever     *)
(* broadcasts it.                                                          *)
CrashSharesAll ==
    Finished({"crash"}) =>
        \A n \in DOMAIN verdict[1].schedule :
            LET c == verdict[1].schedule[n] IN
            /\ c.payout.reserve + c.payout.broadcaster + c.payout.minter
                    = Max({0, task.terms.collateral - task.params.fee})
            /\ c.payout.broadcaster <= task.params.cap
            /\ c.payout.minter > 0 => ReserveShortfall(c.payout, task.terms, c.price) = 0

(* The two legs share the collateral at every price, the holder's never    *)
(* above the face and no less when the collateral covers it.               *)
LegsShareAll ==
    Finished({"crash"}) /\ task.price > 0 =>
        LET face == (task.terms.mint * SATS_PER_BTC) \div (task.price * MICRO_PER_USD)
            legs == verdict[1].legs IN
        /\ legs[1] + legs[2] = task.terms.collateral
        /\ legs[1] <= face
        /\ verdict[1].ratio >= 10000 => legs[1] = face

(* A position that verifies is backed until it matures.                    *)
BackedToMaturity ==
    /\ VerifiedIsBacked /\ SpentByBoth /\ OpenedByItsBucket
    /\ CrashHasOneBucket /\ CrashSharesAll /\ LegsShareAll
=============================================================================
