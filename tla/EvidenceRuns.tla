---------------------------- MODULE EvidenceRuns ----------------------------
(***************************************************************************)
(* Evidence put before the verifiers of Trees, Spv, Lineage and Prices:    *)
(* what honest parties build from one history of the chain, and what can   *)
(* be pieced together from parts of it.  A task names the parts; running   *)
(* it gives the verdict.                                                   *)
(***************************************************************************)
EXTENDS History, Prices

CONSTANTS
    Sets, Batches,           \* tasks on the node's sets: occupied keys, keys to add
    BlockSizes,
    MaxHeaders, Depths,      \* tasks on burials
    MaxSteps,                \* tasks on proof files
    Honest, Lies, MaxLies,   \* tasks on prices: honest messages, others
    Reporters, Assertions

(* Fewer than a threshold of the set sign lies that are of the epoch and   *)
(* fresh; two reporters of a price at least.                               *)
Plausible(m) == m.signer \in 1..SetSize /\ m.epoch = 7 /\ Fresh(m, 1000)

ASSUME EvidenceAssumption ==
    /\ Honest \subseteq Seq(Nat)
    /\ Lies \subseteq [signer : Nat, price : Nat, epoch : Nat, ts : Nat] /\ MaxLies \in Nat
    /\ Cardinality({m.signer : m \in {l \in Lies : Plausible(l)}}) < Threshold
    /\ Reporters \subseteq {r \in Seq([price : Nat, stake : Nat]) : Len(r) >= 2}
    /\ Assertions \subseteq [price : Nat, disputed : Nat \cup {NoPrice}, block : Nat]

VARIABLES task, verdict

(***************************************************************************)
(* Tasks on trees.                                                         *)
(***************************************************************************)
(* A proof of absence may be of another set than the root it is held to.   *)
SetTasks == [about : {"set"}, set : Sets, of : Sets, key : Position]

(* A batch's proofs are made one after the other, or all before the first. *)
BatchTasks == [about : {"batch"}, set : Sets, keys : Batches, stale : BOOLEAN]
BlockTasks == {[about |-> "block", size |-> s, tx |-> i, at |-> j] :
                    s \in BlockSizes, i \in 0..4, j \in 0..7}
SumTasks == {[about |-> "sum", key |-> k, others |-> S, claimed |-> a] :
                k \in Position, S \in Sets, a \in {2, 3}}

PerformSet(t) ==
    LET proof == SetProof(t.of, t.key) IN
    [absent |-> VerifyExclusion(SetRoot(t.set), t.key, proof),
     present |-> VerifyInclusion(SetRoot(t.set), t.key, 1, proof),
     joined |-> RootAfterUpdate(t.key, 1, proof) = SetRoot(t.set \cup {t.key})]

PerformBatch(t) ==
    LET before(n) == IF t.stale THEN t.set ELSE t.set \cup {t.keys[m] : m \in 1..n - 1}
        result == InsertBatch(SetRoot(t.set), t.keys,
                              [n \in DOMAIN t.keys |-> SetProof(before(n), t.keys[n])]) IN
    IF result = <<"refused">> THEN "refused"
    ELSE IF result = SetRoot(t.set \cup ToSet(t.keys)) THEN "joined" ELSE "astray"

PerformBlock(t) ==
    LET txids == [n \in 1..t.size |-> <<"tx", n>>]
        i == t.tx % t.size
        leaf == <<"tx", i + 1>> IN
    [byIndex |-> FoldIndex(leaf, i, MerkleBranch(txids, i)) = BlockRoot(txids),
     byBits |-> FoldBits(leaf, MerkleBranch(txids, i), TapdBits(txids, i)) = BlockRoot(txids),
     elsewhere |-> FoldIndex(leaf, t.at, MerkleBranch(txids, i)) = BlockRoot(txids)]

PerformSum(t) ==
    LET value(p) == IF p = t.key THEN 2 ELSE 1
        leaves == [p \in t.others \cup {t.key} |-> SumLeaf(<<"coin">>, value(p))]
        proof == Compressed(leaves, t.key)
        found == ProofRoot(t.key, SumLeaf(<<"coin">>, t.claimed), proof) IN
    [canonical |-> Canonical(proof), matches |-> found.root = TreeRoot(leaves),
     sum |-> TreeRoot(leaves).sum]

(***************************************************************************)
(* Tasks on burials: any transaction, any place in the chain, any headers. *)
(***************************************************************************)
Headers == SeqOf(HeaderNames, MaxHeaders)
DepositTasks ==
    [about : {"deposit"}, chain : {"main", "fork"}, tx : {"deposit", "stray"},
     at : {"deposit", "stray", "htlc"}, headers : Headers, sats : {5, 7}, depth : Depths]
PayoutTasks ==
    [about : {"payout"}, htlcOn : {"main", "fork"}, claimOn : {"main", "fork"},
     claim : {"claim", "deposit"}, input : 0..1, preimage : {<<"secret">>, <<"guess">>},
     headers : Headers, depth : Depths]

PerformDeposit(t, facts) ==
    VerifyDeposit([tx |-> facts.txs[t.tx], at |-> facts.where[t.chain][t.at],
                   headers |-> [n \in DOMAIN t.headers |-> facts.headers[t.headers[n]]]],
                  Txid(facts.txs[t.tx]), t.sats, facts.reserve, t.depth)

PerformPayout(t, facts) ==
    VerifyPayout([htlc |-> <<Txid(facts.txs.htlc), 1>>, htlcAt |-> facts.where[t.htlcOn].htlc,
                  claimTxid |-> Txid(facts.txs[t.claim]), input |-> t.input,
                  claimTx |-> facts.txs[t.claim], claimAt |-> facts.where[t.claimOn][t.claim],
                  preimage |-> t.preimage,
                  headers |-> [n \in DOMAIN t.headers |-> facts.headers[t.headers[n]]]],
                 <<"sha", <<"secret">>>>, t.depth, Len(facts.chains.main))

(* What an honest party builds is put to the verifier too.                 *)
BuiltTasks == [about : {"built"}, chain : {"main", "fork"}, depth : Depths]
PerformBuilt(t, facts) ==
    LET chain == facts.chains[t.chain]
        txs == facts.txs
        enough(tx) == Len(chain) >= HeightOf(chain, tx) + t.depth
        payout == BuildPayout(chain, txs.htlc, 1, txs.claim, 1, <<"secret">>, t.depth) IN
    [deposit |-> Ready(chain, txs.deposit, t.depth) =>
                    VerifyDeposit(BuildDeposit(chain, txs.deposit, t.depth), Txid(txs.deposit), 5,
                                  facts.reserve, t.depth),
     payout |-> enough(txs.claim) =>
                    VerifyPayout(payout, <<"sha", <<"secret">>>>, t.depth, Len(chain))]

(***************************************************************************)
(* Tasks on proof files: any few steps, exported or altered, with the      *)
(* checksums of this order or another, held to the record of any output.   *)
(***************************************************************************)
Alterations == {"none", "unconfirmed", "amount", "index", "prev"}

Step(name, facts) ==
    LET p == facts.proven[name.of] IN
    CASE name.as = "none" -> p
      [] name.as = "unconfirmed" -> facts.unproven[name.of]
      [] name.as = "amount" -> [p EXCEPT !.leaf.amount = @ + 1]
      [] name.as = "index" -> [p EXCEPT !.inclusion.index = 1 - @]
      [] name.as = "prev" -> [p EXCEPT !.prev = AnchorOf(facts.proven.mint)]

StepNames == [of : DOMAIN Outputs, as : Alterations]
FileTasks == [about : {"file"}, steps : SeqOf(StepNames, MaxSteps) \ {<<>>},
              sums : {"right", "reversed"}, of : {"kept", "lock", "sink"}]
AssembledTasks == [about : {"assembled"}, of : {"lock", "sink"}]

FileFor(t, facts) ==
    LET proofs == [n \in DOMAIN t.steps |-> Step(t.steps[n], facts)] IN
    [proofs |-> proofs,
     sums |-> BuildProofFile(IF t.sums = "right" THEN proofs ELSE Reverse(proofs)).sums]

(* Held to what the record of an output says, and to its own checksum.     *)
HeldTo(file, of, facts) ==
    LET record == facts.records[of] @@ [proofHash |-> LineageProofHash(file)]
    IN IF of = "sink" THEN CheckBurnProofBinding(file, record)
       ELSE CheckLineageLockBinding(file, record)

PerformFile(t, facts) == HeldTo(FileFor(t, facts), t.of, facts)

PerformAssembled(t, facts) ==
    LET file == AssembleExternalProofFile(facts.files[IF t.of = "lock" THEN "kept" ELSE "rest"],
                                          facts.unproven[t.of]) IN
    [same |-> file = facts.files[t.of],
     accepted |-> HeldTo(file, t.of, facts)]

(***************************************************************************)
(* Tasks on prices.                                                        *)
(***************************************************************************)
(* Signers 1 to SetSize are in the set; the time is 1000, the epoch 7.     *)
AggregateTasks == [about : {"aggregate"}, honest : Honest, lies : SeqOf(Lies, MaxLies)]
Message(signer, price) == [signer |-> signer, price |-> price, epoch |-> 7, ts |-> 1000]
HonestMessages(t) == [n \in DOMAIN t.honest |-> Message(n, t.honest[n])]
PerformAggregate(t) == Aggregate(HonestMessages(t) \o t.lies, 1..SetSize, 7, 1000)

(* Reporters 1 and 2 are honest.                                           *)
AssertedTasks == [about : {"asserted"}, reports : Reporters, claims : Assertions]
Reference(t) == StakeWeightedMedian(t.reports)
PerformAsserted(t) ==
    IF Reference(t) = NoPrice THEN Rejected
    ELSE Resolve([price |-> t.claims.price, at |-> 10, window |-> 3], t.claims.disputed,
                 Reference(t), DevBps, t.claims.block)

(***************************************************************************)
(* Running a task.                                                         *)
(***************************************************************************)
Done(v) == verdict = <<>> /\ verdict' = <<v>> /\ UNCHANGED task

RunSet == task.about = "set" /\ Done(PerformSet(task))
RunBatch == task.about = "batch" /\ Done(PerformBatch(task))
RunBlock == task.about = "block" /\ Done(PerformBlock(task))
RunSum == task.about = "sum" /\ Done(PerformSum(task))
RunDeposit(facts) == task.about = "deposit" /\ Done(PerformDeposit(task, facts))
RunPayout(facts) == task.about = "payout" /\ Done(PerformPayout(task, facts))
RunBuilt(facts) == task.about = "built" /\ Done(PerformBuilt(task, facts))
RunFile(facts) == task.about = "file" /\ Done(PerformFile(task, facts))
RunAssembled(facts) == task.about = "assembled" /\ Done(PerformAssembled(task, facts))
RunAggregate == task.about = "aggregate" /\ Done(PerformAggregate(task))
RunAsserted == task.about = "asserted" /\ Done(PerformAsserted(task))

Init ==
    /\ verdict = <<>>
    /\ \/ task \in SetTasks
       \/ task \in BatchTasks
       \/ task \in BlockTasks
       \/ task \in SumTasks
       \/ task \in DepositTasks
       \/ task \in PayoutTasks
       \/ task \in BuiltTasks
       \/ task \in FileTasks
       \/ task \in AssembledTasks
       \/ task \in AggregateTasks
       \/ task \in AssertedTasks

Next ==
    \/ RunSet \/ RunBatch \/ RunBlock \/ RunSum \/ RunAggregate \/ RunAsserted
    \/ \E facts \in {TheFacts} :
        \/ RunDeposit(facts) \/ RunPayout(facts) \/ RunBuilt(facts)
        \/ RunFile(facts) \/ RunAssembled(facts)

Spec == Init /\ [][Next]_<<task, verdict>>

(***************************************************************************)
(* Properties.                                                             *)
(***************************************************************************)
Finished(kinds) == verdict /= <<>> /\ task.about \in kinds

(* The witnesses of the trees are exact.  Of the node's sets: absence is   *)
(* shown of absent keys only and by every proof made of the set itself,    *)
(* and what it is shown with gives the root after the key is added, so a   *)
(* batch goes in whole, in any order, or is refused; proofs made before    *)
(* the batch fail it.  Of a block: both folds of a branch end in the root, *)
(* and no other index of the block leads the branch there.                 *)
(* Of the tree of sums: a compressed proof restores the root for the       *)
(* amount that is there and for no other.                                  *)
WitnessesAreExact ==
    /\ Finished({"set"}) =>
        /\ verdict[1].absent => task.key \notin task.set /\ verdict[1].joined
        /\ verdict[1].present => task.key \in task.set
        /\ task.of = task.set =>
                verdict[1].present = (task.key \in task.set) /\ verdict[1].absent /= verdict[1].present
    /\ Finished({"batch"}) =>
        LET fits == IsInjective(task.keys) /\ ToSet(task.keys) \cap task.set = {} IN
        /\ verdict[1] = "joined" => fits
        /\ verdict[1] /= "astray"
        /\ fits /\ ~task.stale => verdict[1] = "joined"
        /\ fits /\ task.stale /\ Len(task.keys) > 1 => verdict[1] = "refused"
    /\ Finished({"block"}) =>
        /\ verdict[1].byIndex /\ verdict[1].byBits
        /\ verdict[1].elsewhere /\ task.at < task.size => task.at = task.tx % task.size
    /\ Finished({"sum"}) =>
        /\ verdict[1].canonical
        /\ verdict[1].matches = (task.claimed = 2)
        /\ verdict[1].sum = 2 + Cardinality(task.others \ {task.key})

(* tx is on that chain, and the headers, depth of them or more, are those  *)
(* above it.                                                               *)
Deep(tx, headers, depth, chain, facts) ==
    /\ OnChain(chain, tx)
    /\ Len(headers) >= depth
    /\ \A k \in DOMAIN headers :
        /\ HeightOf(chain, tx) + k <= Len(chain)
        /\ facts.headers[headers[k]] = chain[HeightOf(chain, tx) + k].header

BuriedIn(facts) ==
    /\ Finished({"deposit"}) =>
        /\ task.tx = "deposit" /\ task.sats = 5
        /\ \E c \in DOMAIN facts.chains :
            Deep(facts.txs.deposit, task.headers, task.depth - 1, facts.chains[c], facts)
    /\ Finished({"payout"}) =>
        /\ task.claim = "claim" /\ task.input = 1 /\ task.preimage = <<"secret">>
        /\ \E c \in DOMAIN facts.chains :
            /\ OnChain(facts.chains[c], facts.txs.htlc)
            /\ Deep(facts.txs.claim, task.headers, task.depth, facts.chains[c], facts)

(* What the node takes for a buried deposit or payout is one: the first    *)
(* output to the reserve, an HTLC and its claim on one chain, the preimage *)
(* known; and the headers are those above it, as many as are asked.  What  *)
(* watcher and observer build once the chain is long enough, is accepted.  *)
EvidenceIsOfTheChain ==
    /\ Finished({"deposit", "payout"}) /\ verdict[1] => BuriedIn(TheFacts)
    /\ Finished({"built"}) => verdict[1].deposit /\ verdict[1].payout

(* A file the node takes for the history of a lock or a burn ends in that  *)
(* very output, its amount and key; every step of it is an output of the   *)
(* chain with what it committed to; and a step whose link is as tapd wrote *)
(* it follows the output it spent.  The file assembled for an output tapd  *)
(* keeps none of is the one tapd would have kept, and accepted.            *)
LineageEvidence ==
    /\ Finished({"file"}) /\ verdict[1] =>
        LET step(n) == task.steps[n] IN
        /\ Last(task.steps).of = task.of
        /\ \A n \in DOMAIN task.steps :
            /\ step(n).as \in {"none", "prev"}
            /\ n > 1 /\ step(n).as = "none" => Last(SpentInto[step(n).of]) = step(n - 1).of
        /\ task.sums = "right" \/ Reverse(task.steps) = task.steps
    /\ Finished({"assembled"}) => verdict[1].same /\ verdict[1].accepted

(* Two lying signers of the oracles' set, with old messages of the others  *)
(* and any number of their own, cannot get an aggregate far from an honest *)
(* message, and when honest messages outnumber them it lies between honest *)
(* ones.                                                                   *)
AggregateResistsLiars ==
    Finished({"aggregate"}) /\ verdict[1] /= NoPrice =>
        LET honest == ToSet(task.honest) IN
        /\ \E p \in honest : Distance(p, verdict[1]) * 10000 <= verdict[1] * DevBps
        /\ Len(task.honest) > Len(task.lies) => verdict[1] \in Min(honest)..Max(honest)

(* Less than half of the stake cannot move the reference out of the honest *)
(* reports, so that what the cohort signs for a disputed assertion is      *)
(* within the band of them, and a party that claims no less near than the  *)
(* other keeps its bond.                                                   *)
AssertionResistsLiars ==
    Finished({"asserted"}) =>
        LET honest == {task.reports[1].price, task.reports[2].price}
            stake == StakeOf(task.reports, DOMAIN task.reports)
            lying == StakeOf(task.reports, DOMAIN task.reports \ {1, 2}) IN
        2 * lying < stake =>
            /\ Reference(task) \in Min(honest)..Max(honest)
            /\ verdict[1].signs /= NoPrice =>
                \E p \in Min(honest)..Max(honest) : WithinBand(verdict[1].signs, p, DevBps)
            /\ verdict[1].slashed = "proposer" =>
                Distance(task.claims.price, Reference(task))
                    > Distance(task.claims.disputed, Reference(task))

(* Signers or reporters who lie do not set the price.                      *)
PricesResistLiars == AggregateResistsLiars /\ AssertionResistsLiars
=============================================================================
