# SatUSD in TLA+

SatUSD is a Bitcoin-backed stable asset. The repository holds two generations of
it. The first (crates `satusd-state`, `satusd-reserve`, `satusd-state-node`,
specified in `docs/archive/SatUSD_v5_1_PRD.md`) is an accounting node with a
shared BTC reserve: issuers deposit BTC and mint, users lock SatUSD to redeem it
through an operator, the operator burns it and claims a reimbursement, a
committee pays the claim. The second (crates `satusd-rail*`, `satusd-vault`,
`satusd-oracle`, `satusd-lp`, specified in `docs/spec`) replaces the shared
reserve by one bilateral contract per position, settled by an oracle's
attestation. This project models the program component by component, checks
the models with TLC and proves the main results with TLAPS.

## 1. The system

| Component | State it keeps | Operations | What is hard about it |
|---|---|---|---|
| State node (`satusd-state/src/node.rs` and its executors) | the `StateRoot` scalars (reserve, reserved, supply, price, tier, committee hash, anchor), seven sparse Merkle trees and the records behind them | register issuer and operator, commit and finalize a mint, lock, refund, submit a claim, reclaim, finalize, governance setters | two ledgers (node and custody) updated by separate calls; batches; one tier derived from three scalars; every authority is a committed hash |
| Reserve custody (`satusd-reserve`) | total and reserved sats, open records, approvals, vetoes, pause | credit, submit, approve, finalize, reclaim, pause, resume, veto, rotate | swapped, paused, vetoed or rotated between the steps of a claim |
| State node server, keeper | the node behind one mutex | apply, simulate, reclaim poll | readings of height and claims that are old when used |
| Optimistic reserve and disputes (`satusd-dispute`) | a custody, asserts with their windows, a height | submit, assert, disprove, withdraw, and the node's pay and reclaim | disproofs, repeated asserts, payouts and reclaims of one claim in any order |
| Live DA mirror and challenger (`satusd-da`, `satusd-challenger`) | bundles by root, in memory | upload, fetch, inspect | what one crate writes and another parses |
| Oracle aggregation and SPV (`satusd-state`) | none (pure) | aggregate, verify a deposit, verify a payout | thresholds, boundaries, forks, evidence put together from parts |
| Oracle cohort (`satusd-oracle`, `cohortd`) | files of one directory: dealt polynomials, key shares, nonce commitments, shares, announcements, attestations | round 1, finalize, announce, attest, aggregate | commands of several members interleaved, repeated with another seed and killed between two files |
| Oracle daemon (`satusd-oracle`, `oracled`) | announcements and attestations by tick, on disk | announce, refresh, attest | one nonce, one message, across crashes and restarts |
| Fallback dispute (`satusd-oracle`) | none (pure) | weighted median, resolve | a minority of stake, ties |
| Rails (`satusd-rail`, `-rail0`, `-rail1`), vault, allotment | a position and its pre-signed exits | manifest, quote, lock, settle, refund; open, presign, liquidate | which spends exist, who can make them, what they pay |
| Verifiers (`satusd-verify`, `satusd-ta-proof`) | none (pure) | check a settlement, a position, an asset's history | what is bound to what: one part exchanged for another |
| LP daemon (`satusd-lp`) and the redeeming client (`satusd-cli`) | quotes in memory, coin locks in bitcoind | quote, settle; accept, build, publish | concurrent requests, retries, two processes that restart apart |
| Operator swap, lock script, tapd client | an HTLC, a lock output, a proof under construction | lock, fund, claim, finalize, refund; observe, prove | two relative timelocks and reorganisations |
| Crypto, types, encodings | none | trees, signatures, hashing, byte layouts | modelled in small: short trees, a small group, small bytes |

The node drives the custody by synchronous calls; the custody never calls back.
Everything else reaches the node through its HTTP server, which holds one mutex
for a whole transition, and reads it through separate requests. The chain is
shared: deposits, lock outputs, burns and payouts happen there, and the node
learns of them from witnesses.

## 2. The modules

    Collateral      ratio, tier, reimbursement (pure)
    ReserveCustody  the custody backends
      StateNode     EXTENDS both: the node, driving the custody, and the chain
        NodeProperties   properties, fairness, the refinement
          MCStateNode    the instances TLC checks
          StateNode_proofs   theorems
    ClaimLedger     abstract: a claim is opened, then paid or released, once
    FiniteTotals    totals, sums and induction over a finite set, for the proofs
    OracleDaemon    announcing and attesting price ticks; crashes, files
      MCOracle           the instances TLC checks
      OracleDaemon_proofs
    OptimisticReserve  EXTENDS ReserveCustody: assert, disprove, withdraw
      MCOptimistic       the instance TLC checks
      Disputes_proofs    EXTENDS EvidenceRuns too: disputed claims and prices
    LiveDa          bundle, mirror and challenger of a claim
      MCLiveDa           the instance TLC checks
    LpSwap          quote and settle between redeeming clients and the LP
      MCSwap             the instances TLC checks
      LpSwap_proofs
    Cohort          the commands of cohortd over their shared directory
      MCCohort           the instance TLC checks
      Cohort_proofs
    Signatures      the signature algorithms, in a small group (pure)
      SignatureRuns      tasks from keys to a signature on chain, and promises
        MCSignatures       the instance TLC checks
        Signatures_proofs
    Exchange        one fast redemption on chain: lock, HTLC, observer
      MCExchange         the instance TLC checks
    Trees           Bitcoin's tree, the tree of sums, the node's sparse tree
      Spv             EXTENDS Trees: buried deposits and payouts
        Lineage         EXTENDS Spv: the history of an asset as proofs
          History         EXTENDS Lineage: one chain to take evidence from
    Prices          aggregate, weighted median, dispute (pure)
      EvidenceRuns    EXTENDS History and Prices: tasks and promises
        MCEvidence      the instance TLC checks
    Wire            writer, strict reader, the oracle's messages (pure)
      Rails           EXTENDS Wire: manifest, quote, phases, capacity, allotment
        Anchoring       EXTENDS Rails: the settling transaction and its verifier
    Vaults          outputs, terms, crash schedule, position verifier (pure)
      PositionRuns    EXTENDS Anchoring and Vaults: tasks and promises
        MCPosition      the instance TLC checks
        Contracts_proofs  EXTENDS Exchange too: the contracts on chain

**Collateral** is `tier.rs` with 10^6 and 10^14 replaced by the parameters `PPM`
and `SCALE`; all divisions round down as in the code. The runs take 100 and 12,
so that every threshold is reached by single-digit numbers of sats and atoms.

**ReserveCustody** has one action per method of `ReserveBackend`. `MockReserve`
and `MultisigReserve` are one state with a `backend` tag, because the node can
replace one by the other while it runs; an operation that a backend ignores says
so. A signature is its signer.

**StateNode** has one action per accepted call. `commit` assigns the whole
state, so an action is the executor (`apply_*`), the tree updates, the commit and
the custody call together: that is what holds the mutex. Names are the code's.
Sparse Merkle trees are sets or functions. Hashes are what they commit to: a
lock record hash is the record, a nullifier is the asset output it names (its
other two ingredients are fixed by that output), a committee hash is the
committee. `claim_id` commits to `prev_state_root`, so `SubmitReserveClaim`
takes a claim id that may be any; the code's exclusion proof is `FreshClaimId`.
The chain facts that witnesses prove (deposit confirmed, anchor exists, burn
shown) are the constants `Deposit*`, and the variable `lock_output` with its
external actions `AnchorLock` and `SpendLock`. `RecordAnchor` lets two records
describe one output. `FinalizeRefused` is the one rejected call that changes
state. Two facts the witness only asserts (`mint_proof_ok`, the mint anchor's
confirmations) are taken as given. `max_claim_sats` is stored and read by
nothing, as in the code.

**NodeProperties** states what the parts owe each other; **ClaimLedger** is the
abstract promise, and `Ledger` maps node and custody to it: funds and promised
sats are the custody's, phases and amounts the node's, so that the refinement
would break if either side moved without the other.

**OracleDaemon** is `oracled.rs` with the `satusd-oracle` functions it calls. The
main loop is one action per step whose order a kill or a reader can observe:
`Wake` reads the clock, then come the due announcements, the due ticks (reading
the cache, the cross-check, the attestation, `latest.txt`) and `Sleep`. The price
thread's `Refresh` may happen between any two of them. `fs::write` truncates and
then writes, so each file takes two actions; a file is in the model what a reader
can decode of it, so a truncated file and a missing one are the same. `Crash` is
possible anywhere, `Start` runs `main` again. `published`, `life` and `since` are
history: what a reader could ever have fetched, which start of the process this
is and its first tick. The clock does not step back. Digits, the median, the band
and the equivocation check are operators; curve arithmetic is the fact it
establishes.

**LpSwap** has a record per session, a session being one quote request and the
runs of `redeem` on its answer (the client repeats a failed run with
`--quote-file`). Its handler steps are cut where the two handlers of the daemon,
which run on different threads, can see each other: what `listunspent` showed,
`lockunspent`, the insertion of the quote. `/v0/settle` is one action, as it
holds the quotes' mutex from the look-up to the `consumed` flag. A failed
`bitcoin-cli` call panics and ends the handler. What is sent to be settled
(`Psbts`) is any two inputs, as the handler asks only that one of them be the
quoted coin; `walletprocesspsbt` signs every input that is the wallet's
(`SignedAway`). Payloads are the terms they hash;
`lockunspent`'s locks and the spent coins are bitcoind's, the quotes are the
daemon's, and `LpCrash` and `WalletRestart` lose them separately. A lost answer
is a session that takes no further step. `life` is history: the start of bitcoind
in which a coin was locked.

**OptimisticReserve** is `PlaygroundReserve` of `satusd-dispute` over the mock
custody of `ReserveCustody`: assert, disprove and withdraw next to the calls the
node makes of any backend. A claim's committed value and a witness's value stand
for the two hashes `resolve_dispute` compares; any witness may be offered, as
nothing in the code picks it. Neither an assert nor a disproof asks whether the
claim was submitted, so both may come before it; the history `slashed` is of the
claims that were disproved after it. `Ledger` maps it to `ClaimLedger`, with the
history `fate` as the phase, so that node and optimistic backend implement one
abstract specification.

**LiveDa** is the path of a claim's evidence: the root the node computes from the
batch and commits, the mirror that stores a bundle under its own root and forgets
all on a restart, and `challenger_inspect`, which fetches by the committed root.
A root is the sections it was computed from. The bytes of a section are the form
they were written in and what was written: here the form is the point.

**Cohort** is `cohortd`: `round1` and `finalize` make a group key, `announce`,
`attest` and `aggregate` a signature for a tick. A command is a process that
reads and writes one file per step; it may be killed between any two, and inside
a write (`Written`). A file is an Option, as a truncated file, an undecodable
one and none are the same to every reader. A polynomial is the seed it is
derived from, a key share the seeds whose shares it sums. `MaxDeals` bounds how
often a member starts over.

**Signatures** checks what those stand for, and what the rails do with them. A
scalar is a number modulo the prime `Q`, the point `s.G` is `s`; an x-only key is
the even one of `p` and `-p`, so that the parity cases of BIP-340, of the
threshold key, of the adaptor and of MuSig2 are all there. 0 stands for the
failure of the library: a sum that passes 0, a pre-signature none of whose 256
nonces has the parity wanted. Hash functions are a parameter. **SignatureRuns** turns
each use into a task: a cohort of dealers signs a price, an oracle signs two
prices of a tick, a settlement is pre-signed for a bucket and then a price is
attested. A task is one state and its outcome the next, with one action per kind
of task, so that TLC takes every task and the invariants speak of what came out.

**Exchange** is the fast redemption on chain: `redeem.rs`'s terms and their
check, `htlc.rs`, `satusd-lock`'s two leaves, the operator, the refund monitor
and the observer that builds the payout proof call by call, with `MinDepth`
headers, for `spv.rs` to accept. Blocks may be disconnected, at most `MaxReorg`
below the highest ever seen; their transactions are back in the mempool. Time is
blocks, and a party that watches is at most `Slack` blocks late: this is a guard
of `Mine`, which does not go on while the operator is overdue, and the history
`inTime` for the user, who claims with a block to spare besides. `MaxStart` is the
last height at which the exchange may begin (a bound: everything is relative to
the lock's block). `MarginAssumption` says how the timelocks have to be to each
other; what it comes to for the constants of `redeem.rs` is in section 3.

**Trees**, **Spv**, **Lineage**, **Prices** are the pure verifiers of the node,
with the builders of their evidence. A hash is the term it hashes. `Spv` has the
deposit and the payout proof of `spv.rs` and what the watcher and the observer
build; a header's proof of work is good or not. `Lineage` has `satusd-ta-proof`
(inclusion, anchor, compressed sums, lineage, proof file), the node's checks of
lock and burn, and how `satusd-tapd-client` assembles a file. **History** is one
small world: an asset minted, locked and burned, deposits, an HTLC and its claim,
a fork that carries the claim later. **EvidenceRuns** takes parts of that world,
honest and altered, in all combinations, and asks the verifiers.

**Wire**, **Rails**, **Anchoring**, **Vaults** are the position side. `Wire` is
`encode.rs` and `tlv.rs` byte by byte, over a small alphabet, because its one
promise is about bytes: there is one encoding. `Rails` has the manifest, quote,
phase machine, capacity, Rail 0's plan and the allotment; `Anchoring` the virtual
transfer, the builder, the burn key, `verify_rail0_settlement` and the markers;
`Vaults` the funding output, ratios, payout, crash schedule and
`verify_backing`. **PositionRuns** asks them, like EvidenceRuns.

### What each run checks

The module of a run is the `MC` module named like it (`MCStateNode` for the first
three, `MCLiveDa` for `lineage_section`). Deadlock is not checked: the bounds end
every behaviour (heights, clocks, `MaxU64`, claim ids), a task is done after one
step, and a node nobody calls is idle.

| Run | Instance | Shows |
|---|---|---|
| `issuance` | 2 issuers, deposits of 4 sats, 4 prices that put one balance in each of the four tiers, mints of 2 or 8, one lock and one claim | `TierFresh`, `HealthyUntilPriceOrPayout` |
| `redemption` | 3 records of 2 outputs, batches of up to 3, 2 claims, 2 committees that share a member with thresholds 1 and 2, 2 prices, expiry 0 with heights 0 and 1 | `TypeOK`, `CustodyLockstep`, `ReserveConservation`, `SupplyConservation`, `ApprovalsAreCurrent`, `NullifierMatchesConsumed`, `PayoutRule`, and `ImplementsLedger` |
| `reclaim` | 2 claims with expiries 0 and 1, heights to 2, fairness | `ClaimsResolve` |
| `optimistic` | two claims of 1 and 3 sats, a reserve of 0 to 5, deposits of 2, a window of 2, heights 0 to 4 in any order, two values with a real lineage and one without, fairness | `OptimisticTypeOK`, `SlashedIsNotPaid`, `KeepsLedger`, `AssertedClaimsEnd` |
| `daemon` | ticks 2 s apart, one tick of lead, staleness 1 s, catch-up 2 s, three venues with prices 1 and 5, live mode or the fixed price 4, clock to 6, two starts | `EquivocationNeedsRestart`, `AnnouncedAhead`, `PriceBelongsToTick`, `EvidenceIsExact` |
| `swap` | three sessions, a coin large enough for every redemption and one for the smaller only, one asset output, two prices, a validity of 0 s, clock to 1, two starts of bitcoind, any number of daemon crashes | `SwapTypeOK`, `OneQuotePerCoin`, `SignedOnce`, `SettledAsQuoted` |
| `cohort` | two members with threshold two, the first deals up to twice with either of two seeds, one tick, one aggregator | `CohortTypeOK`, `SharesFitKeys`, `AgreedSharesVerify` |
| `signatures` | a group of 127 elements, three members of whom two or three sign, 18 dealings, prices of three digits (one above the largest outcome), buckets of one to three digits, three pairs of vault keys | `CohortSignsAsOne`, `ConflictRevealsKey`, `AttestationOpensItsBucket` |
| `exchange` | HTLC timelock 4, lock timelock 10 or 11, safety delta 7, funded without delay, a slack of one block, depth 2, blocks replaced two deep, three disconnected in all, lock sent at height 0, heights to 14 | `ExchangeTypeOK`, `OperatorIsWhole`, `UserIsWhole`, `ProvenPayoutStays` |
| `evidence` | sets in trees of 8 places, blocks of 1 to 5 transactions, files of up to 3 steps, headers of two branches, aggregates with up to 3 messages of two liars, three reporters | `WitnessesAreExact`, `EvidenceIsOfTheChain`, `LineageEvidence`, `PricesResistLiars` |
| `position` | bytes of 16 values, keys of 2 of them and signatures of 3, every message with one byte exchanged, some 35 manifests, settlements with one part exchanged, up to 3 positions, prices of 4 binary digits | `EncodingsAreExact`, `SettlementsBind`, `BackedToMaturity` |
| `lineage_section` | one claim of one burn | refutes `HonestClaimsAreClean` (section 5) |

Bounds. `MaxU64` is the model's u64: the code's `checked_add` guards stop at it,
so that one full deposit (8 sats, 4 atoms) or two (issuance) fit and the next
one is refused; this is the code's own guard and not an extra one. `MaxHeight`
bounds the anchor, `MintAtoms`, `Prices`, `Bonds` and `Expiries` the inputs. Two
claims are enough for every property about one claim disturbed by another; three
records of two outputs give a batch with a duplicate, a batch without, and a
second claim on the rest.

For the daemon, digits cover the outcomes 0 to 3, so that the price 5 and the
fixed price 4 are clamped and 1 is not; six seconds hold three ticks and the
catch-up of one; two starts are one restart, and the theorem covers any number.
With a band of 2500 of 10000 a price of 1 fails the cross-check against 4 and 5,
and 4 passes against 5. For the swap, three sessions and two coins make some session wait for
coins and let two sessions share a payload; a price of 2 gives a redemption of 5
sats, which only the coin of 10 covers with fee and change, a price of 4 one of 2
sats, which the coin of 5 covers too. A quote is valid in the second it is made in,
so that one tick of the clock expires it. The second input is the asset output, the
other coin or the quoted coin itself: one output stands for all the clients', as the
LP signs none of them, and a transaction the network refuses for the second input is
one the client never publishes.

For the cohort, two members are enough to have a package of one dealing and a
share of the next, and the theorems cover any number. In the exchange the safety
delta is scaled with the depth of a reorganisation: 7 is the least that
`MarginAssumption` allows for this slack and depth, and the two lock timelocks
are the smallest that `check_intent_lock_binding` accepts and one block less.
Three disconnected blocks are needed: with two, an instance one block short of
the margin has no counterexample, as both blocks are spent on one confirmation and
none is left to move the other. The theorems cover any number.
In the group of 127 elements some sums
fail, with probability 1 in 127 instead of 1 in 2^256: tasks that met the failure
are the first disjuncts of the properties. In `position` a length takes the
three, five and nine byte forms at `Byte^2` and `Byte^4` as in the code, numbers
stop at `Byte^6`, and `UNIT` is 10 so that roundings happen.

Fairness. `FairSpec` of `NodeProperties`: the keeper is a poll run from cron that
reclaims whatever has expired, and blocks keep coming, which is weak fairness of
`Keeper(c)` for each claim and of `SetL1Anchor`. Nobody is assumed to finalize, to
resume, to lift a veto or to approve. `FairSpec` of `OptimisticReserve`: the
operator keeps asking for his withdrawal and the chain grows past every window;
heights may move back any number of times before, and nobody is assumed to assert
only once. The other modules promise safety only.

## 3. What is proved

The theorems about the node hold for every value of the constants that satisfies
`ScaleAssumption`, `CustodyAssumption` and `NodeAssumption`: any number of
issuers, deposits, outputs, records, claims (issuers, outputs, records and claims
finitely many), members and committees, any amounts and prices, any u64.

The inductive invariant is `CustodyInv` (`StateNode_proofs`): `TypeOK`,
`CustodyLockstep`, and that the reservation is the total of the open claims.
None of the three is inductive alone. Typing is not: the custody subtracts the
amount of its own record, unchecked, and only the agreement with the state, whose
subtraction is checked, keeps it from going below zero. The agreement is not: a
backend installed while no claim is pending starts with nothing reserved, and
that agrees with the state only if nothing pending means nothing reserved. For
the third conjunct the fold of the runs is no use to the provers as it stands (its
value is an induction over data), so `FiniteTotals` defines a total as the last of
the running totals along an enumeration, a relation that can be carried from state
to state: it proves that a change at one point moves the total by the difference,
that a total of zeros is zero, and that no part of a total of naturals exceeds it.

`FiniteTotals` then goes back to the fold. The library's induction theorems take an
operator, which no prover here instantiates; an induction whose hypothesis is a
*set* (`IntervalInduction`, `SubsetInduction`: a set of numbers, or of finite sets,
that has the first and with each the next has all) says the same of everything that
can be collected in a set, and it follows from `FS_SUBSET` and the choice of a least
element. With it the `CHOOSE` of any fold is shown to have a witness (`FoldSolution`), the sum
of the runs, `SumFunctionOnSet`, to be the total (`SumIsTotal`), and the laws of
sums that conservation needs follow: `SumMoves`, `SumAgrees`, `SumJoins`.

Conservation is then two equations over the same books (`Conserved`): each action
is shown to move both sides by the same number (`CommitConserves`,
`FinalizeMintConserves`, `SubmitConserves` and so on). They need typing, as every
checked subtraction of the code is exact only because its guard kept it in the
naturals, and for the supply that the records of a claim are distinct and not yet
consumed, so that burning them is one sum less.

`HealthIsKept` rests on the arithmetic of `Collateral`: the quotient of naturals is
monotone in the numerator (`QuotientMonotone`), so a product and a ratio of such
quotients are, and a tier can only get better when the sats grow or the supply
shrinks (`TierMonotone`). FINALIZE_MINT, which changes both, is guarded by its
ratio check against `C_MIN_PPM`, the very threshold of Healthy
(`MintLeavesHealthy`).

| Theorem | Property |
|---|---|
| `TypeCorrect`, `CustodyInStep` | `TypeOK`, `CustodyLockstep` |
| `TierAlwaysFresh` | `TierFresh` |
| `LocksHaveOneEnd`, `NoDoubleRedemption` | `LockLifecycle`, `NullifierMatchesConsumed` |
| `ClaimsStayClosed`, `OnlyAuthorizedPayouts` | `ClaimsTerminal`, `PayoutRule` |
| `PendingIsOneCommitment`, `ApprovalsStayCurrent` | `PendingMintBound`, `ApprovalsAreCurrent` |
| `ReserveIsConserved`, `SupplyIsConserved` | `ReserveConservation`, `SupplyConservation` |
| `HealthIsKept` | `HealthyUntilPriceOrPayout` |
| `NodeImplementsLedger` | `ImplementsLedger`: initial states map to initial states, each action to a ledger action or a stutter |

For the daemon, under `DaemonAssumption` (any cadence, lead, windows, any finite
number of venues, any number of starts), `OracleDaemon_proofs` first proves the arithmetic of ticks:
`TickOf` rounds down to a multiple of the cadence, and of two different multiples
one is a cadence ahead. Its invariant `DaemonInv` says that a process counts
upwards in multiples from its first tick (`Counters`), has announced what lies
between there and `next_announce` (`Announced`), holds a reading that was fresh
(`Readings`), and that what earlier processes published lies at or before its
first tick (`History`). The properties speak of what was published and of files;
none of them is inductive without the counters.

`EvidenceConvicts` says that the equivocation check convicts exactly the oracle that
signed two prices of one tick. It needs that an outcome below 2^n is determined by
its n binary digits (`DigitsDetermine`, of `FiniteTotals`), and that what is attested is such an outcome
(`PriceInv`), which in turn needs that a median is one of the quotes
(`MedianIsQuoted`). The powers of two, an induction over data, are obtained from
`FS_SUBSET`: 2^n is the number of subsets of 1..n.

| Theorem | Property |
|---|---|
| `OnlyRestartsEquivocate` | `EquivocationNeedsRestart` |
| `AnnouncementsLead` | `AnnouncedAhead` |
| `PricesBelongToTicks` | `PriceBelongsToTick` |
| `EvidenceConvicts` | `EvidenceIsExact` |

For the swap, under `SwapAssumption` (any sessions, coins, prices, fees, any
number of restarts), the invariant `SwapInv` ties the four places that know of a
promise: the session, the wallet's locks, the quote record, the signature. What a
session holds of this life of the wallet is still locked (`Locks`), so a second
lock of a coin happens in a later life (`Apart`); a record is the grant of the
session it pays (`Records`), and only one record has a given payload; a
signature's grant has no unconsumed record (`Signatures`), so that it cannot be
signed again, and no two signatures are of one grant (`QuotedOnce`). That needs all
of them: without `Apart`, a record inserted later could name a coin already signed
away. Nothing is assumed of the second input of a signature. That no session
is paid twice follows, as it has one grant, and so do `SignedOnce` and
`SettledAsQuoted` for the coins of the quotes; of all the coins that are signed they speak only where the second
inputs are asset outputs, which are no coins of the wallet (`SwapAssumption`).

| Theorem | Property |
|---|---|
| `SwapTypeCorrect` | `SwapTypeOK`, with the change that never wraps |
| `CoinsPromisedOnce`, `QuotesSignedOnce` | `OneQuotePerCoin`, `SignedOnce` |
| `SignedIsGranted` | `SettledAsQuoted` |

For the optimistic reserve, under `OptimisticAssumption` (any claims, amounts,
values, window and bounds), the invariant `BookInv` says that the custody has a
record of exactly the open claims, with their amounts, that the reservation is
the total of those, and that a claim disproved after it was submitted, and before it
was paid, is released. Typing needs the total: the custody subtracts unchecked, and `TotalCoversEach` of
`FiniteTotals` says that a part does not exceed the total.

| Theorem | Property |
|---|---|
| `OptimisticTypeCorrect` | `OptimisticTypeOK` |
| `SlashedStaysUnpaid` | `SlashedIsNotPaid` |
| `OptimisticKeepsLedger` | `KeepsLedger` |

For prices, the same module works under `EvidenceAssumption`: any honest prices and
any lies, of which fewer than a threshold of the oracle set can pass for messages of
the epoch (the code asks for three of five, so two may lie), and any reports of two
reporters or more. Of each task the invariant `PriceVerdicts` says that its verdict
is what the code computes for it. The rest is about that computation:

* What is accepted has a signer once (`Acceptable`), so that fewer than a threshold of
  its messages are lies, however many were sent.
* The median is reached by more than half of the messages and no lower price is
  (`MedianIsReached`); so when most are honest it lies between two honest ones
  (`MedianAmongMajority`, `BetweenExtremes`).
* The median need not be honest when most are not. Then the filter is what helps: the
  answer is given only when a threshold of messages agree with it, more than there
  are liars, so one that agrees is honest (`AcceptedResistLies`, `AggregateResists`).
* The reference of a dispute is the lowest price with half of the stake at or below
  it. The stake of a part and that of the others add up to the whole (`StakeOfParts`,
  sums over finite sets), so liars with less than half of it move the reference past
  no honest report on both sides (`ReferenceResists`).

| Theorem | Property |
|---|---|
| `PricesStayHonest` | `PricesResistLiars` |

For the cohort, under `CohortAssumption` (any number of members, seeds, ticks,
aggregators, dealings), the invariant `CohortInv` follows a value through the
processes that carry it: a reader has the shares of the dealers whose packages it
has, but for the last (`Readers`), so that when it has read all, equal sequences
are equal keys; a share on disk is of a key that fits and a quorum that was
checked (`Shares`), an aggregator holds such shares, one for each of the first of
its quorum (`Collectors`), and so does what it wrote (`Attested`). The promise
about the attestation is not inductive, as the aggregator itself checks nothing.

| Theorem | Property |
|---|---|
| `CohortTypeCorrect` | `CohortTypeOK` |
| `KeySharesFit` | `SharesFitKeys` |
| `AgreementVerifies` | `AgreedSharesVerify` |

For the signatures, `Signatures_proofs` works under `SignatureAssumption` (any prime
order, any number of digits) and `RunsAssumption` (what the tasks are made of), and
from the hypothesis `HashGivesScalars`, that every tag and sequence of numbers hashes
to a scalar that is neither 0 nor too large: the code reduces a challenge modulo the
order and refuses a key or nonce beyond it (`schnorr.rs:20-50`), and the library
refuses 0, so a run in which it fails is one the properties excuse. It stands before
the theorems and is not an assumption on the constants because it speaks of all
sequences, which TLC cannot enumerate. There is no field to start from, so it is built:

* `Cong`, congruence modulo the order, with which each operation is what it should
  be (`AddCong`, `MulCong`, `NegCong`), but for `Add`, which fails on 0.
* `NoZeroDivisors` is Euclid's argument by division with remainder, `Cancel` follows.
* `Fermat`: multiplying by a unit permutes the units, and so leaves their product.
  The product is a fold of which `FoldSolution` shows that it exists.
* `PowerIsPower`: square and multiply, a fold over the bits, gives that power, so
  that `Invert` inverts (`InvertInverts`).

Two signatures with one nonce are then two equations in the key
(`TwoSignaturesGiveKey`). `BucketOpens` says that the point of a bucket, summed from
the announcement, is the secret summed from the attestation when the price is in the
bucket: a bucket's digits are the first digits of its prices (`PrefixDigits`), and
both are one sum, term by term. `RailOpens` and `VaultOpens` carry it through the
adaptor signature; `CosignSound` is MuSig2's equation for any parities of the
aggregate key, the tweaked key and the nonce, a product of three signs.

That a quorum signs like one oracle is Lagrange's interpolation, for a fold that fails
wherever a partial sum is 0:

* A total that did not fail is congruent to the plain sum of its terms over the *set*
  of positions (`TotalIsSum`), and such sums follow congruences and linear
  combinations (`SumsCombine`). `FoldInAnyOrder` of `FiniteTotals` says that a fold
  over a set does not depend on the order, for the products of the weights.
* `Interp` is the value at 0 that the points of a set interpolate to. Multiplying the
  values by the points' distance to one of them drops that point (`InterpShift`);
  hence by induction over sets the weights add up to 1 (`InterpOne`), and the powers
  x, x^2, ... interpolate to 0 when there are more points than the exponent
  (`InterpPowers`): a polynomial of fewer than T coefficients past the first leaves
  its first.
* Interpolation commutes with the sums over coefficients and over dealers
  (`InterpSums`, `InterpTotals`), so the keys of any T members or more interpolate to
  the sum of the dealers' secrets (`KeysInterpolate`, `QuorumInterpolates`).
  `LagrangeAtZero`, a quotient of two products in one loop, is the weight
  (`LambdaIsWeight`).
* `ShareSum` adds the shares up for any parities of nonce and group key. That the
  binding factors are scalars needs that the joined list they hash is a list of
  numbers, of any length (`FlattenType`, `BindingType`).

It is enough that no member's key and no signature failed; N, T, the dealings and the
quorum are arbitrary.

| Theorem | Property |
|---|---|
| `ConflictsRevealKeys` | `ConflictRevealsKey` |
| `AttestationsOpenBuckets` | `AttestationOpensItsBucket` |
| `CohortsSignAsOne` | `CohortSignsAsOne` |

For the exchange, `Contracts_proofs` works under `ExchangeAssumption` and
`MarginAssumption`: any timelocks, delays, number of disconnected blocks and heights
for which

    FundingWindow + 2 * Slack + MaxReorg + 3 <= RefundSafetyDelta

and a finalize path of the lock that opens before the refund does. The margin is
tight: with a safety delta one smaller TLC leaves the operator without both coins,
for a funding window of 0 and of 1. The code has a delta of 24 and a depth of 6
(`redeem.rs:30-32`), so with reorganisations of up to 6 blocks it covers operators
whose funding window and twice whose delay are at most 15 blocks; nothing in
`redeem.rs` says of these numbers what they are to cover. A user with a timelock of
zero is never in time and promised nothing.

The properties say that no *final* pair of confirmations takes both coins of a side
(final: buried so deep that no reorganisation undoes it), which is far from
inductive, as a disconnected block puts any confirmation back. `ExchangeInv` bounds where
confirmations may be instead, always relative to the block of the lock or of the
HTLC, wherever they are now:

* `ChainInv`: the tip is at most `MaxReorg` below the greatest height ever seen, so
  that a bound on that height survives a fork.
* `ScriptInv`, `SentInv`: what is in a block spends what is in a block, late enough
  and alone, and what was sent after what.
* `FundedSoon`, `SpentSoon`: the HTLC is in a block soon after the lock, and spent
  soon after its timelock at the latest.
* `RevealedSoon`: unless the HTLC's refund is final, the preimage was revealed while
  the greatest height was below a bound. The claim may come late in the life of the
  chain, after a fork; the bound is on what can be seen then (`ClaimIsEarly`).
* `TakenSoon`: then the operator's transaction takes the lock before the refund can,
  at every block a reorganisation leaves.
* `InTimeInv`: the mirror of it for the user.
* `ObserverInv`, `AcceptedInv`: a header names its predecessor by hash, so while the
  last header the observer has seen is on chain the block under it is, too, and with
  `MinDepth` of them, no fewer than `MaxReorg`, it stays when the last one goes. So an
  answer taken on one branch and the next on another are told apart, or do no harm.

The proof has one lemma for each action and group of conjuncts: `Mine` and
`Disconnect` are the hard ones.

| Theorem | Property |
|---|---|
| `ExchangeTypes` | `ExchangeTypeOK` |
| `OperatorStaysWhole` | `OperatorIsWhole` |
| `UserStaysWhole` | `UserIsWhole` |
| `ProvenPayoutsStay` | `ProvenPayoutStays` |

For positions, the same module works under `PositionAssumption`: any terms whose
collateral is an amount of satoshis and whose schedule has no more digits than a price
(`rail1/cet.rs:32` asserts it), any parameters whose penalty and bounty are shares of
at most all, any prices and ages. `TaskVerdicts` says that a verdict is what the code
computes for its task. What remains is the arithmetic of integers that the code rounds:

* `FloorOf` is what every quotient obeys. A ratio that is met is met before rounding
  (`RatioCovers`), so that a price which opens the position is above the crash ceiling
  (`OpeningIsNoCrash`) although both are rounded down and clamped, and at ten thousand
  basis points the holder's leg is the face (`LegsShare`).
* `PayoutShares`: the bounty is a share of a penalty that comes on top of the face, so
  when something is left for the minter the reserve has the face, or the face is
  clamped at more than the collateral.
* `OutputIsOfPosition` goes through the outputs that differ in one part and compares
  the terms of their keys.
* The buckets have the width of the digits they leave out (`WidthFacts`, from
  `PowerOfSum`), so a price is in the one whose index is its quotient by the width
  (`CoveredOnce`, `CrashBuckets`), and dividing twice shows that the digits of that
  index are the first digits of the price (`DigitsOfPrice`).
* Two buckets with the same set of nonces and digits are one, as each nonce is used
  once (`NoncedDigitsDetermine`, from `DigitsDetermine`): the presignature that was
  checked is the one that was signed, and the attestation opens no other.

| Theorem | Property |
|---|---|
| `PositionsStayBacked` | `BackedToMaturity` |

For settlements, again in that module, under `SettlementAssumption` (any prices,
amounts, slots, points, blends, positions and reserves that are numbers, and indexes
that are a number or missing) and `KnobsAssumption` (the fee fits the two bytes it is
written in, and an amount that saturates is over the rail's size). By the same
`TaskVerdicts`, each of the six promises in `SettlementsBind` is a fact about the
operators:

* Sorting. `SortingExists` inserts one number after the other into a list, so the order
  the model chooses exists, lists each index once and rises (`OrderIsStable`). Two
  rising lists of the same numbers are one (`RisingIsUnique`): however the rails are
  listed, the plan is the same (`ByRailEitherWay`).
* The allotment. Sums of numbers each in a proportion are in it up to what rounding
  takes from each (`SumInProportion`), hence `SharesFit`.
* The price. The lower median of any points lies among the prices of every majority
  (`MedianAmongMost`), so an honest one keeps all honest points; more than half of the
  volume then reaches half of what is kept no later than at the highest honest price,
  and no earlier than at the lowest (`MarketResists`).
* The slots. Indexes that count from 0 without a gap are each taken once, as there are
  no more of them than slots (`SlotsAreSorted`); the outputs are then a concatenation
  whose places are known (`TransactionIs`). Without any of it the transfer is refused.
* The verifier. What it accepts is of the rail that was quoted, since the identity of a
  manifest is made of its bytes and those of the two rails of the runs differ in those
  of the fee (`FeeIsWritten`, `RailsDiffer`). The output it finds can only be the
  payout, as no other has the client's script, so it pays what the plan says, and that is
  the quoted value less a fee rounded to the nearest (`PlanPays`, `SettlementVerdict`).

| Theorem | Property |
|---|---|
| `SettlementsStayBound` | `SettlementsBind` |

`LockLifecycle`, `ClaimsTerminal` and `PendingMintBound` are proved and not among
the properties of a run.

Only model-checked: liveness (`ClaimsResolve`, `AssertedClaimsEnd`), which is out of
the provers' reach; `WitnessesAreExact`, `EvidenceIsOfTheChain` and `LineageEvidence`,
whose operators climb trees and recurse over files; and `EncodingsAreExact`, which
says what a reader that folds over bytes returns for every message.

## 4. Plan

Modelled so far: the accounting core with custody and keeper, the optimistic
reserve with the Live DA, the oracle daemon, the LP swap, the cohort with its
signatures, the exchange of a fast redemption, the verifiers of evidence and the
position side. What is left, the most important first.

1. Compositions: `StateNode` with `OptimisticReserve` as a third backend, which
   needs the node's record of a claim to follow a disproof; `Exchange`'s lock leg
   as `AnchorLock` and `SpendLock` of `StateNode`; the key of `Cohort` as the key
   `OracleDaemon` signs with.
2. A position over time: `Vaults` as a state machine driven by the attestations of
   `OracleDaemon`, two of one tick included. `position` checks each exit alone.
3. Liveness of the exchange and of the swap: both sides end when both watch.
4. Theorems about the pure modules that have none yet, with the inductions of
   `FiniteTotals`: the strict reader of `Wire` (what it accepts, the writer writes),
   and that all manifests that differ have different identities.

## 5. Where the documents and the code disagree

One such sentence is a run that TLC must refute, `lineage_section`.

* `HonestClaimsAreClean` (`claim.rs:49`, "the genesis→burn lineage the challenger
  re-runs travels in 0x07"): the node commits the burn proofs of a batch each
  behind its length, the challenger parses the whole section as one bare proof
  file, so every bundle with the committed root raises `LineageInvalid`, for a
  batch of one too.

Met while modelling and not run, in the node and its custody:

* A deposit is not recorded as used (PRD 5.D11): another issuer, or the same one
  after finalizing, may commit it again, and the reserve is credited twice.
* The burn proof is bound to sink, amount, family and anchor, not to the lock
  output that was burned (PRD 5.D15): one burn redeems two locks of equal amount.
* FINALIZE_CLAIM compares the expiry with a height the caller supplies
  (`registry.rs:273` says it must run before the expiry).
* A mint that fails its ratio check at finalize stays pending and no transition
  expires it.
* `resolve_dispute` takes any lineage that verifies for the real one, so that of
  another redemption of the batch disproves an honest claim.
* `submit_disprove` ignores that there is nothing to free
  (`satusd-dispute/src/lib.rs:195`, "free the reservation so the fraudulent claim is
  never paid"): a disproof before `submit_claim` leaves a claim that
  `finalize_claim` pays. If it was asserted before, too, the claim stays open with a
  window that is `Disproven`, and cannot be withdrawn until it is asserted again.
  That claims are submitted before they are asserted and disproved is the callers'
  obligation, which no comment states. The model allows every order;
  `SlashedIsNotPaid` and `AssertedClaimsEnd` say what holds in all of them.
* `PlaygroundReserve::finalize_claim`, which the node would call, pays without
  looking at the window; a disproof of a claim already paid leaves its window
  status `Disproven`, which `satusd-reserve/src/lib.rs:128` reads as slashed.
* The tier is committed by every transition and read by none, though `tier.rs:18`
  says that in Settlement "automatic mode stops".
* `set_reserve_committee` on a node with a `MultisigReserve` leaves custody and
  state with different committees, after which a payout needs both.
* Two records of one output can be one refunded and one consumed.
* `use_multisig_reserve` asks to be called before any pending claim and does not
  check it (the model takes it as the caller's obligation).

In the daemons:

* A restarted `oracled` resumes at the current tick without looking at its files
  (`oracled.rs:25`, "restarts are safe"); a tick that was attested is attested
  again, in live mode possibly at another price. `EquivocationNeedsRestart` says
  that nothing else leads there.
* Of two venue answers the lower is the median (`oracled.rs:122`), so one venue
  sets the price, which is then cross-checked against itself.
* "Sign only our input via the node wallet" (`satusd-lp/src/lib.rs:354`):
  `handle_settle` compares one of the two inputs with the quote, and
  `walletprocesspsbt` signs all that are the wallet's. A second coin of the LP, one
  locked for another session included, is signed without a quote, and again when
  its own is settled. The model allows any second input; `SignedOnce` and
  `SettledAsQuoted` say what holds of all of them, and what only of asset
  outputs.
* The coin of an expired quote is never unlocked (`signet/OPS.md:104` has it
  locked for `quote_validity_s`).

In the verifiers:

* `verify_lineage` does not require the first proof to be a genesis
  (`satusd-ta-proof/src/lib.rs:1-3` speaks of genesis to tip), does not compare a
  step's `prev_out` with the inputs of its anchor transaction, does not add up
  the amounts of a split and does not look at proof of work. `LineageEvidence`
  says what remains, and of the order of steps only for unaltered links.
* A payout or deposit proof holds a header's proof of work against the target in
  the header itself, and an index beyond the block that repeats the last node of
  an odd layer verifies too.
* Exactly half of the stake sets the weighted median, where `median.rs:3-5` and
  `16-20` ask for more than half.
* `verify_rail0_settlement` checks neither the burn nor the quote's expiry, and
  one payout output can back several quotes.
* `verify_backing` takes the refund keys from the descriptor (`BackedToMaturity`
  assumes that the refund's user is the holder) and does not accept the
  holder-only leaf of spec 07.
* `payout_at` divides by zero at price 0, and rounds the face down where
  `face_sats` rounds up. `crash_schedule` takes prices below the ceiling where
  `contract.rs:85-88` speaks of those at or below it, and a bucket that straddles
  the ceiling covers healthy prices.
* A manifest whose tiers of one transition are listed in another order has another
  `rail_id`.

## 6. Not modelled

In the state machines, hashing, signatures and proof parsing are modelled by the
facts they establish; `Signatures`, `Trees`, `Lineage` and `Wire` then say what
establishes them. Elliptic-curve and hash arithmetic are terms or a small group.
The state epoch and the chaining of roots add an ever-growing counter and nothing
that a property here distinguishes. Panics (an empty batch, an unchecked addition
in `submit_claim` in a debug build, `try_into().unwrap` on a short slice) are
listed as hazards and are not states of the model.

* Node server and client plumbing: DTO conversion, HTTP framing, tapd's gRPC, the
  submit and quote calls of the operator, funding and publishing of Rail 0: their
  effects are the inputs of the modelled calls.
* `tlock.rs` (time-lock encryption to a beacon), `attest_once` and
  `equivocation_verify` (one-shot tools around modelled functions), BIP-32 key
  origins, `keyspend_secret`, `reserve_spend` (key handling).
* `spend_info` and the bodies of the outcome transactions, the sibling preimage of
  an earlier tap leaf, `asset_meta`, `manifest_json`, hexadecimal parsing: layout.
* The swap leaves out the asset level of a transaction, which the LP's own header
  says it does not verify, and the confirmation of change: `Coin` are the coins
  the wallet has. The daemon leaves out its HTTP server, which only reads files.
* The command line, the RFQ oracle, the fixtures of `satusd-vectors`, the web app,
  the SDK (a port of the verifiers to TypeScript), the circuits and the scripts of
  the devnets: input, output and generated data around the modelled parts.
