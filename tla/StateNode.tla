------------------------------ MODULE StateNode ------------------------------
(***************************************************************************)
(* The accounting node of satusd-state: node.rs with the executors it      *)
(* calls (mint.rs, redeem.rs, claim.rs, registry.rs), composed with the    *)
(* reserve custody it drives and with the chain facts its witnesses prove. *)
(*                                                                         *)
(* Each action is one accepted call of the node, atomic because the HTTP   *)
(* server runs every transition under one mutex.  A rejected call changes  *)
(* nothing and is not a step, but for a refused FINALIZE_CLAIM, which      *)
(* leaves its approvals in the custody.                                    *)
(*                                                                         *)
(* A hash is modelled by what it commits to.  A lock record hash is the    *)
(* record; a redemption nullifier is the anchored asset output the record  *)
(* names; a committee hash is the committee; a sparse Merkle tree is the   *)
(* set of its keys, and a membership proof is membership.  claim_id binds  *)
(* prev_state_root, which no two states share, so submit takes a fresh id. *)
(* The epoch and the chaining of roots are left out.                       *)
(***************************************************************************)
EXTENDS Collateral, ReserveCustody, FiniteSetsExt

CONSTANTS Issuer, Operator,
          Deposit,           \* confirmed BTC deposits to a reserve committee
          DepositSats,       \* [Deposit -> Nat], the output value
          DepositCommittee,  \* [Deposit -> Committees], whose P2WSH it pays
          Anchor,            \* asset outputs of lock transactions on chain
          AnchorAtoms,       \* [Anchor -> Nat], the SatUSD they hold
          AnchorOperator,    \* [Anchor -> Operator], from the redeem intent
          LockRecord,        \* the lock records a caller may submit
          RecordAnchor,      \* [LockRecord -> Anchor]
          MaxU64,            \* the largest u64: every checked_add stops here
          Prices,            \* the e8 prices that occur
          MintAtoms,         \* bound: the amounts requested
          Bonds,             \* bound: bond and max_claim values registered
          Expiries,          \* bound: claim expiry heights chosen by submitters
          MaxHeight          \* bound: the highest block

U64 == 0 .. MaxU64

ASSUME NodeAssumption ==
    /\ MaxU64 \in Nat
    /\ IsFiniteSet(Issuer) /\ IsFiniteSet(Anchor) /\ IsFiniteSet(LockRecord)
    /\ DepositSats \in [Deposit -> Nat]
    /\ DepositCommittee \in [Deposit -> Committees]
    /\ AnchorAtoms \in [Anchor -> Nat]
    /\ AnchorOperator \in [Anchor -> Operator]
    /\ RecordAnchor \in [LockRecord -> Anchor]
    /\ Prices \subseteq Nat \ {0} /\ Prices # {}
    /\ MintAtoms \subseteq Nat
    /\ Bonds \subseteq Nat
    /\ Expiries \subseteq Nat
    /\ MaxHeight \in Nat

VARIABLES \* StateRoot scalars
          reserve_btc_sats, reserved_pending_claim_sats, sat_usd_supply_atoms,
          latest_oracle_price_e8, emergency_tier, reserve_committee_hash,
          l1_anchor_height,
          \* the trees, and the records the node keeps beside them
          issuers, operators, pending_claims,
          lock_record, lock_consumed, lock_refund, nullifiers,
          \* the asset outputs of the lock transactions, on chain
          lock_output

scalarVars == <<reserve_btc_sats, reserved_pending_claim_sats,
                sat_usd_supply_atoms, latest_oracle_price_e8, emergency_tier>>
lockVars == <<lock_record, lock_consumed, lock_refund, nullifiers>>
registryVars == <<issuers, operators>>

vars == <<scalarVars, reserve_committee_hash, l1_anchor_height, registryVars,
          pending_claims, lockVars, lock_output, custodyVars>>

(* The claims by status; Challenged and Expired are never assigned. *)
ClaimRecord == [status : {"None", "Pending", "Finalized", "Reclaimed"},
                reserved_sats : Nat, claim_expiry_height : Nat]

NoClaim == [status |-> "None", reserved_sats |-> 0, claim_expiry_height |-> 0]

(* The commitment hashes the request and the deposit; Option is a set. *)
Commitment == [atoms : Nat, deposit : Deposit]

IssuerPosition == [registered : BOOLEAN, reserve_deposits_sats : Nat,
                   minted_satusd_atoms : Nat, pending_mint_atoms : Nat,
                   pending_mint_commitment : SUBSET Commitment]

FreshIssuer(reg) == [registered |-> reg, reserve_deposits_sats |-> 0,
                     minted_satusd_atoms |-> 0, pending_mint_atoms |-> 0,
                     pending_mint_commitment |-> {}]

OperatorPosition == [registered : BOOLEAN, bond_sats : Nat,
                     max_claim_sats : Nat]

TypeOK ==
    /\ CustodyTypeOK
    /\ reserve_btc_sats \in Nat
    /\ reserved_pending_claim_sats \in Nat
    /\ sat_usd_supply_atoms \in Nat
    /\ latest_oracle_price_e8 \in Prices
    /\ emergency_tier \in Tiers
    /\ reserve_committee_hash \in Committees \cup {NoCommittee}
    /\ l1_anchor_height \in Nat
    /\ issuers \in [Issuer -> IssuerPosition]
    /\ operators \in [Operator -> OperatorPosition]
    /\ pending_claims \in [Claim -> ClaimRecord]
    /\ lock_record \subseteq LockRecord
    /\ lock_consumed \subseteq LockRecord
    /\ lock_refund \subseteq LockRecord
    /\ nullifiers \subseteq Anchor
    /\ lock_output \in [Anchor -> {"absent", "locked", "burned", "returned"}]

(* StateNode::genesis. *)
Init ==
    /\ CustodyInit
    /\ reserve_btc_sats = 0
    /\ reserved_pending_claim_sats = 0
    /\ sat_usd_supply_atoms = 0
    /\ latest_oracle_price_e8 \in Prices
    /\ emergency_tier = "Healthy"
    /\ reserve_committee_hash = NoCommittee
    /\ l1_anchor_height = 0
    /\ issuers = [i \in Issuer |-> FreshIssuer(FALSE)]
    /\ operators = [o \in Operator |-> [registered |-> FALSE, bond_sats |-> 0,
                                        max_claim_sats |-> 0]]
    /\ pending_claims = [c \in Claim |-> NoClaim]
    /\ lock_record = {}
    /\ lock_consumed = {}
    /\ lock_refund = {}
    /\ nullifiers = {}
    /\ lock_output = [a \in Anchor |-> "absent"]

-----------------------------------------------------------------------------
(* Governance and the chain follower: configuration, not transitions.      *)

(* set_l1_anchor: the node follows a tip that only grows here. *)
SetL1Anchor ==
    /\ l1_anchor_height < MaxHeight
    /\ l1_anchor_height' = l1_anchor_height + 1
    /\ UNCHANGED <<scalarVars, reserve_committee_hash, registryVars,
                   pending_claims, lockVars, lock_output, custodyVars>>

(* set_reserve_committee writes the commitment and leaves the custody be. *)
SetReserveCommittee(k) ==
    /\ reserve_committee_hash' = k
    /\ UNCHANGED <<scalarVars, l1_anchor_height, registryVars,
                   pending_claims, lockVars, lock_output, custodyVars>>

(* use_multisig_reserve, called before any pending claims as it asks. *)
UseMultisigReserve(k) ==
    /\ \A c \in Claim : pending_claims[c].status # "Pending"
    /\ reserve_committee_hash' = k
    /\ NewMultisig(reserve_btc_sats, k)
    /\ UNCHANGED <<scalarVars, l1_anchor_height, registryVars,
                   pending_claims, lockVars, lock_output>>

RotateReserveCommittee(k) ==
    /\ reserve_committee_hash' = k
    /\ RotateCommittee(k)
    /\ UNCHANGED <<scalarVars, l1_anchor_height, registryVars,
                   pending_claims, lockVars, lock_output>>

(* emergency_pause, resume_reserve and veto_claim reach the custody only. *)
CustodyControl ==
    /\ EmergencyPause \/ Resume \/ \E c \in Claim : Veto(c)
    /\ UNCHANGED <<scalarVars, reserve_committee_hash, l1_anchor_height,
                   registryVars, pending_claims, lockVars, lock_output>>

-----------------------------------------------------------------------------
(* Registration. *)

IssuerRegister(i) ==
    /\ ~issuers[i].registered
    /\ issuers' = [issuers EXCEPT ![i] = FreshIssuer(TRUE)]
    /\ UNCHANGED <<scalarVars, reserve_committee_hash, l1_anchor_height,
                   operators, pending_claims, lockVars, lock_output,
                   custodyVars>>

OperatorRegister(o, bond, maxClaim) ==
    /\ ~operators[o].registered
    /\ maxClaim > 0
    /\ 2 * maxClaim <= MaxU64
    /\ bond >= 2 * maxClaim
    /\ operators' = [operators EXCEPT ![o] =
                       [registered |-> TRUE, bond_sats |-> bond,
                        max_claim_sats |-> maxClaim]]
    /\ UNCHANGED <<scalarVars, reserve_committee_hash, l1_anchor_height,
                   issuers, pending_claims, lockVars, lock_output,
                   custodyVars>>

-----------------------------------------------------------------------------
(* Mint. *)

(* Mutant of SetStateTier: the tier of the state before the step. *)
SetStateTierStale ==
    emergency_tier' = RecomputeTier(reserve_btc_sats, sat_usd_supply_atoms,
                                    latest_oracle_price_e8)

(* mint::set_state_tier, on the post-state scalars. *)
SetStateTier ==
    emergency_tier' = RecomputeTier(reserve_btc_sats', sat_usd_supply_atoms',
                                    latest_oracle_price_e8')

(* Mutant of Covered: the supply before the mint instead of after it. *)
CoveredBeforeMint(reserve, supply, atoms, price) ==
    supply > 0 => CollateralRatio(reserve, supply, price) >= MinMintRatio

(* The reserve covers the supply a mint leaves behind. *)
Covered(reserve, supply, atoms, price) ==
    CollateralRatio(reserve, supply + atoms, price) >= MinMintRatio

(* Mutant of IssuerAfterCommit: the deposit is not booked to the issuer. *)
IssuerAfterCommitUnbooked(p, d, atoms) ==
    [p EXCEPT !.pending_mint_atoms = @ + atoms,
              !.pending_mint_commitment = {[atoms |-> atoms, deposit |-> d]}]

(* mint::issuer_after_commit. *)
IssuerAfterCommit(p, d, atoms) ==
    [p EXCEPT !.reserve_deposits_sats = @ + DepositSats[d],
              !.pending_mint_atoms = @ + atoms,
              !.pending_mint_commitment = {[atoms |-> atoms, deposit |-> d]}]

(* MINT_COMMIT.  The deposit must pay the committed committee; whether it  *)
(* has been committed before is not asked.                                 *)
MintCommit(i, d, atoms, price) ==
    /\ issuers[i].registered
    /\ reserve_committee_hash = DepositCommittee[d]
    /\ issuers[i].pending_mint_commitment = {}
    /\ atoms > 0
    /\ reserve_btc_sats + DepositSats[d] <= MaxU64
    /\ sat_usd_supply_atoms + atoms <= MaxU64
    /\ Covered(reserve_btc_sats + DepositSats[d], sat_usd_supply_atoms,
               atoms, price)
    /\ issuers[i].reserve_deposits_sats + DepositSats[d] <= MaxU64
    /\ issuers[i].pending_mint_atoms + atoms <= MaxU64
    /\ issuers' = [issuers EXCEPT ![i] = IssuerAfterCommit(@, d, atoms)]
    /\ reserve_btc_sats' = reserve_btc_sats + DepositSats[d]
    /\ latest_oracle_price_e8' = price
    /\ UNCHANGED <<sat_usd_supply_atoms, reserved_pending_claim_sats>>
    /\ SetStateTier
    /\ Credit(DepositSats[d])
    /\ UNCHANGED <<reserve_committee_hash, l1_anchor_height, operators,
                   pending_claims, lockVars, lock_output>>

(* mint::issuer_after_finalize. *)
IssuerAfterFinalize(p, atoms) ==
    [p EXCEPT !.minted_satusd_atoms = @ + atoms,
              !.pending_mint_atoms = @ - atoms,
              !.pending_mint_commitment = {}]

(* MINT_FINALIZE.  The ratio is asked again, at the price of the moment;   *)
(* the second, lower bar the code asks for is implied by this one.         *)
MintFinalize(i, price) ==
    /\ issuers[i].registered
    /\ \E m \in issuers[i].pending_mint_commitment :
         /\ sat_usd_supply_atoms + m.atoms <= MaxU64
         /\ Covered(reserve_btc_sats, sat_usd_supply_atoms, m.atoms, price)
         /\ issuers[i].minted_satusd_atoms + m.atoms <= MaxU64
         /\ m.atoms <= issuers[i].pending_mint_atoms
         /\ issuers' = [issuers EXCEPT ![i] = IssuerAfterFinalize(@, m.atoms)]
         /\ sat_usd_supply_atoms' = sat_usd_supply_atoms + m.atoms
    /\ latest_oracle_price_e8' = price
    /\ UNCHANGED <<reserve_btc_sats, reserved_pending_claim_sats>>
    /\ SetStateTier
    /\ UNCHANGED <<reserve_committee_hash, l1_anchor_height, operators,
                   pending_claims, lockVars, lock_output, custodyVars>>

-----------------------------------------------------------------------------
(* The chain side of a redemption: external to the node. *)

IssuedAtoms(i) ==
    issuers[i].minted_satusd_atoms + issuers[i].pending_mint_atoms

AnchoredAtoms(anchors) == SumFunctionOnSet(AnchorAtoms, anchors)

(* A user locks issued SatUSD in an output only two leaves can spend. *)
AnchorLock(a) ==
    /\ lock_output[a] = "absent"
    /\ AnchoredAtoms({b \in Anchor : lock_output[b] # "absent"} \cup {a})
         <= SumFunction([i \in Issuer |-> IssuedAtoms(i)])
    /\ lock_output' = [lock_output EXCEPT ![a] = "locked"]
    /\ UNCHANGED <<scalarVars, reserve_committee_hash, l1_anchor_height,
                   registryVars, pending_claims, lockVars, custodyVars>>

(* The operator burns it to the protocol sink, or the user takes it back. *)
SpendLock(a, how) ==
    /\ lock_output[a] = "locked"
    /\ lock_output' = [lock_output EXCEPT ![a] = how]
    /\ UNCHANGED <<scalarVars, reserve_committee_hash, l1_anchor_height,
                   registryVars, pending_claims, lockVars, custodyVars>>

-----------------------------------------------------------------------------
(* Redemption. *)

(* REDEEM_FAST_LOCK: the lineage proof binds the record to its anchor. *)
RedeemLock(l) ==
    /\ lock_output[RecordAnchor[l]] # "absent"
    /\ l \notin lock_record
    /\ lock_record' = lock_record \cup {l}
    /\ UNCHANGED <<scalarVars, reserve_committee_hash, l1_anchor_height,
                   registryVars, pending_claims, lock_consumed, lock_refund,
                   nullifiers, lock_output, custodyVars>>

(* D17's active locks: recorded, neither consumed nor refunded. *)
Active(l) == l \in lock_record \ (lock_consumed \cup lock_refund)

(* LOCK_REFUND: no height and no spend of the anchor is asked for. *)
LockRefund(l) ==
    /\ Active(l)
    /\ lock_refund' = lock_refund \cup {l}
    /\ UNCHANGED <<scalarVars, reserve_committee_hash, l1_anchor_height,
                   registryVars, pending_claims, lock_record, lock_consumed,
                   nullifiers, lock_output, custodyVars>>

RecordAtoms(l) == AnchorAtoms[RecordAnchor[l]]

BatchAtoms(batch) == SumFunction([l \in batch |-> RecordAtoms(l)])

BatchGross(batch, price) ==
    SumFunction([l \in batch |-> Gross(RecordAtoms(l), price)])

(* Mutant of FreshNullifiers: every record against the roots the batch *)
(* started from, instead of the running ones.                          *)
FreshNullifiersUnthreaded(batch) ==
    \A l \in batch : RecordAnchor[l] \notin nullifiers

(* Every nullifier is new and, the nullifier set being advanced as the *)
(* batch is walked, no two are alike.                                  *)
FreshNullifiers(batch) ==
    /\ \A l \in batch : RecordAnchor[l] \notin nullifiers
    /\ \A l, m \in batch : RecordAnchor[l] = RecordAnchor[m] => l = m

(* The burn proof shows as much SatUSD in the protocol sink as the record  *)
(* locked; the lock the burned output came from is not compared.           *)
BurnShown(l) == \E b \in Anchor :
    lock_output[b] = "burned" /\ AnchorAtoms[b] = RecordAtoms(l)

(* claim::verify_reserve_claim_finalize's checks on one batch. *)
Redeemable(batch) ==
    /\ batch # {}
    /\ \A l \in batch : Active(l) /\ BurnShown(l)
    /\ FreshNullifiers(batch)
    /\ \A l, m \in batch : AnchorOperator[RecordAnchor[l]]
                             = AnchorOperator[RecordAnchor[m]]

(* claim_id is in no leaf of pending_claim_root, whatever its status. *)
FreshClaimId(c) == pending_claims[c].status = "None"

(* REDEEM_FAST_FINALIZE: burn, consume the locks, reserve the              *)
(* reimbursement.  The reserve is not debited and not compared with what   *)
(* is already promised.                                                    *)
SubmitReserveClaim(c, batch, price, expiry) ==
    /\ FreshClaimId(c)
    /\ Redeemable(batch)
    /\ BatchAtoms(batch) \in U64
    /\ BatchGross(batch, price) \in U64
    /\ BatchAtoms(batch) <= sat_usd_supply_atoms
    /\ reserved_pending_claim_sats + BatchGross(batch, price) <= MaxU64
    /\ sat_usd_supply_atoms' = sat_usd_supply_atoms - BatchAtoms(batch)
    /\ reserved_pending_claim_sats' =
         reserved_pending_claim_sats + BatchGross(batch, price)
    /\ latest_oracle_price_e8' = price
    /\ UNCHANGED reserve_btc_sats
    /\ SetStateTier
    /\ lock_consumed' = lock_consumed \cup batch
    /\ nullifiers' = nullifiers \cup {RecordAnchor[l] : l \in batch}
    /\ pending_claims' = [pending_claims EXCEPT ![c] =
         [status |-> "Pending", reserved_sats |-> BatchGross(batch, price),
          claim_expiry_height |-> expiry]]
    /\ SubmitClaim(c, BatchGross(batch, price))
    /\ UNCHANGED <<reserve_committee_hash, l1_anchor_height, registryVars,
                   lock_record, lock_refund, lock_output>>

(* A claim leaves Pending and gives its reservation back. *)
CloseClaim(c, status) ==
    /\ pending_claims' = [pending_claims EXCEPT ![c].status = status]
    /\ reserved_pending_claim_sats' =
         reserved_pending_claim_sats - pending_claims[c].reserved_sats

(* RECLAIM_STALE_CLAIM, at a height the caller read off the anchor. *)
ReclaimStaleClaim(c, height) ==
    /\ pending_claims[c].status = "Pending"
    /\ height > pending_claims[c].claim_expiry_height
    /\ pending_claims[c].reserved_sats <= reserved_pending_claim_sats
    /\ CloseClaim(c, "Reclaimed")
    /\ ReclaimStale(c)
    /\ UNCHANGED <<reserve_btc_sats, sat_usd_supply_atoms,
                   latest_oracle_price_e8, emergency_tier,
                   reserve_committee_hash, l1_anchor_height, registryVars,
                   lockVars, lock_output>>

(* registry::apply_finalize_claim's authority: the committed committee and *)
(* its threshold of signers, before expiry, out of what the reserve holds. *)
FinalizeAuthorized(c, signers, height) ==
    /\ pending_claims[c].status = "Pending"
    /\ height <= pending_claims[c].claim_expiry_height
    /\ reserve_committee_hash \in Committees
    /\ Cardinality(signers \cap reserve_committee_hash.members)
         >= reserve_committee_hash.threshold
    /\ pending_claims[c].reserved_sats <= reserved_pending_claim_sats
    /\ pending_claims[c].reserved_sats <= reserve_btc_sats

(* FINALIZE_CLAIM, paid by the custody. *)
FinalizeClaim(c, signers, height) ==
    /\ FinalizeAuthorized(c, signers, height)
    /\ PayClaim(c, signers)
    /\ CloseClaim(c, "Finalized")
    /\ reserve_btc_sats' = reserve_btc_sats - pending_claims[c].reserved_sats
    /\ UNCHANGED <<sat_usd_supply_atoms, latest_oracle_price_e8>>
    /\ SetStateTier
    /\ UNCHANGED <<reserve_committee_hash, l1_anchor_height, registryVars,
                   lockVars, lock_output>>

(* FINALIZE_CLAIM, authorised but refused by the custody. *)
FinalizeRefused(c, signers, height) ==
    /\ FinalizeAuthorized(c, signers, height)
    /\ RefuseClaim(c, signers)
    /\ UNCHANGED <<scalarVars, reserve_committee_hash, l1_anchor_height,
                   registryVars, pending_claims, lockVars, lock_output>>

-----------------------------------------------------------------------------
(* The heights a caller may have read off the node, now or earlier. *)
SeenHeights == 0 .. l1_anchor_height

Governance ==
    \/ \E k \in Committees : \/ SetReserveCommittee(k)
                             \/ UseMultisigReserve(k)
                             \/ RotateReserveCommittee(k)
    \/ CustodyControl

Register ==
    \/ \E i \in Issuer : IssuerRegister(i)
    \/ \E o \in Operator, bond, maxClaim \in Bonds :
         OperatorRegister(o, bond, maxClaim)

Mint == \E i \in Issuer, price \in Prices :
    \/ \E d \in Deposit, atoms \in MintAtoms : MintCommit(i, d, atoms, price)
    \/ MintFinalize(i, price)

OnChain == \E a \in Anchor :
    \/ AnchorLock(a)
    \/ \E how \in {"burned", "returned"} : SpendLock(a, how)

Lock == \E l \in LockRecord : RedeemLock(l) \/ LockRefund(l)

Submit == \E c \in Claim, batch \in SUBSET LockRecord,
             price \in Prices, expiry \in Expiries :
    SubmitReserveClaim(c, batch, price, expiry)

Resolve == \E c \in Claim, height \in SeenHeights :
    \/ ReclaimStaleClaim(c, height)
    \/ \E signers \in SUBSET Member : \/ FinalizeClaim(c, signers, height)
                                      \/ FinalizeRefused(c, signers, height)

Next == SetL1Anchor \/ Governance \/ Register \/ Mint \/ OnChain \/ Lock
          \/ Submit \/ Resolve

Spec == Init /\ [][Next]_vars
=============================================================================
