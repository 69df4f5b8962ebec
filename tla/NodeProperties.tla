--------------------------- MODULE NodeProperties ---------------------------
(***************************************************************************)
(* What the state node and its custody owe each other, the issuers and the *)
(* redeemers.                                                              *)
(***************************************************************************)
EXTENDS StateNode

(* The claims with a given status, and the sats or atoms behind a set. *)
ClaimsIn(status) == {c \in Claim : pending_claims[c].status = status}

SatsOf(claims) ==
    SumFunctionOnSet([c \in Claim |-> pending_claims[c].reserved_sats], claims)

IssuerTotal(field) == SumFunction([i \in Issuer |-> issuers[i][field]])

-----------------------------------------------------------------------------
(* The custody and the books.                                              *)

(* node.rs reserve_consistent(): the custody backend and the state root    *)
(* hold the same two totals after every operation, the swap of the backend *)
(* included, and the custody holds an open record of the same amount for   *)
(* exactly the claims that are pending.  When this fails the node answers  *)
(* InvariantViolation after it has already committed.                      *)
CustodyLockstep ==
    /\ total_sats = reserve_btc_sats
    /\ reserved_sats = reserved_pending_claim_sats
    /\ \A c \in Claim :
         /\ pending_claims[c].status = "Pending" <=> entries[c].status = "open"
         /\ pending_claims[c].status = "Pending" =>
              entries[c].amount_sats = pending_claims[c].reserved_sats

(* Sats come in with deposits and go out with paid claims, by no other way. *)
ReserveConservation ==
    reserve_btc_sats + SatsOf(ClaimsIn("Finalized"))
      = IssuerTotal("reserve_deposits_sats")

(* The approvals the custody holds are of members of its present committee: *)
(* a rotation leaves none of the old members' behind.                       *)
ApprovalsAreCurrent ==
    \A c \in Claim : entries[c].approvals \subseteq committee.members

(* The reserve goes down only to pay one pending claim, by exactly its     *)
(* amount, with the committed quorum among the approvals the custody holds *)
(* or was handed, and never while the custody is paused or the claim is    *)
(* vetoed.                                                                 *)
PayoutRule ==
    [][reserve_btc_sats' < reserve_btc_sats =>
         \E c \in ClaimsIn("Pending") :
            /\ pending_claims' =
                 [pending_claims EXCEPT ![c].status = "Finalized"]
            /\ reserve_btc_sats' =
                 reserve_btc_sats - pending_claims[c].reserved_sats
            /\ backend = "multisig" =>
                 /\ ~paused
                 /\ ~entries[c].vetoed
                 /\ ApprovalCount(entries'[c]) >= committee.threshold]_vars

(* A paid or reclaimed claim keeps its outcome and amount for good: it is  *)
(* neither reopened under its id nor resolved the other way afterwards.    *)
ClaimsTerminal ==
    [][\A c \in Claim :
         /\ pending_claims[c].status \in {"Finalized", "Reclaimed"} =>
              pending_claims'[c] = pending_claims[c]
         /\ pending_claims[c].status = "Pending" =>
              pending_claims'[c] \in
                {[pending_claims[c] EXCEPT !.status = s] :
                   s \in {"Pending", "Finalized", "Reclaimed"}}]_vars

(* The custody's totals with the node's claims implement the claim ledger. *)
LedgerPhase == [None |-> "unknown", Pending |-> "open",
                Finalized |-> "paid", Reclaimed |-> "released"]

Ledger == INSTANCE ClaimLedger
    WITH funds <- total_sats,
         promised <- reserved_sats,
         phase <- [c \in Claim |-> LedgerPhase[pending_claims[c].status]],
         amount <- [c \in Claim |-> pending_claims[c].reserved_sats]

(* Seen from the ledger's interface the node and its custody open, pay and *)
(* release each claim at most once, however the backend is swapped, paused *)
(* or rotated in between.                                                  *)
ImplementsLedger == Ledger!LedgerSpec

-----------------------------------------------------------------------------
(* The locks.                                                              *)

(* PRD 5.D17, L-1 and L-3: a recorded lock is active, consumed or refunded, *)
(* one of the three.                                                        *)
LockLifecycle ==
    /\ lock_consumed \cup lock_refund \subseteq lock_record
    /\ lock_consumed \cap lock_refund = {}

(* One asset output is redeemed once: consumed records have different      *)
(* anchors, and the nullifier set is exactly those anchors, also when      *)
(* several records of one output come in one batch.                        *)
NullifierMatchesConsumed ==
    /\ \A l, m \in lock_consumed : RecordAnchor[l] = RecordAnchor[m] => l = m
    /\ nullifiers = {RecordAnchor[l] : l \in lock_consumed}

(* The supply is what was minted less what was redeemed, each redeemed     *)
(* output counted once.                                                    *)
SupplyConservation ==
    sat_usd_supply_atoms + AnchoredAtoms(nullifiers)
      = IssuerTotal("minted_satusd_atoms")

-----------------------------------------------------------------------------
(* The mint.                                                               *)

(* An issuer's pending atoms are those of its one outstanding commitment:  *)
(* finalizing it twice, or committing over it, leaves no atoms behind.     *)
PendingMintBound ==
    \A i \in Issuer :
      \/ /\ issuers[i].pending_mint_commitment = {}
         /\ issuers[i].pending_mint_atoms = 0
      \/ \E m \in issuers[i].pending_mint_commitment :
           /\ issuers[i].pending_mint_commitment = {m}
           /\ issuers[i].pending_mint_atoms = m.atoms

(* The committed tier is the tier of the committed scalars: no step moves  *)
(* the reserve, the supply or the price and leaves an older tier.          *)
TierFresh ==
    emergency_tier = RecomputeTier(reserve_btc_sats, sat_usd_supply_atoms,
                                   latest_oracle_price_e8)

(* Leaving Healthy takes a lower price or a payout: neither stage of a     *)
(* mint does it at an unchanged price, nor does a redemption.              *)
HealthyUntilPriceOrPayout ==
    [][(emergency_tier = "Healthy" /\ emergency_tier' # "Healthy") =>
         \/ latest_oracle_price_e8' < latest_oracle_price_e8
         \/ reserve_btc_sats' < reserve_btc_sats]_vars

-----------------------------------------------------------------------------
(* Liveness.                                                               *)

(* A keeper polls the node and reclaims whatever has expired               *)
(* (satusd-operator/src/bin/keeper.rs), and the anchor follows a chain     *)
(* that keeps growing.  Nobody is assumed to finalize, resume or unveto.   *)
Keeper(c) == ReclaimStaleClaim(c, l1_anchor_height)

FairSpec ==
    /\ Spec
    /\ WF_vars(SetL1Anchor)
    /\ \A c \in Claim : WF_vars(Keeper(c))

(* Every pending claim is paid or reclaimed in the end, the paused and the *)
(* vetoed ones too, and the sats it held are free again.                   *)
ClaimsResolve ==
    \A c \in Claim : (pending_claims[c].status = "Pending")
                       ~> (entries[c].status # "open")

=============================================================================
