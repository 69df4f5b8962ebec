--------------------------- MODULE ReserveCustody ---------------------------
(***************************************************************************)
(* The BTC reserve custody of satusd-reserve: the ReserveBackend trait     *)
(* with its two backends, MockReserve (pays at once) and MultisigReserve   *)
(* (committee approvals, emergency pause, challenger veto).  The state     *)
(* node drives it; the operations below are the trait's, and each says     *)
(* which backend it is a no-op on.                                         *)
(*                                                                         *)
(* A signature over a claim_id is modelled by its signer: an approval is a *)
(* committee member, and a forged signature is a signer that is not in the *)
(* set handed in.                                                          *)
(***************************************************************************)
EXTENDS Naturals, FiniteSets

CONSTANTS Claim,       \* claim ids
          Member,      \* committee signing keys
          Committees   \* the committees governance may install

ASSUME CustodyAssumption ==
    /\ IsFiniteSet(Claim)
    /\ IsFiniteSet(Member)
    /\ Committees \subseteq [members : SUBSET Member, threshold : Nat \ {0}]

VARIABLES backend,        \* which backend the node's Box<dyn ReserveBackend> holds
          total_sats,     \* sats in custody
          reserved_sats,  \* sats promised to open claims
          committee,      \* MultisigReserve.committee
          paused,         \* MultisigReserve.paused
          entries         \* the backend's map from claim id to its pending record

custodyVars ==
    <<backend, total_sats, reserved_sats, committee, paused, entries>>

(* The committee of a backend that has none; its hash is the zero hash. *)
NoCommittee == [members |-> {}, threshold |-> 0]

Entry == [status : {"absent", "open", "paid"}, amount_sats : Nat,
          approvals : SUBSET Member, vetoed : BOOLEAN]

(* A key that is not in the backend's map. *)
Absent == [status |-> "absent", amount_sats |-> 0,
           approvals |-> {}, vetoed |-> FALSE]

Opened(sats) == [status |-> "open", amount_sats |-> sats,
                 approvals |-> {}, vetoed |-> FALSE]

CustodyTypeOK ==
    /\ backend \in {"mock", "multisig"}
    /\ total_sats \in Nat
    /\ reserved_sats \in Nat
    /\ committee \in Committees \cup {NoCommittee}
    /\ paused \in BOOLEAN
    /\ entries \in [Claim -> Entry]

(* MockReserve::new(0), the custody of a fresh node. *)
CustodyInit ==
    /\ backend = "mock"
    /\ total_sats = 0
    /\ reserved_sats = 0
    /\ committee = NoCommittee
    /\ paused = FALSE
    /\ entries = [h \in Claim |-> Absent]

-----------------------------------------------------------------------------
(* Mutant of NewMultisig: the new backend forgets what the old one held. *)
NewMultisigUnseeded(sats, new) ==
    /\ backend' = "multisig"
    /\ total_sats' = 0
    /\ reserved_sats' = 0
    /\ committee' = new
    /\ paused' = FALSE
    /\ entries' = [h \in Claim |-> Absent]

(* MultisigReserve::new(total, committee), replacing the backend. *)
NewMultisig(sats, new) ==
    /\ backend' = "multisig"
    /\ total_sats' = sats
    /\ reserved_sats' = 0
    /\ committee' = new
    /\ paused' = FALSE
    /\ entries' = [h \in Claim |-> Absent]

(* credit: a deposit reaches the reserve. *)
Credit(sats) ==
    /\ total_sats' = total_sats + sats
    /\ UNCHANGED <<backend, reserved_sats, committee, paused, entries>>

(* Mutant of SubmitClaim: the record is made, its sats are not reserved. *)
SubmitClaimUnreserved(h, sats) ==
    /\ entries' = [entries EXCEPT ![h] = Opened(sats)]
    /\ UNCHANGED <<backend, total_sats, reserved_sats, committee, paused>>

(* submit_claim: reserve the reimbursement, record the claim; no payout. *)
SubmitClaim(h, sats) ==
    /\ reserved_sats' = reserved_sats + sats
    /\ entries' = [entries EXCEPT ![h] = Opened(sats)]
    /\ UNCHANGED <<backend, total_sats, committee, paused>>

(* The entry after add_approval by each of `signers`: a member counts once, *)
(* a stranger is ignored, and MockReserve records nothing.                  *)
Approved(e, signers) ==
    IF backend = "multisig"
    THEN [e EXCEPT !.approvals = @ \cup (signers \cap committee.members)]
    ELSE e

(* count_approvals against the custody's own committee. *)
ApprovalCount(e) == Cardinality(e.approvals \cap committee.members)

(* Mutant of Payable: the emergency pause is not looked at. *)
PayableWhilePaused(e) ==
    /\ e.status = "open"
    /\ e.amount_sats <= total_sats
    /\ backend = "multisig" =>
         /\ ~e.vetoed
         /\ ApprovalCount(e) >= committee.threshold

(* finalize_claim's refusals: UnknownClaim, AlreadyFinalized and           *)
(* ReserveInsufficient on both backends; Paused, Vetoed and                *)
(* ApprovalInsufficient on MultisigReserve only.                           *)
Payable(e) ==
    /\ e.status = "open"
    /\ e.amount_sats <= total_sats
    /\ backend = "multisig" =>
         /\ ~paused
         /\ ~e.vetoed
         /\ ApprovalCount(e) >= committee.threshold

(* add_approval for every signer, then a finalize_claim that pays.         *)
(* MockReserve drops the record; MultisigReserve keeps it, marked paid.    *)
PayClaim(h, signers) ==
    LET e == Approved(entries[h], signers)
    IN  /\ Payable(e)
        /\ total_sats' = total_sats - e.amount_sats
        /\ reserved_sats' = reserved_sats - e.amount_sats
        /\ entries' = [entries EXCEPT ![h] =
                         IF backend = "multisig"
                         THEN [e EXCEPT !.status = "paid"] ELSE Absent]
        /\ UNCHANGED <<backend, committee, paused>>

(* add_approval for every signer, then a finalize_claim that refuses: the  *)
(* approvals recorded on the way stay in the custody.                      *)
RefuseClaim(h, signers) ==
    LET e == Approved(entries[h], signers)
    IN  /\ ~Payable(e)
        /\ entries' = [entries EXCEPT ![h] = e]
        /\ UNCHANGED <<backend, total_sats, reserved_sats, committee, paused>>

(* Mutant of ReclaimStale: the pause stops reclaims as it stops payouts. *)
ReclaimStaleUnlessPaused(h) ==
    /\ entries[h].status = "open"
    /\ ~paused
    /\ reserved_sats' = reserved_sats - entries[h].amount_sats
    /\ entries' = [entries EXCEPT ![h] = Absent]
    /\ UNCHANGED <<backend, total_sats, committee, paused>>

(* Mutant of ReclaimStale: the record goes, its sats stay reserved. *)
ReclaimStaleKeepingSats(h) ==
    /\ entries[h].status = "open"
    /\ entries' = [entries EXCEPT ![h] = Absent]
    /\ UNCHANGED <<backend, total_sats, reserved_sats, committee, paused>>

(* reclaim_stale: both backends forget the record and free its sats. *)
ReclaimStale(h) ==
    /\ entries[h].status = "open"
    /\ reserved_sats' = reserved_sats - entries[h].amount_sats
    /\ entries' = [entries EXCEPT ![h] = Absent]
    /\ UNCHANGED <<backend, total_sats, committee, paused>>

(* emergency_pause and resume; MockReserve ignores both. *)
EmergencyPause ==
    /\ backend = "multisig"
    /\ paused' = TRUE
    /\ UNCHANGED <<backend, total_sats, reserved_sats, committee, entries>>

Resume ==
    /\ backend = "multisig"
    /\ paused' = FALSE
    /\ UNCHANGED <<backend, total_sats, reserved_sats, committee, entries>>

(* veto: any record MultisigReserve still holds, a paid one included. *)
Veto(h) ==
    /\ backend = "multisig"
    /\ entries[h].status # "absent"
    /\ entries' = [entries EXCEPT ![h].vetoed = TRUE]
    /\ UNCHANGED <<backend, total_sats, reserved_sats, committee, paused>>

(* Mutant of RotateCommittee: approvals of the old members survive. *)
RotateCommitteeKeepingApprovals(new) ==
    IF backend = "multisig"
    THEN /\ committee' = new
         /\ UNCHANGED <<backend, total_sats, reserved_sats, paused, entries>>
    ELSE UNCHANGED custodyVars

(* rotate_committee: new member set, every recorded approval dropped;      *)
(* the trait's default, which MockReserve keeps, does nothing.             *)
RotateCommittee(new) ==
    IF backend = "multisig"
    THEN /\ committee' = new
         /\ entries' = [h \in Claim |-> [entries[h] EXCEPT !.approvals = {}]]
         /\ UNCHANGED <<backend, total_sats, reserved_sats, paused>>
    ELSE UNCHANGED custodyVars
=============================================================================
