-------------------------- MODULE StateNode_proofs --------------------------
(***************************************************************************)
(* Theorems about the state node and the custody it drives, for any sets   *)
(* of issuers, deposits, lock outputs, records, claims and committees:     *)
(* first the custody invariant, then what rests on it: the freshness of    *)
(* the tier, the life of a lock and its nullifier, the life of a claim,    *)
(* who may be paid and when, what it takes to leave Healthy, that the node *)
(* with its custody is a claim ledger, and that sats and atoms are         *)
(* conserved.                                                              *)
(*                                                                         *)
(* Typing alone is not inductive: the custody subtracts what it records,   *)
(* unchecked, after the node has checked what the state records.  The      *)
(* invariant therefore carries CustodyLockstep, and that in turn needs the *)
(* reservation to be the total of the open claims, because a backend       *)
(* installed while nothing is pending starts with nothing reserved.        *)
(***************************************************************************)
EXTENDS NodeProperties, FiniteTotals

(* What each claim still has reserved. *)
OpenSats ==
    [c \in Claim |-> IF pending_claims[c].status = "Pending"
                     THEN pending_claims[c].reserved_sats ELSE 0]

CustodyInv ==
    /\ TypeOK
    /\ CustodyLockstep
    /\ IsTotal(reserved_pending_claim_sats, OpenSats, Claim)

-----------------------------------------------------------------------------
(* Steps that leave the claims and the custody's sats alone keep the       *)
(* custody in step with the state.                                         *)
LEMMA QuietStep ==
  ASSUME CustodyInv,
         UNCHANGED <<reserve_btc_sats, reserved_pending_claim_sats,
                     pending_claims, total_sats, reserved_sats>>,
         \A c \in Claim : /\ entries'[c].status = entries[c].status
                          /\ entries'[c].amount_sats = entries[c].amount_sats
  PROVE  /\ CustodyLockstep'
         /\ IsTotal(reserved_pending_claim_sats, OpenSats, Claim)'
<1>1. OpenSats' = OpenSats
  BY DEF OpenSats
<1>2. IsTotal(reserved_pending_claim_sats', OpenSats', Claim)
  BY <1>1 DEF CustodyInv
<1> QED BY <1>2 DEF CustodyInv, CustodyLockstep

(* With no claim pending, nothing is reserved. *)
LEMMA NothingPendingNothingReserved ==
  ASSUME CustodyInv, \A c \in Claim : pending_claims[c].status # "Pending"
  PROVE  reserved_pending_claim_sats = 0
<1>1. OpenSats \in [Claim -> Int] /\ \A c \in Claim : OpenSats[c] = 0
  BY DEF OpenSats
<1>2. IsTotal(reserved_pending_claim_sats, OpenSats, Claim)
  BY DEF CustodyInv
<1> QED BY <1>1, <1>2, TotalOfZeros

LEMMA OpenSatsType ==
  ASSUME TypeOK
  PROVE  OpenSats \in [Claim -> Int]
BY DEF TypeOK, OpenSats, ClaimRecord

LEMMA InitCustody == Init => CustodyInv
<1> SUFFICES ASSUME Init PROVE CustodyInv
  OBVIOUS
<1> USE ScaleAssumption, CustodyAssumption, NodeAssumption
<1>1. TypeOK
  BY DEF Init, TypeOK, CustodyInit, CustodyTypeOK, Absent, Entry, NoClaim,
         ClaimRecord, FreshIssuer, IssuerPosition, OperatorPosition, Tiers
<1>2. CustodyLockstep
  BY DEF Init, CustodyInit, CustodyLockstep, Absent, NoClaim
<1>3. OpenSats = [c \in Claim |-> 0]
  BY DEF Init, OpenSats, NoClaim
<1>4. IsTotal(reserved_pending_claim_sats, OpenSats, Claim)
  BY <1>3, ZeroHasTotalZero DEF Init
<1> QED BY <1>1, <1>2, <1>4 DEF CustodyInv

LEMMA TierType ==
  ASSUME NEW r, NEW s, NEW p
  PROVE  RecomputeTier(r, s, p) \in Tiers
BY DEF RecomputeTier, Tiers

-----------------------------------------------------------------------------
(* Steps that leave the custody alone. *)

LEMMA GovernancePreserves ==
  ASSUME CustodyInv, SetL1Anchor \/ \E k \in Committees : SetReserveCommittee(k)
  PROVE  CustodyInv'
<1> USE DEF scalarVars, registryVars, lockVars, custodyVars
<1>1. TypeOK'
  <2>1. CASE SetL1Anchor
    BY <2>1 DEF CustodyInv, TypeOK, CustodyTypeOK, SetL1Anchor
  <2>2. ASSUME NEW k \in Committees, SetReserveCommittee(k)
        PROVE  TypeOK'
    BY <2>2 DEF CustodyInv, TypeOK, CustodyTypeOK, SetReserveCommittee
  <2> QED BY <2>1, <2>2
<1>2. /\ UNCHANGED <<reserve_btc_sats, reserved_pending_claim_sats,
                      pending_claims, total_sats, reserved_sats>>
      /\ UNCHANGED entries
  BY DEF SetL1Anchor, SetReserveCommittee
<1> QED BY <1>1, <1>2, QuietStep DEF CustodyInv

LEMMA RegisterPreserves ==
  ASSUME CustodyInv, Register
  PROVE  CustodyInv'
<1> USE DEF scalarVars, registryVars, lockVars, custodyVars
<1>1. TypeOK'
  <2>1. ASSUME NEW i \in Issuer, IssuerRegister(i)
        PROVE  TypeOK'
    <3>1. issuers' \in [Issuer -> IssuerPosition]
      BY <2>1 DEF CustodyInv, TypeOK, IssuerRegister, FreshIssuer, IssuerPosition
    <3> QED BY <2>1, <3>1 DEF CustodyInv, TypeOK, CustodyTypeOK, IssuerRegister
  <2>2. ASSUME NEW o \in Operator, NEW bond \in Bonds, NEW maxClaim \in Bonds,
               OperatorRegister(o, bond, maxClaim)
        PROVE  TypeOK'
    <3>1. operators' \in [Operator -> OperatorPosition]
      BY <2>2, NodeAssumption
         DEF CustodyInv, TypeOK, OperatorRegister, OperatorPosition
    <3> QED BY <2>2, <3>1 DEF CustodyInv, TypeOK, CustodyTypeOK, OperatorRegister
  <2> QED BY <2>1, <2>2 DEF Register
<1>2. /\ UNCHANGED <<reserve_btc_sats, reserved_pending_claim_sats,
                      pending_claims, total_sats, reserved_sats>>
      /\ UNCHANGED entries
  BY DEF Register, IssuerRegister, OperatorRegister
<1> QED BY <1>1, <1>2, QuietStep DEF CustodyInv

(* The records the mint writes are issuer positions, field by field. *)
LEMMA CommitType ==
  ASSUME NEW p \in IssuerPosition, NEW d \in Deposit, NEW atoms \in Nat
  PROVE  IssuerAfterCommit(p, d, atoms) \in IssuerPosition
<1> DEFINE p1 == [p EXCEPT !.reserve_deposits_sats = @ + DepositSats[d]]
           p2 == [p1 EXCEPT !.pending_mint_atoms = @ + atoms]
           p3 == [p2 EXCEPT !.pending_mint_commitment =
                              {[atoms |-> atoms, deposit |-> d]}]
<1>1. p1 \in IssuerPosition
  BY NodeAssumption DEF IssuerPosition
<1>2. p2 \in IssuerPosition
  <2> HIDE DEF p1
  <2> QED BY <1>1 DEF IssuerPosition
<1>3. p3 \in IssuerPosition
  <2>1. [atoms |-> atoms, deposit |-> d] \in Commitment
    BY DEF Commitment
  <2> HIDE DEF p2
  <2> QED BY <1>2, <2>1 DEF IssuerPosition
<1> QED BY <1>3, Zenon DEF IssuerAfterCommit

LEMMA FinalizeType ==
  ASSUME NEW p \in IssuerPosition, NEW atoms \in Nat,
         atoms <= p.pending_mint_atoms
  PROVE  IssuerAfterFinalize(p, atoms) \in IssuerPosition
<1> DEFINE p1 == [p EXCEPT !.minted_satusd_atoms = @ + atoms]
           p2 == [p1 EXCEPT !.pending_mint_atoms = @ - atoms]
           p3 == [p2 EXCEPT !.pending_mint_commitment = {}]
<1>1. p1 \in IssuerPosition /\ p1.pending_mint_atoms = p.pending_mint_atoms
  BY DEF IssuerPosition
<1>2. p2 \in IssuerPosition
  <2> HIDE DEF p1
  <2> QED BY <1>1 DEF IssuerPosition
<1>3. p3 \in IssuerPosition
  <2> HIDE DEF p2
  <2> QED BY <1>2 DEF IssuerPosition
<1> QED BY <1>3, Zenon DEF IssuerAfterFinalize

LEMMA MintPreserves ==
  ASSUME CustodyInv, Mint
  PROVE  CustodyInv'
<1> USE DEF registryVars, lockVars, custodyVars
<1>1. ASSUME NEW i \in Issuer, NEW price \in Prices, NEW d \in Deposit,
             NEW atoms \in MintAtoms, MintCommit(i, d, atoms, price)
      PROVE  CustodyInv'
  <2>1. DepositSats[d] \in Nat /\ atoms \in Nat
    BY NodeAssumption
  <2>2. issuers' \in [Issuer -> IssuerPosition]
    <3>1. issuers[i] \in IssuerPosition
      BY DEF CustodyInv, TypeOK
    <3>2. IssuerAfterCommit(issuers[i], d, atoms) \in IssuerPosition
      BY <2>1, <3>1, CommitType
    <3> QED BY <1>1, <3>2 DEF CustodyInv, TypeOK, MintCommit
  <2>3. emergency_tier' \in Tiers
    BY <1>1, TierType DEF MintCommit, SetStateTier
  <2>4. /\ reserve_btc_sats' = reserve_btc_sats + DepositSats[d]
        /\ total_sats' = total_sats + DepositSats[d]
        /\ UNCHANGED <<reserved_pending_claim_sats, pending_claims,
                        reserved_sats, entries>>
    BY <1>1 DEF MintCommit, Credit
  <2>5. TypeOK'
    BY <1>1, <2>1, <2>2, <2>3, <2>4
       DEF CustodyInv, TypeOK, CustodyTypeOK, MintCommit, Credit
  <2>6. CustodyLockstep'
    BY <2>4 DEF CustodyInv, CustodyLockstep
  <2>7. OpenSats' = OpenSats
    BY <2>4 DEF OpenSats
  <2>8. IsTotal(reserved_pending_claim_sats', OpenSats', Claim)
    BY <2>4, <2>7 DEF CustodyInv
  <2> QED BY <2>5, <2>6, <2>8 DEF CustodyInv
<1>2. ASSUME NEW i \in Issuer, NEW price \in Prices, MintFinalize(i, price)
      PROVE  CustodyInv'
  <2>1. PICK m \in issuers[i].pending_mint_commitment :
          /\ m.atoms <= issuers[i].pending_mint_atoms
          /\ issuers' = [issuers EXCEPT ![i] = IssuerAfterFinalize(@, m.atoms)]
          /\ sat_usd_supply_atoms' = sat_usd_supply_atoms + m.atoms
    BY <1>2 DEF MintFinalize
  <2>2. issuers[i] \in IssuerPosition /\ m \in Commitment /\ m.atoms \in Nat
    <3>1. issuers[i] \in IssuerPosition
      BY DEF CustodyInv, TypeOK
    <3>2. m \in Commitment
      BY <2>1, <3>1 DEF IssuerPosition
    <3> QED BY <3>1, <3>2 DEF Commitment
  <2>3. IssuerAfterFinalize(issuers[i], m.atoms) \in IssuerPosition
    BY <2>1, <2>2, FinalizeType
  <2>4. issuers' \in [Issuer -> IssuerPosition]
    BY <2>1, <2>3 DEF CustodyInv, TypeOK
  <2>5. emergency_tier' \in Tiers
    BY <1>2, TierType DEF MintFinalize, SetStateTier
  <2>6. sat_usd_supply_atoms' \in Nat
    BY <2>1, <2>2 DEF CustodyInv, TypeOK
  <2>7. TypeOK'
    BY <1>2, <2>4, <2>5, <2>6 DEF CustodyInv, TypeOK, CustodyTypeOK, MintFinalize
  <2>8. UNCHANGED <<reserve_btc_sats, reserved_pending_claim_sats,
                    pending_claims, total_sats, reserved_sats, entries>>
    BY <1>2 DEF MintFinalize
  <2> QED BY <2>7, <2>8, QuietStep DEF CustodyInv
<1> QED BY <1>1, <1>2 DEF Mint

LEMMA LocksPreserve ==
  ASSUME CustodyInv, OnChain \/ Lock
  PROVE  CustodyInv'
<1> USE DEF scalarVars, registryVars, lockVars, custodyVars
<1>1. ASSUME NEW a \in Anchor,
             \/ AnchorLock(a)
             \/ \E how \in {"burned", "returned"} : SpendLock(a, how)
      PROVE  CustodyInv'
  <2>1. TypeOK'
    BY <1>1 DEF CustodyInv, TypeOK, CustodyTypeOK, AnchorLock, SpendLock
  <2>2. UNCHANGED <<reserve_btc_sats, reserved_pending_claim_sats,
                    pending_claims, total_sats, reserved_sats, entries>>
    BY <1>1 DEF AnchorLock, SpendLock
  <2> QED BY <2>1, <2>2, QuietStep DEF CustodyInv
<1>2. ASSUME NEW l \in LockRecord, RedeemLock(l) \/ LockRefund(l)
      PROVE  CustodyInv'
  <2>1. TypeOK'
    BY <1>2 DEF CustodyInv, TypeOK, CustodyTypeOK, RedeemLock, LockRefund
  <2>2. UNCHANGED <<reserve_btc_sats, reserved_pending_claim_sats,
                    pending_claims, total_sats, reserved_sats, entries>>
    BY <1>2 DEF RedeemLock, LockRefund
  <2> QED BY <2>1, <2>2, QuietStep DEF CustodyInv
<1> QED BY <1>1, <1>2 DEF OnChain, Lock

(* Swapping in a multisig backend while nothing is pending, and rotating   *)
(* its committee.                                                          *)
LEMMA CommitteePreserves ==
  ASSUME CustodyInv, NEW k \in Committees,
         UseMultisigReserve(k) \/ RotateReserveCommittee(k)
  PROVE  CustodyInv'
<1> USE DEF scalarVars, registryVars, lockVars, custodyVars
<1>1. CASE UseMultisigReserve(k)
  <2>1. reserved_pending_claim_sats = 0
    BY <1>1, NothingPendingNothingReserved DEF UseMultisigReserve
  <2>2. entries' = [h \in Claim |-> Absent] /\ Absent \in Entry
    BY <1>1 DEF UseMultisigReserve, NewMultisig, Absent, Entry
  <2>3. TypeOK'
    BY <1>1, <2>2 DEF CustodyInv, TypeOK, CustodyTypeOK, UseMultisigReserve,
                      NewMultisig
  <2>4. CustodyLockstep'
    BY <1>1, <2>1, <2>2 DEF CustodyInv, CustodyLockstep, UseMultisigReserve,
                            NewMultisig, Absent
  <2>5. OpenSats' = OpenSats
    BY <1>1 DEF OpenSats, UseMultisigReserve
  <2>6. IsTotal(reserved_pending_claim_sats', OpenSats', Claim)
    BY <1>1, <2>5 DEF CustodyInv, UseMultisigReserve
  <2> QED BY <2>3, <2>4, <2>6 DEF CustodyInv
<1>2. CASE RotateReserveCommittee(k)
  <2>1. entries' = entries
          \/ entries' = [h \in Claim |-> [entries[h] EXCEPT !.approvals = {}]]
    BY <1>2 DEF RotateReserveCommittee, RotateCommittee
  <2>2. entries \in [Claim -> Entry]
    BY DEF CustodyInv, TypeOK, CustodyTypeOK
  <2>3. \A c \in Claim : /\ entries'[c] \in Entry
                         /\ entries'[c].status = entries[c].status
                         /\ entries'[c].amount_sats = entries[c].amount_sats
    BY <2>1, <2>2 DEF Entry
  <2>4. entries' \in [Claim -> Entry]
    BY <2>1, <2>2, <2>3
  <2>5. TypeOK'
    BY <1>2, <2>4 DEF CustodyInv, TypeOK, CustodyTypeOK,
                      RotateReserveCommittee, RotateCommittee
  <2>6. UNCHANGED <<reserve_btc_sats, reserved_pending_claim_sats,
                    pending_claims, total_sats, reserved_sats>>
    BY <1>2 DEF RotateReserveCommittee, RotateCommittee
  <2> QED BY <2>3, <2>5, <2>6, QuietStep DEF CustodyInv
<1> QED BY <1>1, <1>2

(* Pausing, resuming, vetoing. *)
LEMMA ControlPreserves ==
  ASSUME CustodyInv, CustodyControl
  PROVE  CustodyInv'
<1> USE DEF scalarVars, registryVars, lockVars, custodyVars
<1>1. entries \in [Claim -> Entry]
  BY DEF CustodyInv, TypeOK, CustodyTypeOK
<1>2. \/ UNCHANGED entries
      \/ \E h \in Claim : entries' = [entries EXCEPT ![h].vetoed = TRUE]
  BY DEF CustodyControl, EmergencyPause, Resume, Veto
<1>3. \A c \in Claim : /\ entries'[c] \in Entry
                       /\ entries'[c].status = entries[c].status
                       /\ entries'[c].amount_sats = entries[c].amount_sats
  <2>1. CASE UNCHANGED entries
    BY <1>1, <2>1
  <2>2. ASSUME NEW h \in Claim, entries' = [entries EXCEPT ![h].vetoed = TRUE],
               NEW c \in Claim
        PROVE  /\ entries'[c] \in Entry
               /\ entries'[c].status = entries[c].status
               /\ entries'[c].amount_sats = entries[c].amount_sats
    <3>1. entries'[c] = IF c = h THEN [entries[c] EXCEPT !.vetoed = TRUE]
                        ELSE entries[c]
      BY <1>1, <2>2
    <3> QED BY <1>1, <3>1 DEF Entry
  <2> QED BY <1>2, <2>1, <2>2
<1>4. entries' \in [Claim -> Entry]
  BY <1>1, <1>2, <1>3
<1>5. paused' \in BOOLEAN
  BY DEF CustodyInv, TypeOK, CustodyTypeOK, CustodyControl, EmergencyPause,
         Resume, Veto
<1>6. /\ UNCHANGED <<backend, total_sats, reserved_sats, committee>>
      /\ UNCHANGED <<scalarVars, reserve_committee_hash, l1_anchor_height,
                      registryVars, pending_claims, lockVars, lock_output>>
  BY DEF CustodyControl, EmergencyPause, Resume, Veto
<1>7. TypeOK'
  BY <1>4, <1>5, <1>6 DEF CustodyInv, TypeOK, CustodyTypeOK
<1> QED BY <1>3, <1>6, <1>7, QuietStep DEF CustodyInv

-----------------------------------------------------------------------------
(* Steps that open or close a claim. *)

LEMMA SubmitPreserves ==
  ASSUME CustodyInv, Submit
  PROVE  CustodyInv'
<1> USE DEF scalarVars, registryVars, lockVars, custodyVars
<1>1. PICK c \in Claim, batch \in SUBSET LockRecord,
           price \in Prices, expiry \in Expiries :
        SubmitReserveClaim(c, batch, price, expiry)
  BY DEF Submit
<1> DEFINE gross == BatchGross(batch, price)
           new == [status |-> "Pending", reserved_sats |-> gross,
                   claim_expiry_height |-> expiry]
<1>2. gross \in Nat /\ BatchAtoms(batch) \in Nat
      /\ BatchAtoms(batch) <= sat_usd_supply_atoms
  BY <1>1, NodeAssumption DEF SubmitReserveClaim, U64
<1>3. /\ pending_claims[c].status = "None"
      /\ sat_usd_supply_atoms' = sat_usd_supply_atoms - BatchAtoms(batch)
      /\ reserved_pending_claim_sats' = reserved_pending_claim_sats + gross
      /\ reserved_sats' = reserved_sats + gross
      /\ pending_claims' = [pending_claims EXCEPT ![c] = new]
      /\ entries' = [entries EXCEPT ![c] = Opened(gross)]
      /\ UNCHANGED <<reserve_btc_sats, total_sats>>
  BY <1>1 DEF SubmitReserveClaim, FreshClaimId, SubmitClaim
<1>4. emergency_tier' \in Tiers
  BY <1>1, TierType DEF SubmitReserveClaim, SetStateTier
<1> HIDE DEF gross
<1>5. new \in ClaimRecord /\ Opened(gross) \in Entry
  BY <1>2, NodeAssumption DEF ClaimRecord, Opened, Entry
<1>6. TypeOK'
  <2>1. /\ pending_claims' \in [Claim -> ClaimRecord]
        /\ entries' \in [Claim -> Entry]
        /\ sat_usd_supply_atoms' \in Nat
        /\ reserved_pending_claim_sats' \in Nat
        /\ reserved_sats' \in Nat
    BY <1>2, <1>3, <1>5 DEF CustodyInv, TypeOK, CustodyTypeOK
  <2>2. nullifiers' \subseteq Anchor
    BY <1>1, NodeAssumption DEF CustodyInv, TypeOK, SubmitReserveClaim
  <2> QED BY <1>1, <1>4, <2>1, <2>2
             DEF CustodyInv, TypeOK, CustodyTypeOK, SubmitReserveClaim, SubmitClaim
<1>7. CustodyLockstep'
  <2>1. \A d \in Claim :
          /\ pending_claims'[d] = IF d = c THEN new ELSE pending_claims[d]
          /\ entries'[d] = IF d = c THEN Opened(gross) ELSE entries[d]
    BY <1>3 DEF CustodyInv, TypeOK, CustodyTypeOK
  <2> QED BY <1>3, <2>1 DEF CustodyInv, CustodyLockstep, Opened
<1>8. IsTotal(reserved_pending_claim_sats, OpenSats, Claim)'
  <2>1. OpenSats \in [Claim -> Int] /\ OpenSats[c] = 0
    BY <1>3, OpenSatsType DEF CustodyInv, OpenSats
  <2>2. OpenSats' = [OpenSats EXCEPT ![c] = gross]
    BY <1>3 DEF OpenSats, CustodyInv, TypeOK
  <2>3. IsTotal(reserved_pending_claim_sats + (gross - OpenSats[c]),
                [OpenSats EXCEPT ![c] = gross], Claim)
    <3>1. /\ IsTotal(reserved_pending_claim_sats, OpenSats, Claim)
          /\ reserved_pending_claim_sats \in Int
          /\ gross \in Int
      BY <1>2 DEF CustodyInv, TypeOK
    <3> QED BY <2>1, <3>1, TotalMoves
  <2>4. reserved_pending_claim_sats' =
          reserved_pending_claim_sats + (gross - OpenSats[c])
    BY <1>2, <1>3, <2>1 DEF CustodyInv, TypeOK
  <2> QED BY <2>2, <2>3, <2>4
<1> QED BY <1>6, <1>7, <1>8 DEF CustodyInv

(* Closing a pending claim takes its amount off both ledgers. *)
LEMMA ClosePreserves ==
  ASSUME CustodyInv, NEW c \in Claim, NEW status \in {"Finalized", "Reclaimed"},
         pending_claims[c].status = "Pending", CloseClaim(c, status),
         reserved_sats' = reserved_sats - entries[c].amount_sats,
         total_sats' - total_sats = reserve_btc_sats' - reserve_btc_sats,
         reserve_btc_sats' \in Nat, total_sats' \in Nat,
         entries'[c].status # "open",
         \A d \in Claim \ {c} : entries'[d] = entries[d]
  PROVE  /\ CustodyLockstep'
         /\ IsTotal(reserved_pending_claim_sats, OpenSats, Claim)'
<1> DEFINE sats == pending_claims[c].reserved_sats
<1>1. /\ sats \in Nat /\ reserved_pending_claim_sats \in Nat
      /\ reserved_sats = reserved_pending_claim_sats
      /\ entries[c].amount_sats = sats
      /\ pending_claims \in [Claim -> ClaimRecord]
      /\ total_sats = reserve_btc_sats /\ total_sats \in Nat
  BY DEF CustodyInv, TypeOK, CustodyTypeOK, CustodyLockstep, ClaimRecord
<1>2. \A d \in Claim : pending_claims'[d] =
        IF d = c THEN [pending_claims[c] EXCEPT !.status = status]
        ELSE pending_claims[d]
  BY <1>1 DEF CloseClaim
<1>3. pending_claims'[c].status = status
  BY <1>1, <1>2 DEF ClaimRecord
<1>4. CustodyLockstep'
  BY <1>1, <1>2, <1>3 DEF CustodyInv, CustodyLockstep, CloseClaim
<1>5. OpenSats' = [OpenSats EXCEPT ![c] = 0]
  BY <1>1, <1>2, <1>3 DEF OpenSats
<1>6. OpenSats \in [Claim -> Int] /\ OpenSats[c] = sats
  BY OpenSatsType DEF CustodyInv, OpenSats
<1>7. IsTotal(reserved_pending_claim_sats + (0 - OpenSats[c]),
              [OpenSats EXCEPT ![c] = 0], Claim)
  <2>1. /\ IsTotal(reserved_pending_claim_sats, OpenSats, Claim)
        /\ reserved_pending_claim_sats \in Int
        /\ 0 \in Int
    BY <1>1 DEF CustodyInv
  <2> QED BY <1>6, <2>1, TotalMoves
<1>8. reserved_pending_claim_sats' = reserved_pending_claim_sats + (0 - OpenSats[c])
  BY <1>1, <1>6 DEF CloseClaim
<1> QED BY <1>4, <1>5, <1>7, <1>8

LEMMA ResolvePreserves ==
  ASSUME CustodyInv, NEW c \in Claim, NEW height \in Nat,
         \/ ReclaimStaleClaim(c, height)
         \/ \E signers \in SUBSET Member : \/ FinalizeClaim(c, signers, height)
                                          \/ FinalizeRefused(c, signers, height)
  PROVE  CustodyInv'
<1> USE DEF scalarVars, registryVars, lockVars, custodyVars
<1>1. /\ entries \in [Claim -> Entry] /\ pending_claims \in [Claim -> ClaimRecord]
      /\ pending_claims[c].reserved_sats \in Nat
      /\ total_sats \in Nat /\ reserve_btc_sats \in Nat
      /\ total_sats = reserve_btc_sats
      /\ reserved_sats = reserved_pending_claim_sats
      /\ reserved_pending_claim_sats \in Nat
      /\ pending_claims[c].status = "Pending" =>
           entries[c].amount_sats = pending_claims[c].reserved_sats
  BY DEF CustodyInv, TypeOK, CustodyTypeOK, CustodyLockstep, ClaimRecord
<1>2. ASSUME NEW status \in {"Finalized", "Reclaimed"},
             pending_claims[c].status = "Pending",
             pending_claims[c].reserved_sats <= reserved_pending_claim_sats,
             CloseClaim(c, status)
      PROVE  /\ pending_claims' \in [Claim -> ClaimRecord]
             /\ reserved_pending_claim_sats' \in Nat
  BY <1>1, <1>2 DEF CloseClaim, ClaimRecord
<1>3. CASE ReclaimStaleClaim(c, height)
  <2>1. /\ pending_claims[c].status = "Pending"
        /\ pending_claims[c].reserved_sats <= reserved_pending_claim_sats
        /\ CloseClaim(c, "Reclaimed")
        /\ reserved_sats' = reserved_sats - entries[c].amount_sats
        /\ entries' = [entries EXCEPT ![c] = Absent]
        /\ UNCHANGED <<reserve_btc_sats, total_sats>>
    BY <1>3 DEF ReclaimStaleClaim, ReclaimStale
  <2>2. /\ entries' \in [Claim -> Entry] /\ entries'[c].status # "open"
        /\ \A d \in Claim \ {c} : entries'[d] = entries[d]
        /\ reserved_sats' \in Nat
    BY <1>1, <2>1 DEF Absent, Entry
  <2>3. TypeOK'
    BY <1>2, <1>3, <2>1, <2>2 DEF CustodyInv, TypeOK, CustodyTypeOK,
                                  ReclaimStaleClaim, ReclaimStale
  <2>4. total_sats' - total_sats = reserve_btc_sats' - reserve_btc_sats
        /\ reserve_btc_sats' \in Nat /\ total_sats' \in Nat
    BY <1>1, <2>1
  <2> QED BY <2>1, <2>2, <2>3, <2>4, ClosePreserves DEF CustodyInv
<1>4. ASSUME NEW signers \in SUBSET Member, FinalizeClaim(c, signers, height)
      PROVE  CustodyInv'
  <2> DEFINE e == Approved(entries[c], signers)
  <2>1. e \in Entry /\ e.status = entries[c].status
        /\ e.amount_sats = entries[c].amount_sats
    BY <1>1, CustodyAssumption DEF Approved, Entry
  <2>2. /\ pending_claims[c].status = "Pending"
        /\ pending_claims[c].reserved_sats <= reserved_pending_claim_sats
        /\ pending_claims[c].reserved_sats <= reserve_btc_sats
        /\ CloseClaim(c, "Finalized")
        /\ total_sats' = total_sats - e.amount_sats
        /\ reserved_sats' = reserved_sats - e.amount_sats
        /\ reserve_btc_sats' = reserve_btc_sats - pending_claims[c].reserved_sats
        /\ entries' = [entries EXCEPT ![c] =
                         IF backend = "multisig"
                         THEN [e EXCEPT !.status = "paid"] ELSE Absent]
    BY <1>4 DEF FinalizeClaim, FinalizeAuthorized, PayClaim
  <2> HIDE DEF e
  <2>3. /\ [e EXCEPT !.status = "paid"] \in Entry
        /\ [e EXCEPT !.status = "paid"].status = "paid"
        /\ Absent \in Entry /\ Absent.status # "open"
    BY <2>1 DEF Entry, Absent
  <2>4. /\ entries' \in [Claim -> Entry] /\ entries'[c].status # "open"
        /\ \A d \in Claim \ {c} : entries'[d] = entries[d]
    BY <1>1, <2>2, <2>3
  <2>5. /\ reserved_sats' \in Nat /\ total_sats' \in Nat
        /\ reserve_btc_sats' \in Nat
        /\ total_sats' - total_sats = reserve_btc_sats' - reserve_btc_sats
        /\ reserved_sats' = reserved_sats - entries[c].amount_sats
    BY <1>1, <2>1, <2>2
  <2>6. emergency_tier' \in Tiers
    BY <1>4, TierType DEF FinalizeClaim, SetStateTier
  <2>7. TypeOK'
    BY <1>2, <1>4, <2>2, <2>4, <2>5, <2>6
       DEF CustodyInv, TypeOK, CustodyTypeOK, FinalizeClaim, PayClaim
  <2> QED BY <2>2, <2>4, <2>5, <2>7, ClosePreserves DEF CustodyInv
<1>5. ASSUME NEW signers \in SUBSET Member, FinalizeRefused(c, signers, height)
      PROVE  CustodyInv'
  <2> DEFINE e == Approved(entries[c], signers)
  <2>1. e \in Entry /\ e.status = entries[c].status
        /\ e.amount_sats = entries[c].amount_sats
    BY <1>1 DEF Approved, Entry
  <2>2. entries' = [entries EXCEPT ![c] = e]
    BY <1>5 DEF FinalizeRefused, RefuseClaim
  <2> HIDE DEF e
  <2>3. /\ entries' \in [Claim -> Entry]
        /\ \A d \in Claim : /\ entries'[d].status = entries[d].status
                           /\ entries'[d].amount_sats = entries[d].amount_sats
    BY <1>1, <2>1, <2>2
  <2>4. TypeOK'
    BY <1>5, <2>3 DEF CustodyInv, TypeOK, CustodyTypeOK, FinalizeRefused, RefuseClaim
  <2>5. UNCHANGED <<reserve_btc_sats, reserved_pending_claim_sats,
                    pending_claims, total_sats, reserved_sats>>
    BY <1>5 DEF FinalizeRefused, RefuseClaim
  <2> QED BY <2>3, <2>4, <2>5, QuietStep DEF CustodyInv
<1> QED BY <1>3, <1>4, <1>5

-----------------------------------------------------------------------------
LEMMA NextCustody == CustodyInv /\ [Next]_vars => CustodyInv'
<1> SUFFICES ASSUME CustodyInv, [Next]_vars PROVE CustodyInv'
  OBVIOUS
<1>1. CASE SetL1Anchor
  BY <1>1, GovernancePreserves
<1>2. CASE Governance
  BY <1>2, GovernancePreserves, CommitteePreserves, ControlPreserves DEF Governance
<1>3. CASE Register
  BY <1>3, RegisterPreserves
<1>4. CASE Mint
  BY <1>4, MintPreserves
<1>5. CASE OnChain \/ Lock
  BY <1>5, LocksPreserve
<1>6. CASE Submit
  BY <1>6, SubmitPreserves
<1>7. CASE Resolve
  <2>1. SeenHeights \subseteq Nat
    BY DEF SeenHeights, CustodyInv, TypeOK
  <2> QED BY <1>7, <2>1, ResolvePreserves DEF Resolve
<1>8. CASE UNCHANGED vars
  <2> USE <1>8 DEF vars, scalarVars, registryVars, lockVars, custodyVars
  <2>1. TypeOK'
    BY DEF CustodyInv, TypeOK, CustodyTypeOK
  <2>2. UNCHANGED <<reserve_btc_sats, reserved_pending_claim_sats,
                    pending_claims, total_sats, reserved_sats, entries>>
    OBVIOUS
  <2> QED BY <2>1, <2>2, QuietStep DEF CustodyInv
<1> QED BY <1>1, <1>2, <1>3, <1>4, <1>5, <1>6, <1>7, <1>8 DEF Next

LEMMA CustodyInvariant == Spec => []CustodyInv
BY InitCustody, NextCustody, PTL DEF Spec

(* The node's scalars, trees and records, and the custody's, stay within   *)
(* their types; in particular no subtraction goes below zero, the ones the *)
(* code leaves unchecked in the custody included.                          *)
THEOREM TypeCorrect == Spec => []TypeOK
<1>1. CustodyInv => TypeOK
  BY DEF CustodyInv
<1> QED BY <1>1, CustodyInvariant, PTL

(* node.rs never answers InvariantViolation: after every operation the     *)
(* custody holds the sats the state says it holds and has reserved those   *)
(* the state says are reserved, claim by claim.                            *)
THEOREM CustodyInStep == Spec => []CustodyLockstep
<1>1. CustodyInv => CustodyLockstep
  BY DEF CustodyInv
<1> QED BY <1>1, CustodyInvariant, PTL

-----------------------------------------------------------------------------
(* What rests on it. *)
LEMMA TypeInvariant == Spec => [](TypeOK /\ CustodyLockstep)
<1>1. CustodyInv => TypeOK /\ CustodyLockstep
  BY DEF CustodyInv
<1> QED BY <1>1, CustodyInvariant, PTL

-----------------------------------------------------------------------------
(* The tier the node commits is always the tier of the scalars it commits, *)
(* for every price and rounding: no transition of the code forgets to      *)
(* recompute it.                                                           *)
THEOREM TierAlwaysFresh == Spec => []TierFresh
<1>1. Init => TierFresh
  BY DEF Init, TierFresh, RecomputeTier
<1>2. TierFresh /\ [Next]_vars => TierFresh'
  <2> SUFFICES ASSUME TierFresh, [Next]_vars PROVE TierFresh'
    OBVIOUS
  <2> USE DEF TierFresh, scalarVars
  <2>1. CASE SetL1Anchor
    BY <2>1 DEF SetL1Anchor
  <2>2. CASE Governance
    BY <2>2 DEF Governance, SetReserveCommittee, UseMultisigReserve,
                RotateReserveCommittee, CustodyControl
  <2>3. CASE Register
    BY <2>3 DEF Register, IssuerRegister, OperatorRegister
  <2>4. CASE Mint
    BY <2>4 DEF Mint, MintCommit, MintFinalize, SetStateTier
  <2>5. CASE OnChain
    BY <2>5 DEF OnChain, AnchorLock, SpendLock
  <2>6. CASE Lock
    BY <2>6 DEF Lock, RedeemLock, LockRefund
  <2>7. CASE Submit
    BY <2>7 DEF Submit, SubmitReserveClaim, SetStateTier
  <2>8. CASE Resolve
    BY <2>8 DEF Resolve, ReclaimStaleClaim, FinalizeClaim, FinalizeRefused,
                SetStateTier
  <2>9. CASE UNCHANGED vars
    BY <2>9 DEF vars
  <2> QED BY <2>1, <2>2, <2>3, <2>4, <2>5, <2>6, <2>7, <2>8, <2>9 DEF Next
<1> QED BY <1>1, <1>2, PTL DEF Spec

-----------------------------------------------------------------------------
LockInv == LockLifecycle /\ NullifierMatchesConsumed

LEMMA LockInvariant == Spec => []LockInv
<1>1. Init => LockInv
  BY DEF Init, LockInv, LockLifecycle, NullifierMatchesConsumed
<1>2. LockInv /\ [Next]_vars => LockInv'
  <2> SUFFICES ASSUME LockInv, [Next]_vars PROVE LockInv'
    OBVIOUS
  <2> USE DEF lockVars
  <2>1. CASE UNCHANGED lockVars
    BY <2>1 DEF LockInv, LockLifecycle, NullifierMatchesConsumed
  <2>2. ASSUME NEW l \in LockRecord, RedeemLock(l) \/ LockRefund(l)
        PROVE  LockInv'
    BY <2>2 DEF LockInv, LockLifecycle, NullifierMatchesConsumed, RedeemLock,
                LockRefund, Active
  <2>3. ASSUME NEW c, NEW batch, NEW price, NEW expiry,
               SubmitReserveClaim(c, batch, price, expiry)
        PROVE  LockInv'
    <3>1. /\ \A l \in batch : l \in lock_record \ (lock_consumed \cup lock_refund)
          /\ \A l \in batch : RecordAnchor[l] \notin nullifiers
          /\ \A l, m \in batch : RecordAnchor[l] = RecordAnchor[m] => l = m
      BY <2>3 DEF SubmitReserveClaim, Redeemable, Active, FreshNullifiers
    <3>2. /\ lock_consumed' = lock_consumed \cup batch
          /\ nullifiers' = nullifiers \cup {RecordAnchor[l] : l \in batch}
          /\ UNCHANGED <<lock_record, lock_refund>>
      BY <2>3 DEF SubmitReserveClaim
    <3>3. LockLifecycle'
      BY <3>1, <3>2 DEF LockInv, LockLifecycle
    <3>4. NullifierMatchesConsumed'
      BY <3>1, <3>2 DEF LockInv, NullifierMatchesConsumed
    <3> QED BY <3>3, <3>4 DEF LockInv
  <2>4. SetL1Anchor \/ Governance \/ Register \/ Mint \/ OnChain \/ Resolve
          => UNCHANGED lockVars
    <3>1. SetL1Anchor \/ Register => UNCHANGED lockVars
      BY DEF SetL1Anchor, Register, IssuerRegister, OperatorRegister
    <3>2. Governance => UNCHANGED lockVars
      BY DEF Governance, SetReserveCommittee, UseMultisigReserve,
             RotateReserveCommittee, CustodyControl
    <3>3. Mint => UNCHANGED lockVars
      BY DEF Mint, MintCommit, MintFinalize
    <3>4. OnChain => UNCHANGED lockVars
      BY DEF OnChain, AnchorLock, SpendLock
    <3>5. Resolve => UNCHANGED lockVars
      BY DEF Resolve, ReclaimStaleClaim, FinalizeClaim, FinalizeRefused
    <3> QED BY <3>1, <3>2, <3>3, <3>4, <3>5
  <2> QED BY <2>1, <2>2, <2>3, <2>4 DEF Next, Lock, Submit, vars
<1> QED BY <1>1, <1>2, PTL DEF Spec

(* PRD 5.D17, L-1 and L-3, for any number of locks: every recorded lock is *)
(* active, consumed or refunded, never two of them.                        *)
THEOREM LocksHaveOneEnd == Spec => []LockLifecycle
<1>1. LockInv => LockLifecycle
  BY DEF LockInv
<1> QED BY <1>1, LockInvariant, PTL

(* No asset output is redeemed twice, in one batch or across batches,      *)
(* under one record or several.                                            *)
THEOREM NoDoubleRedemption == Spec => []NullifierMatchesConsumed
<1>1. LockInv => NullifierMatchesConsumed
  BY DEF LockInv
<1> QED BY <1>1, LockInvariant, PTL

-----------------------------------------------------------------------------
(* What the steps other than opening and closing do to claims and reserve. *)
Elsewhere == SetL1Anchor \/ Governance \/ Register \/ OnChain \/ Lock

LEMMA ElsewhereLeavesClaims ==
  Elsewhere => UNCHANGED <<pending_claims, reserve_btc_sats,
                           reserved_pending_claim_sats>>
BY DEF Elsewhere, scalarVars, SetL1Anchor, Governance, SetReserveCommittee,
       UseMultisigReserve, RotateReserveCommittee, CustodyControl, Register,
       IssuerRegister, OperatorRegister, OnChain, AnchorLock, SpendLock, Lock,
       RedeemLock, LockRefund

(* A claim is opened once, and a paid or reclaimed one is never touched     *)
(* again, whatever backend it was paid by.                                  *)
THEOREM ClaimsStayClosed == Spec => ClaimsTerminal
<1> DEFINE Terminal == \A c \in Claim :
      /\ pending_claims[c].status \in {"Finalized", "Reclaimed"} =>
           pending_claims'[c] = pending_claims[c]
      /\ pending_claims[c].status = "Pending" =>
           pending_claims'[c] \in
             {[pending_claims[c] EXCEPT !.status = s] :
                s \in {"Pending", "Finalized", "Reclaimed"}}
<1>1. ASSUME TypeOK, [Next]_vars
      PROVE  Terminal
  <2>1. pending_claims \in [Claim -> ClaimRecord]
    BY <1>1 DEF TypeOK
  <2>2. \A c \in Claim : pending_claims[c].status = "Pending" =>
          pending_claims[c] = [pending_claims[c] EXCEPT !.status = "Pending"]
    BY <2>1 DEF ClaimRecord
  <2>3. CASE UNCHANGED pending_claims
    BY <2>2, <2>3
  <2>4. ASSUME NEW c \in Claim, NEW new, FreshClaimId(c),
               pending_claims' = [pending_claims EXCEPT ![c] = new]
        PROVE  Terminal
    BY <2>1, <2>2, <2>4 DEF FreshClaimId
  <2>5. ASSUME NEW c \in Claim, NEW status \in {"Finalized", "Reclaimed"},
               pending_claims[c].status = "Pending", CloseClaim(c, status)
        PROVE  Terminal
    <3>1. \A d \in Claim : pending_claims'[d] =
            IF d = c THEN [pending_claims[c] EXCEPT !.status = status]
            ELSE pending_claims[d]
      BY <2>1, <2>5 DEF CloseClaim
    <3> QED BY <2>2, <2>5, <3>1
  <2>6. CASE Elsewhere
    BY <2>3, <2>6, ElsewhereLeavesClaims
  <2>7. CASE Mint
    BY <2>3, <2>7 DEF Mint, MintCommit, MintFinalize
  <2>8. CASE Submit
    BY <2>4, <2>8 DEF Submit, SubmitReserveClaim
  <2>9. CASE Resolve
    <3>1. ASSUME NEW c \in Claim, NEW height, ReclaimStaleClaim(c, height)
          PROVE  Terminal
      BY <2>5, <3>1 DEF ReclaimStaleClaim
    <3>2. ASSUME NEW c \in Claim, NEW height, NEW signers,
                 FinalizeClaim(c, signers, height)
          PROVE  Terminal
      BY <2>5, <3>2 DEF FinalizeClaim, FinalizeAuthorized
    <3>3. ASSUME NEW c \in Claim, NEW height, NEW signers,
                 FinalizeRefused(c, signers, height)
          PROVE  Terminal
      BY <2>3, <3>3 DEF FinalizeRefused
    <3> HIDE DEF Terminal
    <3> QED BY <2>9, <3>1, <3>2, <3>3 DEF Resolve
  <2>10. CASE UNCHANGED vars
    BY <2>3, <2>10 DEF vars
  <2> HIDE DEF Terminal
  <2> QED BY <1>1, <2>6, <2>7, <2>8, <2>9, <2>10 DEF Next, Elsewhere
<1>2. ASSUME TypeOK, [Next]_vars
      PROVE  [Terminal]_vars
  BY <1>1, <1>2
<1> QED BY <1>2, TypeCorrect, PTL DEF Spec, ClaimsTerminal

(* The reserve pays one pending claim at a time, its amount to the sat,    *)
(* under the quorum and never past a pause or a veto.                      *)
THEOREM OnlyAuthorizedPayouts == Spec => PayoutRule
<1> DEFINE Paid == reserve_btc_sats' < reserve_btc_sats =>
      \E c \in ClaimsIn("Pending") :
         /\ pending_claims' = [pending_claims EXCEPT ![c].status = "Finalized"]
         /\ reserve_btc_sats' = reserve_btc_sats - pending_claims[c].reserved_sats
         /\ backend = "multisig" =>
              /\ ~paused
              /\ ~entries[c].vetoed
              /\ ApprovalCount(entries'[c]) >= committee.threshold
<1>1. ASSUME TypeOK, [Next]_vars
      PROVE  Paid
  <2>1. /\ reserve_btc_sats \in Nat /\ entries \in [Claim -> Entry]
    BY <1>1 DEF TypeOK, CustodyTypeOK
  <2>2. CASE UNCHANGED reserve_btc_sats
    BY <2>1, <2>2
  <2>3. ASSUME NEW c \in Claim, NEW height, NEW signers,
               FinalizeClaim(c, signers, height)
        PROVE  Paid
    <3> DEFINE e == Approved(entries[c], signers)
    <3>1. /\ c \in ClaimsIn("Pending")
          /\ pending_claims' = [pending_claims EXCEPT ![c].status = "Finalized"]
          /\ reserve_btc_sats' =
               reserve_btc_sats - pending_claims[c].reserved_sats
          /\ Payable(e)
          /\ entries' = [entries EXCEPT ![c] =
                           IF backend = "multisig"
                           THEN [e EXCEPT !.status = "paid"] ELSE Absent]
          /\ UNCHANGED committee
      BY <2>3 DEF FinalizeClaim, FinalizeAuthorized, CloseClaim, PayClaim, ClaimsIn
    <3>2. ASSUME backend = "multisig"
          PROVE  /\ ~paused
                 /\ ~entries[c].vetoed
                 /\ ApprovalCount(entries'[c]) >= committee.threshold
      <4>1. /\ e = [entries[c] EXCEPT !.approvals =
                      @ \cup (signers \cap committee.members)]
            /\ entries'[c] = [e EXCEPT !.status = "paid"]
        BY <2>1, <3>1, <3>2 DEF Approved
      <4>2. ~paused /\ ~e.vetoed /\ ApprovalCount(e) >= committee.threshold
        BY <3>1, <3>2 DEF Payable
      <4>3. e.vetoed = entries[c].vetoed
            /\ entries'[c].approvals = e.approvals
        BY <2>1, <4>1 DEF Entry
      <4> HIDE DEF e
      <4> QED BY <4>2, <4>3 DEF ApprovalCount
    <3> QED BY <3>1, <3>2
  <2>4. CASE Elsewhere
    BY <2>2, <2>4, ElsewhereLeavesClaims
  <2>5. CASE Mint
    <3>1. UNCHANGED reserve_btc_sats
          \/ \E d \in Deposit : reserve_btc_sats' = reserve_btc_sats + DepositSats[d]
      BY <2>5 DEF Mint, MintCommit, MintFinalize
    <3> QED BY <2>1, <3>1, NodeAssumption
  <2>6. CASE Submit
    BY <2>2, <2>6 DEF Submit, SubmitReserveClaim
  <2>7. CASE Resolve
    <3>1. \/ UNCHANGED reserve_btc_sats
          \/ \E c \in Claim, height \in SeenHeights, signers \in SUBSET Member :
               FinalizeClaim(c, signers, height)
      BY <2>7 DEF Resolve, ReclaimStaleClaim, FinalizeRefused, scalarVars
    <3> HIDE DEF Paid
    <3> QED BY <2>2, <2>3, <3>1
  <2>8. CASE UNCHANGED vars
    BY <2>2, <2>8 DEF vars, scalarVars
  <2> HIDE DEF Paid
  <2> QED BY <1>1, <2>4, <2>5, <2>6, <2>7, <2>8 DEF Next, Elsewhere
<1>2. ASSUME TypeOK, [Next]_vars
      PROVE  [Paid]_vars
  BY <1>1, <1>2
<1> QED BY <1>2, TypeCorrect, PTL DEF Spec, PayoutRule

-----------------------------------------------------------------------------
(* The ratio under integer division.  More reserve, less supply and a      *)
(* higher price never lower it, and a mint at twice the supply leaves the  *)
(* tier Healthy.                                                           *)
LEMMA QuotientMonotone ==
  ASSUME NEW n \in Nat, NEW m \in Nat, NEW d \in Nat \ {0}, NEW e \in Nat \ {0},
         n <= m, e <= d
  PROVE  n \div d <= m \div e
<1> DEFINE q == n \div d
<1>1. q \in Nat /\ q * d <= n
  OBVIOUS
<1> HIDE DEF q
<1>2. q * e <= q * d /\ q * e \in Nat /\ q * d \in Nat
  BY <1>1
<1>3. q * e <= m
  BY <1>1, <1>2
<1>4. (q * e) \div e = q
  BY <1>1
<1>5. \A x, y \in Nat : x <= y => x \div e <= y \div e
  OBVIOUS
<1> QED BY <1>2, <1>3, <1>4, <1>5 DEF q

LEMMA ProductMonotone ==
  ASSUME NEW a \in Nat, NEW b \in Nat, NEW c \in Nat, NEW d \in Nat, a <= b, c <= d
  PROVE  a * c <= b * d /\ a * c \in Nat /\ b * d \in Nat
<1>1. a * c <= b * c /\ b * c <= b * d /\ {a * c, b * c, b * d} \subseteq Nat
  OBVIOUS
<1> QED BY <1>1

LEMMA TierMonotone ==
  ASSUME NEW r \in Nat, NEW s \in Nat, NEW p \in Nat,
         NEW q \in Nat, NEW t \in Nat, NEW u \in Nat,
         r <= q, t <= s, p <= u, RecomputeTier(r, s, p) = "Healthy"
  PROVE  RecomputeTier(q, t, u) = "Healthy"
<1>1. CASE t = 0
  BY <1>1 DEF RecomputeTier
<1>2. CASE t # 0
  <2>1. CollateralRatio(r, s, p) >= (15 * PPM) \div 10
    BY <1>2 DEF RecomputeTier
  <2>2. r * p <= q * u /\ r * p \in Nat /\ q * u \in Nat
    BY ProductMonotone
  <2>3. r * p * PPM <= q * u * PPM /\ r * p * PPM \in Nat /\ q * u * PPM \in Nat
    BY <2>2, ScaleAssumption, ProductMonotone
  <2>4. t * SCALE <= s * SCALE /\ t * SCALE \in Nat \ {0} /\ s * SCALE \in Nat \ {0}
    BY <1>2, ScaleAssumption, ProductMonotone
  <2>5. CollateralRatio(r, s, p) <= CollateralRatio(q, t, u)
    BY <2>3, <2>4, QuotientMonotone DEF CollateralRatio
  <2>6. /\ CollateralRatio(r, s, p) \in Nat /\ CollateralRatio(q, t, u) \in Nat
        /\ (15 * PPM) \div 10 \in Nat
    BY <2>3, <2>4, ScaleAssumption DEF CollateralRatio
  <2> QED BY <2>1, <2>5, <2>6 DEF RecomputeTier
<1> QED BY <1>1, <1>2

LEMMA MintLeavesHealthy ==
  ASSUME NEW r \in Nat, NEW s \in Nat, NEW a \in Nat, NEW p \in Nat, s + a # 0,
         Covered(r, s, a, p)
  PROVE  RecomputeTier(r, s + a, p) = "Healthy"
<1>1. CollateralRatio(r, s + a, p) >= 2 * PPM
  BY DEF Covered, MinMintRatio
<1>2. CollateralRatio(r, s + a, p) \in Nat
  <2>1. r * p \in Nat /\ s + a \in Nat \ {0}
    OBVIOUS
  <2>2. r * p * PPM \in Nat /\ (s + a) * SCALE \in Nat \ {0}
    BY <2>1, ScaleAssumption
  <2> QED BY <2>2 DEF CollateralRatio
<1>3. (15 * PPM) \div 10 <= 2 * PPM /\ (15 * PPM) \div 10 \in Nat
  BY ScaleAssumption
<1> QED BY <1>1, <1>2, <1>3, ScaleAssumption DEF RecomputeTier

(* Leaving Healthy takes a lower price or a payout, for every reserve,     *)
(* supply, price and rounding: a commitment only adds to the reserve, a    *)
(* redemption only takes from the supply, and what a mint adds to the      *)
(* supply is asked for twice over at the price it is finalized at.         *)
THEOREM HealthIsKept == Spec => HealthyUntilPriceOrPayout
<1> DEFINE Kept == (emergency_tier = "Healthy" /\ emergency_tier' # "Healthy") =>
             \/ latest_oracle_price_e8' < latest_oracle_price_e8
             \/ reserve_btc_sats' < reserve_btc_sats
<1>1. ASSUME TypeOK, TypeOK', TierFresh, TierFresh', [Next]_vars
      PROVE  Kept
  <2> SUFFICES ASSUME emergency_tier = "Healthy",
                      ~(latest_oracle_price_e8' < latest_oracle_price_e8),
                      ~(reserve_btc_sats' < reserve_btc_sats)
               PROVE  emergency_tier' = "Healthy"
    OBVIOUS
  <2>1. /\ reserve_btc_sats \in Nat /\ reserve_btc_sats' \in Nat
        /\ sat_usd_supply_atoms \in Nat /\ sat_usd_supply_atoms' \in Nat
        /\ latest_oracle_price_e8 \in Nat /\ latest_oracle_price_e8' \in Nat
    BY <1>1, NodeAssumption DEF TypeOK
  <2>2. /\ RecomputeTier(reserve_btc_sats, sat_usd_supply_atoms,
                         latest_oracle_price_e8) = "Healthy"
        /\ emergency_tier' = RecomputeTier(reserve_btc_sats', sat_usd_supply_atoms',
                                           latest_oracle_price_e8')
    BY <1>1 DEF TierFresh
  <2>3. ASSUME sat_usd_supply_atoms' <= sat_usd_supply_atoms
        PROVE  emergency_tier' = "Healthy"
    <3>1. reserve_btc_sats <= reserve_btc_sats'
          /\ latest_oracle_price_e8 <= latest_oracle_price_e8'
      BY <2>1
    <3> QED BY <2>1, <2>2, <2>3, <3>1, TierMonotone
  <2>4. CASE UNCHANGED sat_usd_supply_atoms
    BY <2>1, <2>3, <2>4
  <2>5. CASE Elsewhere
    BY <2>4, <2>5 DEF Elsewhere, SetL1Anchor, Governance, SetReserveCommittee,
       UseMultisigReserve, RotateReserveCommittee, CustodyControl, Register,
       IssuerRegister, OperatorRegister, OnChain, AnchorLock, SpendLock, Lock,
       RedeemLock, LockRefund, scalarVars
  <2>6. CASE Mint
    <3>1. CASE \E i \in Issuer, price \in Prices, d \in Deposit, atoms \in MintAtoms :
                 MintCommit(i, d, atoms, price)
      BY <2>4, <3>1 DEF MintCommit
    <3>2. ASSUME NEW i \in Issuer, NEW price \in Prices, MintFinalize(i, price)
          PROVE  emergency_tier' = "Healthy"
      <4>1. PICK m \in issuers[i].pending_mint_commitment :
              /\ Covered(reserve_btc_sats, sat_usd_supply_atoms, m.atoms, price)
              /\ sat_usd_supply_atoms' = sat_usd_supply_atoms + m.atoms
              /\ reserve_btc_sats' = reserve_btc_sats
              /\ latest_oracle_price_e8' = price
        BY <3>2 DEF MintFinalize
      <4>2. m.atoms \in Nat /\ price \in Nat
        <5>1. issuers[i] \in IssuerPosition
          BY <1>1 DEF TypeOK
        <5> QED BY <4>1, <5>1, NodeAssumption DEF IssuerPosition, Commitment
      <4>3. CASE sat_usd_supply_atoms + m.atoms = 0
        BY <2>1, <2>3, <4>1, <4>2, <4>3
      <4>4. CASE sat_usd_supply_atoms + m.atoms # 0
        BY <2>1, <2>2, <4>1, <4>2, <4>4, MintLeavesHealthy
      <4> QED BY <4>3, <4>4
    <3> QED BY <2>6, <3>1, <3>2 DEF Mint
  <2>7. CASE Submit
    <3>1. PICK c \in Claim, batch \in SUBSET LockRecord, price \in Prices,
               expiry \in Expiries : SubmitReserveClaim(c, batch, price, expiry)
      BY <2>7 DEF Submit
    <3>2. BatchAtoms(batch) \in Nat
          /\ sat_usd_supply_atoms' = sat_usd_supply_atoms - BatchAtoms(batch)
      BY <3>1 DEF SubmitReserveClaim, U64
    <3> QED BY <2>1, <2>3, <3>2
  <2>8. CASE Resolve
    BY <2>4, <2>8 DEF Resolve, ReclaimStaleClaim, FinalizeClaim, FinalizeRefused, scalarVars
  <2>9. CASE UNCHANGED vars
    BY <2>4, <2>9 DEF vars, scalarVars
  <2> QED BY <1>1, <2>5, <2>6, <2>7, <2>8, <2>9 DEF Next, Elsewhere
<1>2. ASSUME TypeOK, TypeOK', TierFresh, TierFresh', [Next]_vars
      PROVE  [Kept]_vars
  BY <1>1, <1>2
<1> QED BY <1>2, TypeCorrect, TierAlwaysFresh, PTL DEF Spec, HealthyUntilPriceOrPayout

-----------------------------------------------------------------------------
(* The custody's totals with the node's claims are a claim ledger: every   *)
(* node operation funds, opens, pays, releases, or is invisible there.     *)
(* Swapping the backend is invisible because the new one is seeded with    *)
(* what the state says and nothing is reserved at that moment, which is    *)
(* the custody invariant again.                                            *)

InStep == TypeOK /\ CustodyLockstep

LedgerPhases == [c \in Claim |-> LedgerPhase[pending_claims[c].status]]

LedgerAmounts == [c \in Claim |-> pending_claims[c].reserved_sats]

LEMMA InvisibleToLedger ==
  ASSUME InStep, InStep', UNCHANGED <<pending_claims, reserve_btc_sats,
                                      reserved_pending_claim_sats>>
  PROVE  UNCHANGED Ledger!ledgerVars
BY DEF InStep, CustodyLockstep, Ledger!ledgerVars

LEMMA SubmitOpens ==
  ASSUME InStep, InStep', NEW c \in Claim, NEW batch, NEW price, NEW expiry,
         SubmitReserveClaim(c, batch, price, expiry)
  PROVE  Ledger!Open(c)
<1> DEFINE sats == BatchGross(batch, price)
<1>1. /\ pending_claims[c].status = "None"
      /\ pending_claims' = [pending_claims EXCEPT ![c] =
           [status |-> "Pending", reserved_sats |-> sats,
            claim_expiry_height |-> expiry]]
      /\ reserved_sats' = reserved_sats + sats
      /\ total_sats' = total_sats
  BY DEF SubmitReserveClaim, FreshClaimId, SubmitClaim
<1>2. /\ pending_claims \in [Claim -> ClaimRecord]
      /\ pending_claims' \in [Claim -> ClaimRecord]
  BY DEF InStep, TypeOK
<1> HIDE DEF sats
<1>3. /\ LedgerPhases[c] = "unknown"
      /\ LedgerPhases' = [LedgerPhases EXCEPT ![c] = "open"]
  <2>1. /\ LedgerPhase["None"] = "unknown" /\ LedgerPhase["Pending"] = "open"
    BY DEF LedgerPhase
  <2>2. \A d \in Claim : pending_claims'[d].status =
          IF d = c THEN "Pending" ELSE pending_claims[d].status
    BY <1>1, <1>2
  <2>3. pending_claims[c].status = "None"
    BY <1>1
  <2> QED BY <2>1, <2>2, <2>3 DEF LedgerPhases
<1>4. /\ LedgerAmounts' \in [Claim -> Nat]
      /\ \A d \in Claim \ {c} : LedgerAmounts'[d] = LedgerAmounts[d]
      /\ LedgerAmounts'[c] = sats
  BY <1>1, <1>2 DEF LedgerAmounts, ClaimRecord
<1> QED BY <1>1, <1>3, <1>4 DEF Ledger!Open, LedgerPhases, LedgerAmounts

LEMMA CloseCloses ==
  ASSUME InStep, NEW c \in Claim, NEW status \in {"Finalized", "Reclaimed"},
         pending_claims[c].status = "Pending", CloseClaim(c, status),
         reserved_sats' = reserved_sats - entries[c].amount_sats
  PROVE  Ledger!Close(c, LedgerPhase[status])
<1>1. /\ pending_claims \in [Claim -> ClaimRecord]
      /\ entries[c].amount_sats = pending_claims[c].reserved_sats
  BY DEF InStep, TypeOK, CustodyLockstep
<1>2. /\ pending_claims'[c].status = status
      /\ pending_claims'[c].reserved_sats = pending_claims[c].reserved_sats
      /\ \A d \in Claim \ {c} : pending_claims'[d] = pending_claims[d]
  BY <1>1 DEF CloseClaim, ClaimRecord
<1>3. /\ LedgerPhases[c] = "open"
      /\ LedgerPhases' = [LedgerPhases EXCEPT ![c] = LedgerPhase[status]]
  <2>1. LedgerPhase["Pending"] = "open"
    BY DEF LedgerPhase
  <2> QED BY <1>2, <2>1 DEF LedgerPhases
<1>4. LedgerAmounts' = LedgerAmounts
      /\ reserved_sats' = reserved_sats - LedgerAmounts[c]
  BY <1>1, <1>2 DEF LedgerAmounts
<1> QED BY <1>3, <1>4 DEF Ledger!Close, LedgerPhases, LedgerAmounts

LEMMA FinalizePays ==
  ASSUME InStep, NEW c \in Claim, NEW signers, NEW height,
         FinalizeClaim(c, signers, height)
  PROVE  Ledger!Pay(c)
<1> DEFINE e == Approved(entries[c], signers)
<1>1. /\ entries \in [Claim -> Entry]
      /\ pending_claims[c].status = "Pending"
      /\ entries[c].amount_sats = pending_claims[c].reserved_sats
  BY DEF InStep, TypeOK, CustodyTypeOK, CustodyLockstep, FinalizeClaim,
         FinalizeAuthorized
<1>2. e.amount_sats = entries[c].amount_sats
  BY <1>1 DEF Approved, Entry
<1>3. /\ e.amount_sats <= total_sats
      /\ total_sats' = total_sats - e.amount_sats
      /\ reserved_sats' = reserved_sats - e.amount_sats
      /\ CloseClaim(c, "Finalized")
  BY DEF FinalizeClaim, PayClaim, Payable
<1> HIDE DEF e
<1>4. Ledger!Close(c, LedgerPhase["Finalized"])
  BY <1>1, <1>2, <1>3, CloseCloses
<1> QED BY <1>1, <1>2, <1>3, <1>4 DEF Ledger!Pay, LedgerPhase

LEMMA ReclaimReleases ==
  ASSUME InStep, NEW c \in Claim, NEW height, ReclaimStaleClaim(c, height)
  PROVE  Ledger!Release(c)
<1>1. Ledger!Close(c, LedgerPhase["Reclaimed"])
  BY CloseCloses DEF ReclaimStaleClaim, ReclaimStale
<1> QED BY <1>1 DEF Ledger!Release, LedgerPhase, ReclaimStaleClaim, ReclaimStale

LEMMA StepImplementsLedger ==
  ASSUME InStep, InStep', [Next]_vars
  PROVE  [Ledger!LedgerNext]_(Ledger!ledgerVars)
<1>1. CASE UNCHANGED <<pending_claims, reserve_btc_sats,
                       reserved_pending_claim_sats>>
  BY <1>1, InvisibleToLedger
<1>2. CASE Elsewhere
  BY <1>1, <1>2, ElsewhereLeavesClaims
<1>3. ASSUME NEW i, NEW d \in Deposit, NEW atoms, NEW price,
             MintCommit(i, d, atoms, price)
      PROVE  Ledger!Fund
  <2>1. /\ total_sats' = total_sats + DepositSats[d]
        /\ UNCHANGED <<reserved_sats, pending_claims>>
    BY <1>3 DEF MintCommit, Credit
  <2>2. total_sats' >= total_sats
    BY <2>1, NodeAssumption DEF InStep, TypeOK, CustodyTypeOK
  <2> QED BY <2>1, <2>2 DEF Ledger!Fund
<1>4. CASE Mint
  <2>1. \/ UNCHANGED <<pending_claims, reserve_btc_sats,
                       reserved_pending_claim_sats>>
        \/ Ledger!Fund
    BY <1>3, <1>4 DEF Mint, MintFinalize
  <2> QED BY <1>1, <2>1 DEF Ledger!LedgerNext
<1>5. CASE Submit
  BY <1>5, SubmitOpens DEF Submit, Ledger!LedgerNext
<1>6. CASE Resolve
  <2>1. ASSUME NEW c \in Claim, NEW height, ReclaimStaleClaim(c, height)
        PROVE  [Ledger!LedgerNext]_(Ledger!ledgerVars)
    BY <2>1, ReclaimReleases DEF Ledger!LedgerNext
  <2>2. ASSUME NEW c \in Claim, NEW height, NEW signers,
               FinalizeClaim(c, signers, height)
        PROVE  [Ledger!LedgerNext]_(Ledger!ledgerVars)
    BY <2>2, FinalizePays DEF Ledger!LedgerNext
  <2>3. ASSUME NEW c \in Claim, NEW height, NEW signers,
               FinalizeRefused(c, signers, height)
        PROVE  [Ledger!LedgerNext]_(Ledger!ledgerVars)
    BY <1>1, <2>3 DEF FinalizeRefused, scalarVars
  <2> QED BY <1>6, <2>1, <2>2, <2>3 DEF Resolve
<1>7. CASE UNCHANGED vars
  BY <1>1, <1>7 DEF vars, scalarVars
<1> QED BY <1>2, <1>4, <1>5, <1>6, <1>7 DEF Next, Elsewhere

THEOREM NodeImplementsLedger == Spec => ImplementsLedger
<1>1. Init => Ledger!LedgerInit
  BY DEF Init, CustodyInit, Ledger!LedgerInit, LedgerPhase, NoClaim
<1>2. InStep /\ InStep' /\ [Next]_vars => [Ledger!LedgerNext]_(Ledger!ledgerVars)
  BY StepImplementsLedger
<1>3. Spec => []InStep
  BY TypeInvariant DEF InStep
<1> QED BY <1>1, <1>2, <1>3, PTL DEF Spec, ImplementsLedger, Ledger!LedgerSpec

-----------------------------------------------------------------------------
(* The fields of an issuer that the mint's bookkeeping moves together. *)
LEMMA IssuerFields ==
  ASSUME NEW p \in IssuerPosition, NEW d \in Deposit, NEW atoms \in Nat
  PROVE  /\ IssuerAfterCommit(p, d, atoms).pending_mint_atoms
              = p.pending_mint_atoms + atoms
         /\ IssuerAfterCommit(p, d, atoms).pending_mint_commitment
              = {[atoms |-> atoms, deposit |-> d]}
         /\ IssuerAfterFinalize(p, atoms).pending_mint_atoms
              = p.pending_mint_atoms - atoms
         /\ IssuerAfterFinalize(p, atoms).pending_mint_commitment = {}
BY DEF IssuerPosition, IssuerAfterCommit, IssuerAfterFinalize

(* An issuer never has atoms pending beyond its one commitment, however    *)
(* commits, finalizes and registrations interleave with other issuers'.    *)
THEOREM PendingIsOneCommitment == Spec => []PendingMintBound
<1> DEFINE Bound(p) ==
      \/ p.pending_mint_commitment = {} /\ p.pending_mint_atoms = 0
      \/ \E m \in p.pending_mint_commitment :
           p.pending_mint_commitment = {m} /\ p.pending_mint_atoms = m.atoms
<1>1. PendingMintBound <=> \A i \in Issuer : Bound(issuers[i])
  BY DEF PendingMintBound
<1>2. PendingMintBound' <=> \A i \in Issuer : Bound(issuers'[i])
  BY DEF PendingMintBound
<1>3. Init => PendingMintBound
  BY <1>1 DEF Init, FreshIssuer
<1>4. ASSUME PendingMintBound, TypeOK, [Next]_vars
      PROVE  PendingMintBound'
  <2>1. issuers \in [Issuer -> IssuerPosition]
    BY <1>4 DEF TypeOK
  <2>2. ASSUME NEW i \in Issuer, NEW q, Bound(q),
               issuers' = [issuers EXCEPT ![i] = q]
        PROVE  PendingMintBound'
    <3> HIDE DEF Bound
    <3> QED BY <1>1, <1>2, <1>4, <2>1, <2>2
  <2>3. CASE UNCHANGED issuers
    BY <1>1, <1>2, <1>4, <2>3
  <2>4. CASE SetL1Anchor \/ Governance \/ OnChain \/ Lock \/ Submit \/ Resolve
    BY <2>3, <2>4
       DEF SetL1Anchor, Governance, SetReserveCommittee, UseMultisigReserve,
           RotateReserveCommittee, CustodyControl, OnChain, AnchorLock,
           SpendLock, Lock, RedeemLock, LockRefund, Submit,
           SubmitReserveClaim, Resolve, ReclaimStaleClaim, FinalizeClaim,
           FinalizeRefused, registryVars
  <2>5. CASE Register
    <3>1. Bound(FreshIssuer(TRUE))
      BY DEF FreshIssuer
    <3>2. \/ UNCHANGED issuers
          \/ \E i \in Issuer : issuers' = [issuers EXCEPT ![i] = FreshIssuer(TRUE)]
      BY <2>5 DEF Register, IssuerRegister, OperatorRegister
    <3> HIDE DEF Bound
    <3> QED BY <2>2, <2>3, <3>1, <3>2
  <2>6. ASSUME NEW i \in Issuer, NEW d \in Deposit, NEW atoms \in MintAtoms,
               NEW price, MintCommit(i, d, atoms, price)
        PROVE  PendingMintBound'
    <3> DEFINE q == IssuerAfterCommit(issuers[i], d, atoms)
               m == [atoms |-> atoms, deposit |-> d]
    <3>1. /\ issuers[i].pending_mint_commitment = {}
          /\ issuers' = [issuers EXCEPT ![i] = q]
          /\ atoms \in Nat
      BY <2>6, NodeAssumption DEF MintCommit
    <3>2. issuers[i].pending_mint_atoms = 0
      BY <1>1, <1>4, <3>1
    <3>3. q.pending_mint_commitment = {m} /\ q.pending_mint_atoms = m.atoms
      BY <2>1, <3>1, <3>2, IssuerFields
    <3>4. Bound(q)
      <4> HIDE DEF q, m
      <4> QED BY <3>3
    <3> HIDE DEF Bound, q
    <3> QED BY <2>2, <3>1, <3>4
  <2>7. ASSUME NEW i \in Issuer, NEW price, MintFinalize(i, price)
        PROVE  PendingMintBound'
    <3>1. PICK m \in issuers[i].pending_mint_commitment :
            issuers' = [issuers EXCEPT ![i] = IssuerAfterFinalize(@, m.atoms)]
      BY <2>7 DEF MintFinalize
    <3> DEFINE q == IssuerAfterFinalize(issuers[i], m.atoms)
    <3>2. issuers[i] \in IssuerPosition /\ m.atoms \in Nat
          /\ issuers[i].pending_mint_atoms = m.atoms /\ m.deposit \in Deposit
      <4>1. issuers[i] \in IssuerPosition /\ Bound(issuers[i])
        BY <1>1, <1>4, <2>1
      <4>2. m \in Commitment
        BY <3>1, <4>1 DEF IssuerPosition
      <4>3. issuers[i].pending_mint_atoms = m.atoms
        BY <3>1, <4>1
      <4> QED BY <4>1, <4>2, <4>3 DEF Commitment
    <3>3. q.pending_mint_commitment = {} /\ q.pending_mint_atoms = 0
      <4>1. /\ q.pending_mint_commitment = {}
            /\ q.pending_mint_atoms = issuers[i].pending_mint_atoms - m.atoms
        BY <3>2, IssuerFields
      <4> HIDE DEF q
      <4> QED BY <3>2, <4>1
    <3>4. Bound(q)
      <4> HIDE DEF q
      <4> QED BY <3>3
    <3>5. issuers' = [issuers EXCEPT ![i] = q]
      BY <3>1
    <3> HIDE DEF Bound, q
    <3> QED BY <2>2, <3>4, <3>5
  <2>8. CASE UNCHANGED vars
    BY <2>3, <2>8 DEF vars, registryVars
  <2> QED BY <1>4, <2>4, <2>5, <2>6, <2>7, <2>8 DEF Next, Mint
<1> QED BY <1>3, <1>4, TypeCorrect, PTL DEF Spec

(* Rotating or replacing the committee leaves no approval of a key that is *)
(* not on the new one.                                                      *)
THEOREM ApprovalsStayCurrent == Spec => []ApprovalsAreCurrent
<1>1. Init => ApprovalsAreCurrent
  BY DEF Init, CustodyInit, ApprovalsAreCurrent, Absent
<1>2. ASSUME ApprovalsAreCurrent, TypeOK, [Next]_vars
      PROVE  ApprovalsAreCurrent'
  <2>1. entries \in [Claim -> Entry]
    BY <1>2 DEF TypeOK, CustodyTypeOK
  <2>2. CASE UNCHANGED custodyVars
    BY <1>2, <2>2 DEF custodyVars, ApprovalsAreCurrent
  <2>3. ASSUME NEW c \in Claim, NEW e, UNCHANGED committee,
               e.approvals \subseteq committee.members,
               entries' = [entries EXCEPT ![c] = e]
        PROVE  ApprovalsAreCurrent'
    BY <1>2, <2>1, <2>3 DEF ApprovalsAreCurrent
  <2>4. CASE SetL1Anchor \/ Register \/ OnChain \/ Lock
             \/ \E k \in Committees : SetReserveCommittee(k)
    BY <2>2, <2>4 DEF SetL1Anchor, Register, IssuerRegister, OperatorRegister,
                      OnChain, AnchorLock, SpendLock, Lock, RedeemLock,
                      LockRefund, SetReserveCommittee
  <2>5. CASE \E k \in Committees : UseMultisigReserve(k) \/ RotateReserveCommittee(k)
    <3>1. \/ UNCHANGED custodyVars
          \/ \A c \in Claim : entries'[c].approvals = {}
      BY <2>1, <2>5 DEF UseMultisigReserve, NewMultisig, Absent, Entry,
                        RotateReserveCommittee, RotateCommittee
    <3> QED BY <2>2, <3>1 DEF ApprovalsAreCurrent
  <2>6. CASE CustodyControl
    <3>1. /\ UNCHANGED committee
          /\ \/ UNCHANGED entries
             \/ \E c \in Claim : entries' = [entries EXCEPT ![c].vetoed = TRUE]
      BY <2>6 DEF CustodyControl, EmergencyPause, Resume, Veto
    <3>2. \A c \in Claim : [entries[c] EXCEPT !.vetoed = TRUE].approvals
                             \subseteq committee.members
      BY <1>2, <2>1 DEF ApprovalsAreCurrent, Entry
    <3>3. CASE UNCHANGED entries
      BY <1>2, <3>1, <3>3 DEF ApprovalsAreCurrent
    <3> QED BY <2>3, <3>1, <3>2, <3>3
  <2>7. CASE Mint
    <3>1. UNCHANGED <<entries, committee>>
      BY <2>7 DEF Mint, MintCommit, MintFinalize, Credit, custodyVars
    <3> QED BY <1>2, <3>1 DEF ApprovalsAreCurrent
  <2>8. CASE Submit
    <3>1. \A sats : Opened(sats).approvals \subseteq committee.members
      BY DEF Opened
    <3>2. PICK c \in Claim, batch \in SUBSET LockRecord, price \in Prices :
             \E expiry \in Expiries : SubmitReserveClaim(c, batch, price, expiry)
      BY <2>8 DEF Submit
    <3>3. SubmitClaim(c, BatchGross(batch, price))
      BY <3>2 DEF SubmitReserveClaim
    <3>4. /\ UNCHANGED committee
          /\ \/ UNCHANGED entries
             \/ entries' = [entries EXCEPT ![c] = Opened(BatchGross(batch, price))]
      BY <3>3 DEF SubmitClaim
    <3>5. CASE UNCHANGED entries
      BY <1>2, <3>4, <3>5 DEF ApprovalsAreCurrent
    <3> QED BY <2>3, <3>1, <3>4, <3>5
  <2>9. CASE Resolve
    <3>1. ASSUME NEW c \in Claim, NEW signers
          PROVE  /\ Approved(entries[c], signers).approvals
                      \subseteq committee.members
                 /\ [Approved(entries[c], signers) EXCEPT !.status = "paid"].approvals
                      \subseteq committee.members
      <4> DEFINE e == Approved(entries[c], signers)
      <4>1. e.approvals \subseteq committee.members
        BY <1>2, <2>1 DEF Approved, ApprovalsAreCurrent, Entry
      <4>2. [e EXCEPT !.status = "paid"].approvals = e.approvals
        BY <2>1 DEF Approved, Entry
      <4> QED BY <4>1, <4>2
    <3>2. Absent.approvals \subseteq committee.members
      BY DEF Absent
    <3> QED BY <2>3, <2>9, <3>1, <3>2
               DEF Resolve, ReclaimStaleClaim, ReclaimStale, FinalizeClaim,
                   PayClaim, FinalizeRefused, RefuseClaim
  <2>10. CASE UNCHANGED vars
    BY <2>2, <2>10 DEF vars
  <2> QED BY <1>2, <2>4, <2>5, <2>6, <2>7, <2>8, <2>9, <2>10
             DEF Next, Governance
<1> QED BY <1>1, <1>2, TypeCorrect, PTL DEF Spec

-----------------------------------------------------------------------------
(* Conservation.  The sums are the ones TLC evaluates in the runs;         *)
(* FiniteTotals says how each moves with one book, one claim or one batch. *)

Deposits == [i \in Issuer |-> issuers[i].reserve_deposits_sats]
Minted == [i \in Issuer |-> issuers[i].minted_satusd_atoms]
ClaimSats == [c \in Claim |-> pending_claims[c].reserved_sats]

(* Registering writes a fresh record over what is there.                   *)
NothingUnregistered ==
    \A i \in Issuer : ~issuers[i].registered => Deposits[i] = 0 /\ Minted[i] = 0

Conserved == ReserveConservation /\ SupplyConservation /\ NothingUnregistered

LEMMA Books ==
  ASSUME TypeOK
  PROVE  /\ Deposits \in [Issuer -> Int] /\ Minted \in [Issuer -> Int]
         /\ ClaimSats \in [Claim -> Int] /\ AnchorAtoms \in [Anchor -> Int]
         /\ IsFiniteSet(Issuer) /\ IsFiniteSet(Claim)
         /\ IsFiniteSet(nullifiers) /\ nullifiers \subseteq Anchor
         /\ IsFiniteSet(ClaimsIn("Finalized"))
<1>1. /\ issuers \in [Issuer -> IssuerPosition]
      /\ pending_claims \in [Claim -> ClaimRecord]
  BY DEF TypeOK
<1>2. IsFiniteSet(nullifiers) /\ nullifiers \subseteq Anchor
  BY NodeAssumption, FS_Subset DEF TypeOK
<1>3. IsFiniteSet(ClaimsIn("Finalized"))
  <2>1. ClaimsIn("Finalized") \in SUBSET Claim
    BY DEF ClaimsIn
  <2> QED BY <2>1, CustodyAssumption, FS_Subset
<1>4. Deposits \in [Issuer -> Int] /\ Minted \in [Issuer -> Int]
  BY <1>1 DEF Deposits, Minted, IssuerPosition
<1>5. ClaimSats \in [Claim -> Int]
  BY <1>1 DEF ClaimSats, ClaimRecord
<1> QED BY <1>2, <1>3, <1>4, <1>5, NodeAssumption, CustodyAssumption

(* The two laws in terms of the books.                                     *)
LEMMA Laws ==
  /\ ReserveConservation <=>
       reserve_btc_sats + SumFunctionOnSet(ClaimSats, ClaimsIn("Finalized"))
         = SumFunctionOnSet(Deposits, Issuer)
  /\ SupplyConservation <=>
       sat_usd_supply_atoms + SumFunctionOnSet(AnchorAtoms, nullifiers)
         = SumFunctionOnSet(Minted, Issuer)
<1>1. IssuerTotal("reserve_deposits_sats") = SumFunctionOnSet(Deposits, Issuer)
  BY DEF IssuerTotal, Deposits, SumFunction
<1>2. IssuerTotal("minted_satusd_atoms") = SumFunctionOnSet(Minted, Issuer)
  BY DEF IssuerTotal, Minted, SumFunction
<1> QED BY <1>1, <1>2 DEF ReserveConservation, SupplyConservation, SatsOf, ClaimSats,
           AnchoredAtoms

LEMMA LawsPrimed ==
  /\ ReserveConservation' <=>
       reserve_btc_sats' + SumFunctionOnSet(ClaimSats', ClaimsIn("Finalized")')
         = SumFunctionOnSet(Deposits', Issuer)
  /\ SupplyConservation' <=>
       sat_usd_supply_atoms' + SumFunctionOnSet(AnchorAtoms, nullifiers')
         = SumFunctionOnSet(Minted', Issuer)
<1>1. IssuerTotal("reserve_deposits_sats")' = SumFunctionOnSet(Deposits', Issuer)
  BY DEF IssuerTotal, Deposits, SumFunction
<1>2. IssuerTotal("minted_satusd_atoms")' = SumFunctionOnSet(Minted', Issuer)
  BY DEF IssuerTotal, Minted, SumFunction
<1> QED BY <1>1, <1>2 DEF ReserveConservation, SupplyConservation, SatsOf, ClaimSats,
           AnchoredAtoms

(* The sums are integers. *)
LEMMA SumTypes ==
  ASSUME TypeOK
  PROVE  /\ SumFunctionOnSet(Deposits, Issuer) \in Int
         /\ SumFunctionOnSet(Minted, Issuer) \in Int
         /\ SumFunctionOnSet(ClaimSats, ClaimsIn("Finalized")) \in Int
         /\ SumFunctionOnSet(AnchorAtoms, nullifiers) \in Int
<1>1. /\ \A k \in ClaimsIn("Finalized") : ClaimSats[k] \in Int
      /\ \A a \in nullifiers : AnchorAtoms[a] \in Int
      /\ \A i \in Issuer : Deposits[i] \in Int /\ Minted[i] \in Int
  BY Books DEF ClaimsIn
<1> QED BY <1>1, Books, SumIsTotal

LEMMA QuietBooks ==
  ASSUME Conserved, Deposits' = Deposits, Minted' = Minted, NothingUnregistered',
         UNCHANGED <<reserve_btc_sats, sat_usd_supply_atoms, pending_claims, nullifiers>>
  PROVE  Conserved'
<1>1. ClaimSats' = ClaimSats /\ ClaimsIn("Finalized")' = ClaimsIn("Finalized")
  BY DEF ClaimSats, ClaimsIn
<1> QED BY <1>1, Laws, LawsPrimed DEF Conserved

(* What the mint does to an issuer's two books. *)
LEMMA IssuerBooks ==
  ASSUME NEW p \in IssuerPosition, NEW d \in Deposit, NEW atoms \in Nat
  PROVE  /\ IssuerAfterCommit(p, d, atoms).registered = p.registered
         /\ IssuerAfterCommit(p, d, atoms).reserve_deposits_sats
              = p.reserve_deposits_sats + DepositSats[d]
         /\ IssuerAfterCommit(p, d, atoms).minted_satusd_atoms = p.minted_satusd_atoms
         /\ IssuerAfterFinalize(p, atoms).registered = p.registered
         /\ IssuerAfterFinalize(p, atoms).reserve_deposits_sats
              = p.reserve_deposits_sats
         /\ IssuerAfterFinalize(p, atoms).minted_satusd_atoms
              = p.minted_satusd_atoms + atoms
BY DEF IssuerPosition, IssuerAfterCommit, IssuerAfterFinalize

LEMMA RegisterConserves ==
  ASSUME TypeOK, Conserved, NEW i \in Issuer, IssuerRegister(i)
  PROVE  Conserved'
<1>1. /\ issuers \in [Issuer -> IssuerPosition] /\ ~issuers[i].registered
      /\ issuers' = [issuers EXCEPT ![i] = FreshIssuer(TRUE)]
      /\ UNCHANGED <<reserve_btc_sats, sat_usd_supply_atoms, pending_claims, nullifiers>>
  BY DEF TypeOK, IssuerRegister, scalarVars, lockVars
<1>2. Deposits[i] = 0 /\ Minted[i] = 0
  BY <1>1 DEF Conserved, NothingUnregistered
<1>3. /\ FreshIssuer(TRUE).reserve_deposits_sats = 0
      /\ FreshIssuer(TRUE).minted_satusd_atoms = 0
      /\ FreshIssuer(TRUE).registered
  BY DEF FreshIssuer
<1>4. \A j \in Issuer : issuers'[j] = IF j = i THEN FreshIssuer(TRUE) ELSE issuers[j]
  BY <1>1
<1>5. Deposits' = Deposits
  BY <1>2, <1>3, <1>4 DEF Deposits
<1>6. Minted' = Minted
  BY <1>2, <1>3, <1>4 DEF Minted
<1>7. NothingUnregistered'
  BY <1>3, <1>4, <1>5, <1>6 DEF Conserved, NothingUnregistered
<1> QED BY <1>1, <1>5, <1>6, <1>7, QuietBooks

(* A commitment books its deposit to the issuer and to the reserve. *)
LEMMA CommitConserves ==
  ASSUME TypeOK, Conserved, NEW i \in Issuer, NEW d \in Deposit,
         NEW atoms \in MintAtoms, NEW price, MintCommit(i, d, atoms, price)
  PROVE  Conserved'
<1> DEFINE q == IssuerAfterCommit(issuers[i], d, atoms)
<1>1. /\ issuers \in [Issuer -> IssuerPosition] /\ issuers[i].registered
      /\ issuers' = [issuers EXCEPT ![i] = q]
      /\ reserve_btc_sats' = reserve_btc_sats + DepositSats[d]
      /\ UNCHANGED <<sat_usd_supply_atoms, pending_claims, nullifiers>>
      /\ reserve_btc_sats \in Int /\ DepositSats[d] \in Int
  BY NodeAssumption DEF TypeOK, MintCommit, lockVars
<1>2. /\ q.registered
      /\ q.reserve_deposits_sats = Deposits[i] + DepositSats[d]
      /\ q.minted_satusd_atoms = Minted[i]
  BY <1>1, IssuerBooks, NodeAssumption DEF Deposits, Minted
<1> HIDE DEF q
<1>3. \A j \in Issuer : issuers'[j] = IF j = i THEN q ELSE issuers[j]
  BY <1>1
<1>4. Deposits' = [Deposits EXCEPT ![i] = Deposits[i] + DepositSats[d]]
  BY <1>2, <1>3 DEF Deposits
<1>5. Minted' = Minted
  BY <1>2, <1>3 DEF Minted
<1>6. NothingUnregistered'
  <2>1. \A j \in Issuer : ~issuers'[j].registered =>
          ~issuers[j].registered /\ j # i
    BY <1>2, <1>3
  <2> QED BY <2>1, <1>4, <1>5 DEF Conserved, NothingUnregistered, Deposits
<1>7. ClaimSats' = ClaimSats /\ ClaimsIn("Finalized")' = ClaimsIn("Finalized")
  BY <1>1 DEF ClaimSats, ClaimsIn
<1>8. SumFunctionOnSet(Deposits, Issuer) \in Int
      /\ SumFunctionOnSet(ClaimSats, ClaimsIn("Finalized")) \in Int
  BY SumTypes
<1>9. SumFunctionOnSet(Deposits', Issuer)
        = SumFunctionOnSet(Deposits, Issuer) + DepositSats[d]
  <2>1. Deposits \in [Issuer -> Int] /\ IsFiniteSet(Issuer)
    BY Books
  <2>2. Deposits[i] \in Int /\ Deposits[i] + DepositSats[d] \in Int
    <3>1. Deposits[i] \in Int
      BY <2>1
    <3>2. DepositSats[d] \in Int
      BY NodeAssumption
    <3> QED BY <3>1, <3>2
  <2>3. SumFunctionOnSet([Deposits EXCEPT ![i] = Deposits[i] + DepositSats[d]], Issuer)
          = SumFunctionOnSet(Deposits, Issuer)
              + ((Deposits[i] + DepositSats[d]) - Deposits[i])
    BY <2>1, <2>2, SumMoves
  <2> QED BY <1>1, <1>4, <1>8, <2>2, <2>3
<1>10. ReserveConservation'
  BY <1>1, <1>7, <1>8, <1>9, Laws, LawsPrimed DEF Conserved
<1>11. SupplyConservation'
  BY <1>1, <1>5, Laws, LawsPrimed DEF Conserved
<1> QED BY <1>6, <1>10, <1>11 DEF Conserved

(* Finalizing books the atoms to the issuer and to the supply. *)
LEMMA FinalizeMintConserves ==
  ASSUME TypeOK, Conserved, NEW i \in Issuer, NEW price, MintFinalize(i, price)
  PROVE  Conserved'
<1>1. PICK m \in issuers[i].pending_mint_commitment :
        /\ issuers' = [issuers EXCEPT ![i] = IssuerAfterFinalize(@, m.atoms)]
        /\ sat_usd_supply_atoms' = sat_usd_supply_atoms + m.atoms
  BY DEF MintFinalize
<1> DEFINE q == IssuerAfterFinalize(issuers[i], m.atoms)
<1>2. /\ issuers \in [Issuer -> IssuerPosition] /\ issuers[i].registered
      /\ UNCHANGED <<reserve_btc_sats, pending_claims, nullifiers>>
      /\ sat_usd_supply_atoms \in Int
  BY DEF TypeOK, MintFinalize, lockVars
<1>3. m \in Commitment /\ m.atoms \in Nat
  BY <1>1, <1>2 DEF IssuerPosition, Commitment
<1>4. /\ q.registered
      /\ q.reserve_deposits_sats = Deposits[i]
      /\ q.minted_satusd_atoms = Minted[i] + m.atoms
  <2>1. m.deposit \in Deposit
    BY <1>3 DEF Commitment
  <2> QED BY <1>2, <1>3, <2>1, IssuerBooks DEF Deposits, Minted
<1>5. issuers' = [issuers EXCEPT ![i] = q]
  BY <1>1
<1> HIDE DEF q
<1>6. \A j \in Issuer : issuers'[j] = IF j = i THEN q ELSE issuers[j]
  BY <1>2, <1>5
<1>7. Deposits' = Deposits
  BY <1>4, <1>6 DEF Deposits
<1>8. Minted' = [Minted EXCEPT ![i] = Minted[i] + m.atoms]
  BY <1>4, <1>6 DEF Minted
<1>9. NothingUnregistered'
  <2>1. \A j \in Issuer : ~issuers'[j].registered =>
          ~issuers[j].registered /\ j # i
    BY <1>4, <1>6
  <2> QED BY <2>1, <1>7, <1>8 DEF Conserved, NothingUnregistered, Minted
<1>10. ClaimSats' = ClaimSats /\ ClaimsIn("Finalized")' = ClaimsIn("Finalized")
  BY <1>2 DEF ClaimSats, ClaimsIn
<1>11. SumFunctionOnSet(Minted', Issuer)
         = SumFunctionOnSet(Minted, Issuer) + m.atoms
  <2>1. Minted \in [Issuer -> Int] /\ IsFiniteSet(Issuer)
        /\ SumFunctionOnSet(Minted, Issuer) \in Int
    BY Books, SumTypes
  <2>2. Minted[i] \in Int /\ Minted[i] + m.atoms \in Int
    BY <1>3, <2>1
  <2>3. SumFunctionOnSet([Minted EXCEPT ![i] = Minted[i] + m.atoms], Issuer)
          = SumFunctionOnSet(Minted, Issuer) + ((Minted[i] + m.atoms) - Minted[i])
    BY <2>1, <2>2, SumMoves
  <2> QED BY <1>3, <1>8, <2>1, <2>2, <2>3
<1>12. ReserveConservation'
  BY <1>2, <1>7, <1>10, Laws, LawsPrimed DEF Conserved
<1>13. SupplyConservation'
  <2>1. SumFunctionOnSet(Minted, Issuer) \in Int
        /\ SumFunctionOnSet(AnchorAtoms, nullifiers) \in Int
    BY SumTypes
  <2> QED BY <1>1, <1>2, <1>3, <1>11, <2>1, Laws, LawsPrimed DEF Conserved
<1> QED BY <1>9, <1>12, <1>13 DEF Conserved

(* A batch burns the atoms of as many new anchors as it has records, and    *)
(* the claim it opens is not among the paid ones.                           *)
LEMMA SubmitConserves ==
  ASSUME TypeOK, Conserved, NEW c \in Claim, NEW batch \in SUBSET LockRecord,
         NEW price, NEW expiry, SubmitReserveClaim(c, batch, price, expiry)
  PROVE  Conserved'
<1> DEFINE atomsOf == [l \in batch |-> RecordAtoms(l)]
           new == [status |-> "Pending", reserved_sats |-> BatchGross(batch, price),
                   claim_expiry_height |-> expiry]
<1>1. /\ pending_claims \in [Claim -> ClaimRecord]
      /\ pending_claims[c].status = "None"
      /\ pending_claims' = [pending_claims EXCEPT ![c] = new]
      /\ FreshNullifiers(batch)
      /\ sat_usd_supply_atoms' = sat_usd_supply_atoms - BatchAtoms(batch)
      /\ nullifiers' = nullifiers \cup {RecordAnchor[l] : l \in batch}
      /\ UNCHANGED <<reserve_btc_sats, issuers>>
      /\ sat_usd_supply_atoms \in Int
  BY DEF TypeOK, SubmitReserveClaim, FreshClaimId, Redeemable, registryVars
<1>2. Deposits' = Deposits /\ Minted' = Minted /\ NothingUnregistered'
  BY <1>1 DEF Deposits, Minted, Conserved, NothingUnregistered
<1>3. ClaimsIn("Finalized")' = ClaimsIn("Finalized")
      /\ \A k \in ClaimsIn("Finalized") : ClaimSats'[k] = ClaimSats[k]
  <2>1. new.status = "Pending"
    OBVIOUS
  <2> HIDE DEF new
  <2>2. \A k \in Claim : pending_claims'[k] = IF k = c THEN new ELSE pending_claims[k]
    BY <1>1
  <2> QED BY <1>1, <2>1, <2>2 DEF ClaimsIn, ClaimSats
<1>4. ReserveConservation'
  <2>1. \A k \in ClaimsIn("Finalized") : ClaimSats[k] \in Int
    BY Books DEF ClaimsIn
  <2>2. SumFunctionOnSet(ClaimSats', ClaimsIn("Finalized"))
          = SumFunctionOnSet(ClaimSats, ClaimsIn("Finalized"))
    BY <1>3, <2>1, Books, SumAgrees
  <2> QED BY <1>1, <1>2, <1>3, <2>2, Laws, LawsPrimed DEF Conserved
<1>5. IsFiniteSet(batch)
  BY NodeAssumption, FS_Subset
<1>6. \A l \in batch : /\ atomsOf[l] \in Int
                       /\ atomsOf[l] = AnchorAtoms[RecordAnchor[l]]
                       /\ RecordAnchor[l] \notin nullifiers
  BY <1>1, NodeAssumption DEF RecordAtoms, FreshNullifiers
<1>7. \A l, m \in batch : RecordAnchor[l] = RecordAnchor[m] => l = m
  BY <1>1 DEF FreshNullifiers
<1>8. BatchAtoms(batch) = SumFunctionOnSet(atomsOf, batch)
  BY DEF BatchAtoms, SumFunction
<1> HIDE DEF atomsOf
<1>9. \A a \in nullifiers : AnchorAtoms[a] \in Int
  BY Books
<1>10. SumFunctionOnSet(AnchorAtoms, nullifiers')
         = SumFunctionOnSet(AnchorAtoms, nullifiers) + BatchAtoms(batch)
  <2>1. IsFiniteSet(nullifiers)
    BY Books
  <2>2. SumFunctionOnSet(AnchorAtoms, nullifiers \cup {RecordAnchor[l] : l \in batch})
          = SumFunctionOnSet(AnchorAtoms, nullifiers)
              + SumFunctionOnSet(atomsOf, batch)
    BY <1>5, <1>6, <1>7, <1>9, <2>1, SumJoins
  <2> QED BY <1>1, <1>8, <2>2
<1>11. SupplyConservation'
  <2>1. SumFunctionOnSet(AnchorAtoms, nullifiers) \in Int
        /\ BatchAtoms(batch) \in Int
    BY <1>5, <1>6, <1>8, SumTypes, SumIsTotal
  <2> QED BY <1>1, <1>2, <1>10, <2>1, Laws, LawsPrimed DEF Conserved
<1> QED BY <1>2, <1>4, <1>11 DEF Conserved

(* A reclaimed claim was not paid and is not.                               *)
LEMMA ReclaimConserves ==
  ASSUME TypeOK, Conserved, NEW c \in Claim, NEW height, ReclaimStaleClaim(c, height)
  PROVE  Conserved'
<1>1. /\ pending_claims \in [Claim -> ClaimRecord]
      /\ pending_claims[c].status = "Pending"
      /\ pending_claims' = [pending_claims EXCEPT ![c].status = "Reclaimed"]
      /\ UNCHANGED <<reserve_btc_sats, sat_usd_supply_atoms, issuers, nullifiers>>
  BY DEF TypeOK, ReclaimStaleClaim, CloseClaim, registryVars, lockVars
<1>2. Deposits' = Deposits /\ Minted' = Minted /\ NothingUnregistered'
  BY <1>1 DEF Deposits, Minted, Conserved, NothingUnregistered
<1>3. /\ \A k \in Claim : pending_claims'[k].reserved_sats
                             = pending_claims[k].reserved_sats
      /\ \A k \in Claim : pending_claims'[k].status =
            IF k = c THEN "Reclaimed" ELSE pending_claims[k].status
  BY <1>1 DEF ClaimRecord
<1>4. ClaimsIn("Finalized")' = ClaimsIn("Finalized") /\ ClaimSats' = ClaimSats
  BY <1>1, <1>3 DEF ClaimsIn, ClaimSats
<1> QED BY <1>1, <1>2, <1>4, Laws, LawsPrimed DEF Conserved

(* A payout moves one claim's sats from the reserve to the paid side.       *)
LEMMA FinalizeClaimConserves ==
  ASSUME TypeOK, Conserved, NEW c \in Claim, NEW signers, NEW height,
         FinalizeClaim(c, signers, height)
  PROVE  Conserved'
<1>1. /\ pending_claims \in [Claim -> ClaimRecord]
      /\ pending_claims[c].status = "Pending"
      /\ pending_claims' = [pending_claims EXCEPT ![c].status = "Finalized"]
      /\ reserve_btc_sats' = reserve_btc_sats - ClaimSats[c]
      /\ UNCHANGED <<sat_usd_supply_atoms, issuers, nullifiers>>
      /\ reserve_btc_sats \in Int
  BY DEF TypeOK, FinalizeClaim, FinalizeAuthorized, CloseClaim, registryVars,
         lockVars, ClaimSats
<1>2. Deposits' = Deposits /\ Minted' = Minted /\ NothingUnregistered'
  BY <1>1 DEF Deposits, Minted, Conserved, NothingUnregistered
<1>3. /\ \A k \in Claim : pending_claims'[k].reserved_sats
                             = pending_claims[k].reserved_sats
      /\ \A k \in Claim : pending_claims'[k].status =
            IF k = c THEN "Finalized" ELSE pending_claims[k].status
  BY <1>1 DEF ClaimRecord
<1>4. /\ ClaimsIn("Finalized")' = ClaimsIn("Finalized") \cup {c}
      /\ c \notin ClaimsIn("Finalized")
      /\ ClaimSats' = ClaimSats
  BY <1>1, <1>3 DEF ClaimsIn, ClaimSats
<1>5. /\ ClaimSats[c] \in Int
      /\ \A k \in ClaimsIn("Finalized") : ClaimSats[k] \in Int
  BY Books DEF ClaimsIn
<1>6. SumFunctionOnSet(ClaimSats, ClaimsIn("Finalized") \cup {c})
        = SumFunctionOnSet(ClaimSats, ClaimsIn("Finalized")) + ClaimSats[c]
  BY <1>4, <1>5, Books, SumGrows
<1>7. SumFunctionOnSet(ClaimSats, ClaimsIn("Finalized")) \in Int
  BY SumTypes
<1>8. ReserveConservation'
  <2>1. SumFunctionOnSet(ClaimSats', ClaimsIn("Finalized")')
          = SumFunctionOnSet(ClaimSats, ClaimsIn("Finalized")) + ClaimSats[c]
    BY <1>4, <1>6
  <2>2. reserve_btc_sats + SumFunctionOnSet(ClaimSats, ClaimsIn("Finalized"))
          = SumFunctionOnSet(Deposits, Issuer)
    BY Laws DEF Conserved
  <2>3. reserve_btc_sats' + SumFunctionOnSet(ClaimSats', ClaimsIn("Finalized")')
          = SumFunctionOnSet(Deposits', Issuer)
    <3> HIDE DEF Deposits, ClaimSats
    <3> QED BY <1>1, <1>2, <1>5, <1>7, <2>1, <2>2
  <2> QED BY <2>3, LawsPrimed
<1>9. SupplyConservation'
  BY <1>1, <1>2, Laws, LawsPrimed DEF Conserved
<1> QED BY <1>2, <1>8, <1>9 DEF Conserved

LEMMA InitConserves == Init => Conserved
<1> SUFFICES ASSUME Init PROVE Conserved
  OBVIOUS
<1>1. TypeOK
  BY InitCustody DEF CustodyInv
<1>2. \A i \in Issuer : Deposits[i] = 0 /\ Minted[i] = 0
  BY DEF Init, FreshIssuer, Deposits, Minted
<1>3. ClaimsIn("Finalized") = {} /\ nullifiers = {}
  BY DEF Init, NoClaim, ClaimsIn
<1>4. SumFunctionOnSet(Deposits, Issuer) = 0 /\ SumFunctionOnSet(Minted, Issuer) = 0
  <2>1. /\ IsTotal(SumFunctionOnSet(Deposits, Issuer), Deposits, Issuer)
        /\ IsTotal(SumFunctionOnSet(Minted, Issuer), Minted, Issuer)
    BY <1>1, Books, SumIsTotal
  <2> QED BY <1>1, <1>2, <2>1, Books, TotalOfZeros
<1>5. reserve_btc_sats = 0 /\ sat_usd_supply_atoms = 0
  BY DEF Init
<1> QED BY <1>2, <1>3, <1>4, <1>5, Laws, SumOfNothing DEF Conserved, NothingUnregistered

LEMMA NextConserves == TypeOK /\ Conserved /\ [Next]_vars => Conserved'
<1> SUFFICES ASSUME TypeOK, Conserved, [Next]_vars PROVE Conserved'
  OBVIOUS
<1>1. ASSUME UNCHANGED <<reserve_btc_sats, sat_usd_supply_atoms, issuers,
                         pending_claims, nullifiers>>
      PROVE  Conserved'
  <2>1. Deposits' = Deposits /\ Minted' = Minted /\ NothingUnregistered'
    BY <1>1 DEF Deposits, Minted, Conserved, NothingUnregistered
  <2> QED BY <1>1, <2>1, QuietBooks
<1>2. CASE SetL1Anchor \/ Governance \/ OnChain \/ Lock
  BY <1>1, <1>2
     DEF SetL1Anchor, Governance, SetReserveCommittee, UseMultisigReserve,
         RotateReserveCommittee, CustodyControl, OnChain, AnchorLock, SpendLock,
         Lock, RedeemLock, LockRefund, scalarVars, lockVars, registryVars
<1>3. CASE Register
  <2>1. ASSUME NEW o, NEW bond, NEW maxClaim, OperatorRegister(o, bond, maxClaim)
        PROVE  Conserved'
    BY <1>1, <2>1 DEF OperatorRegister, scalarVars, lockVars
  <2> QED BY <1>3, <2>1, RegisterConserves DEF Register
<1>4. CASE Mint
  BY <1>4, CommitConserves, FinalizeMintConserves DEF Mint
<1>5. CASE Submit
  BY <1>5, SubmitConserves DEF Submit
<1>6. CASE Resolve
  <2>1. ASSUME NEW c, NEW signers, NEW height, FinalizeRefused(c, signers, height)
        PROVE  Conserved'
    BY <1>1, <2>1 DEF FinalizeRefused, scalarVars, lockVars, registryVars
  <2> QED BY <1>6, <2>1, ReclaimConserves, FinalizeClaimConserves DEF Resolve
<1>7. CASE UNCHANGED vars
  BY <1>1, <1>7 DEF vars, scalarVars, lockVars, registryVars
<1> QED BY <1>2, <1>3, <1>4, <1>5, <1>6, <1>7 DEF Next

LEMMA ConservationInvariant == Spec => []Conserved
BY InitConserves, NextConserves, TypeCorrect, PTL DEF Spec

(* Every sat in the reserve was deposited and not yet paid out, for any    *)
(* number of issuers and claims: the reserve and the claims paid from it   *)
(* add up to what the issuers' books say they deposited.                   *)
THEOREM ReserveIsConserved == Spec => []ReserveConservation
<1>1. Conserved => ReserveConservation
  BY DEF Conserved
<1> QED BY <1>1, ConservationInvariant, PTL

(* Every atom in supply was minted by an issuer and not yet burned: the    *)
(* supply and the redeemed outputs add up to what the issuers minted, each *)
(* output counted once however the redemptions were batched.               *)
THEOREM SupplyIsConserved == Spec => []SupplyConservation
<1>1. Conserved => SupplyConservation
  BY DEF Conserved
<1> QED BY <1>1, ConservationInvariant, PTL
=============================================================================
