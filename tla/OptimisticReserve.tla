-------------------------- MODULE OptimisticReserve --------------------------
(***************************************************************************)
(* PlaygroundReserve of satusd-dispute, the optimistic backend over a      *)
(* MockReserve: the node submits a claim, the operator asserts it, which   *)
(* opens a challenge window, a challenger who resolves a dispute in his    *)
(* favour disproves it, and an undisproven claim is withdrawn once the     *)
(* window has elapsed.  The backend is a ReserveBackend too, and the node  *)
(* pays and reclaims through that trait, which knows no window.            *)
(***************************************************************************)
EXTENDS ReserveCustody

CONSTANTS Sats,              \* [Claim -> reimbursement_sats]
          Value,             \* what a claim commits: a lineage hash or lock key
          Genuine,           \* the values a witness can be recomputed for
          Deposits,          \* amounts credited to the reserve
          CHALLENGE_WINDOW,
          MaxHeight, MaxSats \* bounds of a run

ASSUME OptimisticAssumption ==
    /\ Sats \in [Claim -> Nat]
    /\ Genuine \subseteq Value
    /\ Deposits \subseteq Nat
    /\ {CHALLENGE_WINDOW, MaxHeight, MaxSats} \subseteq Nat

VARIABLES now,        \* PlaygroundReserve.now
          asserts,    \* PlaygroundReserve.asserts
          committed,  \* the value each claim's operator committed
          fate,       \* history: what became of each claim
          slashed     \* history: claims disproved when the node had taken
                      \* them in, and before they were paid

optVars == <<now, asserts, committed, fate, slashed>>
vars == <<custodyVars, optVars>>

NotAsserted == [open_height |-> MaxHeight, disproven |-> FALSE, posted |-> FALSE]
AssertRecord == [open_height : 0 .. MaxHeight, disproven : BOOLEAN,
                 posted : BOOLEAN]
Fates == {"unknown", "open", "paid", "released"}

(* PlaygroundReserve::new over a funded MockReserve. *)
OptimisticInit ==
    /\ backend = "mock"
    /\ total_sats \in 0 .. MaxSats
    /\ reserved_sats = 0
    /\ committee = NoCommittee
    /\ paused = FALSE
    /\ entries = [h \in Claim |-> Absent]
    /\ now = 0
    /\ asserts = [c \in Claim |-> NotAsserted]
    /\ committed \in [Claim -> Value]
    /\ fate = [c \in Claim |-> "unknown"]
    /\ slashed = {}

Became(c, end) == fate' = [fate EXCEPT ![c] = end]

(* set_height: the caller's view of the chain, which a reorganisation may  *)
(* take back.                                                              *)
SetHeight ==
    /\ now' \in (0 .. MaxHeight) \ {now}
    /\ UNCHANGED <<custodyVars, asserts, committed, fate, slashed>>

CreditDeposit ==
    /\ \E s \in Deposits : total_sats + s <= MaxSats /\ Credit(s)
    /\ UNCHANGED optVars

(* The node accepts a claim id once. *)
Submit(c) ==
    /\ fate[c] = "unknown"
    /\ SubmitClaim(c, Sats[c])
    /\ Became(c, "open")
    /\ UNCHANGED <<now, asserts, committed, slashed>>

(***************************************************************************)
(* The three phases.  Neither submit_assert nor submit_disprove asks       *)
(* whether the claim was submitted, so either may come before it.          *)
(***************************************************************************)

(* submit_assert.  An assert posted again replaces the first, its          *)
(* disproven flag included.  MaxHeight bounds the window.                  *)
SubmitAssert(c) ==
    /\ now + CHALLENGE_WINDOW <= MaxHeight
    /\ asserts' = [asserts EXCEPT ![c] =
           [open_height |-> now, disproven |-> FALSE, posted |-> TRUE]]
    /\ UNCHANGED <<custodyVars, now, committed, fate, slashed>>

(* resolve_dispute: the witness's value against the claimed one. *)
Outcome(claimed, witness) ==
    IF witness \notin Genuine THEN "malformed"
    ELSE IF claimed = witness THEN "fails" ELSE "succeeds"

RecordDisproof(c) ==
    slashed' = slashed \cup (IF fate[c] \in {"open", "released"} THEN {c} ELSE {})

(* Mutant of SubmitDisprove: the assert is marked, nothing is slashed. *)
SubmitDisproveMarking(c) ==
    /\ \E w \in Value : Outcome(committed[c], w) = "succeeds"
    /\ asserts' = [asserts EXCEPT ![c].disproven = asserts[c].posted]
    /\ RecordDisproof(c)
    /\ UNCHANGED <<custodyVars, fate, now, committed>>

(* A challenger resolves a dispute of the claim with some witness, builds  *)
(* the Disprove and submits it: the assert, if any, is marked, and the     *)
(* reservation, if there is one, is freed.  That there is none, be it      *)
(* because the claim has ended or because it is yet to come, is an error   *)
(* nobody hears of.                                                        *)
SubmitDisprove(c) ==
    /\ \E w \in Value : Outcome(committed[c], w) = "succeeds"
    /\ asserts' = [asserts EXCEPT ![c].disproven = asserts[c].posted]
    /\ IF entries[c].status = "open"
       THEN ReclaimStale(c) /\ Became(c, "released")
       ELSE UNCHANGED <<custodyVars, fate>>
    /\ RecordDisproof(c)
    /\ UNCHANGED <<now, committed>>

(* Mutant of WindowStatus: the last block of the window counts as open. *)
WindowStatusStrict(c) ==
    IF ~asserts[c].posted THEN "open"
    ELSE IF asserts[c].disproven THEN "disproven"
    ELSE IF now > asserts[c].open_height + CHALLENGE_WINDOW
         THEN "elapsed" ELSE "open"

(* observe_challenge_window *)
WindowStatus(c) ==
    IF ~asserts[c].posted THEN "open"
    ELSE IF asserts[c].disproven THEN "disproven"
    ELSE IF now >= asserts[c].open_height + CHALLENGE_WINDOW
         THEN "elapsed" ELSE "open"

(* finalize_withdraw *)
FinalizeWithdraw(c) ==
    /\ WindowStatus(c) = "elapsed"
    /\ PayClaim(c, {})
    /\ Became(c, "paid")
    /\ UNCHANGED <<now, asserts, committed, slashed>>

(***************************************************************************)
(* The node's side of the backend.                                         *)
(***************************************************************************)

(* finalize_claim, handed on to the custody. *)
FinalizeClaim(c) ==
    /\ PayClaim(c, {})
    /\ Became(c, "paid")
    /\ UNCHANGED <<now, asserts, committed, slashed>>

(* reclaim_stale, handed on to the custody. *)
Reclaim(c) ==
    /\ ReclaimStale(c)
    /\ Became(c, "released")
    /\ UNCHANGED <<now, asserts, committed, slashed>>

OptimisticNext ==
    \/ SetHeight
    \/ CreditDeposit
    \/ \E c \in Claim :
         \/ Submit(c)
         \/ SubmitAssert(c)
         \/ SubmitDisprove(c)
         \/ FinalizeWithdraw(c)
         \/ FinalizeClaim(c)
         \/ Reclaim(c)

OptimisticSpec == OptimisticInit /\ [][OptimisticNext]_vars

(* The operator keeps asking for his withdrawal, and the chain grows past  *)
(* every window.                                                           *)
FairSpec ==
    /\ OptimisticSpec
    /\ \A c \in Claim : WF_vars(FinalizeWithdraw(c))
    /\ <>[](now = MaxHeight)

-----------------------------------------------------------------------------
(* Types of every variable; the reservations never go below zero, however  *)
(* disproofs, reclaims and payouts of one claim interleave.                *)
OptimisticTypeOK ==
    /\ CustodyTypeOK
    /\ now \in 0 .. MaxHeight
    /\ asserts \in [Claim -> AssertRecord]
    /\ committed \in [Claim -> Value]
    /\ fate \in [Claim -> Fates]
    /\ slashed \subseteq Claim

(* A claim that was disproved after the node took it in, and before it was *)
(* paid, is never paid, by neither path, though an assert posted again     *)
(* wipes the mark of the disproof: what stops the payout is that           *)
(* submit_disprove freed the reservation.  A disproof that comes before    *)
(* the claim finds no reservation to free, and finalize_claim asks for     *)
(* none of it when the claim is there.                                     *)
SlashedIsNotPaid == \A c \in slashed : fate[c] # "paid"

Ledger == INSTANCE ClaimLedger
    WITH funds <- total_sats, promised <- reserved_sats, phase <- fate,
         amount <- [c \in Claim |-> IF fate[c] = "unknown" THEN 0 ELSE Sats[c]]

(* The backend keeps the books the plain ones keep: a claim is opened      *)
(* once, promising its amount, and is paid or released, once and for good. *)
KeepsLedger == Ledger!LedgerSpec

(* A claim whose window is open ends, be its assert posted again any       *)
(* number of times, before the claim itself even, unless the reserve       *)
(* cannot pay it.  An assert that was disproved before its claim came has  *)
(* no window: that claim waits for the node or for another assert.         *)
AssertedClaimsEnd == \A c \in Claim :
    fate[c] = "open" /\ asserts[c].posted /\ ~asserts[c].disproven
        ~> fate[c] # "open" \/ total_sats < Sats[c]
=============================================================================
