-------------------------- MODULE Disputes_proofs --------------------------
(***************************************************************************)
(* Theorems about disputes: of claims on the optimistic reserve, for any   *)
(* claims, amounts, values and window; and of prices, for any threshold,   *)
(* set, honest prices and stakes.                                          *)
(*                                                                         *)
(* Neither typing nor SlashedIsNotPaid is inductive.  The custody          *)
(* subtracts a record's sats unchecked, so typing needs the reservation to *)
(* be the total of the open records; and what keeps a slashed claim from   *)
(* being paid is not the mark on its assert, which a new assert wipes, but *)
(* that its record left the custody and the claim is accepted once.        *)
(***************************************************************************)
EXTENDS OptimisticReserve, EvidenceRuns, FiniteTotals

OpenSats == [c \in Claim |-> IF fate[c] = "open" THEN Sats[c] ELSE 0]

(* The custody has a record of exactly the open claims. *)
RecordsAreOpen == \A c \in Claim :
    IF fate[c] = "open"
    THEN entries[c].status = "open" /\ entries[c].amount_sats = Sats[c]
    ELSE entries[c].status = "absent"

BookInv ==
    /\ OptimisticTypeOK
    /\ backend = "mock"
    /\ RecordsAreOpen
    /\ IsTotal(reserved_sats, OpenSats, Claim)
    /\ \A c \in slashed : fate[c] = "released"

-----------------------------------------------------------------------------
LEMMA SatsAreNat == \A c \in Claim : Sats[c] \in Nat
BY OptimisticAssumption

LEMMA HeightsAreNat == MaxHeight \in Nat /\ MaxSats \in Nat
BY OptimisticAssumption

LEMMA CustodySatsAreNat ==
  ASSUME BookInv
  PROVE  reserved_sats \in Nat /\ total_sats \in Nat
BY DEF BookInv, OptimisticTypeOK, CustodyTypeOK

LEMMA InitBooks == OptimisticInit => BookInv
<1> SUFFICES ASSUME OptimisticInit PROVE BookInv
  OBVIOUS
<1>1. OptimisticTypeOK
  <2>1. NotAsserted \in AssertRecord /\ 0 \in 0 .. MaxHeight
    BY HeightsAreNat DEF NotAsserted, AssertRecord
  <2>2. total_sats \in Nat
    BY HeightsAreNat DEF OptimisticInit
  <2>3. Absent \in Entry
    BY DEF Absent, Entry
  <2> QED BY <2>1, <2>2, <2>3 DEF OptimisticInit, OptimisticTypeOK, CustodyTypeOK, Fates
<1>2. RecordsAreOpen
  BY DEF OptimisticInit, RecordsAreOpen, Absent
<1>3. OpenSats = [c \in Claim |-> 0]
  BY DEF OptimisticInit, OpenSats
<1>4. IsTotal(reserved_sats, OpenSats, Claim)
  BY <1>3, CustodyAssumption, ZeroHasTotalZero DEF OptimisticInit
<1> QED BY <1>1, <1>2, <1>4 DEF OptimisticInit, BookInv

LEMMA OpenSatsType ==
  ASSUME BookInv
  PROVE  OpenSats \in [Claim -> Nat]
BY OptimisticAssumption DEF OpenSats

(* An open claim's sats are reserved. *)
LEMMA OpenIsReserved ==
  ASSUME BookInv, NEW c \in Claim, fate[c] = "open"
  PROVE  Sats[c] <= reserved_sats
<1>1. /\ OpenSats \in [Claim -> Nat] /\ OpenSats[c] = Sats[c]
      /\ IsTotal(reserved_sats, OpenSats, Claim) /\ reserved_sats \in Int
  BY OpenSatsType DEF BookInv, OpenSats, OptimisticTypeOK, CustodyTypeOK
<1> QED BY <1>1, TotalCoversEach

(* Steps that leave the custody and the claims alone. *)
LEMMA QuietPreserves ==
  ASSUME BookInv, SetHeight \/ \E c \in Claim : SubmitAssert(c)
  PROVE  BookInv'
<1> USE DEF custodyVars
<1>1. UNCHANGED <<custodyVars, committed, fate, slashed>>
  BY DEF SetHeight, SubmitAssert
<1>2. OptimisticTypeOK'
  <2>1. CASE SetHeight
    BY <2>1 DEF BookInv, OptimisticTypeOK, CustodyTypeOK, SetHeight
  <2>2. ASSUME NEW c \in Claim, SubmitAssert(c)
        PROVE  OptimisticTypeOK'
    <3>1. asserts' \in [Claim -> AssertRecord]
      BY <2>2 DEF BookInv, OptimisticTypeOK, SubmitAssert, AssertRecord
    <3> QED BY <2>2, <3>1, <1>1
            DEF BookInv, OptimisticTypeOK, CustodyTypeOK, SubmitAssert
  <2> QED BY <2>1, <2>2
<1>3. OpenSats' = OpenSats
  BY <1>1 DEF OpenSats
<1> QED BY <1>1, <1>2, <1>3 DEF BookInv, RecordsAreOpen

LEMMA CreditPreserves ==
  ASSUME BookInv, CreditDeposit
  PROVE  BookInv'
<1> USE DEF optVars
<1>1. PICK s \in Deposits : Credit(s)
  BY DEF CreditDeposit
<1>2. total_sats' \in Nat
  BY <1>1, OptimisticAssumption
     DEF BookInv, OptimisticTypeOK, CustodyTypeOK, Credit
<1>3. UNCHANGED <<now, asserts, committed, fate, slashed, backend,
                  reserved_sats, committee, paused, entries>>
  BY <1>1 DEF CreditDeposit, Credit
<1>4. OptimisticTypeOK'
  BY <1>2, <1>3 DEF BookInv, OptimisticTypeOK, CustodyTypeOK
<1>5. OpenSats' = OpenSats
  BY <1>3 DEF OpenSats
<1> QED BY <1>3, <1>4, <1>5 DEF BookInv, RecordsAreOpen

(* The books after one claim changed its fate. *)
LEMMA TotalFollows ==
  ASSUME BookInv, NEW c \in Claim, NEW end \in Fates, Became(c, end),
         reserved_sats' = reserved_sats
             + ((IF end = "open" THEN Sats[c] ELSE 0) - OpenSats[c])
  PROVE  IsTotal(reserved_sats', OpenSats', Claim)
<1> DEFINE x == IF end = "open" THEN Sats[c] ELSE 0
<1>1. OpenSats' = [OpenSats EXCEPT ![c] = x]
  <2>1. fate' = [fate EXCEPT ![c] = end] /\ fate \in [Claim -> Fates]
    BY DEF Became, BookInv, OptimisticTypeOK
  <2> QED BY <2>1 DEF OpenSats
<1>2. /\ OpenSats \in [Claim -> Int] /\ reserved_sats \in Int /\ x \in Int
      /\ IsTotal(reserved_sats, OpenSats, Claim)
  BY OpenSatsType, OptimisticAssumption
     DEF BookInv, OptimisticTypeOK, CustodyTypeOK
<1>3. IsTotal(reserved_sats + (x - OpenSats[c]),
              [OpenSats EXCEPT ![c] = x], Claim)
  <2> HIDE DEF x
  <2> QED BY <1>2, TotalMoves
<1> QED BY <1>1, <1>3

LEMMA SubmitPreserves ==
  ASSUME BookInv, NEW c \in Claim, Submit(c)
  PROVE  BookInv'
<1>1. /\ fate[c] = "unknown" /\ fate' = [fate EXCEPT ![c] = "open"]
      /\ reserved_sats' = reserved_sats + Sats[c]
      /\ entries' = [entries EXCEPT ![c] = Opened(Sats[c])]
      /\ UNCHANGED <<now, asserts, committed, slashed, backend,
                     total_sats, committee, paused>>
  BY DEF Submit, SubmitClaim, Became
<1>2. OptimisticTypeOK'
  <2>1. entries' \in [Claim -> Entry]
    BY <1>1, OptimisticAssumption
       DEF BookInv, OptimisticTypeOK, CustodyTypeOK, Entry, Opened
  <2>2. fate' \in [Claim -> Fates] /\ reserved_sats' \in Nat
    BY <1>1, SatsAreNat, CustodySatsAreNat DEF BookInv, OptimisticTypeOK, Fates
  <2> QED BY <1>1, <2>1, <2>2 DEF BookInv, OptimisticTypeOK, CustodyTypeOK
<1>3. RecordsAreOpen'
  BY <1>1 DEF BookInv, RecordsAreOpen, OptimisticTypeOK, CustodyTypeOK, Opened
<1>4. IsTotal(reserved_sats', OpenSats', Claim)
  <2>1. OpenSats[c] = 0 /\ "open" \in Fates
    BY <1>1 DEF OpenSats, Fates
  <2>2. reserved_sats' = reserved_sats + (Sats[c] - OpenSats[c])
    BY <1>1, <2>1, SatsAreNat, CustodySatsAreNat
  <2> QED BY <1>1, <2>1, <2>2, TotalFollows DEF Became
<1>5. \A d \in slashed' : fate'[d] = "released"
  BY <1>1 DEF BookInv, OptimisticTypeOK
<1> QED BY <1>1, <1>2, <1>3, <1>4, <1>5 DEF BookInv

(* What a payout and a freed reservation have in common: an open record    *)
(* leaves the custody for good, and its sats the reservation.              *)
Closes(c, end) ==
    /\ fate[c] = "open"
    /\ fate' = [fate EXCEPT ![c] = end]
    /\ entries' = [entries EXCEPT ![c] = Absent]
    /\ reserved_sats' = reserved_sats - Sats[c]
    /\ UNCHANGED <<now, committed, backend, committee, paused>>

LEMMA ClosePreserves ==
  ASSUME BookInv, NEW c \in Claim, NEW end \in {"paid", "released"},
         Closes(c, end), total_sats' \in Nat,
         asserts' \in [Claim -> AssertRecord],
         slashed' \subseteq slashed \cup
             (IF end = "released" THEN {c} ELSE {})
  PROVE  BookInv'
<1>1. OptimisticTypeOK'
  <2>1. reserved_sats' \in Nat
    BY OpenIsReserved, SatsAreNat, CustodySatsAreNat DEF Closes
  <2>2. entries' \in [Claim -> Entry]
    BY DEF BookInv, OptimisticTypeOK, CustodyTypeOK, Closes, Entry, Absent
  <2>3. fate' \in [Claim -> Fates]
    BY DEF BookInv, OptimisticTypeOK, Closes, Fates
  <2> QED BY <2>1, <2>2, <2>3
          DEF BookInv, OptimisticTypeOK, CustodyTypeOK, Closes
<1>2. RecordsAreOpen'
  BY DEF BookInv, RecordsAreOpen, OptimisticTypeOK, CustodyTypeOK, Closes, Absent
<1>3. IsTotal(reserved_sats', OpenSats', Claim)
  <2>1. OpenSats[c] = Sats[c] /\ end \in Fates /\ end # "open"
    BY DEF OpenSats, Fates, Closes
  <2>2. reserved_sats' = reserved_sats + (0 - OpenSats[c])
    BY <2>1, SatsAreNat, CustodySatsAreNat DEF Closes
  <2> QED BY <2>1, <2>2, TotalFollows DEF Became, Closes
<1>4. \A d \in slashed' : fate'[d] = "released"
  BY DEF BookInv, OptimisticTypeOK, Closes
<1> QED BY <1>1, <1>2, <1>3, <1>4 DEF BookInv, Closes

LEMMA PayCloses ==
  ASSUME BookInv, NEW c \in Claim, FinalizeWithdraw(c) \/ FinalizeClaim(c)
  PROVE  /\ Closes(c, "paid")
         /\ Sats[c] <= total_sats
         /\ total_sats' = total_sats - Sats[c]
         /\ UNCHANGED <<asserts, slashed>>
<1>1. /\ PayClaim(c, {}) /\ Became(c, "paid")
      /\ UNCHANGED <<now, asserts, committed, slashed>>
  BY DEF FinalizeWithdraw, FinalizeClaim
<1>2. Approved(entries[c], {}) = entries[c] /\ backend = "mock"
  BY DEF BookInv, Approved
<1>3. /\ entries[c].status = "open"
      /\ entries[c].amount_sats <= total_sats
      /\ total_sats' = total_sats - entries[c].amount_sats
      /\ reserved_sats' = reserved_sats - entries[c].amount_sats
      /\ entries' = [entries EXCEPT ![c] = Absent]
      /\ UNCHANGED <<backend, committee, paused>>
  BY <1>1, <1>2 DEF PayClaim, Payable
<1>4. fate[c] = "open" /\ entries[c].amount_sats = Sats[c]
  BY <1>3 DEF BookInv, RecordsAreOpen
<1> QED BY <1>1, <1>3, <1>4 DEF Closes, Became

LEMMA ReclaimCloses ==
  ASSUME BookInv, NEW c \in Claim, ReclaimStale(c), Became(c, "released"),
         UNCHANGED <<now, committed>>
  PROVE  Closes(c, "released") /\ total_sats' = total_sats
<1>1. fate[c] = "open" /\ entries[c].amount_sats = Sats[c]
  BY DEF BookInv, RecordsAreOpen, ReclaimStale
<1> QED BY <1>1 DEF Closes, Became, ReclaimStale

LEMMA DisproveMarks ==
  ASSUME BookInv, NEW c \in Claim, SubmitDisprove(c)
  PROVE  /\ asserts' \in [Claim -> AssertRecord]
         /\ slashed' \subseteq Claim
<1>1. asserts' \in [Claim -> AssertRecord]
  BY DEF BookInv, OptimisticTypeOK, SubmitDisprove, AssertRecord
<1>2. slashed' \subseteq Claim
  BY DEF BookInv, OptimisticTypeOK, SubmitDisprove, RecordDisproof
<1> QED BY <1>1, <1>2

(* A disproof that finds an open record closes it; one that finds none,    *)
(* before the claim or after its end, leaves the books as they are.        *)
LEMMA DisprovePreserves ==
  ASSUME BookInv, NEW c \in Claim, SubmitDisprove(c)
  PROVE  BookInv'
<1>1. CASE entries[c].status = "open"
  <2>1. /\ ReclaimStale(c) /\ Became(c, "released")
        /\ UNCHANGED <<now, committed>>
        /\ slashed' \subseteq slashed \cup {c}
    BY <1>1 DEF SubmitDisprove, RecordDisproof
  <2>2. Closes(c, "released") /\ total_sats' = total_sats
    BY <2>1, ReclaimCloses
  <2>3. total_sats' \in Nat
    BY <2>2 DEF BookInv, OptimisticTypeOK, CustodyTypeOK
  <2> QED BY <2>1, <2>2, <2>3, DisproveMarks, ClosePreserves
<1>2. CASE entries[c].status # "open"
  <2>1. /\ UNCHANGED <<custodyVars, fate, now, committed>>
        /\ fate[c] # "open"
    BY <1>2 DEF SubmitDisprove, BookInv, RecordsAreOpen
  <2>2. slashed' = slashed \cup (IF fate[c] = "released" THEN {c} ELSE {})
    BY <2>1 DEF SubmitDisprove, RecordDisproof
  <2>3. OptimisticTypeOK'
    BY <2>1, DisproveMarks
       DEF BookInv, OptimisticTypeOK, CustodyTypeOK, custodyVars
  <2>4. OpenSats' = OpenSats
    BY <2>1 DEF OpenSats
  <2>5. \A d \in slashed' : fate'[d] = "released"
    BY <2>1, <2>2 DEF BookInv
  <2> QED BY <2>1, <2>3, <2>4, <2>5 DEF BookInv, RecordsAreOpen, custodyVars
<1> QED BY <1>1, <1>2

LEMMA StepKeepsBooks ==
  ASSUME BookInv, [OptimisticNext]_vars
  PROVE  BookInv'
<1>1. ASSUME NEW c \in Claim, FinalizeWithdraw(c) \/ FinalizeClaim(c)
      PROVE  BookInv'
  <2>1. /\ Closes(c, "paid") /\ UNCHANGED <<asserts, slashed>>
        /\ Sats[c] <= total_sats /\ total_sats' = total_sats - Sats[c]
    BY <1>1, PayCloses
  <2>2. /\ total_sats' \in Nat
        /\ asserts' \in [Claim -> AssertRecord]
        /\ slashed' \subseteq slashed
    BY <2>1, OptimisticAssumption
       DEF BookInv, OptimisticTypeOK, CustodyTypeOK
  <2> QED BY <2>1, <2>2, ClosePreserves
<1>2. ASSUME NEW c \in Claim, Reclaim(c)
      PROVE  BookInv'
  <2>1. Closes(c, "released") /\ total_sats' = total_sats
    BY <1>2, ReclaimCloses DEF Reclaim
  <2>2. /\ total_sats' \in Nat
        /\ asserts' \in [Claim -> AssertRecord]
        /\ slashed' \subseteq slashed \cup {c}
    BY <1>2, <2>1 DEF Reclaim, BookInv, OptimisticTypeOK, CustodyTypeOK
  <2> QED BY <2>1, <2>2, ClosePreserves
<1>3. CASE UNCHANGED vars
  <2>1. OpenSats' = OpenSats
    BY <1>3 DEF vars, optVars, OpenSats
  <2> QED BY <1>3, <2>1
          DEF vars, optVars, custodyVars, BookInv, RecordsAreOpen,
              OptimisticTypeOK, CustodyTypeOK
<1> QED BY <1>1, <1>2, <1>3, QuietPreserves, CreditPreserves, SubmitPreserves,
           DisprovePreserves DEF OptimisticNext

(* Types, the sign of the reservation included, and the custody's records  *)
(* in step with the fates, in every reachable state.                       *)
THEOREM BooksInvariant == OptimisticSpec => []BookInv
<1>1. BookInv /\ [OptimisticNext]_vars => BookInv'
  BY StepKeepsBooks
<1> QED BY <1>1, InitBooks, PTL DEF OptimisticSpec

(* Every reachable state of PlaygroundReserve is well typed: no            *)
(* interleaving of disproofs, reclaims and payouts takes a reservation     *)
(* below zero.                                                             *)
THEOREM OptimisticTypeCorrect == OptimisticSpec => []OptimisticTypeOK
BY BooksInvariant, PTL DEF BookInv

(* Whatever asserts, disproofs, withdrawals, payouts and reclaims come in  *)
(* whatever order, a claim that was disproved when the node had taken it   *)
(* in, and had not paid it, is never paid.                                 *)
THEOREM SlashedStaysUnpaid == OptimisticSpec => []SlashedIsNotPaid
<1>1. BookInv => SlashedIsNotPaid
  BY DEF BookInv, SlashedIsNotPaid
<1> QED BY <1>1, BooksInvariant, PTL

-----------------------------------------------------------------------------
(* Refinement: each step of the backend is a step of the plain ledger.     *)

LEMMA CloseIsLedgerClose ==
  ASSUME BookInv, NEW c \in Claim, NEW end \in {"paid", "released"},
         Closes(c, end)
  PROVE  Ledger!Close(c, end)
BY DEF Closes, Ledger!Close, BookInv, OptimisticTypeOK

LEMMA StepKeepsLedger ==
  ASSUME BookInv, [OptimisticNext]_vars
  PROVE  [Ledger!LedgerNext]_(Ledger!ledgerVars)
<1> USE DEF Ledger!ledgerVars
<1>1. CASE UNCHANGED <<custodyVars, fate>>
  BY <1>1 DEF custodyVars
<1>2. CASE CreditDeposit
  <2>1. PICK s \in Deposits : Credit(s)
    BY <1>2 DEF CreditDeposit
  <2>2. total_sats' >= total_sats /\ UNCHANGED <<reserved_sats, fate>>
    BY <1>2, <2>1, OptimisticAssumption
       DEF CreditDeposit, Credit, optVars, BookInv, OptimisticTypeOK,
           CustodyTypeOK
  <2> QED BY <2>2 DEF Ledger!LedgerNext, Ledger!Fund
<1>3. ASSUME NEW c \in Claim, Submit(c)
      PROVE  Ledger!Open(c)
  <2>1. /\ fate[c] = "unknown" /\ fate' = [fate EXCEPT ![c] = "open"]
        /\ reserved_sats' = reserved_sats + Sats[c]
        /\ total_sats' = total_sats /\ fate \in [Claim -> Fates]
    BY <1>3 DEF Submit, SubmitClaim, Became, BookInv, OptimisticTypeOK
  <2>2. fate'[c] = "open" /\ \A d \in Claim \ {c} : fate'[d] = fate[d]
    BY <2>1
  <2> QED BY <2>1, <2>2, OptimisticAssumption DEF Ledger!Open
<1>4. ASSUME NEW c \in Claim, FinalizeWithdraw(c) \/ FinalizeClaim(c)
      PROVE  Ledger!Pay(c)
  <2>1. /\ Closes(c, "paid") /\ Sats[c] <= total_sats
        /\ total_sats' = total_sats - Sats[c]
    BY <1>4, PayCloses
  <2>2. Ledger!Close(c, "paid")
    BY <2>1, CloseIsLedgerClose
  <2> QED BY <2>1, <2>2 DEF Ledger!Pay, Closes
<1>5. ASSUME NEW c \in Claim, ReclaimStale(c), Became(c, "released"),
             UNCHANGED <<now, committed>>
      PROVE  Ledger!Release(c)
  <2>1. Closes(c, "released") /\ total_sats' = total_sats
    BY <1>5, ReclaimCloses
  <2>2. Ledger!Close(c, "released")
    BY <2>1, CloseIsLedgerClose
  <2> QED BY <2>1, <2>2 DEF Ledger!Release
<1>6. ASSUME NEW c \in Claim, SubmitDisprove(c)
      PROVE  Ledger!Release(c) \/ UNCHANGED <<custodyVars, fate>>
  BY <1>5, <1>6 DEF SubmitDisprove
<1>7. ASSUME NEW c \in Claim, Reclaim(c)
      PROVE  Ledger!Release(c)
  BY <1>5, <1>7 DEF Reclaim
<1>8. ASSUME SetHeight \/ (\E c \in Claim : SubmitAssert(c)) \/ UNCHANGED vars
      PROVE  UNCHANGED <<custodyVars, fate>>
  BY <1>8 DEF SetHeight, SubmitAssert, vars, optVars, custodyVars
<1>9. ASSUME NEW c \in Claim,
             Submit(c) \/ SubmitDisprove(c) \/ FinalizeWithdraw(c)
               \/ FinalizeClaim(c) \/ Reclaim(c)
      PROVE  [Ledger!LedgerNext]_(Ledger!ledgerVars)
  <2>1. \/ Ledger!Open(c) \/ Ledger!Pay(c) \/ Ledger!Release(c)
        \/ UNCHANGED <<custodyVars, fate>>
    BY <1>3, <1>4, <1>6, <1>7, <1>9
  <2> QED BY <1>1, <2>1 DEF Ledger!LedgerNext
<1> QED BY <1>1, <1>2, <1>8, <1>9 DEF OptimisticNext

(* The optimistic reserve implements the plain claim ledger: asserts,      *)
(* windows and disproofs decide when a claim ends, never how often.        *)
THEOREM OptimisticKeepsLedger == OptimisticSpec => KeepsLedger
<1>1. OptimisticInit => Ledger!LedgerInit
  BY DEF OptimisticInit, Ledger!LedgerInit
<1>2. BookInv /\ [OptimisticNext]_vars => [Ledger!LedgerNext]_(Ledger!ledgerVars)
  BY StepKeepsLedger
<1> QED BY <1>1, <1>2, BooksInvariant, PTL
        DEF OptimisticSpec, KeepsLedger, Ledger!LedgerSpec

-----------------------------------------------------------------------------
(* The median of messages and the majority.                                *)
UpTo(messages, p) == {n \in DOMAIN messages : messages[n].price <= p}

LEMMA MedianIsReached ==
  ASSUME NEW k \in Nat \ {0}, NEW messages, DOMAIN messages = 1..k, Len(messages) = k,
         \A n \in 1..k : messages[n].price \in Nat
  PROVE  /\ MedianOf(messages) \in {messages[n].price : n \in 1..k}
         /\ Cardinality(UpTo(messages, MedianOf(messages))) > k \div 2
         /\ \A n \in 1..k : Cardinality(UpTo(messages, messages[n].price)) > k \div 2
                => MedianOf(messages) <= messages[n].price
<1> DEFINE D == 1..k
           prices == {messages[n].price : n \in D}
           crossing == {p \in prices : Cardinality(UpTo(messages, p)) > k \div 2}
<1>1. IsFiniteSet(D) /\ Cardinality(D) = k /\ D # {} /\ k \in Nat /\ k > k \div 2
  <2>1. IsFiniteSet(D) /\ Cardinality(D) = k
    BY FS_Interval
  <2>2. 1 \in D /\ k > k \div 2
    OBVIOUS
  <2> QED BY <2>1, <2>2
<1>2. /\ DOMAIN messages = D
      /\ \A n \in D : messages[n].price \in Nat
  OBVIOUS
<1> HIDE DEF D
<1>3. IsFiniteSet(prices) /\ prices # {} /\ prices \subseteq Int
  <2> DEFINE f == [n \in D |-> messages[n].price]
  <2>1. IsFiniteSet({f[n] : n \in D})
    <3> HIDE DEF f
    <3> QED BY <1>1, ImageIsFinite
  <2>2. {f[n] : n \in D} = prices
    OBVIOUS
  <2>3. prices # {} /\ prices \subseteq Int
    BY <1>1, <1>2
  <2> HIDE DEF f, prices
  <2> QED BY <2>1, <2>2, <2>3
<1>4. PICK top \in prices : \A y \in prices : y <= top
  BY <1>3, FiniteSetHasExtremes
<1>5. UpTo(messages, top) = D
  BY <1>2, <1>4 DEF UpTo
<1>6. crossing # {} /\ crossing \subseteq prices
  BY <1>1, <1>4, <1>5
<1>7. IsFiniteSet(crossing) /\ crossing \subseteq Int
  BY <1>3, <1>6, FS_Subset
<1>8. MedianOf(messages) = Min(crossing)
  BY <1>2 DEF MedianOf, UpTo
<1> HIDE DEF crossing
<1>9. Min(crossing) \in crossing /\ \A y \in crossing : Min(crossing) <= y
  BY <1>6, <1>7, MinAndMax
<1> QED BY <1>8, <1>9 DEF crossing, D

LEMMA MedianAmongMajority ==
  ASSUME NEW k \in Nat \ {0}, NEW messages, DOMAIN messages = 1..k, Len(messages) = k,
         \A n \in 1..k : messages[n].price \in Nat,
         NEW M \in SUBSET (1..k), 2 * Cardinality(M) > k
  PROVE  /\ \E n \in M : messages[n].price <= MedianOf(messages)
         /\ \E n \in M : MedianOf(messages) <= messages[n].price
<1> DEFINE D == 1..k
           median == MedianOf(messages)
<1>1. IsFiniteSet(D) /\ Cardinality(D) = k
  BY FS_Interval
<1>2. /\ DOMAIN messages = D /\ M \subseteq D
      /\ \A n \in D : messages[n].price \in Nat
  OBVIOUS
<1>3. /\ median \in Nat
      /\ Cardinality(UpTo(messages, median)) > k \div 2
      /\ \A n \in D : Cardinality(UpTo(messages, messages[n].price)) > k \div 2
            => median <= messages[n].price
  BY MedianIsReached
<1> HIDE DEF D, median
<1>4. /\ IsFiniteSet(M) /\ Cardinality(M) \in Nat
      /\ Cardinality(D \ M) = k - Cardinality(M) /\ IsFiniteSet(D \ M)
  <2>1. IsFiniteSet(M) /\ D \cap M = M
    BY <1>1, <1>2, FS_Subset
  <2>2. Cardinality(M) \in Nat
    BY <2>1, FS_CardinalityType
  <2>3. IsFiniteSet(D \ M) /\ Cardinality(D \ M) = Cardinality(D) - Cardinality(D \cap M)
    BY <1>1, FS_Difference
  <2> QED BY <1>1, <2>1, <2>2, <2>3
<1>5. k \div 2 \in Nat /\ 2 * (k \div 2) <= k /\ k <= 2 * (k \div 2) + 1
  OBVIOUS
<1>6. \E n \in M : messages[n].price <= median
  <2> SUFFICES ASSUME \A n \in M : ~(messages[n].price <= median) PROVE FALSE
    OBVIOUS
  <2>1. UpTo(messages, median) \subseteq D \ M
    BY <1>2 DEF UpTo
  <2>2. Cardinality(UpTo(messages, median)) <= k - Cardinality(M)
        /\ Cardinality(UpTo(messages, median)) \in Nat
    BY <1>4, <2>1, FS_Subset, FS_CardinalityType
  <2> QED BY <1>3, <1>4, <1>5, <2>2
<1>7. \E n \in M : median <= messages[n].price
  <2> DEFINE prices == {messages[n].price : n \in M}
  <2>1. M # {}
    BY <1>4, FS_EmptySet
  <2>2. IsFiniteSet(prices) /\ prices # {} /\ prices \subseteq Int
    <3> DEFINE f == [n \in M |-> messages[n].price]
    <3>1. IsFiniteSet({f[n] : n \in M})
      <4> HIDE DEF f
      <4> QED BY <1>4, ImageIsFinite
    <3>2. {f[n] : n \in M} = prices
      OBVIOUS
    <3>3. prices # {}
      BY <2>1
    <3>4. prices \subseteq Int
      BY <1>2
    <3> HIDE DEF f, prices
    <3> QED BY <3>1, <3>2, <3>3, <3>4
  <2>3. PICK top \in prices : \A y \in prices : y <= top
    BY <2>2, FiniteSetHasExtremes
  <2>4. PICK n \in M : top = messages[n].price
    BY <2>3
  <2>5. \A j \in M : messages[j].price <= messages[n].price
    BY <2>3, <2>4
  <2>6. M \subseteq UpTo(messages, messages[n].price)
        /\ UpTo(messages, messages[n].price) \subseteq D
    BY <1>2, <2>5 DEF UpTo
  <2>7. Cardinality(M) <= Cardinality(UpTo(messages, messages[n].price))
        /\ Cardinality(UpTo(messages, messages[n].price)) \in Nat
    BY <1>1, <2>6, FS_Subset, FS_CardinalityType
  <2>8. Cardinality(UpTo(messages, messages[n].price)) > k \div 2
    BY <1>4, <1>5, <2>7
  <2> QED BY <1>2, <1>3, <2>4, <2>8
<1> QED BY <1>6, <1>7 DEF median

-----------------------------------------------------------------------------
(* The messages of a task: the honest ones, then the lies.                 *)
Messages == [signer : Nat, price : Nat, epoch : Nat, ts : Nat]
Put(t) == HonestMessages(t) \o t.lies

LEMMA PutMessages ==
  ASSUME NEW t \in AggregateTasks
  PROVE  /\ Len(t.honest) \in Nat /\ Len(t.lies) \in Nat
         /\ DOMAIN t.honest = 1..Len(t.honest)
         /\ Put(t) \in Seq(Messages) /\ Len(Put(t)) = Len(t.honest) + Len(t.lies)
         /\ DOMAIN Put(t) = 1..Len(t.honest) + Len(t.lies)
         /\ \A n \in 1..Len(t.honest) : Put(t)[n].price = t.honest[n] /\ t.honest[n] \in Nat
         /\ \A n \in 1..Len(t.honest) + Len(t.lies) :
                n > Len(t.honest) => Put(t)[n] \in Lies
<1>1. t.honest \in Seq(Nat) /\ t.lies \in SeqOf(Lies, MaxLies)
  BY EvidenceAssumption DEF AggregateTasks
<1>2. PICK m \in 0..MaxLies : t.lies \in [1..m -> Lies]
  BY <1>1 DEF SeqOf
<1>3. t.lies \in Seq(Lies) /\ Lies \subseteq Messages
  BY <1>2, EvidenceAssumption DEF Messages
<1> DEFINE honest == t.honest
           lies == t.lies
           H == HonestMessages(t)
<1>4. /\ DOMAIN honest = 1..Len(honest) /\ Len(honest) \in Nat
      /\ \A n \in 1..Len(honest) : honest[n] \in Nat
  BY <1>1
<1>5. H = [n \in 1..Len(honest) |-> Message(n, honest[n])]
  BY <1>4 DEF HonestMessages
<1>6. \A n \in 1..Len(honest) : Message(n, honest[n]) \in Messages
                                /\ Message(n, honest[n]).price = honest[n]
  BY <1>4 DEF Message, Messages
<1> HIDE DEF honest, lies, H
<1>7. /\ H \in Seq(Messages) /\ Len(H) = Len(honest)
      /\ \A n \in 1..Len(honest) : H[n].price = honest[n]
  BY <1>4, <1>5, <1>6
<1>8. lies \in Seq(Messages) /\ lies \in Seq(Lies)
  BY <1>3 DEF lies
<1>9. /\ Len(lies) \in Nat
      /\ H \o lies \in Seq(Messages) /\ Len(H \o lies) = Len(honest) + Len(lies)
      /\ DOMAIN (H \o lies) = 1..Len(honest) + Len(lies)
  <2>1. Len(lies) \in Nat /\ H \o lies \in Seq(Messages) /\ Len(H \o lies) = Len(H) + Len(lies)
    BY <1>7, <1>8
  <2>2. DOMAIN (H \o lies) = 1..Len(H \o lies)
    BY <2>1
  <2> QED BY <1>7, <2>1, <2>2
<1>10. \A n \in 1..Len(honest) : (H \o lies)[n] = H[n]
  BY <1>4, <1>7, <1>8
<1>11. ASSUME NEW n \in 1..Len(honest) + Len(lies), n > Len(honest)
       PROVE  (H \o lies)[n] \in Lies
  <2>1. (H \o lies)[n] = lies[n - Len(honest)] /\ n - Len(honest) \in 1..Len(lies)
    BY <1>4, <1>7, <1>8, <1>9, <1>11
  <2> QED BY <1>8, <2>1
<1> QED BY <1>4, <1>7, <1>9, <1>10, <1>11 DEF honest, lies, H, Put

(* The median is near one of the first h messages, and between two.        *)
NearOne(M, h) ==
    \E n \in 1..h : Distance(M[n].price, MedianOf(M)) * 10000 <= MedianOf(M) * DevBps
BetweenTwo(M, h) ==
    /\ \E n \in 1..h : M[n].price <= MedianOf(M)
    /\ \E n \in 1..h : MedianOf(M) <= M[n].price

(* Of accepted messages fewer than a threshold are lies, so an inlier is   *)
(* honest; and the median is between two of the majority.                  *)
LEMMA AcceptedResistLies ==
  ASSUME NEW M \in Seq(Messages), NEW h \in Nat, h <= Len(M),
         \A n \in DOMAIN M : n > h => M[n] \in Lies,
         Acceptable(M, 1..SetSize, 7, 1000),
         Cardinality(Inliers(M, MedianOf(M))) >= Threshold
  PROVE  MedianOf(M) \in Nat /\ NearOne(M, h) /\ (2 * h > Len(M) => BetweenTwo(M, h))
<1>0. PICK k \in Nat : k = Len(M)
  OBVIOUS
<1>a. DOMAIN M = 1..k /\ h <= k /\ \A n \in 1..k : M[n] \in Messages
  BY <1>0
<1>b. /\ \A n \in 1..k : M[n].price \in Nat
      /\ \A n \in 1..k : n > h => M[n] \in Lies
  BY <1>a DEF Messages
<1> DEFINE v == MedianOf(M)
           I == Inliers(M, v)
           liars == {m.signer : m \in {l \in Lies : Plausible(l)}}
<1>1. \A n \in 1..k : Plausible(M[n]) /\ \A j \in 1..n - 1 : M[j].signer # M[n].signer
  BY <1>0, <1>a DEF Acceptable, Plausible
<1>2. k \in Nat \ {0} /\ Threshold \in Nat
  BY <1>0, PricesAssumption DEF Acceptable
<1>3. v \in Nat
  <2>1. v \in {M[n].price : n \in 1..k}
    BY <1>0, <1>a, <1>b, <1>2, MedianIsReached
  <2> HIDE DEF v
  <2> QED BY <1>b, <2>1
<1>4. ASSUME I \cap (1..h) = {} PROVE FALSE
  <2> DEFINE f == [n \in I |-> M[n].signer]
  <2>1. I \subseteq 1..k
    BY <1>a DEF Inliers
  <2> HIDE DEF I
  <2>2. \A n \in I : n \in 1..k /\ n > h
    BY <1>4, <2>1
  <2>3. \A n \in I : M[n].signer \in liars
    BY <1>1, <1>b, <2>2
  <2>4. \A n, j \in I : M[n].signer = M[j].signer => n = j
    <3> SUFFICES ASSUME NEW n \in I, NEW j \in I, M[n].signer = M[j].signer, n # j PROVE FALSE
      OBVIOUS
    <3>1. n \in 1..k /\ j \in 1..k
      BY <2>1
    <3>2. CASE j < n
      BY <1>1, <3>1, <3>2
    <3>3. CASE n < j
      BY <1>1, <3>1, <3>3
    <3> QED BY <3>1, <3>2, <3>3
  <2> HIDE DEF liars
  <2>5. f \in Injection(I, liars)
    BY <2>3, <2>4 DEF Injection, IsInjective
  <2>6. IsFiniteSet(liars)
    <3>1. liars \subseteq 1..SetSize
      BY DEF liars, Plausible
    <3>2. IsFiniteSet(1..SetSize)
      BY PricesAssumption, FS_Interval
    <3> QED BY <3>1, <3>2, FS_Subset
  <2> HIDE DEF f
  <2>7. Cardinality(I) <= Cardinality(liars) /\ IsFiniteSet(I)
    BY <2>5, <2>6, FS_Injection
  <2>8. Cardinality(I) \in Nat /\ Cardinality(liars) \in Nat
    BY <2>6, <2>7, FS_CardinalityType
  <2>9. Cardinality(liars) < Threshold
    BY EvidenceAssumption DEF liars
  <2>10. Cardinality(I) >= Threshold
    BY DEF I
  <2> QED BY <1>2, <2>7, <2>8, <2>9, <2>10
<1>5. \E n \in 1..h : Distance(M[n].price, v) * 10000 <= v * DevBps
  <2>1. PICK n \in I : n \in 1..h
    BY <1>4
  <2>2. Distance(M[n].price, v) * 10000 <= v * DevBps
    BY <2>1 DEF Inliers
  <2> QED BY <2>1, <2>2
<1>6. ASSUME 2 * h > k
      PROVE  (\E n \in 1..h : M[n].price <= v) /\ (\E n \in 1..h : v <= M[n].price)
  <2> DEFINE d == 1..h
  <2>1. Cardinality(d) = h
    <3>1. Cardinality(1..h) = IF 1 > h THEN 0 ELSE h - 1 + 1
      BY FS_Interval
    <3> QED BY <3>1
  <2>2. d \in SUBSET (1..k) /\ 2 * Cardinality(d) > k
    BY <1>6, <1>a, <2>1
  <2> HIDE DEF d, v
  <2>3. (\E n \in d : M[n].price <= MedianOf(M)) /\ (\E n \in d : MedianOf(M) <= M[n].price)
    BY <1>0, <1>a, <1>b, <1>2, <2>2, MedianAmongMajority
  <2> QED BY <2>3 DEF d, v
<1> QED BY <1>0, <1>3, <1>5, <1>6 DEF NearOne, BetweenTwo

(* A number between two of some is between the lowest and the highest.     *)
LEMMA BetweenExtremes ==
  ASSUME NEW S, IsFiniteSet(S), S \subseteq Int, NEW v \in Int,
         \E p \in S : p <= v, \E p \in S : v <= p
  PROVE  v \in Min(S)..Max(S)
<1>1. /\ Min(S) \in S /\ \A y \in S : Min(S) <= y
      /\ Max(S) \in S /\ \A y \in S : y <= Max(S)
  BY MinAndMax
<1>2. Min(S) \in Int /\ Max(S) \in Int
  BY <1>1
<1>3. Min(S) <= v
  <2>1. PICK p \in S : p <= v
    OBVIOUS
  <2> QED BY <1>1, <1>2, <2>1
<1>4. v <= Max(S)
  <2>1. PICK p \in S : v <= p
    OBVIOUS
  <2> QED BY <1>1, <1>2, <2>1
<1> QED BY <1>2, <1>3, <1>4

LEMMA AggregateResists ==
  ASSUME NEW t \in AggregateTasks, PerformAggregate(t) # NoPrice
  PROVE  /\ \E p \in ToSet(t.honest) :
                Distance(p, PerformAggregate(t)) * 10000 <= PerformAggregate(t) * DevBps
         /\ Len(t.honest) > Len(t.lies) =>
                PerformAggregate(t) \in Min(ToSet(t.honest))..Max(ToSet(t.honest))
<1> DEFINE M == Put(t)
<1>0. Len(t.honest) \in Nat /\ Len(t.lies) \in Nat
  BY PutMessages
<1>1. PICK h \in Nat : h = Len(t.honest)
  BY <1>0
<1>2. PICK l \in Nat : l = Len(t.lies)
  BY <1>0
<1> DEFINE k == h + l
<1>3. /\ PerformAggregate(t) = MedianOf(M) /\ Acceptable(M, 1..SetSize, 7, 1000)
      /\ Cardinality(Inliers(M, MedianOf(M))) >= Threshold
  BY DEF PerformAggregate, Aggregate, Put
<1>4. /\ M \in Seq(Messages) /\ Len(M) = k /\ DOMAIN M = 1..k
      /\ \A n \in 1..h : M[n].price = t.honest[n] /\ t.honest[n] \in Nat
      /\ \A n \in 1..k : n > h => M[n] \in Lies
      /\ DOMAIN t.honest = 1..h
  BY <1>1, <1>2, PutMessages
<1>5. \A n \in 1..k : M[n].price \in Nat
  <2> HIDE DEF M
  <2>1. \A n \in 1..k : M[n] \in Messages
    BY <1>4
  <2> QED BY <2>1 DEF Messages
<1>6. ToSet(t.honest) = {t.honest[n] : n \in 1..h}
  BY <1>4 DEF ToSet
<1> HIDE DEF M
<1>7. /\ MedianOf(M) \in Nat
      /\ \E n \in 1..h : Distance(M[n].price, MedianOf(M)) * 10000 <= MedianOf(M) * DevBps
      /\ 2 * h > k => /\ \E n \in 1..h : M[n].price <= MedianOf(M)
                      /\ \E n \in 1..h : MedianOf(M) <= M[n].price
  <2>1. k \in Nat /\ h <= k
    OBVIOUS
  <2>2. DOMAIN M = 1..k /\ Len(M) = k
    BY <1>4
  <2>3. \A n \in DOMAIN M : n > h => M[n] \in Lies
    BY <1>4
  <2> HIDE DEF k
  <2>4. h <= Len(M) /\ M \in Seq(Messages) /\ Len(M) = k
    BY <1>4, <2>1, <2>2
  <2>5. Acceptable(M, 1..SetSize, 7, 1000)
    BY <1>3
  <2>6. Cardinality(Inliers(M, MedianOf(M))) >= Threshold
    BY <1>3
  <2>7. M \in Seq(Messages) /\ h <= Len(M)
    BY <2>4
  <2>8. MedianOf(M) \in Nat /\ NearOne(M, h) /\ (2 * h > Len(M) => BetweenTwo(M, h))
    BY <2>3, <2>5, <2>6, <2>7, AcceptedResistLies
  <2> QED BY <2>4, <2>8 DEF NearOne, BetweenTwo
<1>8. \E p \in ToSet(t.honest) : Distance(p, MedianOf(M)) * 10000 <= MedianOf(M) * DevBps
  BY <1>4, <1>6, <1>7
<1>9. ASSUME Len(t.honest) > Len(t.lies)
      PROVE  MedianOf(M) \in Min(ToSet(t.honest))..Max(ToSet(t.honest))
  <2> DEFINE S == ToSet(t.honest)
  <2>0. h > l
    BY <1>1, <1>2, <1>9
  <2>1. 2 * h > k
    BY <2>0
  <2>2. (\E p \in S : p <= MedianOf(M)) /\ (\E p \in S : MedianOf(M) <= p)
    <3>1. PICK n \in 1..h : M[n].price <= MedianOf(M)
      BY <1>7, <2>1
    <3>2. PICK j \in 1..h : MedianOf(M) <= M[j].price
      BY <1>7, <2>1
    <3>3. M[n].price \in S /\ M[j].price \in S
      BY <1>4, <1>6
    <3> QED BY <3>1, <3>2, <3>3
  <2>3. S \subseteq Int
    BY <1>4, <1>6
  <2>4. IsFiniteSet(S)
    <3> DEFINE d == 1..h
    <3>1. IsFiniteSet(d)
      BY FS_Interval
    <3> HIDE DEF d
    <3>2. IsFiniteSet({t.honest[n] : n \in d})
      BY <3>1, ImageIsFinite
    <3> QED BY <1>6, <3>2 DEF d
  <2> HIDE DEF S
  <2>5. MedianOf(M) \in Int
    BY <1>7
  <2>6. MedianOf(M) \in Min(S)..Max(S)
    BY <2>2, <2>3, <2>4, <2>5, BetweenExtremes
  <2> QED BY <2>6 DEF S
<1> QED BY <1>3, <1>8, <1>9

-----------------------------------------------------------------------------
(* The stake behind reports.                                               *)
Stakes(r) == [n \in DOMAIN r |-> r[n].stake]

LEMMA StakeIsSum ==
  ASSUME NEW r, NEW T \in SUBSET DOMAIN r
  PROVE  StakeOf(r, T) = SumFunctionOnSet(Stakes(r), T)
<1> DEFINE f == Stakes(r)
           A(h) == h = [s \in SUBSET T |-> IF s = {} THEN 0
                                           ELSE LET x == CHOOSE x \in s : TRUE
                                                IN  f[x] + h[s \ {x}]]
           B(h) == h = [s \in SUBSET T |-> IF s = {} THEN 0
                                           ELSE LET x == CHOOSE x \in s : TRUE
                                                IN  r[x].stake + h[s \ {x}]]
<1>1. SumFunctionOnSet(f, T) = (CHOOSE h : A(h))[T]
  BY DEF SumFunctionOnSet, FoldFunctionOnSet, MapThenFoldSet
<1>2. StakeOf(r, T) = (CHOOSE h : B(h))[T]
  BY DEF StakeOf, FoldSet, MapThenFoldSet
<1>3. ASSUME NEW h PROVE A(h) <=> B(h)
  <2>1. ASSUME NEW s \in SUBSET T, s # {}
        PROVE  f[CHOOSE x \in s : TRUE] = r[CHOOSE x \in s : TRUE].stake
    <3>1. (CHOOSE x \in s : TRUE) \in s
      BY <2>1
    <3> QED BY <3>1 DEF Stakes
  <2> HIDE DEF f
  <2> QED BY <2>1
<1> HIDE DEF A, B
<1> QED BY <1>1, <1>2, <1>3

LEMMA StakeOfParts ==
  ASSUME NEW r, IsFiniteSet(DOMAIN r), \A n \in DOMAIN r : r[n].stake \in Nat,
         NEW T \in SUBSET DOMAIN r, NEW P \in SUBSET T
  PROVE  /\ StakeOf(r, P) \in Nat /\ StakeOf(r, T \ P) \in Nat
         /\ StakeOf(r, T) = StakeOf(r, P) + StakeOf(r, T \ P)
<1> DEFINE f == Stakes(r)
           R == T \ P
<1>1. \A S \in SUBSET DOMAIN r : \A n \in S : f[n] \in Nat
  BY DEF Stakes
<1>2. \A S \in SUBSET DOMAIN r : StakeOf(r, S) = SumFunctionOnSet(f, S)
  BY StakeIsSum
<1> HIDE DEF f
<1>3. ASSUME NEW S \in SUBSET DOMAIN r PROVE SumFunctionOnSet(f, S) \in Nat
  <2>1. IsFiniteSet(S) /\ \A n \in S : f[n] \in Nat /\ f[n] \in Int
    BY <1>1, FS_Subset
  <2>2. SumFunctionOnSet(f, S) \in Int /\ IsTotal(SumFunctionOnSet(f, S), f, S)
    BY <2>1, SumIsTotal
  <2> DEFINE h == [n \in S |-> f[n]]
  <2>3. h \in [S -> Nat] /\ \A n \in S : h[n] = f[n]
    BY <2>1
  <2> HIDE DEF h
  <2>4. \A n \in S : h[n] \in Int
    BY <2>1, <2>3
  <2>5. SumFunctionOnSet(h, S) = SumFunctionOnSet(f, S)
    BY <2>1, <2>3, SumAgrees
  <2>6. IsTotal(SumFunctionOnSet(f, S), h, S)
    BY <2>1, <2>4, <2>5, SumIsTotal
  <2> QED BY <2>2, <2>3, <2>6, TotalNotNegative
<1>4. P \cup R = T
  OBVIOUS
<1>5. /\ IsFiniteSet(P) /\ \A n \in P : f[n] \in Int
      /\ IsFiniteSet(R) /\ \A n \in R : f[n] \in Int
  <2>1. IsFiniteSet(P) /\ IsFiniteSet(R)
    BY FS_Subset
  <2> QED BY <1>1, <2>1
<1>6. SumFunctionOnSet(f, P \cup R) = SumFunctionOnSet(f, P) + SumFunctionOnSet(f, R)
  <2>1. P \cap R = {}
    OBVIOUS
  <2> HIDE DEF R
  <2> QED BY <1>5, <2>1, SumOfUnion
<1> HIDE DEF R
<1>7. R \in SUBSET DOMAIN r
  BY DEF R
<1> QED BY <1>2, <1>3, <1>4, <1>6, <1>7 DEF R

(* Liars with less than half of the stake leave the reference between two  *)
(* honest reports.                                                         *)
LEMMA ReferenceResists ==
  ASSUME NEW k \in Nat \ {0}, NEW r, DOMAIN r = 1..k,
         \A n \in 1..k : r[n].stake \in Nat /\ r[n].price \in Nat,
         NEW H \in SUBSET (1..k), 2 * StakeOf(r, (1..k) \ H) < StakeOf(r, 1..k),
         H # {}
  PROVE  /\ StakeWeightedMedian(r) \in Nat
         /\ \E n \in H : r[n].price <= StakeWeightedMedian(r)
         /\ \E n \in H : StakeWeightedMedian(r) <= r[n].price
<1> DEFINE D == DOMAIN r
           total == StakeOf(r, D)
           below(p) == {n \in D : r[n].price <= p}
           prices == {r[n].price : n \in D}
           crossing == {p \in prices : StakeOf(r, below(p)) >= (total + 1) \div 2}
           v == StakeWeightedMedian(r)
<1>1. IsFiniteSet(D) /\ DOMAIN r = D /\ H \subseteq D /\ D = 1..k
      /\ \A n \in D : r[n].stake \in Nat /\ r[n].price \in Nat
  <2>1. IsFiniteSet(1..k)
    BY FS_Interval
  <2> QED BY <2>1
<1>2. \A T \in SUBSET D : \A P \in SUBSET T :
        /\ StakeOf(r, P) \in Nat /\ StakeOf(r, T \ P) \in Nat
        /\ StakeOf(r, T) = StakeOf(r, P) + StakeOf(r, T \ P)
  <2> HIDE DEF D
  <2>1. IsFiniteSet(DOMAIN r) /\ \A n \in DOMAIN r : r[n].stake \in Nat
    BY <1>1
  <2>2. \A T \in SUBSET DOMAIN r : \A P \in SUBSET T :
          /\ StakeOf(r, P) \in Nat /\ StakeOf(r, T \ P) \in Nat
          /\ StakeOf(r, T) = StakeOf(r, P) + StakeOf(r, T \ P)
    BY <2>1, StakeOfParts
  <2> QED BY <1>1, <2>2
<1>3. total \in Nat /\ total > 0 /\ 2 * StakeOf(r, D \ H) < total /\ StakeOf(r, H) \in Nat
      /\ StakeOf(r, D \ H) \in Nat /\ total = StakeOf(r, H) + StakeOf(r, D \ H)
  <2> HIDE DEF D
  <2>3. H \in SUBSET D /\ D \in SUBSET D
    BY <1>1
  <2>1. /\ StakeOf(r, H) \in Nat /\ StakeOf(r, D \ H) \in Nat
        /\ total = StakeOf(r, H) + StakeOf(r, D \ H)
    BY <1>2, <2>3
  <2>2. 2 * StakeOf(r, D \ H) < total
    BY <1>1
  <2> QED BY <2>1, <2>2
<1>4. v = Min(crossing)
  <2>1. total # 0
    <3> HIDE DEF total
    <3> QED BY <1>3
  <2>2. v = IF total = 0 THEN NoPrice ELSE Min(crossing)
    BY DEF StakeWeightedMedian
  <2> HIDE DEF total, crossing, v
  <2> QED BY <2>1, <2>2
<1> DEFINE half == (total + 1) \div 2
<1>5. half \in Nat /\ 2 * half <= total + 1 /\ total <= 2 * half
  <2> HIDE DEF total
  <2> QED BY <1>3
<1>6. \E n \in H : r[n].price \in crossing
  <2> DEFINE P == {r[n].price : n \in H}
             f == [n \in H |-> r[n].price]
  <2>1. IsFiniteSet(H)
    BY <1>1, FS_Subset
  <2>2. IsFiniteSet(P)
    <3>1. {f[n] : n \in H} = P
      OBVIOUS
    <3> HIDE DEF f, P
    <3>2. IsFiniteSet({f[n] : n \in H})
      BY <2>1, ImageIsFinite
    <3> QED BY <3>1, <3>2
  <2>3. P # {}
    OBVIOUS
  <2>4. P \subseteq Int
    <3>1. \A n \in H : r[n].price \in Int
      BY <1>1
    <3> QED BY <3>1
  <2>5. PICK top \in P : \A y \in P : y <= top
    <3> HIDE DEF P
    <3> QED BY <2>2, <2>3, <2>4, FiniteSetHasExtremes
  <2>6. PICK n \in H : top = r[n].price
    BY <2>5
  <2>7. H \subseteq below(r[n].price) /\ below(r[n].price) \in SUBSET D
    BY <1>1, <2>5, <2>6
  <2>8. StakeOf(r, below(r[n].price)) = StakeOf(r, H) + StakeOf(r, below(r[n].price) \ H)
        /\ StakeOf(r, below(r[n].price) \ H) \in Nat
    <3> HIDE DEF below, D
    <3> QED BY <1>2, <2>7
  <2>9. StakeOf(r, below(r[n].price)) >= half
    <3> DEFINE a == StakeOf(r, H)
               b == StakeOf(r, D \ H)
               c == StakeOf(r, below(r[n].price) \ H)
               u == StakeOf(r, below(r[n].price))
    <3>1. /\ a \in Nat /\ b \in Nat /\ c \in Nat /\ u = a + c /\ total \in Nat
          /\ total = a + b /\ 2 * b < total
      BY <1>3, <2>8
    <3> HIDE DEF a, b, c, u, total, half
    <3>2. u >= half
      BY <1>5, <3>1
    <3> QED BY <3>2 DEF u
  <2> QED BY <1>1, <2>9
<1>7. IsFiniteSet(crossing) /\ crossing \subseteq Int /\ crossing # {} /\ crossing \subseteq Nat
  <2> DEFINE f == [n \in D |-> r[n].price]
  <2>1. {f[n] : n \in D} = prices
    OBVIOUS
  <2>2. IsFiniteSet(prices)
    <3> HIDE DEF f, D, prices
    <3> QED BY <1>1, <2>1, ImageIsFinite
  <2>3. prices \subseteq Nat
    BY <1>1
  <2>4. crossing \subseteq prices
    OBVIOUS
  <2> HIDE DEF prices, crossing
  <2>5. IsFiniteSet(crossing)
    BY <2>2, <2>4, FS_Subset
  <2>6. crossing # {}
    BY <1>6
  <2>7. crossing \subseteq Nat /\ crossing \subseteq Int
    BY <2>3, <2>4
  <2> QED BY <2>5, <2>6, <2>7
<1>8. v \in crossing /\ \A y \in crossing : v <= y
  <2> HIDE DEF crossing, v
  <2> QED BY <1>4, <1>7, MinAndMax
<1>9. \E n \in H : v <= r[n].price
  <2> HIDE DEF crossing, v
  <2> QED BY <1>6, <1>8
<1>10. \E n \in H : r[n].price <= v
  <2> SUFFICES ASSUME \A n \in H : ~(r[n].price <= v) PROVE FALSE
    OBVIOUS
  <2>1. below(v) \in SUBSET (D \ H) /\ D \ H \in SUBSET D
    BY <1>1
  <2>2. StakeOf(r, D \ H) = StakeOf(r, below(v)) + StakeOf(r, (D \ H) \ below(v))
        /\ StakeOf(r, (D \ H) \ below(v)) \in Nat /\ StakeOf(r, below(v)) \in Nat
    <3> HIDE DEF below, D, v
    <3> QED BY <1>2, <2>1
  <2>3. StakeOf(r, below(v)) >= half
    <3> HIDE DEF v
    <3> QED BY <1>8
  <2> DEFINE b == StakeOf(r, D \ H)
             c == StakeOf(r, (D \ H) \ below(v))
             u == StakeOf(r, below(v))
  <2>4. /\ b \in Nat /\ c \in Nat /\ u \in Nat /\ b = u + c /\ u >= half
        /\ total \in Nat /\ 2 * b < total
    BY <1>3, <2>2, <2>3
  <2> HIDE DEF b, c, u, total, half
  <2> QED BY <1>5, <2>4
<1> QED BY <1>7, <1>8, <1>9, <1>10

(* What the cohort signs of an assertion, and whose bond it takes.         *)
LEMMA AssertedResists ==
  ASSUME NEW t \in AssertedTasks,
         2 * StakeOf(t.reports, DOMAIN t.reports \ {1, 2}) < StakeOf(t.reports, DOMAIN t.reports)
  PROVE  LET honest == {t.reports[1].price, t.reports[2].price} IN
         /\ Reference(t) \in Min(honest)..Max(honest)
         /\ PerformAsserted(t).signs # NoPrice =>
                WithinBand(PerformAsserted(t).signs, Reference(t), DevBps)
         /\ PerformAsserted(t).slashed = "proposer" =>
                Distance(t.claims.price, Reference(t)) > Distance(t.claims.disputed, Reference(t))
<1> DEFINE r == t.reports
           R == Reference(t)
           honest == {r[1].price, r[2].price}
           c == t.claims
<1>1. /\ r \in Seq([price : Nat, stake : Nat]) /\ Len(r) >= 2
      /\ c \in [price : Nat, disputed : Nat \cup {NoPrice}, block : Nat]
  BY EvidenceAssumption DEF AssertedTasks
<1>2. PICK k \in Nat \ {0} : k = Len(r) /\ k >= 2 /\ DOMAIN r = 1..k
  BY <1>1
<1>3. \A n \in 1..k : r[n].stake \in Nat /\ r[n].price \in Nat
  <2> DEFINE S == [price : Nat, stake : Nat]
  <2>1. r \in Seq(S) /\ DOMAIN r = 1..k /\ Len(r) = k
    BY <1>1, <1>2
  <2>2. \A n \in 1..k : r[n] \in S
    <3> HIDE DEF r, S
    <3> QED BY <2>1
  <2> QED BY <2>2
<1>4. {1, 2} \in SUBSET (1..k)
  BY <1>2
<1>5. 2 * StakeOf(r, (1..k) \ {1, 2}) < StakeOf(r, 1..k)
  BY <1>2
<1> HIDE DEF r
<1>6. /\ StakeWeightedMedian(r) \in Nat
      /\ \E n \in {1, 2} : r[n].price <= StakeWeightedMedian(r)
      /\ \E n \in {1, 2} : StakeWeightedMedian(r) <= r[n].price
  <2> DEFINE H == {1, 2}
  <2>1. H # {} /\ H \in SUBSET (1..k) /\ 2 * StakeOf(r, (1..k) \ H) < StakeOf(r, 1..k)
    BY <1>4, <1>5
  <2> HIDE DEF H
  <2>2. /\ StakeWeightedMedian(r) \in Nat
        /\ \E n \in H : r[n].price <= StakeWeightedMedian(r)
        /\ \E n \in H : StakeWeightedMedian(r) <= r[n].price
    BY <1>2, <1>3, <2>1, ReferenceResists
  <2> QED BY <2>2 DEF H
<1>7. R = StakeWeightedMedian(r)
  BY DEF Reference, r
<1> HIDE DEF R
<1>8. R \in Min(honest)..Max(honest)
  <2>1. honest \subseteq Int /\ r[1].price \in Int /\ r[2].price \in Int
    BY <1>2, <1>3
  <2>2. IsFiniteSet(honest)
    <3>1. PICK a, b : a = r[1].price /\ b = r[2].price
      OBVIOUS
    <3>2. honest = {a} \cup {b}
      BY <3>1
    <3>3. IsFiniteSet({a})
      BY FS_Singleton
    <3> HIDE DEF honest
    <3> QED BY <3>2, <3>3, FS_AddElement
  <2>3. (\E p \in honest : p <= R) /\ (\E p \in honest : R <= p) /\ R \in Int
    BY <1>6, <1>7
  <2> HIDE DEF honest
  <2> QED BY <2>1, <2>2, <2>3, BetweenExtremes
<1>9. R # NoPrice
  BY <1>6, <1>7 DEF NoPrice
<1>10. PerformAsserted(t) =
         Resolve([price |-> c.price, at |-> 10, window |-> 3], c.disputed, R, DevBps, c.block)
  BY <1>9 DEF PerformAsserted, R
<1>11. c.price \in Nat /\ (c.disputed = NoPrice \/ c.disputed \in Nat)
  BY <1>1
<1> HIDE DEF c
<1>12. PerformAsserted(t).signs # NoPrice => WithinBand(PerformAsserted(t).signs, R, DevBps)
  <2> HIDE DEF honest
  <2> QED BY <1>10 DEF Resolve, Accepted, Disputed, Rejected, NoPrice
<1>13. ASSUME PerformAsserted(t).slashed = "proposer" PROVE Distance(c.price, R) > Distance(c.disputed, R)
  <2>1. c.disputed # NoPrice /\ ~Closer(R, c.price, c.disputed)
    BY <1>10, <1>13 DEF Resolve, Accepted, Disputed, Rejected
  <2>2. c.disputed \in Nat /\ R \in Nat
    BY <1>6, <1>7, <1>11, <2>1
  <2>3. Distance(c.price, R) \in Int /\ Distance(c.disputed, R) \in Int
    BY <1>11, <2>2 DEF Distance
  <2> QED BY <2>1, <2>3 DEF Closer
<1> QED BY <1>8, <1>12, <1>13 DEF honest, r, R, c

-----------------------------------------------------------------------------
(* A verdict on prices is that of its task.                                *)
PriceVerdicts ==
    /\ task.about = "aggregate" => task \in AggregateTasks
    /\ task.about = "asserted" => task \in AssertedTasks
    /\ verdict # <<>> /\ task.about = "aggregate" => verdict = <<PerformAggregate(task)>>
    /\ verdict # <<>> /\ task.about = "asserted" => verdict = <<PerformAsserted(task)>>

LEMMA PriceVerdictsAlways == Spec => []PriceVerdicts
<1>1. Init => PriceVerdicts
  <2> SUFFICES ASSUME Init PROVE PriceVerdicts
    OBVIOUS
  <2>1. verdict = <<>>
    BY DEF Init
  <2>2. CASE task \in AggregateTasks \/ task \in AssertedTasks
    BY <2>1, <2>2 DEF PriceVerdicts, AggregateTasks, AssertedTasks
  <2>3. CASE task \in SetTasks \/ task \in BatchTasks \/ task \in BlockTasks \/ task \in SumTasks
    <3>1. task.about \in {"set", "batch", "block", "sum"}
      BY <2>3 DEF SetTasks, BatchTasks, BlockTasks, SumTasks
    <3> QED BY <2>1, <3>1 DEF PriceVerdicts
  <2>4. CASE task \in DepositTasks \/ task \in PayoutTasks \/ task \in BuiltTasks
    <3>1. task.about \in {"deposit", "payout", "built"}
      BY <2>4 DEF DepositTasks, PayoutTasks, BuiltTasks
    <3> QED BY <2>1, <3>1 DEF PriceVerdicts
  <2>5. CASE task \in FileTasks \/ task \in AssembledTasks
    <3>1. task.about \in {"file", "assembled"}
      BY <2>5 DEF FileTasks, AssembledTasks
    <3> QED BY <2>1, <3>1 DEF PriceVerdicts
  <2> QED BY <2>2, <2>3, <2>4, <2>5 DEF Init
<1>2. PriceVerdicts /\ [Next]_<<task, verdict>> => PriceVerdicts'
  <2> SUFFICES ASSUME PriceVerdicts, [Next]_<<task, verdict>> PROVE PriceVerdicts'
    OBVIOUS
  <2>1. CASE UNCHANGED <<task, verdict>>
    BY <2>1 DEF PriceVerdicts
  <2>2. CASE RunAggregate
    BY <2>2 DEF PriceVerdicts, RunAggregate, Done
  <2>3. CASE RunAsserted
    BY <2>3 DEF PriceVerdicts, RunAsserted, Done
  <2>4. CASE RunSet \/ RunBatch \/ RunBlock \/ RunSum
    <3>1. task' = task /\ task.about \in {"set", "batch", "block", "sum"}
      BY <2>4 DEF RunSet, RunBatch, RunBlock, RunSum, Done
    <3> QED BY <3>1 DEF PriceVerdicts
  <2>5. ASSUME NEW facts, \/ RunDeposit(facts) \/ RunPayout(facts) \/ RunBuilt(facts)
                          \/ RunFile(facts) \/ RunAssembled(facts)
        PROVE  PriceVerdicts'
    <3>1. task' = task /\ task.about \in {"deposit", "payout", "built", "file", "assembled"}
      BY <2>5 DEF RunDeposit, RunPayout, RunBuilt, RunFile, RunAssembled, Done
    <3> QED BY <3>1 DEF PriceVerdicts
  <2> QED BY <2>1, <2>2, <2>3, <2>4, <2>5 DEF Next
<1> QED BY <1>1, <1>2, PTL DEF Spec

(* Whatever fewer than a threshold of signers say, and whatever less than  *)
(* half of the stake reports, the price stays with the honest.             *)
THEOREM PricesStayHonest == Spec => []PricesResistLiars
<1>1. PriceVerdicts => PricesResistLiars
  <2> SUFFICES ASSUME PriceVerdicts PROVE PricesResistLiars
    OBVIOUS
  <2>1. AggregateResistsLiars
    <3> SUFFICES ASSUME Finished({"aggregate"}), verdict[1] # NoPrice
                 PROVE  /\ \E p \in ToSet(task.honest) :
                                Distance(p, verdict[1]) * 10000 <= verdict[1] * DevBps
                        /\ Len(task.honest) > Len(task.lies)
                                => verdict[1] \in Min(ToSet(task.honest))..Max(ToSet(task.honest))
      BY DEF AggregateResistsLiars
    <3>1. task \in AggregateTasks /\ verdict[1] = PerformAggregate(task)
      BY DEF PriceVerdicts, Finished
    <3> QED BY <3>1, AggregateResists
  <2>2. AssertionResistsLiars
    <3> DEFINE honest == {task.reports[1].price, task.reports[2].price}
    <3> SUFFICES ASSUME Finished({"asserted"}),
                        2 * StakeOf(task.reports, DOMAIN task.reports \ {1, 2})
                            < StakeOf(task.reports, DOMAIN task.reports)
                 PROVE  /\ Reference(task) \in Min(honest)..Max(honest)
                        /\ verdict[1].signs # NoPrice =>
                             \E p \in Min(honest)..Max(honest) :
                                WithinBand(verdict[1].signs, p, DevBps)
                        /\ verdict[1].slashed = "proposer" =>
                             Distance(task.claims.price, Reference(task))
                                > Distance(task.claims.disputed, Reference(task))
      BY DEF AssertionResistsLiars
    <3>1. task \in AssertedTasks /\ verdict[1] = PerformAsserted(task)
      BY DEF PriceVerdicts, Finished
    <3> QED BY <3>1, AssertedResists
  <2> QED BY <2>1, <2>2 DEF PricesResistLiars
<1> QED BY <1>1, PriceVerdictsAlways, PTL
====
