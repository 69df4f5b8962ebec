----------------------------- MODULE ClaimLedger -----------------------------
(***************************************************************************)
(* What the reserve promises about reimbursement claims, whoever keeps the *)
(* books: a claim is opened once for an amount, promising that much of the *)
(* reserve, and is then either paid out of the funds or released, once and *)
(* for good.  How a claim is authorised is not said here.                  *)
(***************************************************************************)
EXTENDS Naturals

CONSTANT Claim

VARIABLES funds,      \* sats held
          promised,   \* sats promised to open claims
          phase,      \* [Claim -> phase of the claim]
          amount      \* [Claim -> sats the claim is for]

ledgerVars == <<funds, promised, phase, amount>>

LedgerInit ==
    /\ funds \in Nat
    /\ promised = 0
    /\ phase = [c \in Claim |-> "unknown"]
    /\ amount = [c \in Claim |-> 0]

Fund ==
    /\ funds' >= funds
    /\ UNCHANGED <<promised, phase, amount>>

Open(c) ==
    /\ phase[c] = "unknown"
    /\ phase' = [phase EXCEPT ![c] = "open"]
    /\ amount' \in [Claim -> Nat]
    /\ \A d \in Claim \ {c} : amount'[d] = amount[d]
    /\ promised' = promised + amount'[c]
    /\ UNCHANGED funds

Close(c, end) ==
    /\ phase[c] = "open"
    /\ phase' = [phase EXCEPT ![c] = end]
    /\ promised' = promised - amount[c]
    /\ UNCHANGED amount

Pay(c) ==
    /\ Close(c, "paid")
    /\ amount[c] <= funds
    /\ funds' = funds - amount[c]

Release(c) ==
    /\ Close(c, "released")
    /\ UNCHANGED funds

LedgerNext == Fund \/ \E c \in Claim : Open(c) \/ Pay(c) \/ Release(c)

LedgerSpec == LedgerInit /\ [][LedgerNext]_ledgerVars
=============================================================================
