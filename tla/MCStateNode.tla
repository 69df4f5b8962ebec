----------------------------- MODULE MCStateNode -----------------------------
(***************************************************************************)
(* Instances of the state node for TLC.  SCALE is 12 and PPM 100, so at    *)
(* price 12 a sat covers an atom, at 48 four, and a ratio is a percentage. *)
(* Each .cfg picks the sets; the functions below give them values.         *)
(***************************************************************************)
EXTENDS NodeProperties, TLC

CONSTANTS i1, i2, o1,      \* issuers, operator
          d1, d2,          \* deposits
          a1, a2,          \* lock outputs
          r1, r1b, r2,     \* lock records: r1 and r1b both describe a1
          c1, c2,          \* claims
          m1, m2, m3,      \* committee members
          Sats, Atoms      \* value of a deposit; SatUSD in a lock output

MCDepositSats == [d \in Deposit |-> Sats]

TwoOfTwo == [members |-> {m1, m2}, threshold |-> 2]

(* The committee the deposits pay; m2 sits in both. *)
OneOfTwo == [members |-> {m2, m3}, threshold |-> 1]

OneCommittee == {OneOfTwo}

BothCommittees == {TwoOfTwo, OneOfTwo}

MCDepositCommittee == [d \in Deposit |-> OneOfTwo]

MCAnchorAtoms == [a \in Anchor |-> Atoms]

MCAnchorOperator == [a \in Anchor |-> o1]

MCRecordAnchor == [l \in LockRecord |-> IF l = r2 THEN a2 ELSE a1]

ClaimSymmetry == Permutations(Claim)

IssuerSymmetry == Permutations(Issuer) \cup Permutations(Deposit)
=============================================================================
