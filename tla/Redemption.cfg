\* Two lock outputs with three records, two claims, rotating committees.
SPECIFICATION Spec
CHECK_DEADLOCK FALSE
CONSTANTS
    i1 = i1 i2 = i2 o1 = o1 d1 = d1 d2 = d2 a1 = a1 a2 = a2
    r1 = r1 r1b = r1b r2 = r2 c1 = c1 c2 = c2 m1 = m1 m2 = m2 m3 = m3
    DepositSats <- MCDepositSats
    DepositCommittee <- MCDepositCommittee
    AnchorAtoms <- MCAnchorAtoms
    AnchorOperator <- MCAnchorOperator
    RecordAnchor <- MCRecordAnchor
    PPM = 100
    SCALE = 12
    Issuer = {i1}
    Operator = {o1}
    Deposit = {d1}
    Anchor = {a1, a2}
    LockRecord = {r1, r1b, r2}
    Claim = {c1, c2}
    Member = {m1, m2, m3}
    Committees <- BothCommittees
    Sats = 8
    Atoms = 2
    MaxU64 = 8
    Prices = {3, 12}
    MintAtoms = {4}
    Bonds = {}
    Expiries = {0}
    MaxHeight = 1
SYMMETRY ClaimSymmetry
INVARIANT TypeOK CustodyLockstep ReserveConservation
INVARIANT ApprovalsAreCurrent NullifierMatchesConsumed SupplyConservation
PROPERTY PayoutRule
PROPERTY ImplementsLedger
