\* Fair keeper: every pending claim ends, paused and vetoed ones too.
SPECIFICATION FairSpec
CHECK_DEADLOCK FALSE
CONSTANTS
    i1 = i1 i2 = i2 o1 = o1 d1 = d1 d2 = d2 a1 = a1 a2 = a2
    r1 = r1 r1b = r1b r2 = r2 c1 = c1 c2 = c2 m1 = m1 m2 = m2 m3 = m3
    DepositSats <- MCDepositSats
    DepositCommittee <- MCDepositCommittee
    AnchorAtoms <- MCAnchorAtoms
    AnchorOperator <- MCAnchorOperator
    RecordAnchor <- MCRecordAnchor
    PPM = 100
    SCALE = 12
    Issuer = {i1}
    Operator = {o1}
    Deposit = {d1}
    Anchor = {a1, a2}
    LockRecord = {r1, r2}
    Claim = {c1, c2}
    Member = {m2, m3}
    Committees <- OneCommittee
    Sats = 8
    Atoms = 2
    MaxU64 = 8
    Prices = {12}
    MintAtoms = {4}
    Bonds = {}
    Expiries = {0, 1}
    MaxHeight = 2
PROPERTY ClaimsResolve
