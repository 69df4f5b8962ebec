\* Two issuers minting against one pool at four prices, one for each tier, and one redemption.
SPECIFICATION Spec
CHECK_DEADLOCK FALSE
CONSTANTS
    i1 = i1 i2 = i2 o1 = o1 d1 = d1 d2 = d2 a1 = a1 a2 = a2
    r1 = r1 r1b = r1b r2 = r2 c1 = c1 c2 = c2 m1 = m1 m2 = m2 m3 = m3
    DepositSats <- MCDepositSats
    DepositCommittee <- MCDepositCommittee
    AnchorAtoms <- MCAnchorAtoms
    AnchorOperator <- MCAnchorOperator
    RecordAnchor <- MCRecordAnchor
    PPM = 100
    SCALE = 12
    Issuer = {i1, i2}
    Operator = {o1}
    Deposit = {d1}
    Anchor = {a1}
    LockRecord = {r1}
    Claim = {c1}
    Member = {m2, m3}
    Committees <- OneCommittee
    Sats = 4
    Atoms = 4
    MaxU64 = 12
    Prices = {12, 14, 16, 48}
    MintAtoms = {2, 8}
    Bonds = {1, 2}
    Expiries = {0}
    MaxHeight = 0
SYMMETRY IssuerSymmetry
INVARIANT TierFresh
PROPERTY HealthyUntilPriceOrPayout
