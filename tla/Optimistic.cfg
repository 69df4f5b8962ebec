\* Two claims racing assert, disprove, withdrawal, payout and reclaim.
SPECIFICATION FairSpec
CHECK_DEADLOCK FALSE
CONSTANTS
    c1 = c1 c2 = c2 lin1 = lin1 lin2 = lin2 fake = fake
    Claim = {c1, c2}
    Member = {}
    Committees = {}
    Sats <- MCSats
    Value = {lin1, lin2, fake}
    Genuine = {lin1, lin2}
    Deposits = {2}
    CHALLENGE_WINDOW = 2
    MaxHeight = 4
    MaxSats = 5
INVARIANTS OptimisticTypeOK SlashedIsNotPaid
PROPERTIES KeepsLedger AssertedClaimsEnd
