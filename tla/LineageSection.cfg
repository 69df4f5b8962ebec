\* Every fetched bundle of an accepted claim raises the lineage alert.
SPECIFICATION Spec
CHECK_DEADLOCK FALSE
CONSTANTS
    c1 = c1 burn1 = burn1
    Claim = {c1}
    Batch <- MCBatch
    Sound = {burn1}
INVARIANT HonestClaimsAreClean
