\* Two members, a dealer that starts over, one tick, one aggregator.
SPECIFICATION Spec
CHECK_DEADLOCK FALSE
CONSTANTS
    s1 = s1 s2 = s2 t2 = t2
    N = 2
    T = 2
    Seed = {s1, s2, t2}
    Seeds <- DealtWith
    MaxDeals <- Twice
    Tick = {900}
    Price = {3}
    Quorums <- Both
    Aggregator = {"a1"}
SYMMETRY EitherSeed
INVARIANT CohortTypeOK SharesFitKeys AgreedSharesVerify
