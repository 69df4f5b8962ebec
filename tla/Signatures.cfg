\* Keys, attestations and pre-signed settlements in a group of 127 elements.
SPECIFICATION Spec
CHECK_DEADLOCK FALSE
CONSTANTS
    Q = 127
    Width = 7
    N = 3
    T = 2
    NbDigits = 3
    Hash <- Scatter
    Dealings <- DealtBy
    Ticks = {1, 2, 3}
    Prices = {0, 5, 9}
    Quorums <- TwoOrThree
    Lengths = {1, 2, 3}
    Parties <- Pairs
    Messages = {4, 21}
INVARIANT CohortSignsAsOne ConflictRevealsKey AttestationOpensItsBucket
