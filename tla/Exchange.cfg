\* One redemption, blocks replaced up to two deep, three disconnected in all.
SPECIFICATION ExchangeSpec
CHECK_DEADLOCK FALSE
CONSTANTS
    FinalizeCsv = 1
    HtlcCsvs = {4}
    LockCsvs = {10, 11}
    RefundSafetyDelta = 7
    FundingWindow = 0
    Slack = 1
    MinDepth = 2
    MaxReorg = 2
    MaxTip = 14
    MaxForks = 3
    MaxStart = 0
INVARIANT ExchangeTypeOK OperatorIsWhole UserIsWhole ProvenPayoutStays
