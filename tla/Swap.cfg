\* Concurrent requests, lost answers, retries, restarts of either process.
SPECIFICATION Spec
CHECK_DEADLOCK FALSE
CONSTANTS
    s1 = s1 s2 = s2 s3 = s3
    k1 = k1 k2 = k2
    a1 = a1
    Session = {s1, s2, s3}
    Coin = {k1, k2}
    Anchor = {a1}
    CoinSats <- Value
    Price = {2, 4}
    Amount = {2}
    FeeChange = {0, 2}
    MSAT_PER_BTC = 8
    UNIT = 1
    BPS = 10000
    SERVICE_BPS = 2500
    FIXED_SATS = 1
    MAX_SIZE_SATS = 8
    DUST_FLOOR_SATS = 2
    PRICE_DEV_BOUND_BPS = 100
    QUOTE_VALIDITY_S = 0
    FEE_BUDGET_SATS = 1
    HEADROOM_SATS = 2
    MaxClock = 1
    MaxWalletLives = 2
SYMMETRY Interchangeable
INVARIANT SwapTypeOK OneQuotePerCoin SignedOnce SettledAsQuoted
