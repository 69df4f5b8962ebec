\* Live and fixed prices, two starts, torn files, stale readings.
SPECIFICATION Spec
CHECK_DEADLOCK FALSE
CONSTANTS
    v1 = v1 v2 = v2 v3 = v3
    Venue = {v1, v2, v3}
    PriceArgs <- LiveOrFixed
    Price = {1, 5}
    CADENCE = 2
    LEAD_TICKS = 1
    STALE_S = 1
    CATCH_UP_S = 2
    BAND_BPS = 2500
    BPS = 10000
    NB_DIGITS = 2
    MaxClock = 6
    MaxLives = 2
INVARIANT EquivocationNeedsRestart AnnouncedAhead
INVARIANT PriceBelongsToTick EvidenceIsExact
