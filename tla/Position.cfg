SPECIFICATION Spec
CONSTANTS
    Byte = 16
    KeyLen = 2
    SigLen = 3
    TypeEvent = 130
    TypeAnnouncement = 132
    TypeAttestation = 200
    TypeDescriptor = 106
    MaxU64 = 5000
    UNIT = 10
    DUST_FLOOR_SATS = 20
    ANCHOR_DUST_SATS = 10
    TRIM_BPS = 500
    SATS_PER_BTC = 100
    MICRO_PER_USD = 1
    MaxU32 = 100000
    MaxSats = 100000
    PriceDigits = 4
    Sizes <- MCSizes
    MaxBytes = 3
    Attestations <- MCAttestations
    Announcements <- MCAnnouncements
    Altered = {0, 1, 3, 8, 13, 15}
    Manifests <- MCManifests
    QuotePrices = {9, 10, 50}
    QuoteAmounts = {20, 100, 101, 2000}
    Slots <- MCSlots
    Points <- MCPoints
    MaxPoints = 3
    Blends <- MCBlends
    ExternalPrices = {100}
    Positions <- MCPositions
    MaxPositions = 3
    Reserves = {0, 7, 20}
    Terms <- MCTerms
    Params <- MCParams
    Prices = {0, 1, 2, 3, 4, 5, 6, 7, 8, 11, 15, 16}
    Ages = {0, 1, 2, 3}
INVARIANTS
    EncodingsAreExact
    SettlementsBind
    BackedToMaturity
CHECK_DEADLOCK FALSE
