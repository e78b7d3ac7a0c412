CONSTANTS
    TOWERS <- TwoTowers
    BUNDLE_PRICES <- TwoBundles
    SEEDED_TOWERS = {"T"}
    SEEDED_BUNDLES = {"DATA_1GB"}
    INT_MAX = 1000000000
    BIGINT_MAX = 2000000000
    Msisdns = {1, 2, 3}
    InitialSubscribers = 2
    MaxSends = 4
    MaxRuns = 2
    MaxCopies = 1
SPECIFICATION Spec
INVARIANTS
    MsisdnUnique
CHECK_DEADLOCK FALSE
