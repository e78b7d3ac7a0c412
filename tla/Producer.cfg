CONSTANTS
    TOWERS <- TwoTowers
    BUNDLE_PRICES <- TwoBundles
    SEEDED_TOWERS = {"T"}
    SEEDED_BUNDLES = {"DATA_1GB"}
    INT_MAX = 1000000000
    BIGINT_MAX = 2000000000
    Msisdns = {1, 2}
    InitialSubscribers = 1
    MaxSends = 3
    MaxRuns = 2
    MaxCopies = 2
SPECIFICATION FairSpec
INVARIANTS
    TypeOK
    OnePersonPerRun
    UnknownExplained
    NothingLeftBehind
    GeneratedAccepted
    CorruptRefused
    StreamAgreesWithContracts
    AcceptedRowsFit
    AcceptedRowsPassSuites
PROPERTIES
    ShutsDown
CHECK_DEADLOCK FALSE
