CONSTANTS
    Records <- DlqRecords
    MaxOffsets = 3
    MaxCrashes = 1
SPECIFICATION FairSpec
INVARIANTS
    TypeOK
    RollupMatchesRecords
    RejectionsStoredOnce
    NoRejectionLost
PROPERTIES
    FirstCopyStays
    Processed
CHECK_DEADLOCK FALSE
