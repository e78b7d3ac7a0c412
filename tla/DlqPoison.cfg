CONSTANTS
    Records <- PoisonRecords
    MaxOffsets = 2
    MaxCrashes = 0
SPECIFICATION FairSpec
PROPERTIES
    ParseFailuresQueryable
CHECK_DEADLOCK FALSE
