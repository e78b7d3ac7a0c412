CONSTANTS
    Msgs <- DimMsgs
    Resent <- NoMsgs
    Instants = {0, 200}
    MaxOffsets = 2
    MaxCrashes = 1
    MaxLostSends = 0
    MaxLakeRows = 2
SPECIFICATION Spec
INVARIANTS
    RejectionsReproduced
PROPERTIES
    CommittedRowsStay
    TowerStatusNeverOlder
CHECK_DEADLOCK FALSE
