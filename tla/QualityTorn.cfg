CONSTANTS
    Msgs <- SoundMsgs
    Resent <- NoMsgs
    Instants = {200}
    MaxOffsets = 2
    MaxCrashes = 0
    MaxLostSends = 0
    MaxLakeRows = 1
SPECIFICATION CSpec
INVARIANTS
    SuitesPass
CHECK_DEADLOCK FALSE
