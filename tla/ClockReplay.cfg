CONSTANTS
    Msgs <- ClockMsgs
    Resent <- NoMsgs
    Instants = {0, 200}
    MaxOffsets = 2
    MaxCrashes = 1
    MaxLostSends = 0
    MaxLakeRows = 2
SPECIFICATION Spec
INVARIANTS
    ReplaySameRejectionId
CHECK_DEADLOCK FALSE
