CONSTANTS
    Msgs <- RefusedMsgs
    Resent <- ResentMsgs
    Instants = {200}
    MaxOffsets = 3
    MaxCrashes = 0
    MaxLostSends = 0
    MaxLakeRows = 1
SPECIFICATION Spec
INVARIANTS
    CommittedWhole
CHECK_DEADLOCK FALSE
