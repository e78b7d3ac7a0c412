CONSTANTS
    Msgs <- LostMsgs
    Resent <- NoMsgs
    Instants = {200}
    MaxOffsets = 2
    MaxCrashes = 0
    MaxLostSends = 1
    MaxLakeRows = 2
SPECIFICATION Spec
INVARIANTS
    RejectionsReachTopic
CHECK_DEADLOCK FALSE
