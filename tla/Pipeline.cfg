CONSTANTS
    Msgs <- FailingMsgs
    Resent <- NoMsgs
    Instants = {0, 200}
    MaxOffsets = 2
    MaxCrashes = 0
    MaxLostSends = 0
    MaxLakeRows = 1
    Payments <- NoMsgs
    MaxRedelivered = 3
SPECIFICATION Spec
INVARIANTS
    TypeOK
    EndToEnd
CHECK_DEADLOCK FALSE
