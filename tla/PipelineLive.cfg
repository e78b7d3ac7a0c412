CONSTANTS
    Msgs <- SoundMsgs
    Resent <- NoMsgs
    Instants = {200}
    MaxOffsets = 2
    MaxCrashes = 1
    MaxLostSends = 1
    MaxLakeRows = 1
    Payments <- OnePayment
    MaxRedelivered = 4
SPECIFICATION FairSpec
INVARIANTS
    OneRowPerMessage
    AcceptedOrReviewed
PROPERTIES
    Arrives
CHECK_DEADLOCK FALSE
