CONSTANTS
    Msgs <- CoreMsgs
    Resent <- NoMsgs
    Instants = {200}
    MaxOffsets = 3
    MaxCrashes = 1
    MaxLostSends = 1
    MaxLakeRows = 2
SPECIFICATION Spec
INVARIANTS
    TypeOK
    RollupsMatchFacts
    KeysHold
    NothingDropped
    LakeCoversWarehouse
    AcceptedOrRejected
PROPERTIES
    ReplayAddsNothing
    ImplementsIntake
CHECK_DEADLOCK FALSE
