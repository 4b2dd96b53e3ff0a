CONSTANTS
    MaxDials = 2
    Options <- AllOptions
    MayGiveUp = TRUE
    WillClose = TRUE
    Delays <- MCDelays
SPECIFICATION BFairSpec
INVARIANTS
    OneInCharge
    LoopOwnsSocket
    PanicCauses
    WaitsInRange
    GrowthKept
PROPERTIES
    CloseReaps
    ReadyFires
CHECK_DEADLOCK FALSE
