CONSTANTS
    a1 = a1  a2 = a2  b1 = b1
    Calls = {a1, a2, b1}
    Caller <- MCCaller
    Served = {a2}
    Impatient = {a2}
    Pieces = 2
    Capacity = 1
    MaxPlaced = 2
    MaxTroubles = 1
    MayClose = {1}
    MayBreak = TRUE
SPECIFICATION FairSpec
INVARIANTS
    WholeMessages
PROPERTIES
    ImplementsRemoteCall
    CallsReturn
    OnlyTheWindowStrands
    EndsTogether
CHECK_DEADLOCK FALSE
