CONSTANTS
    MaxDials = 2
    MaxCalls = 1
    Options <- DialAndHook
    MayGiveUp = FALSE
    WillClose = TRUE
SPECIFICATION SFairSpec
INVARIANTS
    RepliesComeHome
PROPERTIES
    PeersAreAnswered
CHECK_DEADLOCK FALSE
