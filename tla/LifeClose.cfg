CONSTANTS
    MaxDials = 2
    Options <- DialOnly
    MayGiveUp = FALSE
    WillClose = TRUE
SPECIFICATION FairSpec
PROPERTIES CloseTerminates
CHECK_DEADLOCK FALSE
