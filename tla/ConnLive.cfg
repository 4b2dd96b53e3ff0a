CONSTANTS
    c1 = c1  c2 = c2  c3 = c3  m1 = m1
    Calls = {c1, c2}
    HookCalls = {}
    Impatient = {c1}
    Incoming = {}
    IdSpace = 2
    ReplyKinds <- Kinds
    MaxStrays = 0
    HasHook = FALSE
    WillClose = TRUE
    MayStall = TRUE
    NoCall = NoCall  Reader = Reader  Closer = Closer  Hook = Hook
SPECIFICATION FairSpec
PROPERTIES ReadLoopExits PendingCallsReleased ImpatientCallsReturn
CHECK_DEADLOCK FALSE
