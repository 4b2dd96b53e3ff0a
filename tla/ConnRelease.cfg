CONSTANTS
    c1 = c1  c2 = c2  c3 = c3  m1 = m1
    Calls = {c1}
    HookCalls = {}
    Impatient = {}
    Incoming = {}
    IdSpace = 1
    ReplyKinds <- OnlyResults
    MaxStrays = 0
    HasHook = FALSE
    WillClose = FALSE
    MayStall = FALSE
    NoCall = NoCall  Reader = Reader  Closer = Closer  Hook = Hook
SPECIFICATION Spec
INVARIANTS ReleaseNeverPanics
CHECK_DEADLOCK FALSE
