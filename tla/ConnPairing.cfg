CONSTANTS
    c1 = c1  c2 = c2  c3 = c3  m1 = m1
    Calls = {c1, c2, c3}
    HookCalls = {c1}
    Impatient = {c1}
    Incoming = {m1}
    IdSpace = 2
    ReplyKinds <- OnlyResults
    MaxStrays = 0
    HasHook = TRUE
    WillClose = TRUE
    MayStall = FALSE
    NoCall = NoCall  Reader = Reader  Closer = Closer  Hook = Hook
SPECIFICATION Spec
INVARIANTS HookGoesFirst RepliesMatch LeakOnlyOnTimeout
CHECK_DEADLOCK FALSE
