CONSTANTS
    c1 = c1  c2 = c2  c3 = c3  m1 = m1
    Calls = {c1, c2}
    HookCalls = {}
    Impatient = {c1}
    Incoming = {}
    IdSpace = 2
    ReplyKinds <- Kinds
    MaxStrays = 1
    HasHook = FALSE
    WillClose = FALSE
    MayStall = FALSE
    NoCall = NoCall  Reader = Reader  Closer = Closer  Hook = Hook
SPECIFICATION Spec
INVARIANTS NoFalseSuccess WaiterClosedOnce NoSpuriousEnd
PROPERTIES ImplementsContract
CHECK_DEADLOCK FALSE
