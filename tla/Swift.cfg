CONSTANTS
    c1 = c1  c2 = c2  m1 = m1
    Calls = {c1, c2}
    PeerCalls = {m1}
    MaxConnects = 3
SPECIFICATION Spec
INVARIANTS
    CallbackOnce
    NobodyForgotten
    CleanReads
CHECK_DEADLOCK FALSE
