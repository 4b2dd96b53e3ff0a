CONSTANTS
    Capacity = 6
    MinRead = 3
    MaxLength = 11
    Lengths <- Sizes
    MaxBytes = 20
SPECIFICATION FairSpec
INVARIANTS MessagesIntact BufferBounded NothingLeftBehind
PROPERTIES MessagesGetThrough ImplementsStream
CHECK_DEADLOCK FALSE
