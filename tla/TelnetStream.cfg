SPECIFICATION Spec
CONSTANTS
    w1 = w1
    None = None
    Worker = Worker
    Writers <- MCWriters
    Messages <- MCMessages
    MaxMessages = 2
    MaxWrites = 1
    ReadSize = 4
    MaxInput = 8
    NormalCapacity = 2
    ArgsCapacity = 3
    InflateCapacity = 5
INVARIANTS InputSound OutputSound
PROPERTIES Returns
CHECK_DEADLOCK FALSE
