SPECIFICATION Spec
CONSTANTS
    t1 = t1
    t2 = t2
    o1 = o1
    o2 = o2
    None = None
    Threads <- MCThreads
    Objects <- MCObjects
    MaxChildren = 2
    MaxSaves = 3
SYMMETRY Symmetry
INVARIANTS Inv Durable Whole LoadsWhole
CHECK_DEADLOCK FALSE
