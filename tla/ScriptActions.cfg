SPECIFICATION ScriptSpec
CONSTANTS
    w1 = w1
    w2 = w2
    c1 = c1
    c2 = c2
    None = None
    Threads <- MCThreads
    InitCount = 1
    MaxCount = 2
    Commands <- MCCommands
    Actors <- MCActors
    Blocks = 2
SYMMETRY Symmetry
INVARIANTS ContextsSafe ScriptsSafe Balanced
CHECK_DEADLOCK FALSE
