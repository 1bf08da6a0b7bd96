SPECIFICATION Spec
CONSTANTS
    Letters <- MCLetters
    Inputs <- MCInputs
    Strings <- MCStrings
    Limits <- MCLimits
    MaxText = 3
    MaxSessions = 2
INVARIANTS Inv Faithful 
CHECK_DEADLOCK FALSE
