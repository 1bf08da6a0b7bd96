SPECIFICATION Spec
CONSTANTS
    s1 = s1
    s2 = s2
    n1 = n1
    n2 = n2
    u1 = u1
    u2 = u2
    u3 = u3
    Scripts <- MCScripts
    Natives <- MCNatives
    Users <- MCUsers
SYMMETRY Symmetry
INVARIANTS ProxySafe FreedOnce
CHECK_DEADLOCK FALSE
