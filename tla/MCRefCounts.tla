----------------------------- MODULE MCRefCounts -----------------------------
EXTENDS RefCounts, TLC

CONSTANTS s1, s2, n1, n2, u1, u2, u3

MCScripts == {s1, s2}
MCNatives == {n1, n2}
MCUsers == {u1, u2, u3}

Symmetry == Permutations(MCScripts) \cup Permutations(MCNatives)
              \cup Permutations(MCUsers)
=============================================================================
