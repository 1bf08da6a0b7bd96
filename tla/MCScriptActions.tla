--------------------------- MODULE MCScriptActions ---------------------------
EXTENDS ScriptActions, TLC

CONSTANTS w1, w2, c1, c2

MCThreads == {w1, w2}
MCCommands == {c1, c2}
MCActors == {1}

Symmetry == Permutations(MCThreads) \cup Permutations(MCCommands)
=============================================================================
