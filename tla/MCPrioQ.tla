------------------------------- MODULE MCPrioQ -------------------------------
(* Model checking of PrioQ.                                                *)
EXTENDS PrioQ

\* The heap never looks at what its nodes carry.
Symmetry == Permutations(Items)
=============================================================================
