----------------------------- MODULE MCAllocPool -----------------------------
(* Model checking of AllocPool.                                            *)
EXTENDS AllocPool
=============================================================================
