----------------------------- MODULE MCThreadPool -----------------------------
(* Model checking of ThreadPool.  There is no symmetry: the runs check     *)
(* liveness.                                                               *)
EXTENDS ThreadPool
=============================================================================
