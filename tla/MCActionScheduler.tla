-------------------------- MODULE MCActionScheduler --------------------------
(* Small instances of ActionScheduler for TLC.                             *)
EXTENDS ActionScheduler

(* A part of a second, and a second.                                       *)
MCDelays == {<<0, 1>>, <<1, 0>>}
=============================================================================
