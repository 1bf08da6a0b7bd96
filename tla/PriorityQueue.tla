---------------------------- MODULE PriorityQueue ----------------------------
(***************************************************************************)
(* What a priority queue promises: each extraction returns an entry with   *)
(* the least key there is, and each entry put in comes out once.  Which    *)
(* one comes out first of those with equal keys is open.                   *)
(***************************************************************************)
EXTENDS Integers

VARIABLES
  entries,      \* the entries in the queue, each with a key
  out           \* what the last extraction returned

vars == <<entries, out>>

Least(S) == {e \in S : \A f \in S : e.key <= f.key}

Init == entries = {} /\ out = {}

Insert ==
  /\ \E e \in entries' \ entries : entries' = entries \cup {e}
  /\ out' = {}

Extract ==
  /\ \E e \in Least(entries) : entries' = entries \ {e} /\ out' = {e}

ExtractNothing == entries = {} /\ out' = {} /\ UNCHANGED entries

Next == Insert \/ Extract \/ ExtractNothing

Spec == Init /\ [][Next]_vars
=============================================================================
