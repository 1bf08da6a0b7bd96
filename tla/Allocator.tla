------------------------------ MODULE Allocator ------------------------------
(***************************************************************************)
(* What the users of a pool of fixed-size elements rely on: an element is  *)
(* handed out to one user at a time, and keeps what its user has written   *)
(* until that user gives it back.  What a fresh element holds is open.     *)
(***************************************************************************)
VARIABLES
  owned,        \* the elements handed out
  content       \* what each of them holds

vars == <<owned, content>>

Init == owned = {} /\ content = [c \in {} |-> 0]

\* A request is met with an element nobody has.
Alloc ==
  /\ \E c \in owned' \ owned : owned' = owned \cup {c}
  /\ DOMAIN content' = owned'
  /\ \A c \in owned : content'[c] = content[c]

\* A user writes to an element of its own.
Write ==
  /\ owned' = owned
  /\ DOMAIN content' = owned
  /\ \E c \in owned : \A d \in owned \ {c} : content'[d] = content[d]

Free ==
  /\ \E c \in owned : owned' = owned \ {c}
  /\ DOMAIN content' = owned'
  /\ \A c \in owned' : content'[c] = content[c]

Next == Alloc \/ Write \/ Free

Spec == Init /\ [][Next]_vars
=============================================================================
