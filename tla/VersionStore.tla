---------------------------- MODULE VersionStore ----------------------------
(***************************************************************************)
(* What scripts may rely on when they save objects, without rows,          *)
(* statements and transactions: each object has one whole version, which a *)
(* save replaces by its own in one step, and a crash, or the loss of what  *)
(* is not written yet, brings back what was written last.  Nothing is      *)
(* promised of an object while it is saved, and after a save of it failed  *)
(* or met another save, until one ends well that met none.                 *)
(***************************************************************************)
EXTENDS Naturals

CONSTANTS Objects, Unknown

VARIABLES
  last,       \* versions are numbered as their saves begin
  seen,       \* the version of each object that a load finds, 0 for none
  written     \* and that is found after a crash

vars == <<last, seen, written>>

Init ==
  /\ last = 0
  /\ seen = [o \in Objects |-> 0] /\ written = seen

\* A save begins; those it meets come to nothing in particular, and so does it.
Begin(o) ==
  /\ last' = last + 1
  /\ \E met \in SUBSET {p \in Objects : p = o \/ seen[p] = Unknown} :
       /\ seen' = [p \in Objects |-> IF p \in met \cup {o} THEN Unknown ELSE seen[p]]
       /\ written' = [p \in Objects |-> IF p \in met THEN Unknown ELSE written[p]]

\* A save fails, alone or with all that is not written.
Fail(o) ==
  /\ seen[o] = Unknown /\ written' = [written EXCEPT ![o] = Unknown]
  /\ seen' \in {seen, written'} /\ UNCHANGED last

\* The end of a save that met no other: the last one that has begun.
Ends(o) == seen[o] = Unknown /\ seen' = [seen EXCEPT ![o] = last] /\ last' = last

\* It writes all that is seen, or is refused to.
Commit(o) == Ends(o) /\ written' = seen'
Refuse(o) == Ends(o) /\ written' = written

\* Other saves write what is seen of the rest as well.
Flush == written' = seen /\ UNCHANGED <<last, seen>>

\* What is not written is lost, in a crash or otherwise.
Lose == seen' = written /\ UNCHANGED <<last, written>>

Next ==
  \/ \E o \in Objects : Begin(o) \/ Fail(o) \/ Commit(o) \/ Refuse(o)
  \/ Flush \/ Lose

Spec == Init /\ [][Next]_vars
=============================================================================
