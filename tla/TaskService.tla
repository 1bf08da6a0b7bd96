----------------------------- MODULE TaskService -----------------------------
(***************************************************************************)
(* What the thread pool promises its callers, without mutex, condition     *)
(* variable or memory: each accepted task is executed at most once, by one *)
(* worker, the most urgent first; nothing starts once the service is       *)
(* closed; and only then are accepted tasks dropped.                       *)
(***************************************************************************)
EXTENDS Integers

CONSTANTS Workers, Tasks, Prios, None

VARIABLES
  open,       \* whether tasks are still started
  pending,    \* accepted and not started
  prio,       \* the priority of each pending task
  exec        \* what each worker executes

vars == <<open, pending, prio, exec>>

Executing == {exec[w] : w \in Workers} \ {None}

Init ==
  /\ open = TRUE
  /\ pending = {}
  /\ prio = [b \in Tasks |-> None]
  /\ exec = [w \in Workers |-> None]

Accept(b, p) ==
  /\ b \notin pending \cup Executing
  /\ pending' = pending \cup {b}
  /\ prio' = [prio EXCEPT ![b] = p]
  /\ UNCHANGED <<open, exec>>

Start(w, b) ==
  /\ open
  /\ exec[w] = None
  /\ b \in pending
  /\ \A c \in pending : prio[b] <= prio[c]
  /\ pending' = pending \ {b}
  /\ prio' = [prio EXCEPT ![b] = None]
  /\ exec' = [exec EXCEPT ![w] = b]
  /\ UNCHANGED open

Finish(w) ==
  /\ exec[w] # None
  /\ exec' = [exec EXCEPT ![w] = None]
  /\ UNCHANGED <<open, pending, prio>>

Close ==
  /\ open
  /\ open' = FALSE
  /\ UNCHANGED <<pending, prio, exec>>

Drop(b) ==
  /\ ~open
  /\ Executing = {}
  /\ b \in pending
  /\ pending' = pending \ {b}
  /\ prio' = [prio EXCEPT ![b] = None]
  /\ UNCHANGED <<open, exec>>

Next ==
  \/ \E b \in Tasks, p \in Prios : Accept(b, p)
  \/ \E w \in Workers, b \in Tasks : Start(w, b)
  \/ \E w \in Workers : Finish(w)
  \/ Close
  \/ \E b \in Tasks : Drop(b)

Spec == Init /\ [][Next]_vars
=============================================================================
