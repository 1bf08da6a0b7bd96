\* Two workers, the main thread and one more caller, three live tasks.
SPECIFICATION FairSpec
CONSTANTS
  Workers = {w1, w2}
  Owner = main
  Callers = {c1}
  Blocks = {b1, b2, b3}
  Prios = {0, 1}
  None = None
INVARIANTS Inv NoIdleWorker
PROPERTIES ImplementsService BacklogExecuted StopJoins
\* A destroyed pool stops for good.
CHECK_DEADLOCK FALSE
