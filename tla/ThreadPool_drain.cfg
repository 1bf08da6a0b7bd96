\* One worker, the main thread and two live tasks.
SPECIFICATION Spec
CONSTANTS
  Workers = {w1}
  Owner = main
  Callers = {}
  Blocks = {b1, b2}
  Prios = {0, 1}
  None = None
INVARIANTS DrainReleases
\* A destroyed pool stops for good.
CHECK_DEADLOCK FALSE
