\* Four settings, from orderly quits to everything at once.
CONSTANTS
  w1 = w1
  w2 = w2
  c1 = c1
  c2 = c2
  c3 = c3
  Workers = {w1, w2}
  Clients = {c1, c2, c3}
  Fds = {1, 2, 3}
  None = None
  MaxTasks = 2
  Settings <- All
SPECIFICATION FairSpec
INVARIANTS Inv SerialInput NeverForgotten FreedInTime
PROPERTIES Leaves
\* The server rests when nobody sends.
CHECK_DEADLOCK FALSE
