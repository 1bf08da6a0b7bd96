\* Two workers, two clients, a job and two commands, in three settings.
CONSTANTS
  Workers = {w1, w2}
  Clients = {c1, c2}
  Jobs = {j1}
  MaxCmds = 2
  Settings <- All
  None = None
SPECIFICATION FairSpec
INVARIANTS Inv FaultWindows NobodyForgotten
PROPERTIES CommandsObeyed WorkDone
\* The server ends, and it rests when nobody sends.
CHECK_DEADLOCK FALSE
