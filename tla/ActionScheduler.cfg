\* Two actors, two actions, and seconds of two parts, the first one whole.
CONSTANTS
  Actors = {1, 2}
  Actions = {x1, x2}
  Callers = {c1}
  NS = 2
  Hour = 3
  Delays <- MCDelays
  None = None
SPECIFICATION FairSpec
INVARIANTS Inv SleepCovers
PROPERTIES NotEarly HandedOver StopReturns
