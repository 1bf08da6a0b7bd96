CONSTANTS
  Keys = {0, 1, 2}
  Items = {a, b, c, d, e, f, g}
  InitLen = 1
  MaxLen = 7
  WordMod = 64
SPECIFICATION HeapSpec
SYMMETRY Symmetry
INVARIANTS HeapSound
PROPERTIES ImplementsPriorityQueue
