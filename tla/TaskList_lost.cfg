SPECIFICATION Spec
CONSTANTS
  Threads = {w, p}
  Pushers = {w, p}
  Poppers = {w}
  Items = {i1, i2, i3, i4}
  NULL = null
SYMMETRY Symmetry
INVARIANT QueueIntact
CHECK_DEADLOCK FALSE
