SPECIFICATION Spec
CONSTANTS
  Threads = {w, p, q}
  Pushers = {w, p}
  Poppers = {w, q}
  Items = {i1, i2, i3, i4, i5}
  NULL = null
SYMMETRY Symmetry
INVARIANTS TypeOK LockOrder TakenOnceInOrder QueueUnlessMiscounted
CHECK_DEADLOCK FALSE
