SPECIFICATION Spec
CONSTANTS
  Routines = {main, a, b}
  Loop = loop
  Main = main
  Mutexes = {m}
  Conds = {c}
  StaticMutexes = {}
  TimedConds = {c}
  MaxCopies = 1
  NoMutex = none
SYMMETRY Symmetry
INVARIANTS SuspendedIsReachable ArmedOnlyWhileWaiting
CHECK_DEADLOCK FALSE
