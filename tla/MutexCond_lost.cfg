SPECIFICATION Spec
CONSTANTS
  Routines = {main, a}
  Loop = loop
  Main = main
  Mutexes = {m}
  Conds = {}
  StaticMutexes = {m}
  TimedConds = {}
  MaxCopies = 0
  NoMutex = none
INVARIANT NoLostWakeup
CHECK_DEADLOCK FALSE
