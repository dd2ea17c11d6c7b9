SPECIFICATION FairSpec
CONSTANTS
  Routines = {main, a, b}
  Loop = loop
  Main = main
  Mutexes = {m, n}
  Conds = {c}
  StaticMutexes = {m}
  TimedConds = {}
  MaxCopies = 0
  NoMutex = none
INVARIANTS TypeOK AtMostOnePlace SuspendedIsReachable BlockedWhereListed HeldAsCounted
PROPERTIES ReadyRuns ImplementsCoroutines
CHECK_DEADLOCK FALSE
