SPECIFICATION FairSpec
CONSTANTS
  Threads = {t1, t2, t3}
  MaxProcesses = 2
  NoThread = none
INVARIANTS TypeOK OneEnvironment WholeIfLocked
PROPERTY EveryCallReturns
