SPECIFICATION Spec
CONSTANTS
  Routines = {a, b}
  Loop = loop
  Fds = {s, g}
  NoRoutine = none
  Sockets = {s}
  Length = 2
  NoFd = nofd
SYMMETRY Symmetry
INVARIANTS TypeOK FramesAlive WokenOnce PollerNotLost PollCounts Registered HeldOnlyAsKnown
PROPERTIES ReadHasData ShortOnlyAfterTimeout ConnectTruthful
