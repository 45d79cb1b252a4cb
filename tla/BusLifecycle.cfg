\* One update fits the ring, thread creation may fail, the bus shuts down.
SPECIFICATION FairSpec
CONSTANTS
  Fds = {fd1, fd2}
  NoFd = NoFd
  Capacity = 1
  Window = 4
  MaxSends = 2
  MaxStimuli = 2
  CreateFails = TRUE
INVARIANT FreedStaysFree
PROPERTY ShutdownEnds
CHECK_DEADLOCK FALSE
