SPECIFICATION UpFairSpec
CONSTANTS
  Fds = {fd1, fd2}
  NoFd = NoFd
  Capacity = 2
  Window = 4
  MaxSends = 2
  MaxStimuli = 2
  CreateFails = FALSE
INVARIANT FollowsLatest
PROPERTIES WriterClosesItsOwn LatestArrives
CHECK_DEADLOCK FALSE
