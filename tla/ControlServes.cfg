SPECIFICATION FairSpec
CONSTANTS
  Receivers = {r1}
  NoReceiver = NoReceiver
  MaxStates = 1
  ZoomLimit = 1
  MaxStimuli = 2
  InOrder = TRUE
  Faulty = TRUE
INVARIANTS CommandsFit InflightExact LatestRequestWins
PROPERTIES WalksAcknowledged PendingIsServed
CHECK_DEADLOCK FALSE
