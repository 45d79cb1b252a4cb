SPECIFICATION GpsSpec
CONSTANTS
  Threads = {t1, t2}
  Rcvids = {m1, m2}
  Contexts = {c1}
  NoContext = NoContext
  NoThread = NoThread
  MaxReplies = 2
  FastAttempts = 2
  MaxGeneration = 4
  MaxStimuli = 2
  Faulty = TRUE
  EagerClients = FALSE
INVARIANT EpochAccounted
PROPERTIES FreshTriggerBegins EpochAdvances AsksAgain
