SPECIFICATION FairSpec
CONSTANTS
  MaxStimuli = 6
INVARIANTS StoppedIsOpen OneWriter
PROPERTY CallsReturn
CHECK_DEADLOCK FALSE
