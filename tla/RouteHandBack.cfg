SPECIFICATION Spec
CONSTANTS
  MaxStimuli = 6
INVARIANT StopGivesNativeBack
CHECK_DEADLOCK FALSE
