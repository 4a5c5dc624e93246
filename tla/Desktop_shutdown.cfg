CONSTANTS
  JobMax = 2
  TrayCapacity = 2
SPECIFICATION FairSpec
PROPERTY ShutdownEnds
CHECK_DEADLOCK FALSE
