CONSTANTS
  JobMax = 2
  TrayCapacity = 2
SPECIFICATION FairSpec
INVARIANTS
  JobStateCoupled
  TerminalDelivered
  BackendOutlivesWorker
  QuitIsPending
PROPERTIES
  OneActiveJob
  JobSettles
  QuitHonoured
  IdleShutdownEnds
CHECK_DEADLOCK FALSE
