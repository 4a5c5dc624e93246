CONSTANTS
  InputPath = "in"
  PollMax = 2
  SharedDirectory = TRUE
SPECIFICATION FairSpec
INVARIANTS
  TypeOK
  OutputIsWhole
  VerdictMatchesOutput
  NothingLeftBehind
  GraceBeforeKill
  FinalizedPartialReported
PROPERTIES
  ContractSpec
  CancelledJobEnds
  JobEnds
