CONSTANTS
  FactorNum = 5
  FactorDen = 4
  FrameMax = 6
  TimestepBits = 1
  Configurations <- MCOtherConfigurations
  Pictures <- MCPictures
  Difference <- MCDifference
  SourceMax = 7
SPECIFICATION FairSpec
INVARIANT OutputBounded
PROPERTIES
  NothingStartedAfterCancel
  Terminates
