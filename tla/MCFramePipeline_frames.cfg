CONSTANTS
  FactorNum = 5
  FactorDen = 2
  FrameMax = 100
  TimestepBits = 24
  Configurations <- MCConfigurations
  Pictures <- MCPictures
  Difference <- MCDifference
  SourceMax = 6
SPECIFICATION Spec
INVARIANTS
  SpansTile
  OnTimeline
  DurationKept
  SceneProtected
  OnlyShortHoldsSmoothed
  LongHoldsKept
  SourceFramesKept
  CountersAgree
PROPERTY ResamplingSpec
