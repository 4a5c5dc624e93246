CONSTANTS
  InputPath = "partial"
  PollMax = 2
  SharedDirectory = TRUE
SPECIFICATION Spec
INVARIANT InputKept
