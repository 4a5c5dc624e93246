CONSTANTS
  InputPath = "in"
  PollMax = 2
  SharedDirectory = TRUE
SPECIFICATION Spec
PROPERTY ForeignOutputKept
