CONSTANTS
  Instances = {"first", "second"}
  Main = "first"
  LOG_FILE_COUNT_MAX = 4
  Sources = {"decoder"}
  PipeRoom = 1
  LOG_FILE_SIZE_MAX = 2
  LOG_READ_COUNT_MAX = 3
  JobMax = 5
  AbortMax = 2
SPECIFICATION Spec
INVARIANT
  HistoryKept
PROPERTY
  DiagnosticsDrained
CHECK_DEADLOCK FALSE
