CONSTANTS
  Threads = {"ui", "worker"}
  Worker = "worker"
  StderrRoom = 1
  StderrMax = 1
SPECIFICATION Spec
INVARIANTS
  InstanceWhileUsed
  NoWorkerLeft
PROPERTY
  CallsReturn
