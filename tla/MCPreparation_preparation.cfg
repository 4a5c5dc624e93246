CONSTANTS
  NoLimit = NoLimit
  NotANumber = NotANumber
  NameOf <- MC_NameOf
  Requests <- MC_Requests
  Videos <- MC_Videos
  Machines <- MC_Machines
  HostMemory <- MC_HostMemory
  CgroupMemory <- MC_CgroupMemory
  FreeVram <- MC_FreeVram
SPECIFICATION Spec
INVARIANTS
  RequestHonoured
  MachineSuits
