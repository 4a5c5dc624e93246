CONSTANTS
  Sources = {"hd", "uhd"}
  UhdSources = {"uhd"}
  FieldValues <- MC_FieldValues
  InitialValue <- MC_InitialValue
  Encoders <- MC_Encoders
  GpuCount = 1
  CudaAvailable = TRUE
  Profiles = {"auto"}
  Switches = {"use_nvdec"}
SPECIFICATION Spec
INVARIANT PresetMenuAssertionHolds
