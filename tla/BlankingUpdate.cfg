SPECIFICATION Spec
CONSTANTS
  FramesPerMs = 2
  IntervalFrames = 2
  MaxIntervals = 2
  BurstModulus = 4
  MaxHang = 2
  MaxLag = 1
  Preroll = 2
  Policies <- KeyingPolicies
  Inputs <- KeyingInputs
PROPERTIES UpdateKeepsBlanking
