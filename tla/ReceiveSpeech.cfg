SPECIFICATION Spec
CONSTANTS
  FramesPerMs = 2
  IntervalFrames = 2
  MaxIntervals = 0
  BurstModulus = 3
  MaxHang = 3
  MaxLag = 2
  Preroll = 2
  Policies <- SpeechPolicies
  Inputs <- SpeechInputs
INVARIANTS FreshSpeech DelayHoldsOneBurst
PROPERTIES LatchHolds NewBurstNewId
