SPECIFICATION OutputSpec
CONSTANTS
  FramesPerMs = 2
  IntervalMs = 2
  NormalClear = 1
  TailClear = 2
  HoldMs = 6
  Tones <- MCTones
  NoTone = NoTone
  Freqs = {1, 2}
  InitialFreq = 1
  RouteA = "composite"
  RouteB = "tone"
  Policies <- TonePolicies
  Inputs <- OutputInputs
INVARIANTS InhibitSilences OneSignal
PROPERTIES KeyedCarriesTone
