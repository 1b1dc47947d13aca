SPECIFICATION FairSpec
CONSTANTS
  FramesPerMs = 2
  IntervalMs = 2
  NormalClear = 1
  TailClear = 2
  HoldMs = 6
  Tones <- MCTones
  NoTone = NoTone
  Freqs = {1, 2}
  InitialFreq = 1
  Policies <- AllPolicies
  Inputs <- TailInputs
INVARIANTS TypeOK TurnoffCoherent SpansTileTick
PROPERTIES OnlyDcsRekeyFails ArmedExactlyAtRelease ImplementsLifecycle DrainReleases UnkeyedReleases
