SPECIFICATION FairSpec
CONSTANTS
  Callers = {t1, t2}
  FrameCounts <- SomeCounts
  TailLengths <- SomeTails
  DrainChanges <- SomeChanges
  BlankFrames = 2
INVARIANTS Exclusive GuardsHaveOwners WarmedBeforeAudio InstalledOnce
PROPERTIES BlankedAfterRelease GuardsReleased
