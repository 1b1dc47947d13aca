SPECIFICATION Spec
CONSTANTS
  Callers = {t1, t2}
  FrameCounts <- SomeCounts
  TailLengths <- SomeTails
  DrainChanges <- SomeChanges
  BlankFrames = 2
PROPERTIES QualifiedUnderBlanking
