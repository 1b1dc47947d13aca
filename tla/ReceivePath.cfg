SPECIFICATION ChainSpec
CONSTANTS
  Half = 8
  ByteBase = 4
  WordHalf = 2048
  GainUnit = 4
  FeedbackUnit = 8
  OutputUnit = 8
  RssiUnit = 1
  MaxFrames = 3
  GateInterval = 2
  ToneRun = 2
  ToneLevel = 2
  Configs <- MCConfigs
  Inputs <- MCInputs
  PortSets <- MCPorts
INVARIANTS BoundariesDoNotMatter EmissionsHaveOffsets UpperHistoryIsDead SlicerFits SleepLosesNothing
