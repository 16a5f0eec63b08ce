SPECIFICATION FairSpec
CONSTANTS
  AspaceMax = 2
  PageUnits = 2
  OneMeg = 4
  TwoMeg = 8
  UserBase = 108
  WindowPages = 6
  StackPages = 2
  U32 = 16
  ImageMax = 4
  Mapped = 8
  Maps <- MCMaps
  Images <- MCImages
  MaxRuns = 4
  MaxFaults = 2
INVARIANTS FramesExclusive ParseExact ImageInPlace PromptClean
PROPERTIES RunReturns
CHECK_DEADLOCK FALSE
