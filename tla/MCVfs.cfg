SPECIFICATION VfsFairSpec
CONSTANTS
  MaxInodes = 4
  PerSector = 2
  DataSectors = 7
  NumExecs = 1
  SectorUnits = 3
  Sizes = {5, 7}
  CrashAt = {"idle"}
  FailAt = {"load"}
  MaxSaves = 2
  MaxBoots = 2
  MaxFds = 2
  Chunk = 2
  Scratch = 5
  IndexMax = 2
  Nodes <- MCNodes
  Flags = {"r", "w"}
  ReadFails = TRUE
  MaxChanges = 1
INVARIANTS
  ReadsInOrder
  FdsAccounted
PROPERTY
  CatWhole
  CatEnds
CHECK_DEADLOCK FALSE
