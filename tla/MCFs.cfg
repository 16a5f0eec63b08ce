SPECIFICATION Spec
CONSTANTS
  MaxInodes = 4
  PerSector = 2
  DataSectors = 7
  NumExecs = 2
  SectorUnits = 3
  Sizes = {0, 5, 7}
  CrashAt <- SafeCrashes
  FailAt <- SafeErrors
  MaxSaves = 3
  MaxBoots = 3
INVARIANTS
  MetadataConsistent
  FilesReadBack
  SessionsPersist
CHECK_DEADLOCK FALSE
