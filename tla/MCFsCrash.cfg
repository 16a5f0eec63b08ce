SPECIFICATION Spec
CONSTANTS
  MaxInodes = 4
  PerSector = 2
  DataSectors = 7
  NumExecs = 2
  SectorUnits = 3
  Sizes = {0, 5, 7}
  CrashAt = {"load", "fmtsuper", "fmtinodes", "reload", "seed", "bootinodes", "bootsuper",
             "idle", "offline", "data", "inodes", "super"}
  FailAt = {}
  MaxSaves = 3
  MaxBoots = 3
INVARIANTS
  MetadataConsistent
CHECK_DEADLOCK FALSE
