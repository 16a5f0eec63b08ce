SPECIFICATION FairSpec
CONSTANTS
  MaxTasks = 5
  Rounds <- MCRounds
  MaxEvents = 20
  SessionCap = 2
  MaxSessions = 2
  MaxCommands = 4
  MaxPackets = 1
  MaxIrqs = 0
  Profiles = {"sysload"}
  Commands = {"ring3demo", "record", "replay"}
PROPERTY
  DivergenceReported
CHECK_DEADLOCK FALSE
