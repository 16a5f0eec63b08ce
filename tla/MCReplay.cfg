SPECIFICATION FairSpec
CONSTANTS
  MaxTasks = 4
  Rounds <- MCRounds
  MaxEvents = 13
  SessionCap = 2
  MaxSessions = 2
  MaxCommands = 3
  MaxPackets = 1
  MaxIrqs = 1
  Profiles = {"attack", "sysload", "lifecycle"}
  Commands = {"fork", "run", "ring3demo", "send", "other", "start", "stop", "record", "replay"}
INVARIANTS
  ReplayFaithful
  ForcedIsRoundRobin
  StoreExact
PROPERTY
  QuietReplayReturns
CHECK_DEADLOCK FALSE
