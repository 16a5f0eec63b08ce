SPECIFICATION FairSpec
CONSTANTS
  AspaceMax = 2
  MaxTasks = 4
  JobsMax = 2
  YieldsOf <- MCYieldsOf
  Profiles = {"attack", "lifecycle"}
  Demos = {"attack"}
  Programs = {"ping", "ps"}
  MaxPid = 5
  MaxAspace = 3
  MaxFailed = 1
INVARIANTS
  TypeOK
  SingleRunning
  SpacesAccounted
  JobsExact
  WorkloadsAccounted
  WaitTargetPresent
PROPERTIES
  NoOvertaking
  PidsUnique
  TasksFinish
  CommandsReturn
