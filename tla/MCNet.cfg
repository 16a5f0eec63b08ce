SPECIFICATION FairSpec
CONSTANTS
  Cap = 3
  Limit <- MCLimit
  Interval <- MCInterval
  Wrap = 8
  MaxWrites = 4
  Windows <- Harmless
INVARIANTS
  QueuesExact
  NeverFull
PROPERTY
  QueueDrains
  RingIsFifo
