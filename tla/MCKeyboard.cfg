SPECIFICATION KeyFairSpec
CONSTANTS
  QCap = 2
  RingSize = 2
  Wrap = 4
  Interval <- MCInterval
  MaxKeys = 4
  MaxWaiting = 3
  MaxOther = 2
  MaxSwitches = 1
  MaxReplays = 1
INVARIANTS
  KeysExact
PROPERTY
  KeysDelivered
