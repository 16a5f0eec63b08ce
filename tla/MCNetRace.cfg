SPECIFICATION Spec
CONSTANTS
  Cap = 3
  Limit <- MCLimit
  Interval <- MCInterval
  Wrap = 8
  MaxWrites = 3
  Windows = {"idle", "test", "slot", "slotcount", "fill", "load", "store", "report", "note",
             "batch", "flush", "fetch", "transmit", "rxslot", "rxfill", "rxstore",
             "pophead", "popload", "popstore", "flushend"}
INVARIANTS
  SentOnce
