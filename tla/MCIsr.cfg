SPECIFICATION Spec
CONSTANTS
  Cap = 2
  MaxCalls = 4
  MouseCalls = 1
  MouseStarts = 1
  MaxStarts = 2
  Config = 101
  KeyCode = 30
  Flushes <- MCFlushes
  Moves <- MCMoves
  MaxPackets = 2
  MaxBootKeys = 1
  MaxLost = 1
INVARIANTS RecordingExact LossBounded ProfileFiltered PresentMeansConfigured MouseTracks
CHECK_DEADLOCK FALSE
