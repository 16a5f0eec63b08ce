SPECIFICATION Spec
CONSTANTS
  LogLines = 5
  LineMax = 8
  GuiWidth = 4
  GuiHeight = 2
  ScreenWidth = 5
  ScreenHeight = 3
  Page = 2
  MaxPuts = 8
  MaxResets = 2
INVARIANTS
  ScreenFaithful
  AllReachable
PROPERTY
  KeepsHistory
CHECK_DEADLOCK FALSE
