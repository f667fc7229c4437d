SPECIFICATION LoopSpec
CONSTANTS
  BufSize = 6
  FifoSize = 3
  Lengths = {1, 2, 4}
  Stall = 3
  Rows = 2
  UiPeriod = 1
  Sense = 3
  SenseLen = 1
  Replies = {2, 4}
INVARIANTS WholeMessages StalledIsHonest
PROPERTIES PanelKeepsRunning
