SPECIFICATION Spec
CONSTANTS
  Wrap = 24
  Settle = 1
  Retry = 2
  NoInterval = 3
  MaxInterval = 8
  Floor = 2
  Window = 4
  PageTimeout = 3
  MaxTransfer = 7
  MaxSetup = 2
  MaxLapse = 2
  Settings <- Typed
  Faults = {}
PROPERTY PressTaken
CHECK_DEADLOCK FALSE
