SPECIFICATION FairSpec
CONSTANTS
  Wrap = 24
  Settle = 1
  Retry = 2
  NoInterval = 3
  MaxInterval = 8
  Floor = 2
  Window = 4
  PageTimeout = 3
  MaxTransfer = 7
  MaxSetup = 2
  MaxLapse = 2
  Settings <- Typed
  Faults = {"reset", "radio"}
PROPERTY PeriodKept
PROPERTY NeverDeaf
PROPERTY HeadlessSleeps
CHECK_DEADLOCK FALSE
