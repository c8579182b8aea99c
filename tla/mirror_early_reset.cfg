SPECIFICATION MirrorSpec
CONSTANTS
  Window = 6
  Ratio = 2
  Wrap = 32
  Rows = {"duty"}
  IdentEvery = 6
  IdentToa = 1
  Slots = 2
  FrameToa = {1, 2}
  Overrun = 1
  MaxLost = 0
  MaxIdle = 8
  MaxTime = 16
  SnapSlots = 1
  SleepFor = {6}
  Faults = {"early_reset"}
  MaxBoots = 1
INVARIANT NeverLooser
CHECK_DEADLOCK FALSE
