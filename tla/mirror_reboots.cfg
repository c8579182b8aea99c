SPECIFICATION MirrorSpec
CONSTANTS
  Window = 6
  Ratio = 2
  Wrap = 32
  Rows = {"duty"}
  IdentEvery = 6
  IdentToa = 1
  Slots = 2
  FrameToa = {1, 3}
  Overrun = 0
  MaxLost = 0
  MaxIdle = 8
  MaxTime = 15
  SnapSlots = 1
  SleepFor = {6}
  Faults = {"crash", "crash_mirror", "torn", "early_reset"}
  MaxBoots = 2
INVARIANT MirrorTypeOK
INVARIANT OneFrameBehind
INVARIANT OneBudgetPerBoot
PROPERTY OffTimeKept
CHECK_DEADLOCK FALSE
