SPECIFICATION Spec
CONSTANTS
  Window = 8
  Ratio = 2
  Wrap = 48
  Rows = {"duty"}
  IdentEvery = 6
  IdentToa = 1
  Slots = 2
  FrameToa = {1, 2}
  Overrun = 0
  MaxLost = 0
  MaxIdle = 60
  MaxTime = 60
PROPERTY WaitBounded
CHECK_DEADLOCK FALSE
