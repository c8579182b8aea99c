SPECIFICATION Spec
CONSTANTS
  Window = 8
  Ratio = 2
  Wrap = 48
  Rows = {"duty", "amateur"}
  IdentEvery = 6
  IdentToa = 1
  Slots = 2
  FrameToa = {1, 4}
  Overrun = 1
  MaxLost = 1
  MaxIdle = 12
  MaxTime = 54
INVARIANT WindowKept
INVARIANT NeverUnderstated
PROPERTY WaitBounded
PROPERTY Identifies
CHECK_DEADLOCK FALSE
