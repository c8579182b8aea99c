SPECIFICATION Spec
CONSTANTS
  Roles = {"sender", "receiver"}
  Keep = 2
  Faults = {"crash", "nospace", "rename", "send", "timeout"}
  MaxPics = 6
INVARIANT TypeOK
INVARIANT RingBound
INVARIANT NewestLast
INVARIANT SidecarDescribes
INVARIANT SendsTheCapture
PROPERTY FinishedIsKept
CHECK_DEADLOCK FALSE
