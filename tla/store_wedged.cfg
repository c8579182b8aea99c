SPECIFICATION Spec
CONSTANTS
  Roles = {"sender"}
  Keep = 2
  Faults = {"send"}
  MaxPics = 3
INVARIANT ClosedWhenReady
CHECK_DEADLOCK FALSE
