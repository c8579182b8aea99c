SPECIFICATION Spec
CONSTANTS
  Roles = {"receiver"}
  Keep = 2
  Faults = {"timeout"}
  MaxPics = 3
PROPERTY KeptUntilPushedOut
CHECK_DEADLOCK FALSE
