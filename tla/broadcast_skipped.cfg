SPECIFICATION Spec
CONSTANTS
  Size <- OneImage
  ImgId <- OneId
  BlockSize = 3
  Percent = 30
  MetaEvery = 4
  FecOk <- OneInRam
  MacControl = TRUE
  MacData = TRUE
  Environments <- Hostile
  Faults = {}
INVARIANT CompleteIsWhole
CHECK_DEADLOCK FALSE
