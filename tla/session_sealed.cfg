SPECIFICATION Spec
CONSTANTS
  Size <- ThreeImages
  ImgId <- SameIdOnce
  BlockSize = 2
  MaxRounds = 2
  EobRetry = 2
  FecOk <- NotThenInRam
  MacControl = TRUE
  MacData = TRUE
  LossBudgets <- Hostile
  Losable = {}
  Faults = {"abort", "reset", "store"}
INVARIANT HaveIsStored
INVARIANT FinWritesOut
PROPERTY ImplementsTransfer
CHECK_DEADLOCK FALSE
