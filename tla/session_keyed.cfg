SPECIFICATION Spec
CONSTANTS
  Size <- TwoImages
  ImgId <- TwoIds
  BlockSize = 2
  MaxRounds = 3
  EobRetry = 2
  FecOk <- InRamThenNot
  MacControl = TRUE
  MacData = FALSE
  LossBudgets <- Hostile
  Losable = {}
  Faults = {"abort", "reset", "store"}
INVARIANT TypeOK
INVARIANT CompleteIsWhole
INVARIANT AckedIsWhole
INVARIANT PartialIsMissing
INVARIANT ConfirmedIsHeld
PROPERTY RepairIsNeeded
CHECK_DEADLOCK FALSE
