SPECIFICATION Spec
CONSTANTS
  Size <- TwoImages
  ImgId <- TwoIds
  BlockSize = 2
  MaxRounds = 2
  EobRetry = 2
  FecOk <- NeverInRam
  MacControl = FALSE
  MacData = FALSE
  LossBudgets <- Hostile
  Losable = {}
  Faults = {}
INVARIANT CompleteIsWhole
CHECK_DEADLOCK FALSE
