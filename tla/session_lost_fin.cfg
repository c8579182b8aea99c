SPECIFICATION Spec
CONSTANTS
  Size <- OneImage
  ImgId <- OneId
  BlockSize = 2
  MaxRounds = 2
  EobRetry = 2
  FecOk <- InRam
  MacControl = FALSE
  MacData = FALSE
  LossBudgets = {1}
  Losable = {"FIN"}
  Faults = {}
INVARIANT WrittenOut
CHECK_DEADLOCK FALSE
