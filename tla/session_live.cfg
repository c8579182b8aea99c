SPECIFICATION FairSpec
CONSTANTS
  Size <- OneImage
  ImgId <- OneId
  BlockSize = 2
  MaxRounds = 3
  EobRetry = 3
  FecOk <- InRam
  MacControl = FALSE
  MacData = FALSE
  LossBudgets <- HostileOrCalm
  Losable <- AllButFin
  Faults = {"abort", "reset", "store"}
PROPERTY SenderReturns
PROPERTY ReceiverReturns
PROPERTY Repaired
CHECK_DEADLOCK FALSE
