SPECIFICATION FairSpec
CONSTANTS
  Size <- TwoImages
  ImgId <- TwoIds
  BlockSize = 3
  Percent = 30
  MetaEvery = 4
  FecOk <- InRamThenNot
  MacControl = TRUE
  MacData = TRUE
  Environments <- Both
  Faults = {"abort", "reset", "store"}
INVARIANT TypeOK
INVARIANT VerdictIsExact
INVARIANT HaveIsStored
INVARIANT WritesOut
PROPERTY GivesUpRightly
PROPERTY Recovers
CHECK_DEADLOCK FALSE
