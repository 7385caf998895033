SPECIFICATION Spec
CONSTANTS
  sda = sda
  sdb = sdb
  Drives <- TwoDrives
  Ids = {id1, id2}
  None = None
  HalfGigabyte = 50
  EightGb = 800
  Free <- Sizes
INVARIANTS
  InterruptedSetupRecovers
  QuietMeansPersistent
  SwapSizeSound
PROPERTIES
  PoolsSurvive
  SecondPoolOnlyByAccident
