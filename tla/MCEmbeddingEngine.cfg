SPECIFICATION FairSpec
CONSTANTS
  t1 = t1
  t2 = t2
  x = x
  xw = xw
  y = y
  NoRow = NoRow
  Callers = {t1, t2}
  Texts <- ThreeTexts
  NFKC <- MCNFKC
  Batches <- MixedBatches
  ConfiguredSizes <- Sizes
  MaxCalls = 2
CHECK_DEADLOCK FALSE
INVARIANTS
  RowsBelongToTheirTexts
  OvershootOnlyWhileWriting
  StatsAreConsistent
  LockHeldOnlyInSections
PROPERTIES
  CacheStandsStillUnderReaders
  HitsDoNotWaitForInference
