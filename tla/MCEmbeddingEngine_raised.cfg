SPECIFICATION Spec
CONSTANTS
  t1 = t1
  t2 = t2
  x = x
  xw = xw
  y = y
  NoRow = NoRow
  Callers = {t1}
  Texts <- ThreeTexts
  NFKC <- MCNFKC
  Batches <- OneText
  ConfiguredSizes <- NoEntry
  MaxCalls = 1
CHECK_DEADLOCK FALSE
INVARIANTS
  PressureNeverRaisesLimit
