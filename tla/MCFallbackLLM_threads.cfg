SPECIFICATION FairSpec
CONSTANTS
  s1 = s1
  s2 = s2
  s3 = s3
  a1 = a1
  a2 = a2
  SyncCallers = {s1, s2}
  AsyncCallers = {}
  N = 2
  Options <- DefaultOrStrict
  OwnEndings <- BudgetOrNot
  MaxCalls = 1
CHECK_DEADLOCK FALSE
INVARIANTS
  ExhaustionTrips
  MarkStandsAfterExhausted
PROPERTIES
  NewCallsSkipTripped
  DeadlineNeverPropagates
  CallsEndDespiteHangs
  LateExhaustionTrips
