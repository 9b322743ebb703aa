SPECIFICATION Spec
CONSTANTS
  s1 = s1
  s2 = s2
  s3 = s3
  a1 = a1
  a2 = a2
  SyncCallers = {}
  AsyncCallers = {a1}
  N = 2
  Options <- Strict
  OwnEndings <- AnyEnding
  MaxCalls = 1
CHECK_DEADLOCK FALSE
PROPERTIES
  DeadlineNeverPropagates
