SPECIFICATION MCSpec
CONSTANTS
  l1 = l1
  l2 = l2
  l3 = l3
  s1 = s1
  s2 = s2
  s3 = s3
  t1 = t1
  t2 = t2
  LogCalls = {l1, l2, l3}
  Setups = {s1, s2, s3}
  Threads = {t1, t2}
  OtherHandler = OtherHandler
  OtherProvider = OtherProvider
  None = None
  Arguments = {"INFO", "DEBUG", "unknown", "no text"}
  MaxEnvChanges = 1
  MaxChanges = 1
  Statuses = {"ok", "error"}
  MaxBlocks = 3
SYMMETRY Symmetry
CHECK_DEADLOCK FALSE
INVARIANTS
  LaterCallsDoNothing
  ConfiguredMeansHeard
  LoggingIsAsAsked
  EveryCallIsLogged
  LinesBelongToTheirSpans
