SPECIFICATION MCSpec
CONSTANTS
  MaxQueries = 14
  NotContent <- StopWords
  Answers <- Texts
  Docs <- Documents
  Registry <- MCRegistry
  Gates = {"g1", "g2"}
  Clobbers <- MCClobbers
  MaxRuns = 2
  MaxKills = 1
CHECK_DEADLOCK FALSE
INVARIANTS
  ToleratesExactlyOneSlip
  FloorsSeparate
  TreeIsRestored
  PassMeansHeld
PROPERTIES
  RunsEnd
