SPECIFICATION Spec
CONSTANTS
  r1 = r1
  r2 = r2
  r3 = r3
  Unset = Unset
  Junk = Junk
  NoKey = NoKey
  OddKey = OddKey
  Similarity <- MCSimilarity
  Requests = {r1, r2, r3}
  Messages <- MCMessages
  Environments <- MCEnvironments
  DefaultMaxBody = 23
  DefaultMaxDocs = 2
  MaxChanges = 1
CHECK_DEADLOCK FALSE
SYMMETRY Symmetry
INVARIANTS
  AnswersComeFromOneCorpus
  OnlyKeyHoldersGetThrough
  BoundsAreKept
PROPERTIES
  ImplementsCorpusService
