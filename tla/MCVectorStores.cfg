SPECIFICATION Spec
CONSTANTS
  s1 = s1
  s2 = s2
  Unset = Unset
  Stores = {s1, s2}
  Environments <- MCEnvironments
  MaxCalls = 4
  Corpora <- MCCorpora
  Queries <- MCQueries
  Ks = {0, 2, 5}
  Similarity <- MCSimilarity
CHECK_DEADLOCK FALSE
INVARIANTS
  OnlyBoundaryTiesAreOpen
  OwnerSeesOneCorpus
PROPERTIES
  ImplementsContract
  AddInstallsItsCorpus
  PaddedOnlyIfDisturbed
