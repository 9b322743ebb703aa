SPECIFICATION FairSpec
CONSTANTS
  r1 = r1
  r2 = r2
  w1 = w1
  w2 = w2
  t1 = t1
  ReaderThreads = {r1, r2, t1}
  WriterThreads = {w1, w2, t1}
  Interruptible = {w1, r1, t1}
INVARIANTS
  CountsAreExact
  Exclusion
  ParkedWriterHasCause
PROPERTIES
  NoReaderPassesWaitingWriter
  ImplementsFairAccess
