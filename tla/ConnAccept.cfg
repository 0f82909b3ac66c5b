SPECIFICATION FairSpec
CONSTANTS
  t1 = t1
  Reader = Reader
  Threads = {t1}
  Closers = {t1}
  MaxOpens = 0
  MaxPeerOpens = 1
  Writers = {1}
  DataCap = 1
  MaxData = 2
  MaxChunk = 2
  MaxCalls = 1
INVARIANTS TypeOK CloseOnce DeadReaderClosesHeld
CHECK_DEADLOCK FALSE
PROPERTIES DeadStreamEnds ImplementsPipe
