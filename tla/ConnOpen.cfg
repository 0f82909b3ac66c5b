SPECIFICATION FairSpec
CONSTANTS
  t1 = t1
  Reader = Reader
  Threads = {t1}
  Closers = {}
  MaxOpens = 2
  MaxPeerOpens = 0
  Writers = {1}
  DataCap = 1
  MaxData = 2
  MaxChunk = 1
  MaxCalls = 0
INVARIANTS OpenSignalled HeldMatchesPeer
PROPERTY OpenAnswered
CHECK_DEADLOCK FALSE
