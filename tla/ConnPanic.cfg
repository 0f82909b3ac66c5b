SPECIFICATION Spec
CONSTANTS
  t1 = t1
  Reader = Reader
  Threads = {t1}
  Closers = {t1}
  MaxOpens = 1
  MaxPeerOpens = 0
  Writers = {1}
  DataCap = 1
  MaxData = 1
  MaxChunk = 1
  MaxCalls = 1
INVARIANT NoSendOnClosedChannel
CHECK_DEADLOCK FALSE
