SPECIFICATION FairSpec
CONSTANTS
    s1 = s1
    s2 = s2
    q1 = q1
    q2 = q2
    Missing = Missing
    File = File
    Servers = {s1, s2}
    Requests = {q1, q2}
INVARIANTS TypeOK SocketOwned
PROPERTIES ShutdownEnds StaleSocketRecovered
CHECK_DEADLOCK FALSE
