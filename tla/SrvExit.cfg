SPECIFICATION Spec
CONSTANTS
    s1 = s1
    s2 = s2
    q1 = q1
    q2 = q2
    Missing = Missing
    File = File
    Servers = {s1}
    Requests = {q1}
INVARIANT ShutdownUnregisters
CHECK_DEADLOCK FALSE
