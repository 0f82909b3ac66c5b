SPECIFICATION LockFairSpec
CONSTANTS
    p1 = p1
    p2 = p2
    d1 = d1
    r1 = r1
    r2 = r2
    Free = Free
    Callers = {p1}
    Devices = {d1}
    Remotes = {r1}
    MaxSessions = 1
    MaxBridges = 1
    MaxCreates = 1
    Losses = {}
CHECK_DEADLOCK FALSE
PROPERTY RemovalReturns
