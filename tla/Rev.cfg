SPECIFICATION FairSpec
CONSTANTS
    p1 = p1
    p2 = p2
    d1 = d1
    r1 = r1
    r2 = r2
    Free = Free
    Callers = {p1, p2}
    Devices = {d1}
    Remotes = {r1, r2}
    MaxSessions = 2
    MaxBridges = 1
    MaxCreates = 2
    Losses = {1}
CHECK_DEADLOCK FALSE
INVARIANTS TypeOK SessionClosesOnce IndexAgrees NoClientLeak
PROPERTIES ClosedBridgesUnblock ImplementsTable
