SPECIFICATION FairSpec
CONSTANTS
    p1 = p1
    p2 = p2
    addr = addr
    other = other
    port0 = port0
    None = None
    Callers = {p1, p2}
    Requests = {addr, other, port0}
    Addresses = {addr, other}
    Resolve <- ResolveTo
    MaxForwards = 2
    MaxConns = 1
INVARIANTS TypeOK IndexAgrees NoListenerLeak BridgeCleansUp DiagnosticsAddUp
PROPERTIES BridgesEnd ImplementsTable
