SPECIFICATION Spec
CONSTANTS
    p1 = p1
    p2 = p2
    addr = addr
    other = other
    port0 = port0
    None = None
    Callers = {p1}
    Requests = {addr}
    Addresses = {addr}
    Resolve <- ResolveTo
    MaxForwards = 1
    MaxConns = 1
INVARIANT RemovalClosesBridges
