SPECIFICATION ServiceSpec
CONSTANTS
    c1 = c1
    c2 = c2
    e1 = e1
    e2 = e2
    d1 = d1
    d2 = d2
    u1 = u1
    u2 = u2
    None = None
    Clients = {c1, c2}
    Endpoints = {e1, e2}
    Devices = {d1, d2}
    Selectors = {d1, d2, "any"}
    Units = {u1, u2}
    MaxIds = 2
INVARIANTS ServiceTypeOK RemovalIsFinal ServiceCommandsTakeEffect
PROPERTIES LosesOnlyItsOwn
SYMMETRY Symmetry
