CONSTANTS
    Callers = {c1, c2}
    Servers = {s1}
    Clients = {k1}
    Backends = {b1}
    None = None
    Stale = Stale
SPECIFICATION Spec
INVARIANTS
    HandlesOutliveCalls
PROPERTIES
    BlockedCallsReturn
CHECK_DEADLOCK FALSE
