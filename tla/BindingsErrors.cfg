CONSTANTS
    Callers = {c1, c2}
    Servers = {s1}
    Clients = {k1}
    Backends = {}
    None = None
    Stale = Stale
SPECIFICATION Spec
INVARIANT
    ErrorReachesCaller
CHECK_DEADLOCK FALSE
