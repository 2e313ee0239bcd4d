SPECIFICATION Spec
CONSTANTS
    Endpoints = {e1, e2, e3, e4}
    Tokens = {t1, t2}
    NoToken = NoToken
    Capacity = 3
INVARIANTS
    TypeOK
    OrderListsTheKeys
    SizeBounded
PROPERTIES
    EvictionIsFifo
    ImplementsStore
