SPECIFICATION Spec
CONSTANTS
    u1 = u1
    u2 = u2
    h1 = h1
    h2 = h2
    Tasks = {t1}
    Urls = {u1, u2}
    Challenges = {c1, c2, c3}
    Hosts = {h1, h2}
    HostOf <- HostOfUrl
    DomainBudgets <- TightOverrides
    DefaultBudget <- TightDefault
    MaxFee = 0
    None = None
    NoLimit = NoLimit
    Faults = {"http", "server_error", "bad_challenge", "store", "backend", "pending", "header", "cancel"}
    Amounts = {0, 1}
    MaxAmount = 2
    HourLength = 1
    DayLength = 2
    MaxNow = 0
SYMMETRY OneTaskSymmetry
PROPERTIES
    PaysOnlyWithoutToken
    RemovesOnlyRejected
