SPECIFICATION KeepSpec
CONSTANTS
    u1 = u1
    u2 = u2
    h1 = h1
    h2 = h2
    Tasks = {t1, t2}
    Urls = {u1}
    Challenges = {c1, c2}
    Hosts = {h1}
    HostOf <- OneHost
    DomainBudgets <- NoOverrides
    DefaultBudget <- TightDefault
    MaxFee = 0
    None = None
    NoLimit = NoLimit
    Faults = {"pending", "bad_challenge", "unreadable"}
    Amounts = {0, 1}
    MaxAmount = 2
    HourLength = 1
    DayLength = 2
    MaxNow = 1
PROPERTIES
    RequestsEnd
    StaleTokensLeave
