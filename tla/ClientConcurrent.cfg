SPECIFICATION Spec
CONSTANTS
    u1 = u1
    u2 = u2
    h1 = h1
    h2 = h2
    Tasks = {t1, t2}
    Urls = {u1, u2}
    Challenges = {c1, c2, c3}
    Hosts = {h1, h2}
    HostOf <- HostOfUrl
    DomainBudgets <- TightOverrides
    DefaultBudget <- TightDefault
    MaxFee = 1
    None = None
    NoLimit = NoLimit
    Faults = {"http", "server_error", "bad_challenge", "store", "backend", "pending", "header", "cancel"}
    Amounts = {1, 2}
    MaxAmount = 2
    HourLength = 1
    DayLength = 2
    MaxNow = 0
SYMMETRY Symmetry
INVARIANTS
    TypeOK
    ReceiptsAreSettledPayments
    CachedTokensArePaid
    OutcomesAreHonest
    MoneyOutWithinLimits
