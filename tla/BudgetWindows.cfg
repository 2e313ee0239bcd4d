SPECIFICATION MCSpec
CONSTANTS
    h1 = h1
    h2 = h2
    h3 = h3
    Hosts = {h1, h2, h3}
    NoLimit = NoLimit
    DefaultBudget <- Default
    DomainBudgets <- Overrides
    Amounts = {0, 1, 2}
    MaxAmount = 2
    HourLength = 1
    DayLength = 2
    MaxNow = 5
    KeepHours = 2
    KeepDays = 1
    Modulus = 7
    OverflowChecks = TRUE
    BackHours = 2
    BackDays = 1
    LedgerBound = 6
INVARIANTS
    TypeOK
    DecisionsMatchLedger
    CapsHold
    HostCapHolds
    CountersNeverTorn
    MapsArePruned
PROPERTIES
    ImplementsCap
