SPECIFICATION RollingSpec
CONSTANTS
    h1 = h1
    Hosts = {h1}
    NoLimit = NoLimit
    DefaultBudget <- HourlyDefault
    DomainBudgets <- NoOverrides
    Amounts = {1, 2}
    MaxAmount = 2
    HourLength = 3
    DayLength = 6
    MaxNow = 8
    KeepHours = 2
    KeepDays = 1
    Modulus = 64
    OverflowChecks = FALSE
    BackHours = 1
    BackDays = 1
INVARIANT RollingTwiceHourlyCap
