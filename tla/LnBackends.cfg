\* A satoshi is 20 millisatoshis.  15 satoshis of fees do not fit into Modulus
\* millisatoshis, 150 not even into the signed satoshis that LND is given.
CONSTANTS
    Kilo = 20
    Modulus = 250
    OverflowChecks = TRUE
    Asked = {20, 30}
    Fees = {0, 19, 40}
    FeeLimits = {0, 1, 15, 150}
    Wallets <- MCWallets
    MaxUpdates = 3
SPECIFICATION Spec
INVARIANTS
    SuccessIsReported
    FeeWithinLimit
    ReportsAreCovered
PROPERTIES
    ImplementsPort
CHECK_DEADLOCK FALSE
