\* Kilo stands for 1000 and Modulus for 2^64: one bitcoin is 16000 millisatoshis.
CONSTANTS
    Kilo = 20
    Modulus = 40000
    OverflowChecks = TRUE
    InvoiceWords = {"lnbc2u1", "LNBC2U1"}
    Mainnet = {"lnbc2u1"}
    Fragments <- MCFragments
    MaxFragments = 4
    Amounts <- MCAmounts
SPECIFICATION Spec
INVARIANTS
    ParamsAreTheOuterParts
    QuotedValuesArrive
    ChargeIsInvoiceRoundedUp
    CredentialsReadBack
CHECK_DEADLOCK FALSE
