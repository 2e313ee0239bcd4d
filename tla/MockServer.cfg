\* A microbitcoin is 2 satoshis here.
CONSTANTS
    Kilo = 20
    Modulus = 1000000
    OverflowChecks = TRUE
    even = even
    odd = odd
    nowhere = nowhere
    Handlers = {h1}
    Callers = {c1, c2}
    Paths = {even, odd, nowhere}
    Price <- MCPrice
    DefaultBalance = 4
    Balances = {4}
    MaxChallenges = 2
SPECIFICATION Spec
INVARIANTS
    ServedIffPaid
    WalletBalances
PROPERTIES
    CallsReturn
