-------------------------------- MODULE Budget --------------------------------
(***************************************************************************)
(* The spending limits a client is configured with, and the test of one    *)
(* payment against them.  Both the tracker of the code (BudgetTracker) and *)
(* the promise it keeps (SpendingCap) are written over these definitions.  *)
(*                                                                         *)
(* A payment is charged to a host.  The code passes None when the URL has  *)
(* no host; None selects the default limits exactly as a host without an   *)
(* override does, so it is one more member of Hosts.                       *)
(***************************************************************************)
EXTENDS Integers

CONSTANTS
    Hosts,           \* the hosts payments are charged to
    NoLimit,         \* the limit that is not set (Option::None)
    DefaultBudget,   \* the limits of a host without an override
    DomainBudgets,   \* the overrides: a function from some hosts to budgets
    Amounts,         \* the satoshi amounts invoices ask for
    MaxAmount,       \* an upper bound of Amounts
    HourLength,      \* clock ticks in an hour (3600 in the code)
    DayLength,       \* clock ticks in a day (86400 in the code)
    MaxNow           \* the last tick the clock shows

Limit == Nat \cup {NoLimit}

BudgetLimits == [per_request_max : Limit, hourly_max : Limit,
                 daily_max : Limit, total_max : Limit]

ASSUME NoLimitAssumption == NoLimit \notin Nat
ASSUME LimitsAssumption ==
    /\ Hosts # {}
    /\ DefaultBudget \in BudgetLimits
    /\ DOMAIN DomainBudgets \subseteq Hosts
    /\ \A h \in DOMAIN DomainBudgets : DomainBudgets[h] \in BudgetLimits
ASSUME AmountsAssumption ==
    /\ MaxAmount \in Nat
    /\ \A a \in Amounts : a \in Nat /\ a <= MaxAmount
ASSUME ClockAssumption ==
    /\ HourLength \in Nat \ {0}
    /\ DayLength \in Nat \ {0}
    /\ MaxNow \in Nat

-----------------------------------------------------------------------------

Clock == 0 .. MaxNow

\* Mutant: the windows are shorter than an hour.
HourOfTick(t) == t

HourOf(t) == t \div HourLength
DayOf(t)  == t \div DayLength

Hours == {HourOf(t) : t \in Clock}
Days  == {DayOf(t) : t \in Clock}

\* The limits that decide about a payment to host: its own, or the default.
\* An override replaces every limit of the default, unset ones included.
Effective(host) ==
    IF host \in DOMAIN DomainBudgets THEN DomainBudgets[host] ELSE DefaultBudget

Budgets == {Effective(h) : h \in Hosts}

Within(spent, limit) == limit # NoLimit => spent <= limit

\* Mutant: the lifetime is not checked.
PassesWithoutTotal(amount, host, hourSum, daySum, totalSum) ==
    LET b == Effective(host) IN
    /\ Within(amount, b.per_request_max)
    /\ Within(hourSum, b.hourly_max)
    /\ Within(daySum, b.daily_max)

\* A payment of amount to host passes when it is small enough by itself and
\* the hour, the day and the lifetime stay within their limits including it.
Passes(amount, host, hourSum, daySum, totalSum) ==
    LET b == Effective(host) IN
    /\ Within(amount, b.per_request_max)
    /\ Within(hourSum, b.hourly_max)
    /\ Within(daySum, b.daily_max)
    /\ Within(totalSum, b.total_max)
=============================================================================
