----------------------------- MODULE BudgetTracker -----------------------------
(***************************************************************************)
(* The budget tracker of bolt402-core (budget.rs).  One lock guards three  *)
(* counters: the lifetime total and two maps from hour and day numbers to  *)
(* amounts.  A payment is checked and recorded in one critical section,    *)
(* so a call is one action.  Recording prunes the maps.                    *)
(*                                                                         *)
(* The ledger (module SpendingCap) and latest are history variables: the   *)
(* code has neither.                                                       *)
(***************************************************************************)
EXTENDS SpendingCap

CONSTANTS
    KeepHours,       \* how many past hours pruning keeps (48 in the code)
    KeepDays,        \* how many past days pruning keeps (2 in the code)
    Modulus,         \* 2^64: the counters are u64
    OverflowChecks,  \* TRUE: an addition that overflows panics (dev profile);
                     \* FALSE: it wraps around (release profile)
    BackHours,       \* how many hour and day numbers the wall clock may go
    BackDays         \* back below the highest it has shown

ASSUME TrackerAssumption ==
    /\ KeepHours \in Nat /\ KeepDays \in Nat
    /\ BackHours \in Nat /\ BackDays \in Nat
    /\ Modulus \in Nat \ {0}
    /\ MaxAmount < Modulus
    /\ OverflowChecks \in BOOLEAN

\* The environment: the clock is never set back further than pruning keeps.
ASSUME StepBackAssumption == BackHours <= KeepHours /\ BackDays <= KeepDays

VARIABLES
    total,     \* BudgetState.total
    hourly,    \* BudgetState.hourly: a function from some hours to amounts
    daily,     \* BudgetState.daily
    poisoned,  \* a panic left the RwLock poisoned: every later call panics
    latest     \* history: the highest hour and day numbers the clock showed

trackerVars == <<now, ledger, total, hourly, daily, poisoned, latest>>

-----------------------------------------------------------------------------

\* u64 addition
Plus(x, y) == (x + y) % Modulus
Overflows(x, y) == x + y >= Modulus

\* map.get(&k).copied().unwrap_or(0)
Bucket(map, k) == IF k \in DOMAIN map THEN map[k] ELSE 0

\* Mutants of RecordAndPrune: the entry is overwritten; the oldest kept entry
\* is pruned; nothing is pruned; the entry is that of the next window.
RecordOverwrites(map, k, amount, cutoff) ==
    [j \in {i \in DOMAIN map \cup {k} : i >= cutoff} |->
        IF j = k THEN amount ELSE map[j]]
PruneTooMuch(map, k, amount, cutoff) ==
    [j \in {i \in DOMAIN map \cup {k} : i > cutoff} |->
        IF j = k THEN Plus(Bucket(map, k), amount) ELSE map[j]]
RecordOnly(map, k, amount, cutoff) ==
    [j \in DOMAIN map \cup {k} |->
        IF j = k THEN Plus(Bucket(map, k), amount) ELSE map[j]]
RecordNextWindow(map, k, amount, cutoff) ==
    [j \in {i \in DOMAIN map \cup {k + 1} : i >= cutoff} |->
        IF j = k + 1 THEN Plus(Bucket(map, k + 1), amount) ELSE map[j]]

\* *map.entry(k).or_insert(0) += amount, then map.retain(|&j, _| j >= cutoff)
RecordAndPrune(map, k, amount, cutoff) ==
    [j \in {i \in DOMAIN map \cup {k} : i >= cutoff} |->
        IF j = k THEN Plus(Bucket(map, k), amount) ELSE map[j]]

SpentThisHour == Bucket(hourly, HourOf(now))
SpentToday    == Bucket(daily, DayOf(now))

\* Mutant: the limits are compared with what was spent before the payment.
AdmitsBeforeAdding(amount, host) ==
    Passes(amount, host, SpentThisHour, SpentToday, total)

Admits(amount, host) ==
    Passes(amount, host, Plus(SpentThisHour, amount),
           Plus(SpentToday, amount), Plus(total, amount))

\* One of the additions that the limits are compared with overflows; a limit
\* that is not set adds nothing, and one that is exceeded ends the call.
LimitOverflows(amount, host) ==
    LET b == Effective(host) IN
    /\ Within(amount, b.per_request_max)
    /\ \/ b.hourly_max # NoLimit /\ Overflows(SpentThisHour, amount)
       \/ /\ Within(SpentThisHour + amount, b.hourly_max)
          /\ b.daily_max # NoLimit
          /\ Overflows(SpentToday, amount)
       \/ /\ Within(SpentThisHour + amount, b.hourly_max)
          /\ Within(SpentToday + amount, b.daily_max)
          /\ b.total_max # NoLimit
          /\ Overflows(total, amount)

\* The limits admit the payment and one of the additions that record it overflows.
RecordOverflows(amount, host) ==
    /\ ~LimitOverflows(amount, host)
    /\ Passes(amount, host, SpentThisHour + amount, SpentToday + amount, total + amount)
    /\ \/ Overflows(total, amount)
       \/ Overflows(SpentThisHour, amount)
       \/ Overflows(SpentToday, amount)

\* The call panics, in a build that checks its additions.
Panics(amount, host) ==
    OverflowChecks /\ (LimitOverflows(amount, host) \/ RecordOverflows(amount, host))

-----------------------------------------------------------------------------

Init ==
    /\ CapInit
    /\ total = 0
    /\ hourly = << >>
    /\ daily = << >>
    /\ poisoned = FALSE
    /\ latest = [hour |-> HourOf(now), day |-> DayOf(now)]

\* check_and_record returns Ok.  A call that returns BudgetExceeded changes
\* nothing and is a stuttering step.
CheckAndRecord(amount, host) ==
    /\ ~poisoned
    /\ Admits(amount, host)
    /\ ~Panics(amount, host)
    /\ total' = Plus(total, amount)
    /\ hourly' = RecordAndPrune(hourly, HourOf(now), amount, HourOf(now) - KeepHours)
    /\ daily' = RecordAndPrune(daily, DayOf(now), amount, DayOf(now) - KeepDays)
    /\ ledger' = Enter(ledger, amount, host, now)
    /\ UNCHANGED <<now, poisoned, latest>>

\* Mutant: the record adds to the hour before it adds to the total.
CheckPanicsTorn(amount, host) ==
    LET addsHour == RecordOverflows(amount, host) /\ ~Overflows(SpentThisHour, amount)
        addsTotal == addsHour /\ ~Overflows(total, amount)
    IN
    /\ ~poisoned
    /\ Panics(amount, host)
    /\ poisoned' = TRUE
    /\ total' = IF addsTotal THEN total + amount ELSE total
    /\ hourly' = IF addsHour THEN RecordAndPrune(hourly, HourOf(now), amount, 0) ELSE hourly
    /\ UNCHANGED <<now, ledger, daily, latest>>

\* check_and_record panics while it holds the lock.  The record adds to the
\* total, then to the hour, then to the day: what precedes the addition that
\* panics has been done.
CheckPanics(amount, host) ==
    LET addsTotal == RecordOverflows(amount, host) /\ ~Overflows(total, amount)
        addsHour  == addsTotal /\ ~Overflows(SpentThisHour, amount)
    IN
    /\ ~poisoned
    /\ Panics(amount, host)
    /\ poisoned' = TRUE
    /\ total' = IF addsTotal THEN total + amount ELSE total
    /\ hourly' = IF addsHour THEN RecordAndPrune(hourly, HourOf(now), amount, 0) ELSE hourly
    /\ UNCHANGED <<now, ledger, daily, latest>>

\* The wall clock moves: forwards by any amount, backwards within the bounds.
ClockStep(t) ==
    /\ t # now
    /\ HourOf(t) >= latest.hour - BackHours
    /\ DayOf(t) >= latest.day - BackDays
    /\ now' = t
    /\ latest' = [hour |-> IF HourOf(t) > latest.hour THEN HourOf(t) ELSE latest.hour,
                  day  |-> IF DayOf(t) > latest.day THEN DayOf(t) ELSE latest.day]
    /\ UNCHANGED <<ledger, total, hourly, daily, poisoned>>

Next ==
    \/ \E a \in Amounts, h \in Hosts : CheckAndRecord(a, h) \/ CheckPanics(a, h)
    \/ \E t \in Clock : ClockStep(t)

Spec == Init /\ [][Next]_trackerVars

-----------------------------------------------------------------------------

TypeOK ==
    /\ CapTypeOK
    /\ total \in 0 .. Modulus - 1
    /\ DOMAIN hourly \subseteq Hours
    /\ \A k \in DOMAIN hourly : hourly[k] \in 0 .. Modulus - 1
    /\ DOMAIN daily \subseteq Days
    /\ \A k \in DOMAIN daily : daily[k] \in 0 .. Modulus - 1
    /\ poisoned \in BOOLEAN
    /\ latest.hour \in Hours /\ latest.day \in Days

\* No addition can have overflowed yet, nor can the next one.
InRange == ledger.total + MaxAmount < Modulus

\* The counters stand for the ledger: always in a build with overflow checks,
\* and until the lifetime spending comes near 2^64 in one without.
Exact == OverflowChecks \/ InRange

\* Every budget limits the lifetime, safely below 2^64.
TotalsBounded ==
    \A b \in Budgets : b.total_max # NoLimit /\ b.total_max + MaxAmount < Modulus

(* As long as the lifetime spending is in range, what check_and_record      *)
(* decides from pruned maps, wherever the clock stands, is exactly what the *)
(* full ledger demands: pruning never makes the tracker forget spending     *)
(* that still counts, and it never refuses a payment the limits allow.      *)
DecisionsMatchLedger ==
    InRange => \A a \in Amounts, h \in Hosts : Admits(a, h) <=> LedgerAdmits(a, h)

(* No hour, day or lifetime exceeds what some budget allows, although the   *)
(* tracker decides from counters that it prunes (budget.rs, the retains).   *)
CapsHold == Exact => CapsRespected

(* A host never receives more than its own lifetime limit, although the     *)
(* tracker keeps no counter per host.                                       *)
HostCapHolds == Exact => HostCapRespected

(* A build with overflow checks never has a counter that disagrees with the *)
(* ledger, at any spending, not even after the panic that poisons the lock: *)
(* the total overflows before the hour and the day do, and it is added to   *)
(* first (budget.rs:156).                                                   *)
CountersNeverTorn ==
    OverflowChecks =>
        /\ total = ledger.total
        /\ Bucket(hourly, latest.hour) = ledger.hour[latest.hour]
        /\ Bucket(daily, latest.day) = ledger.day[latest.day]

(* The maps stay small whatever the clock does: no two entries are further  *)
(* apart than the kept window, unless the clock can step back beyond it.    *)
MapsArePruned ==
    /\ \A i, j \in DOMAIN hourly : i - j <= KeepHours \/ i - j <= BackHours
    /\ \A i, j \in DOMAIN daily : i - j <= KeepDays \/ i - j <= BackDays

(* The tracker implements SpendingCap: each call that returns Ok is an      *)
(* admitted payment of the ledger, everything else leaves the ledger alone. *)
ImplementsCap == CapSpec
=============================================================================
