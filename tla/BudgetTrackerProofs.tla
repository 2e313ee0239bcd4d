-------------------------- MODULE BudgetTrackerProofs --------------------------
(***************************************************************************)
(* The tracker keeps the caps of SpendingCap, for every budget, every set  *)
(* of hosts and amounts and every clock that is not set back further than  *)
(* the maps are kept.  Observed tick by tick, an hour that starts at any   *)
(* tick sees at most twice an hourly limit.                                *)
(***************************************************************************)
EXTENDS BudgetRolling, TLAPS

\* The clock is within the bounds of what pruning keeps.
ClockInv ==
    /\ latest.hour - BackHours <= HourOf(now) /\ HourOf(now) <= latest.hour
    /\ latest.day - BackDays <= DayOf(now) /\ DayOf(now) <= latest.day

\* The parts of the ledger are no larger than the whole.
LedgerInv ==
    /\ \A k \in Hours : ledger.hour[k] <= ledger.total
    /\ \A k \in Days : ledger.day[k] <= ledger.total
    /\ \A h \in Hosts : ledger.host[h] <= ledger.total

\* The counters agree with the ledger on every window the clock can stand in.
MatchInv ==
    Exact =>
        /\ total = ledger.total
        /\ \A k \in Hours : k >= latest.hour - KeepHours => Bucket(hourly, k) = ledger.hour[k]
        /\ \A k \in Days : k >= latest.day - KeepDays => Bucket(daily, k) = ledger.day[k]

IInv == TypeOK /\ ClockInv /\ LedgerInv /\ MatchInv

-----------------------------------------------------------------------------

\* Hours and days are natural numbers.
LEMMA WindowsAreNat ==
    /\ \A t \in Clock : HourOf(t) \in Hours /\ DayOf(t) \in Days
    /\ Hours \subseteq Nat
    /\ Days \subseteq Nat
<1>1. ASSUME NEW t \in Nat, NEW n \in Nat \ {0} PROVE t \div n \in Nat
    OBVIOUS
<1>2. \A t \in Clock : HourOf(t) \in Nat /\ DayOf(t) \in Nat
    BY <1>1, ClockAssumption DEF Clock, HourOf, DayOf
<1>3. QED
    BY <1>2 DEF Hours, Days

\* An override or the default, the limits of a host are a budget.
LEMMA EffectiveIsBudget ==
    \A h \in Hosts : Effective(h) \in BudgetLimits /\ Effective(h) \in Budgets
    BY LimitsAssumption DEF Effective, Budgets

\* u64 addition stays in its range, and is exact when it does not overflow.
LEMMA PlusRange ==
    ASSUME NEW x \in Nat, NEW y \in Nat
    PROVE  Plus(x, y) \in 0 .. Modulus - 1
    BY TrackerAssumption DEF Plus

LEMMA PlusExact ==
    ASSUME NEW x \in Nat, NEW y \in Nat, ~Overflows(x, y)
    PROVE  Plus(x, y) = x + y
    BY TrackerAssumption DEF Plus, Overflows

\* The ledger types, for an entry made at the current time.
LEMMA LedgerEntry ==
    ASSUME TypeOK, NEW a \in Amounts, NEW h \in Hosts
    PROVE  /\ a \in Nat /\ a <= MaxAmount
           /\ HourOf(now) \in Hours /\ DayOf(now) \in Days
           /\ Enter(ledger, a, h, now) \in Ledger
           /\ Enter(ledger, a, h, now).total = ledger.total + a
<1>1. a \in Nat /\ a <= MaxAmount
    BY AmountsAssumption
<1>2. HourOf(now) \in Hours /\ DayOf(now) \in Days
    BY WindowsAreNat DEF TypeOK, CapTypeOK
<1>3. Enter(ledger, a, h, now) \in Ledger
    BY <1>1, <1>2 DEF TypeOK, CapTypeOK, Ledger, Enter
<1>4. QED
    BY <1>1, <1>2, <1>3 DEF Enter

-----------------------------------------------------------------------------

\* What a recorded map looks like: it keeps the entries from the cutoff on,
\* that of k grows, and lookups of the other kept keys see what they saw.
LEMMA Recorded ==
    ASSUME NEW map, NEW k \in Int, NEW a, NEW cutoff \in Int, cutoff <= k
    PROVE  /\ \A j \in DOMAIN RecordAndPrune(map, k, a, cutoff) :
                j # k => /\ j \in DOMAIN map
                         /\ RecordAndPrune(map, k, a, cutoff)[j] = map[j]
           /\ k \in DOMAIN RecordAndPrune(map, k, a, cutoff)
           /\ RecordAndPrune(map, k, a, cutoff)[k] = Plus(Bucket(map, k), a)
           /\ \A j : j # k /\ j >= cutoff
                => Bucket(RecordAndPrune(map, k, a, cutoff), j) = Bucket(map, j)
<1> DEFINE new == RecordAndPrune(map, k, a, cutoff)
<1>1. DOMAIN new = {i \in DOMAIN map \cup {k} : i >= cutoff}
    BY DEF RecordAndPrune
<1>2. \A j \in DOMAIN new :
        new[j] = IF j = k THEN Plus(Bucket(map, k), a) ELSE map[j]
    BY DEF RecordAndPrune
<1>3. k \in DOMAIN new
    BY <1>1
<1>4. \A j : j # k /\ j >= cutoff => Bucket(new, j) = Bucket(map, j)
    BY <1>1, <1>2 DEF Bucket
<1> HIDE DEF new
<1>5. /\ \A j \in DOMAIN new : j # k => j \in DOMAIN map /\ new[j] = map[j]
      /\ new[k] = Plus(Bucket(map, k), a)
    BY <1>1, <1>2, <1>3
<1>6. QED
    BY <1>3, <1>4, <1>5 DEF new

-----------------------------------------------------------------------------

LEMMA InitIInv == Init => IInv
<1> SUFFICES ASSUME Init PROVE IInv
    OBVIOUS
<1> USE DEF Init, CapInit, EmptyLedger
<1>1. /\ HourOf(now) \in Hours /\ DayOf(now) \in Days
      /\ HourOf(now) \in Nat /\ DayOf(now) \in Nat
      /\ latest.hour = HourOf(now) /\ latest.day = DayOf(now)
    BY WindowsAreNat
<1>2. TypeOK
    <2>1. ledger \in Ledger
        BY DEF Ledger
    <2>2. DOMAIN hourly = {} /\ DOMAIN daily = {}
        OBVIOUS
    <2>3. total \in 0 .. Modulus - 1
        BY TrackerAssumption
    <2>4. poisoned \in BOOLEAN
        BY Zenon
    <2>5. QED
        BY <1>1, <2>1, <2>2, <2>3, <2>4 DEF TypeOK, CapTypeOK
<1>3. ClockInv
    BY <1>1, TrackerAssumption DEF ClockInv
<1>4. LedgerInv
    BY DEF LedgerInv
<1>5. MatchInv
    BY DEF MatchInv, Bucket
<1>6. QED
    BY <1>2, <1>3, <1>4, <1>5 DEF IInv

\* What a step of check_and_record that returns Ok adds up to.
LEMMA CheckedSums ==
    ASSUME IInv, Exact', NEW a \in Amounts, NEW h \in Hosts, CheckAndRecord(a, h)
    PROVE  /\ Exact
           /\ SpentThisHour = ledger.hour[HourOf(now)]
           /\ SpentToday = ledger.day[DayOf(now)]
           /\ Plus(total, a) = ledger.total + a
           /\ Plus(SpentThisHour, a) = SpentThisHour + a
           /\ Plus(SpentToday, a) = SpentToday + a
           /\ LedgerAdmits(a, h)
<1> USE DEF IInv
<1> DEFINE hr == HourOf(now)
           dy == DayOf(now)
<1>1. /\ a \in Nat /\ a <= MaxAmount /\ hr \in Hours /\ dy \in Days
      /\ hr \in Nat /\ dy \in Nat
    BY LedgerEntry, WindowsAreNat
<1>2. /\ ledger.total \in Nat /\ ledger.hour[hr] \in Nat /\ ledger.day[dy] \in Nat
      /\ ledger.hour[hr] <= ledger.total /\ ledger.day[dy] <= ledger.total
    BY <1>1 DEF TypeOK, CapTypeOK, Ledger, LedgerInv
<1>3. ledger'.total = ledger.total + a
    BY <1>1, LedgerEntry DEF CheckAndRecord
<1>4. Exact
    BY <1>1, <1>2, <1>3, TrackerAssumption, AmountsAssumption DEF Exact, InRange
<1>5. /\ total = ledger.total
      /\ SpentThisHour = ledger.hour[hr]
      /\ SpentToday = ledger.day[dy]
    <2>1. latest.hour \in Nat /\ latest.day \in Nat
        BY WindowsAreNat DEF TypeOK
    <2>2. hr >= latest.hour - KeepHours /\ dy >= latest.day - KeepDays
        BY <1>1, <2>1, TrackerAssumption, StepBackAssumption DEF ClockInv
    <2>3. QED
        BY <1>1, <1>4, <2>2 DEF MatchInv, SpentThisHour, SpentToday
<1>6. ledger.total + a < Modulus
    <2>1. CASE InRange'
        BY <1>1, <1>2, <1>3, <2>1, TrackerAssumption, AmountsAssumption DEF InRange
    <2>2. CASE OverflowChecks
        <3> SUFFICES ASSUME ledger.total + a >= Modulus PROVE FALSE
            BY <1>1, <1>2, TrackerAssumption
        <3> DEFINE b == Effective(h)
        <3>1. Overflows(total, a)
            BY <1>5 DEF Overflows
        <3>2. Admits(a, h) /\ ~Panics(a, h)
            BY DEF CheckAndRecord
        <3>3. b \in BudgetLimits
            BY EffectiveIsBudget
        <3>4. Within(SpentThisHour + a, b.hourly_max)
            <4>1. CASE b.hourly_max = NoLimit
                BY <4>1 DEF Within
            <4>2. CASE b.hourly_max # NoLimit
                <5>1. ~Overflows(SpentThisHour, a)
                    BY <2>2, <3>2, <4>2 DEF Panics, LimitOverflows, Admits, Passes
                <5>2. Plus(SpentThisHour, a) = SpentThisHour + a
                    BY <1>1, <1>2, <1>5, <5>1, PlusExact
                <5>3. QED
                    BY <3>2, <5>2 DEF Admits, Passes
            <4>3. QED
                BY <4>1, <4>2
        <3>5. Within(SpentToday + a, b.daily_max)
            <4>1. CASE b.daily_max = NoLimit
                BY <4>1 DEF Within
            <4>2. CASE b.daily_max # NoLimit
                <5>1. ~Overflows(SpentToday, a)
                    BY <2>2, <3>2, <3>4, <4>2 DEF Panics, LimitOverflows, Admits, Passes
                <5>2. Plus(SpentToday, a) = SpentToday + a
                    BY <1>1, <1>2, <1>5, <5>1, PlusExact
                <5>3. QED
                    BY <3>2, <5>2 DEF Admits, Passes
            <4>3. QED
                BY <4>1, <4>2
        <3>6. CASE b.total_max # NoLimit
            BY <2>2, <3>1, <3>2, <3>4, <3>5, <3>6 DEF Panics, LimitOverflows, Admits, Passes
        <3>7. CASE b.total_max = NoLimit
            <4>1. Passes(a, h, SpentThisHour + a, SpentToday + a, total + a)
                BY <3>2, <3>4, <3>5, <3>7 DEF Admits, Passes, Within
            <4>2. QED
                BY <2>2, <3>1, <3>2, <4>1 DEF Panics, RecordOverflows
        <3>8. QED
            BY <3>6, <3>7
    <2>3. QED
        BY <2>1, <2>2 DEF Exact
<1>7. /\ Plus(total, a) = ledger.total + a
      /\ Plus(SpentThisHour, a) = SpentThisHour + a
      /\ Plus(SpentToday, a) = SpentToday + a
    <2>1. ASSUME NEW x \in Nat, x <= ledger.total PROVE Plus(x, a) = x + a
        <3>1. ~Overflows(x, a)
            BY <1>1, <1>2, <1>6, <2>1, TrackerAssumption DEF Overflows
        <3>2. QED
            BY <1>1, <3>1, PlusExact
    <2>2. QED
        BY <1>2, <1>5, <2>1
<1>8. LedgerAdmits(a, h)
    BY <1>5, <1>7 DEF CheckAndRecord, Admits, LedgerAdmits
<1>9. QED
    BY <1>4, <1>5, <1>7, <1>8

-----------------------------------------------------------------------------

\* The maps after a payment was recorded.
LEMMA CheckedMaps ==
    ASSUME TypeOK, ClockInv, NEW a \in Amounts, NEW h \in Hosts, CheckAndRecord(a, h)
    PROVE  /\ DOMAIN hourly' \subseteq Hours
           /\ \A k \in DOMAIN hourly' : hourly'[k] \in 0 .. Modulus - 1
           /\ Bucket(hourly', HourOf(now)) = Plus(SpentThisHour, a)
           /\ \A k \in Hours : k # HourOf(now) /\ k >= latest.hour - KeepHours
                    => Bucket(hourly', k) = Bucket(hourly, k)
           /\ DOMAIN daily' \subseteq Days
           /\ \A k \in DOMAIN daily' : daily'[k] \in 0 .. Modulus - 1
           /\ Bucket(daily', DayOf(now)) = Plus(SpentToday, a)
           /\ \A k \in Days : k # DayOf(now) /\ k >= latest.day - KeepDays
                    => Bucket(daily', k) = Bucket(daily, k)
<1> DEFINE hr == HourOf(now)
           dy == DayOf(now)
<1>1. /\ a \in Nat /\ hr \in Hours /\ dy \in Days /\ hr \in Nat /\ dy \in Nat
      /\ latest.hour \in Nat /\ latest.day \in Nat
    BY LedgerEntry, WindowsAreNat DEF TypeOK
<1>2. /\ hr - KeepHours \in Int /\ hr - KeepHours <= hr
      /\ hr - KeepHours <= latest.hour - KeepHours
      /\ dy - KeepDays \in Int /\ dy - KeepDays <= dy
      /\ dy - KeepDays <= latest.day - KeepDays
    BY <1>1, TrackerAssumption DEF ClockInv
<1>3. /\ DOMAIN hourly' \subseteq Hours
      /\ \A k \in DOMAIN hourly' : hourly'[k] \in 0 .. Modulus - 1
      /\ Bucket(hourly', hr) = Plus(SpentThisHour, a)
      /\ \A k \in Hours : k # hr /\ k >= hr - KeepHours
                => Bucket(hourly', k) = Bucket(hourly, k)
    <2>1. hourly' = RecordAndPrune(hourly, hr, a, hr - KeepHours)
        BY DEF CheckAndRecord
    <2>2. /\ Hours \subseteq Nat /\ DOMAIN hourly \subseteq Hours
          /\ \A j \in DOMAIN hourly : hourly[j] \in 0 .. Modulus - 1
        BY WindowsAreNat DEF TypeOK
    <2>3. /\ \A j \in DOMAIN hourly' : j # hr => j \in DOMAIN hourly /\ hourly'[j] = hourly[j]
          /\ hr \in DOMAIN hourly' /\ hourly'[hr] = Plus(Bucket(hourly, hr), a)
          /\ \A j : j # hr /\ j >= hr - KeepHours => Bucket(hourly', j) = Bucket(hourly, j)
        BY <1>1, <1>2, <2>1, Recorded
    <2>4. Bucket(hourly, hr) \in Nat
        BY <2>2, TrackerAssumption DEF Bucket
    <2>5. hourly'[hr] \in 0 .. Modulus - 1
        BY <1>1, <2>3, <2>4, PlusRange
    <2>6. QED
        BY <1>1, <2>2, <2>3, <2>5 DEF Bucket, SpentThisHour
<1>4. /\ DOMAIN daily' \subseteq Days
      /\ \A k \in DOMAIN daily' : daily'[k] \in 0 .. Modulus - 1
      /\ Bucket(daily', dy) = Plus(SpentToday, a)
      /\ \A k \in Days : k # dy /\ k >= dy - KeepDays
                => Bucket(daily', k) = Bucket(daily, k)
    <2>1. daily' = RecordAndPrune(daily, dy, a, dy - KeepDays)
        BY DEF CheckAndRecord
    <2>2. /\ Days \subseteq Nat /\ DOMAIN daily \subseteq Days
          /\ \A j \in DOMAIN daily : daily[j] \in 0 .. Modulus - 1
        BY WindowsAreNat DEF TypeOK
    <2>3. /\ \A j \in DOMAIN daily' : j # dy => j \in DOMAIN daily /\ daily'[j] = daily[j]
          /\ dy \in DOMAIN daily' /\ daily'[dy] = Plus(Bucket(daily, dy), a)
          /\ \A j : j # dy /\ j >= dy - KeepDays => Bucket(daily', j) = Bucket(daily, j)
        BY <1>1, <1>2, <2>1, Recorded
    <2>4. Bucket(daily, dy) \in Nat
        BY <2>2, TrackerAssumption DEF Bucket
    <2>5. daily'[dy] \in 0 .. Modulus - 1
        BY <1>1, <2>3, <2>4, PlusRange
    <2>6. QED
        BY <1>1, <2>2, <2>3, <2>5 DEF Bucket, SpentToday
<1>5. \A k \in Hours : k >= latest.hour - KeepHours => k >= hr - KeepHours
    BY <1>1, <1>2, WindowsAreNat, TrackerAssumption
<1>6. \A k \in Days : k >= latest.day - KeepDays => k >= dy - KeepDays
    BY <1>1, <1>2, WindowsAreNat, TrackerAssumption
<1>7. QED
    BY <1>3, <1>4, <1>5, <1>6

LEMMA CheckAndRecordIInv ==
    ASSUME IInv, NEW a \in Amounts, NEW h \in Hosts, CheckAndRecord(a, h)
    PROVE  IInv'
<1> USE DEF IInv
<1> DEFINE hr == HourOf(now)
           dy == DayOf(now)
<1>1. /\ a \in Nat /\ hr \in Hours /\ dy \in Days
      /\ Hours \subseteq Nat /\ Days \subseteq Nat
    BY LedgerEntry, WindowsAreNat
<1>2. /\ ledger' = Enter(ledger, a, h, now) /\ ledger' \in Ledger
      /\ ledger \in Ledger /\ now' = now /\ latest' = latest
      /\ poisoned' = poisoned
    BY LedgerEntry DEF CheckAndRecord, TypeOK, CapTypeOK
<1>3. /\ ledger'.total = ledger.total + a
      /\ \A k \in Hours : ledger'.hour[k] = IF k = hr THEN ledger.hour[k] + a
                                                     ELSE ledger.hour[k]
      /\ \A k \in Days : ledger'.day[k] = IF k = dy THEN ledger.day[k] + a
                                                   ELSE ledger.day[k]
      /\ \A g \in Hosts : ledger'.host[g] = IF g = h THEN ledger.host[g] + a
                                                     ELSE ledger.host[g]
    BY <1>1, <1>2 DEF Enter, Ledger
<1>4. TypeOK'
    <2>1. total \in Nat
        BY TrackerAssumption DEF TypeOK
    <2>2. total' \in 0 .. Modulus - 1
        BY <1>1, <2>1, PlusRange DEF CheckAndRecord
    <2>3. CapTypeOK'
        BY <1>2 DEF TypeOK, CapTypeOK
    <2>4. QED
        BY <1>2, <2>2, <2>3, CheckedMaps DEF TypeOK
<1>5. ClockInv'
    BY <1>2 DEF ClockInv
<1>6. LedgerInv'
    BY <1>1, <1>2, <1>3 DEF LedgerInv, Ledger
<1>7. MatchInv'
    <2> SUFFICES ASSUME Exact'
                 PROVE  /\ total' = ledger'.total
                        /\ \A k \in Hours : k >= latest.hour - KeepHours
                                => Bucket(hourly', k) = ledger'.hour[k]
                        /\ \A k \in Days : k >= latest.day - KeepDays
                                => Bucket(daily', k) = ledger'.day[k]
        BY <1>2 DEF MatchInv, Bucket
    <2>1. total' = ledger'.total
        BY <1>3, CheckedSums DEF CheckAndRecord
    <2>2. ASSUME NEW k \in Hours, k >= latest.hour - KeepHours
          PROVE  Bucket(hourly', k) = ledger'.hour[k]
        <3>1. CASE k = hr
            BY <1>1, <1>3, <3>1, CheckedSums, CheckedMaps
        <3>2. CASE k # hr
            <4>1. Bucket(hourly', k) = Bucket(hourly, k)
                BY <2>2, <3>2, CheckedMaps
            <4>2. Bucket(hourly, k) = ledger.hour[k]
                BY <2>2, CheckedSums DEF MatchInv
            <4>3. QED
                BY <1>3, <3>2, <4>1, <4>2
        <3>3. QED
            BY <3>1, <3>2
    <2>3. ASSUME NEW k \in Days, k >= latest.day - KeepDays
          PROVE  Bucket(daily', k) = ledger'.day[k]
        <3>1. CASE k = dy
            BY <1>1, <1>3, <3>1, CheckedSums, CheckedMaps
        <3>2. CASE k # dy
            <4>1. Bucket(daily', k) = Bucket(daily, k)
                BY <2>3, <3>2, CheckedMaps
            <4>2. Bucket(daily, k) = ledger.day[k]
                BY <2>3, CheckedSums DEF MatchInv
            <4>3. QED
                BY <1>3, <3>2, <4>1, <4>2
        <3>3. QED
            BY <3>1, <3>2
    <2>4. QED
        BY <2>1, <2>2, <2>3
<1>8. QED
    BY <1>4, <1>5, <1>6, <1>7

\* The addition that panics comes before every assignment: where one of the
\* record overflows, that to the total does.
LEMMA PanicChangesNoCounter ==
    ASSUME IInv, NEW a \in Amounts, NEW h \in Hosts, CheckPanics(a, h)
    PROVE  total' = total /\ hourly' = hourly /\ daily' = daily
<1> DEFINE hr == HourOf(now)
           dy == DayOf(now)
<1>1. OverflowChecks /\ Exact
    BY DEF CheckPanics, Panics, Exact
<1>2. /\ a \in Nat /\ hr \in Hours /\ dy \in Days /\ hr \in Nat /\ dy \in Nat
      /\ latest.hour \in Nat /\ latest.day \in Nat
    BY LedgerEntry, WindowsAreNat DEF IInv, TypeOK
<1>3. /\ total = ledger.total
      /\ SpentThisHour = ledger.hour[hr]
      /\ SpentToday = ledger.day[dy]
    <2>1. hr >= latest.hour - KeepHours /\ dy >= latest.day - KeepDays
        BY <1>2, TrackerAssumption, StepBackAssumption DEF IInv, ClockInv
    <2>2. QED
        BY <1>1, <1>2, <2>1 DEF IInv, MatchInv, SpentThisHour, SpentToday
<1>4. /\ ledger.total \in Nat /\ ledger.hour[hr] \in Nat /\ ledger.day[dy] \in Nat
      /\ ledger.hour[hr] <= ledger.total /\ ledger.day[dy] <= ledger.total
    BY <1>2 DEF IInv, TypeOK, CapTypeOK, Ledger, LedgerInv
<1>5. RecordOverflows(a, h) => Overflows(total, a)
    BY <1>2, <1>3, <1>4, TrackerAssumption DEF RecordOverflows, Overflows
<1>6. QED
    BY <1>5 DEF CheckPanics

LEMMA CheckPanicsIInv ==
    ASSUME IInv, NEW a \in Amounts, NEW h \in Hosts, CheckPanics(a, h)
    PROVE  IInv'
<1> USE DEF IInv
<1>1. UNCHANGED <<now, ledger, latest, total, hourly, daily>> /\ poisoned' = TRUE
    BY PanicChangesNoCounter DEF CheckPanics
<1>2. TypeOK'
    BY <1>1 DEF TypeOK, CapTypeOK
<1>3. ClockInv' /\ LedgerInv'
    BY <1>1 DEF ClockInv, LedgerInv
<1>4. MatchInv'
    BY <1>1 DEF MatchInv, Exact, InRange, Bucket
<1>5. QED
    BY <1>2, <1>3, <1>4

LEMMA ClockStepIInv ==
    ASSUME IInv, NEW t \in Clock, ClockStep(t)
    PROVE  IInv'
<1> USE DEF IInv, ClockStep
<1>1. /\ HourOf(t) \in Hours /\ DayOf(t) \in Days
      /\ HourOf(t) \in Nat /\ DayOf(t) \in Nat
      /\ latest.hour \in Hours /\ latest.day \in Days
      /\ latest.hour \in Nat /\ latest.day \in Nat
    BY WindowsAreNat DEF TypeOK
<1>2. /\ latest'.hour \in Hours /\ latest'.day \in Days
      /\ latest'.hour >= latest.hour /\ latest'.day >= latest.day
      /\ HourOf(t) <= latest'.hour /\ DayOf(t) <= latest'.day
      /\ latest'.hour - BackHours <= HourOf(t) /\ latest'.day - BackDays <= DayOf(t)
    <2>1. /\ latest'.hour = IF HourOf(t) > latest.hour THEN HourOf(t) ELSE latest.hour
          /\ latest'.day = IF DayOf(t) > latest.day THEN DayOf(t) ELSE latest.day
        OBVIOUS
    <2>2. HourOf(t) >= latest.hour - BackHours /\ DayOf(t) >= latest.day - BackDays
        OBVIOUS
    <2>3. QED
        BY <1>1, <2>1, <2>2, TrackerAssumption
<1>3. TypeOK'
    BY <1>2 DEF TypeOK, CapTypeOK
<1>4. ClockInv'
    BY <1>2 DEF ClockInv
<1>5. LedgerInv'
    BY DEF LedgerInv
<1>6. MatchInv'
    <2>1. \A k \in Hours : k >= latest'.hour - KeepHours => k >= latest.hour - KeepHours
        BY <1>1, <1>2, WindowsAreNat, TrackerAssumption
    <2>2. \A k \in Days : k >= latest'.day - KeepDays => k >= latest.day - KeepDays
        BY <1>1, <1>2, WindowsAreNat, TrackerAssumption
    <2>3. QED
        BY <2>1, <2>2 DEF MatchInv, Exact, InRange, Bucket
<1>7. QED
    BY <1>3, <1>4, <1>5, <1>6

LEMMA StepIInv == IInv /\ [Next]_trackerVars => IInv'
<1> SUFFICES ASSUME IInv, [Next]_trackerVars PROVE IInv'
    OBVIOUS
<1>1. CASE Next
    BY <1>1, CheckAndRecordIInv, CheckPanicsIInv, ClockStepIInv DEF Next
<1>2. CASE UNCHANGED trackerVars
    BY <1>2 DEF trackerVars, IInv, TypeOK, CapTypeOK, ClockInv, LedgerInv,
                MatchInv, Exact, InRange, Bucket
<1>3. QED
    BY <1>1, <1>2

\* The inductive invariant holds of the tracker.
THEOREM BudgetInvariant == Spec => []IInv
    BY InitIInv, StepIInv, PTL DEF Spec

(* Type correctness of the tracker (budget.rs, BudgetState).                *)
THEOREM BudgetTypeCorrect == Spec => []TypeOK
    BY BudgetInvariant, PTL DEF IInv

-----------------------------------------------------------------------------

(* While the lifetime spending is in range, check_and_record decides from   *)
(* its pruned maps what the full ledger demands.                            *)
THEOREM BudgetDecisions == Spec => []DecisionsMatchLedger
<1>1. IInv => DecisionsMatchLedger
    <2> SUFFICES ASSUME IInv, InRange, NEW a \in Amounts, NEW h \in Hosts
                 PROVE  Admits(a, h) <=> LedgerAdmits(a, h)
        BY DEF DecisionsMatchLedger
    <2> USE DEF IInv
    <2> DEFINE hr == HourOf(now)
               dy == DayOf(now)
    <2>1. /\ a \in Nat /\ a <= MaxAmount /\ MaxAmount \in Nat
          /\ hr \in Hours /\ dy \in Days /\ hr \in Nat /\ dy \in Nat
          /\ latest.hour \in Nat /\ latest.day \in Nat
        BY LedgerEntry, WindowsAreNat, AmountsAssumption DEF TypeOK
    <2>2. /\ ledger.total \in Nat /\ ledger.hour[hr] \in Nat /\ ledger.day[dy] \in Nat
          /\ ledger.hour[hr] <= ledger.total /\ ledger.day[dy] <= ledger.total
        BY <2>1 DEF TypeOK, CapTypeOK, Ledger, LedgerInv
    <2>3. /\ total = ledger.total
          /\ SpentThisHour = ledger.hour[hr]
          /\ SpentToday = ledger.day[dy]
        <3>1. hr >= latest.hour - KeepHours /\ dy >= latest.day - KeepDays
            BY <2>1, TrackerAssumption, StepBackAssumption DEF ClockInv
        <3>2. QED
            BY <2>1, <3>1 DEF MatchInv, Exact, SpentThisHour, SpentToday
    <2>4. ASSUME NEW x \in Nat, x <= ledger.total PROVE Plus(x, a) = x + a
        <3>1. ~Overflows(x, a)
            BY <2>1, <2>2, <2>4, TrackerAssumption DEF InRange, Overflows
        <3>2. QED
            BY <2>1, <3>1, PlusExact
    <2>5. /\ Plus(total, a) = ledger.total + a
          /\ Plus(SpentThisHour, a) = ledger.hour[hr] + a
          /\ Plus(SpentToday, a) = ledger.day[dy] + a
        BY <2>2, <2>3, <2>4
    <2>6. QED
        BY <2>5 DEF Admits, LedgerAdmits
<1>2. QED
    BY <1>1, BudgetInvariant, PTL

-----------------------------------------------------------------------------

LEMMA CapsInit == Init => CapsRespected
<1> SUFFICES ASSUME Init PROVE CapsRespected
    OBVIOUS
<1>1. PICK h \in Hosts : TRUE
    BY LimitsAssumption
<1>2. Effective(h) \in Budgets /\ Effective(h) \in BudgetLimits
    BY EffectiveIsBudget
<1>3. /\ Within(0, Effective(h).hourly_max)
      /\ Within(0, Effective(h).daily_max)
      /\ Within(0, Effective(h).total_max)
    BY <1>2 DEF Within, BudgetLimits, Limit
<1>4. QED
    BY <1>2, <1>3 DEF Init, CapInit, EmptyLedger, CapsRespected

LEMMA CapsStep == IInv /\ CapsHold /\ [Next]_trackerVars => CapsHold'
<1> SUFFICES ASSUME IInv, CapsHold, [Next]_trackerVars, Exact' PROVE CapsRespected'
    BY DEF CapsHold
<1>1. ASSUME NEW a \in Amounts, NEW h \in Hosts, CheckAndRecord(a, h)
      PROVE  CapsRespected'
    <2> DEFINE b == Effective(h)
               hr == HourOf(now)
               dy == DayOf(now)
    <2>1. CapsRespected /\ LedgerAdmits(a, h)
        BY <1>1, CheckedSums DEF CapsHold
    <2>2. b \in Budgets
        BY EffectiveIsBudget
    <2>3. /\ ledger \in Ledger /\ hr \in Hours /\ dy \in Days
          /\ ledger' = Enter(ledger, a, h, now)
        BY <1>1, LedgerEntry DEF IInv, TypeOK, CapTypeOK, CheckAndRecord
    <2>4. /\ ledger'.total = ledger.total + a
          /\ \A k \in Hours : ledger'.hour[k] = IF k = hr THEN ledger.hour[k] + a
                                                         ELSE ledger.hour[k]
          /\ \A k \in Days : ledger'.day[k] = IF k = dy THEN ledger.day[k] + a
                                                       ELSE ledger.day[k]
        BY <2>3 DEF Enter, Ledger
    <2>5. /\ Within(ledger'.hour[hr], b.hourly_max)
          /\ Within(ledger'.day[dy], b.daily_max)
          /\ Within(ledger'.total, b.total_max)
        BY <2>1, <2>3, <2>4 DEF LedgerAdmits, Passes
    <2>6. \A k \in Hours : \E c \in Budgets : Within(ledger'.hour[k], c.hourly_max)
        BY <2>1, <2>2, <2>4, <2>5 DEF CapsRespected
    <2>7. \A k \in Days : \E c \in Budgets : Within(ledger'.day[k], c.daily_max)
        BY <2>1, <2>2, <2>4, <2>5 DEF CapsRespected
    <2>8. QED
        BY <2>2, <2>5, <2>6, <2>7 DEF CapsRespected
<1>2. ASSUME ledger' = ledger PROVE CapsRespected'
    BY <1>2 DEF CapsHold, CapsRespected, Exact, InRange
<1>3. QED
    BY <1>1, <1>2 DEF Next, CheckPanics, ClockStep, trackerVars

(* No hour, day or lifetime sees more spending than some budget allows.     *)
THEOREM BudgetCaps == Spec => []CapsHold
<1>1. Init => CapsHold
    BY CapsInit DEF CapsHold
<1>2. QED
    BY <1>1, CapsStep, BudgetInvariant, PTL DEF Spec

-----------------------------------------------------------------------------

(* A host never receives more than its own lifetime limit.                  *)
THEOREM BudgetHostCap == Spec => []HostCapHolds
<1>1. Init => HostCapHolds
    <2> SUFFICES ASSUME Init, NEW h \in Hosts
                 PROVE  Within(ledger.host[h], Effective(h).total_max)
        BY DEF HostCapHolds, HostCapRespected
    <2>1. ledger.host[h] = 0
        BY DEF Init, CapInit, EmptyLedger
    <2>2. QED
        BY <2>1, EffectiveIsBudget DEF Within, BudgetLimits, Limit
<1>2. IInv /\ HostCapHolds /\ [Next]_trackerVars => HostCapHolds'
    <2> SUFFICES ASSUME IInv, HostCapHolds, [Next]_trackerVars, Exact', NEW g \in Hosts
                 PROVE  Within(ledger'.host[g], Effective(g).total_max)
        BY DEF HostCapHolds, HostCapRespected
    <2>1. ASSUME NEW a \in Amounts, NEW h \in Hosts, CheckAndRecord(a, h)
          PROVE  Within(ledger'.host[g], Effective(g).total_max)
        <3>1. Within(ledger.host[g], Effective(g).total_max)
            BY <2>1, CheckedSums DEF HostCapHolds, HostCapRespected
        <3>2. ledger \in Ledger /\ a \in Nat /\ ledger' = Enter(ledger, a, h, now)
            BY <2>1, LedgerEntry DEF IInv, TypeOK, CapTypeOK, CheckAndRecord
        <3>3. ledger'.host[g] = IF g = h THEN ledger.host[g] + a ELSE ledger.host[g]
            BY <3>2 DEF Enter, Ledger
        <3>4. CASE g = h
            <4>1. Within(ledger.total + a, Effective(g).total_max)
                BY <2>1, <3>4, CheckedSums DEF LedgerAdmits, Passes
            <4>2. ledger.host[g] + a <= ledger.total + a
                BY <3>2 DEF IInv, LedgerInv, Ledger
            <4>3. QED
                BY <3>2, <3>3, <3>4, <4>1, <4>2, EffectiveIsBudget
                   DEF Within, BudgetLimits, Limit, Ledger
        <3>5. CASE g # h
            BY <3>1, <3>3, <3>5
        <3>6. QED
            BY <3>4, <3>5
    <2>2. ASSUME ledger' = ledger PROVE Within(ledger'.host[g], Effective(g).total_max)
        BY <2>2 DEF HostCapHolds, HostCapRespected, Exact, InRange
    <2>3. QED
        BY <2>1, <2>2 DEF Next, CheckPanics, ClockStep, trackerVars
<1>3. QED
    BY <1>1, <1>2, BudgetInvariant, PTL DEF Spec

-----------------------------------------------------------------------------

(* With overflow checks the counters stand for the ledger, a panic included.*)
THEOREM BudgetCounters == Spec => []CountersNeverTorn
<1>1. IInv => CountersNeverTorn
    <2> SUFFICES ASSUME IInv, OverflowChecks
                 PROVE  /\ total = ledger.total
                        /\ Bucket(hourly, latest.hour) = ledger.hour[latest.hour]
                        /\ Bucket(daily, latest.day) = ledger.day[latest.day]
        BY DEF CountersNeverTorn
    <2>1. /\ latest.hour \in Hours /\ latest.day \in Days
          /\ latest.hour \in Nat /\ latest.day \in Nat
        BY WindowsAreNat DEF IInv, TypeOK
    <2>2. QED
        BY <2>1, TrackerAssumption DEF IInv, MatchInv, Exact
<1>2. QED
    BY <1>1, BudgetInvariant, PTL

-----------------------------------------------------------------------------

\* The counters are exact for good when no addition can silently overflow.
LEMMA ExactStep ==
    ASSUME OverflowChecks \/ TotalsBounded
    PROVE  IInv /\ Exact /\ [Next]_trackerVars => Exact'
<1> SUFFICES ASSUME IInv, Exact, ~OverflowChecks, TotalsBounded, [Next]_trackerVars
             PROVE  InRange'
    BY DEF Exact
<1>1. ASSUME NEW a \in Amounts, NEW h \in Hosts, CheckAndRecord(a, h)
      PROVE  InRange'
    <2> DEFINE b == Effective(h)
    <2>1. /\ a \in Nat /\ a <= MaxAmount /\ MaxAmount \in Nat /\ ledger.total \in Nat
        BY LedgerEntry, AmountsAssumption DEF IInv, TypeOK, CapTypeOK, Ledger
    <2>2. total = ledger.total /\ ledger.total + MaxAmount < Modulus
        BY DEF IInv, MatchInv, Exact, InRange
    <2>3. ~Overflows(total, a)
        BY <2>1, <2>2, TrackerAssumption DEF Overflows
    <2>4. Plus(total, a) = ledger.total + a
        BY <2>1, <2>2, <2>3, PlusExact
    <2>5. b.total_max # NoLimit /\ b.total_max + MaxAmount < Modulus /\ b.total_max \in Nat
        BY EffectiveIsBudget DEF TotalsBounded, BudgetLimits, Limit
    <2>6. ledger.total + a <= b.total_max
        BY <1>1, <2>4, <2>5 DEF CheckAndRecord, Admits, Passes, Within
    <2>7. ledger'.total = ledger.total + a
        BY <1>1, LedgerEntry DEF CheckAndRecord, IInv
    <2>8. QED
        BY <2>1, <2>5, <2>6, <2>7, TrackerAssumption DEF InRange
<1>2. ASSUME ledger' = ledger PROVE InRange'
    BY <1>2 DEF Exact, InRange
<1>3. QED
    BY <1>1, <1>2 DEF Next, CheckPanics, ClockStep, trackerVars

(* The tracker implements SpendingCap: in a build with overflow checks, and *)
(* in one without when every budget limits the lifetime below 2^64.         *)
THEOREM BudgetRefinement ==
    ASSUME OverflowChecks \/ TotalsBounded
    PROVE  Spec => ImplementsCap
<1>1. Init => CapInit /\ Exact
    BY TrackerAssumption, AmountsAssumption DEF Init, CapInit, EmptyLedger, Exact, InRange
<1>2. IInv /\ Exact /\ [Next]_trackerVars => Exact'
    BY ExactStep
<1>3. IInv /\ Exact' /\ [Next]_trackerVars => [CapNext]_capVars
    <2> SUFFICES ASSUME IInv, Exact', [Next]_trackerVars PROVE [CapNext]_capVars
        OBVIOUS
    <2>1. ASSUME NEW a \in Amounts, NEW h \in Hosts, CheckAndRecord(a, h)
          PROVE  CapNext
        BY <2>1, CheckedSums DEF CapNext, Spend, CheckAndRecord
    <2>2. ASSUME NEW t \in Clock, ClockStep(t) PROVE CapNext
        BY <2>2 DEF CapNext, SetClock, ClockStep
    <2>3. ASSUME UNCHANGED <<now, ledger>> PROVE [CapNext]_capVars
        BY <2>3 DEF capVars
    <2>4. QED
        BY <2>1, <2>2, <2>3 DEF Next, CheckPanics, trackerVars
<1>4. QED
    BY <1>1, <1>2, <1>3, BudgetInvariant, PTL DEF Spec, ImplementsCap, CapSpec

-----------------------------------------------------------------------------

\* No entry of the maps is that of a window the clock has not shown, and no two
\* are further apart than the kept window.
PruneInv ==
    /\ MapsArePruned
    /\ \A k \in DOMAIN hourly : k <= latest.hour
    /\ \A k \in DOMAIN daily : k <= latest.day

\* Recording in the current window keeps a map narrow: older entries are above
\* the cutoff, and newer ones, left by a clock that was set back, are at most as
\* far ahead as the clock went back.
LEMMA RecordedIsNarrow ==
    ASSUME NEW map, DOMAIN map \subseteq Int, NEW k \in Int, NEW a,
           NEW last \in Int, NEW keep \in Nat, NEW back \in Nat,
           last - back <= k, k <= last,
           \A i \in DOMAIN map : i <= last,
           \A i, j \in DOMAIN map : i - j <= keep \/ i - j <= back
    PROVE  /\ \A i \in DOMAIN RecordAndPrune(map, k, a, k - keep) : i <= last
           /\ \A i, j \in DOMAIN RecordAndPrune(map, k, a, k - keep) :
                i - j <= keep \/ i - j <= back
<1>1. DOMAIN RecordAndPrune(map, k, a, k - keep)
        = {i \in DOMAIN map \cup {k} : i >= k - keep}
    BY DEF RecordAndPrune
<1>2. QED
    BY <1>1

LEMMA PruneStep == IInv /\ PruneInv /\ [Next]_trackerVars => PruneInv'
<1> SUFFICES ASSUME IInv, PruneInv, [Next]_trackerVars PROVE PruneInv'
    OBVIOUS
<1>1. /\ latest.hour \in Nat /\ latest.day \in Nat
      /\ DOMAIN hourly \subseteq Int /\ DOMAIN daily \subseteq Int
    <2>1. /\ latest.hour \in Hours /\ latest.day \in Days
          /\ DOMAIN hourly \subseteq Hours /\ DOMAIN daily \subseteq Days
        BY DEF IInv, TypeOK
    <2>2. Hours \subseteq Nat /\ Days \subseteq Nat
        BY WindowsAreNat
    <2>3. Hours \subseteq Int /\ Days \subseteq Int
        BY <2>2
    <2>4. latest.hour \in Nat /\ latest.day \in Nat
        BY <2>1, <2>2
    <2>5. QED
        BY <2>1, <2>3, <2>4, Zenon
<1>2. ASSUME NEW a \in Amounts, NEW h \in Hosts, CheckAndRecord(a, h)
      PROVE  PruneInv'
    <2>1. HourOf(now) \in Nat /\ DayOf(now) \in Nat
        BY LedgerEntry, WindowsAreNat DEF IInv
    <2>2. /\ latest' = latest
          /\ hourly' = RecordAndPrune(hourly, HourOf(now), a, HourOf(now) - KeepHours)
          /\ daily' = RecordAndPrune(daily, DayOf(now), a, DayOf(now) - KeepDays)
        BY <1>2 DEF CheckAndRecord
    <2>3. /\ \A i \in DOMAIN hourly' : i <= latest.hour
          /\ \A i, j \in DOMAIN hourly' : i - j <= KeepHours \/ i - j <= BackHours
        <3>1. /\ HourOf(now) \in Int /\ latest.hour \in Int
              /\ latest.hour - BackHours <= HourOf(now) /\ HourOf(now) <= latest.hour
              /\ DOMAIN hourly \subseteq Int /\ KeepHours \in Nat /\ BackHours \in Nat
            BY <1>1, <2>1, TrackerAssumption DEF IInv, ClockInv
        <3>2. /\ \A i \in DOMAIN hourly : i <= latest.hour
              /\ \A i, j \in DOMAIN hourly : i - j <= KeepHours \/ i - j <= BackHours
            BY <1>1 DEF PruneInv, MapsArePruned
        <3>3. QED
            BY <2>2, <3>1, <3>2, RecordedIsNarrow
    <2>4. /\ \A i \in DOMAIN daily' : i <= latest.day
          /\ \A i, j \in DOMAIN daily' : i - j <= KeepDays \/ i - j <= BackDays
        <3>1. /\ DayOf(now) \in Int /\ latest.day \in Int
              /\ latest.day - BackDays <= DayOf(now) /\ DayOf(now) <= latest.day
              /\ DOMAIN daily \subseteq Int /\ KeepDays \in Nat /\ BackDays \in Nat
            BY <1>1, <2>1, TrackerAssumption DEF IInv, ClockInv
        <3>2. /\ \A i \in DOMAIN daily : i <= latest.day
              /\ \A i, j \in DOMAIN daily : i - j <= KeepDays \/ i - j <= BackDays
            BY <1>1 DEF PruneInv, MapsArePruned
        <3>3. QED
            BY <2>2, <3>1, <3>2, RecordedIsNarrow
    <2>5. QED
        BY <2>2, <2>3, <2>4 DEF PruneInv, MapsArePruned
<1>3. ASSUME NEW a \in Amounts, NEW h \in Hosts, CheckPanics(a, h)
      PROVE  PruneInv'
    <2>1. UNCHANGED <<hourly, daily, latest>>
        BY <1>3, PanicChangesNoCounter DEF CheckPanics
    <2>2. QED
        BY <2>1 DEF PruneInv, MapsArePruned
<1>4. ASSUME NEW t \in Clock, ClockStep(t)
      PROVE  PruneInv'
    <2>1. /\ UNCHANGED <<hourly, daily>>
          /\ latest'.hour = IF HourOf(t) > latest.hour THEN HourOf(t) ELSE latest.hour
          /\ latest'.day = IF DayOf(t) > latest.day THEN DayOf(t) ELSE latest.day
        BY <1>4 DEF ClockStep
    <2>2. HourOf(t) \in Nat /\ DayOf(t) \in Nat
        BY WindowsAreNat
    <2>3. /\ \A k \in DOMAIN hourly : k <= latest'.hour
          /\ \A k \in DOMAIN daily : k <= latest'.day
        BY <1>1, <2>1, <2>2 DEF PruneInv
    <2>4. QED
        BY <2>1, <2>3 DEF PruneInv, MapsArePruned
<1>5. CASE UNCHANGED trackerVars
    BY <1>5 DEF trackerVars, PruneInv, MapsArePruned
<1>6. QED
    BY <1>2, <1>3, <1>4, <1>5 DEF Next

(* The maps stay narrow whatever the clock does (budget.rs, the retains).   *)
THEOREM BudgetMapsPruned == Spec => []MapsArePruned
<1>1. Init => PruneInv
    <2> SUFFICES ASSUME Init PROVE PruneInv
        OBVIOUS
    <2>1. DOMAIN hourly = {} /\ DOMAIN daily = {}
        BY DEF Init
    <2>2. QED
        BY <2>1 DEF PruneInv, MapsArePruned
<1>2. PruneInv => MapsArePruned
    BY DEF PruneInv
<1>3. QED
    BY <1>1, <1>2, PruneStep, BudgetInvariant, PTL DEF Spec

-----------------------------------------------------------------------------

\* What the ledger holds for an hour, none for one the clock never shows.
HourSum(k) == IF k \in Hours THEN ledger.hour[k] ELSE 0

\* An hour that starts at any tick meets two full hours, and holds no more.
RollInv ==
    /\ paidFrom \in [Clock -> Nat]
    /\ \A t \in Clock : paidFrom[t] <= HourSum(HourOf(t)) + HourSum(HourOf(t) + 1)

LEMMA HourMeetsTwo ==
    ASSUME NEW t \in Clock, NEW u \in Clock, u \in HourFrom(t)
    PROVE  HourOf(u) = HourOf(t) \/ HourOf(u) = HourOf(t) + 1
<1>1. ASSUME NEW n \in Nat \ {0}, NEW x \in Nat, NEW y \in Nat, x <= y, y < x + n
      PROVE  y \div n = x \div n \/ y \div n = x \div n + 1
    <2>1. PICK p \in Nat, q \in Nat :
            /\ p = x \div n /\ n * p <= x /\ x < n * p + n
            /\ q = y \div n /\ n * q <= y /\ y < n * q + n
        OBVIOUS
    <2>2. q >= p
        <3>1. SUFFICES ASSUME q + 1 <= p PROVE FALSE
            BY <2>1
        <3>2. n * (q + 1) <= n * p
            BY <3>1
        <3>3. n * (q + 1) = n * q + n
            OBVIOUS
        <3>4. QED
            BY <1>1, <2>1, <3>2, <3>3
    <2>3. q <= p + 1
        <3>1. SUFFICES ASSUME p + 2 <= q PROVE FALSE
            BY <2>1
        <3>2. n * (p + 2) <= n * q
            BY <3>1
        <3>3. n * (p + 2) = n * p + n + n
            OBVIOUS
        <3>4. QED
            BY <1>1, <2>1, <3>2, <3>3
    <2>4. QED
        BY <2>1, <2>2, <2>3
<1>2. t \in Nat /\ u \in Nat /\ t <= u /\ u < t + HourLength
    BY ClockAssumption DEF Clock, HourFrom
<1>3. QED
    BY <1>1, <1>2, ClockAssumption DEF HourOf

LEMMA RollStep == IInv /\ RollInv /\ [RollingNext]_rollingVars => RollInv'
<1> SUFFICES ASSUME IInv, RollInv, [RollingNext]_rollingVars PROVE RollInv'
    OBVIOUS
<1>1. \A k \in Hours : ledger.hour[k] \in Nat
    BY DEF IInv, TypeOK, CapTypeOK, Ledger
<1>2. ASSUME NEW a \in Amounts, NEW h \in Hosts, CheckAndRecord(a, h),
             paidFrom' = [t \in Clock |-> IF now \in HourFrom(t) THEN paidFrom[t] + a
                                          ELSE paidFrom[t]]
      PROVE  RollInv'
    <2>1. a \in Nat /\ HourOf(now) \in Hours /\ now \in Clock
        BY LedgerEntry DEF IInv, TypeOK, CapTypeOK
    <2>2. \A k \in Hours : ledger'.hour[k] = IF k = HourOf(now) THEN ledger.hour[k] + a
                                                                ELSE ledger.hour[k]
        BY <1>2, <2>1 DEF CheckAndRecord, Enter, IInv, TypeOK, CapTypeOK, Ledger
    <2>3. ASSUME NEW k PROVE /\ HourSum(k) \in Nat
                             /\ HourSum(k)' = IF k = HourOf(now) THEN HourSum(k) + a
                                                                 ELSE HourSum(k)
        BY <1>1, <2>1, <2>2 DEF HourSum
    <2>4. paidFrom' \in [Clock -> Nat]
        BY <1>2, <2>1 DEF RollInv
    <2>5. ASSUME NEW t \in Clock
          PROVE  paidFrom'[t] <= (HourSum(HourOf(t)) + HourSum(HourOf(t) + 1))'
        <3>1. /\ paidFrom[t] \in Nat
              /\ paidFrom[t] <= HourSum(HourOf(t)) + HourSum(HourOf(t) + 1)
            BY DEF RollInv
        <3>2. /\ HourSum(HourOf(t)) \in Nat /\ HourSum(HourOf(t) + 1) \in Nat
              /\ HourSum(HourOf(t))' = IF HourOf(t) = HourOf(now)
                                       THEN HourSum(HourOf(t)) + a ELSE HourSum(HourOf(t))
              /\ HourSum(HourOf(t) + 1)'
                    = IF HourOf(t) + 1 = HourOf(now)
                      THEN HourSum(HourOf(t) + 1) + a ELSE HourSum(HourOf(t) + 1)
            BY <2>3
        <3>3. CASE now \in HourFrom(t)
            <4>1. HourOf(now) = HourOf(t) \/ HourOf(now) = HourOf(t) + 1
                BY <2>1, <3>3, HourMeetsTwo
            <4>2. paidFrom'[t] = paidFrom[t] + a
                BY <1>2, <3>3
            <4>3. QED
                BY <2>1, <3>1, <3>2, <4>1, <4>2
        <3>4. CASE now \notin HourFrom(t)
            <4>1. paidFrom'[t] = paidFrom[t]
                BY <1>2, <3>4
            <4>2. QED
                BY <2>1, <3>1, <3>2, <4>1
        <3>5. QED
            BY <3>3, <3>4
    <2>6. QED
        BY <2>4, <2>5 DEF RollInv
<1>3. ASSUME UNCHANGED <<ledger, paidFrom>> PROVE RollInv'
    BY <1>3 DEF RollInv, HourSum
<1>4. QED
    BY <1>2, <1>3 DEF RollingNext, ClockStep, rollingVars, trackerVars

LEMMA RollTwice == IInv /\ RollInv /\ CapsHold => RollingTwiceHourlyCap
<1> SUFFICES ASSUME IInv, RollInv, CapsHold, Exact, NEW t \in Clock
             PROVE  \E limit \in HourlyLimits : limit # NoLimit => paidFrom[t] <= 2 * limit
    BY DEF RollingTwiceHourlyCap
<1>1. ASSUME NEW k
      PROVE  \E limit \in HourlyLimits : Within(HourSum(k), limit)
    <2>1. \A j \in Hours : \E b \in Budgets : Within(ledger.hour[j], b.hourly_max)
        BY DEF CapsHold, CapsRespected
    <2>2. CASE k \in Hours
        BY <2>1, <2>2 DEF HourlyLimits, HourSum
    <2>3. CASE k \notin Hours
        <3>1. PICK h \in Hosts : TRUE
            BY LimitsAssumption
        <3>2. Effective(h) \in Budgets /\ Effective(h).hourly_max \in Limit
            BY EffectiveIsBudget DEF BudgetLimits
        <3>3. Within(0, Effective(h).hourly_max)
            BY <3>2 DEF Within, Limit
        <3>4. QED
            BY <2>3, <3>2, <3>3 DEF HourlyLimits, HourSum
    <2>4. QED
        BY <2>2, <2>3
<1>2. HourlyLimits \subseteq Limit
    BY EffectiveIsBudget DEF HourlyLimits, Budgets, BudgetLimits
<1>3. PICK first \in HourlyLimits : Within(HourSum(HourOf(t)), first)
    BY <1>1
<1>4. PICK second \in HourlyLimits : Within(HourSum(HourOf(t) + 1), second)
    BY <1>1
<1>5. CASE first = NoLimit \/ second = NoLimit
    BY <1>5
<1>6. CASE first # NoLimit /\ second # NoLimit
    <2>1. first \in Nat /\ second \in Nat
        BY <1>2, <1>6 DEF Limit
    <2>2. HourSum(HourOf(t)) <= first /\ HourSum(HourOf(t) + 1) <= second
        BY <1>3, <1>4, <1>6 DEF Within
    <2>3. /\ HourSum(HourOf(t)) \in Nat /\ HourSum(HourOf(t) + 1) \in Nat
          /\ paidFrom[t] \in Nat
          /\ paidFrom[t] <= HourSum(HourOf(t)) + HourSum(HourOf(t) + 1)
        BY DEF HourSum, RollInv, IInv, TypeOK, CapTypeOK, Ledger
    <2>4. paidFrom[t] <= 2 * first \/ paidFrom[t] <= 2 * second
        BY <2>1, <2>2, <2>3
    <2>5. QED
        BY <2>4
<1>7. QED
    BY <1>5, <1>6

(* An hour that starts at any tick sees at most twice an hourly limit,      *)
(* because the counters are kept by full hours (budget.rs:116).             *)
THEOREM BudgetRollingCap == RollingSpec => []RollingTwiceHourlyCap
<1>1. RollingInit => Init /\ RollInv
    <2> SUFFICES ASSUME RollingInit PROVE RollInv
        BY DEF RollingInit
    <2>1. \A k \in Hours : ledger.hour[k] = 0
        BY DEF RollingInit, Init, CapInit, EmptyLedger
    <2>2. QED
        BY <2>1 DEF RollInv, RollingInit, HourSum
<1>2. Init => CapsHold
    BY CapsInit DEF CapsHold
<1>3. [RollingNext]_rollingVars => [Next]_trackerVars
    BY DEF RollingNext, Next, rollingVars, trackerVars
<1>4. QED
    BY <1>1, <1>2, <1>3, InitIInv, StepIInv, CapsStep, RollStep, RollTwice, PTL
       DEF RollingSpec

=============================================================================
