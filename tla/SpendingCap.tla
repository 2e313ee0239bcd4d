------------------------------ MODULE SpendingCap ------------------------------
(***************************************************************************)
(* What a budget promises, with no bookkeeping: there is a ledger of every *)
(* satoshi ever admitted, by hour, by day, by host and in total, which     *)
(* forgets nothing and never overflows, and a payment is admitted only if  *)
(* the ledger including it respects the limits of its host.                *)
(*                                                                         *)
(* The code does not keep this ledger.  It keeps 64-bit counters in maps   *)
(* it prunes while the wall clock moves both ways; BudgetTracker shows     *)
(* that its decisions are nevertheless those of this specification.        *)
(***************************************************************************)
EXTENDS Budget

VARIABLES
    now,     \* what the wall clock shows
    ledger   \* everything admitted so far

capVars == <<now, ledger>>

Ledger == [total : Nat, hour : [Hours -> Nat], day : [Days -> Nat],
           host : [Hosts -> Nat]]

EmptyLedger == [total |-> 0,
                hour  |-> [k \in Hours |-> 0],
                day   |-> [k \in Days |-> 0],
                host  |-> [h \in Hosts |-> 0]]

Enter(book, amount, host, t) ==
    [total |-> book.total + amount,
     hour  |-> [book.hour EXCEPT ![HourOf(t)] = @ + amount],
     day   |-> [book.day EXCEPT ![DayOf(t)] = @ + amount],
     host  |-> [book.host EXCEPT ![host] = @ + amount]]

LedgerAdmits(amount, host) ==
    Passes(amount, host, ledger.hour[HourOf(now)] + amount,
           ledger.day[DayOf(now)] + amount, ledger.total + amount)

-----------------------------------------------------------------------------

CapInit ==
    /\ now \in Clock
    /\ ledger = EmptyLedger

Spend(amount, host) ==
    /\ LedgerAdmits(amount, host)
    /\ ledger' = Enter(ledger, amount, host, now)
    /\ UNCHANGED now

SetClock(t) ==
    /\ now' = t
    /\ UNCHANGED ledger

CapNext ==
    \/ \E a \in Amounts, h \in Hosts : Spend(a, h)
    \/ \E t \in Clock : SetClock(t)

CapSpec == CapInit /\ [][CapNext]_capVars

-----------------------------------------------------------------------------

CapTypeOK ==
    /\ now \in Clock
    /\ ledger \in Ledger

(* No hour, no day and no lifetime ever sees more spending than some        *)
(* configured budget allows for it: with one budget, its limits are hard    *)
(* caps; with overrides, the loosest one is.                                *)
CapsRespected ==
    /\ \A k \in Hours : \E b \in Budgets : Within(ledger.hour[k], b.hourly_max)
    /\ \A k \in Days : \E b \in Budgets : Within(ledger.day[k], b.daily_max)
    /\ \E b \in Budgets : Within(ledger.total, b.total_max)

(* A host never receives more over the lifetime than its own total limit,   *)
(* whatever the other hosts received.                                       *)
HostCapRespected ==
    \A h \in Hosts : Within(ledger.host[h], Effective(h).total_max)
=============================================================================
