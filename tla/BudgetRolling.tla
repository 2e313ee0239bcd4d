----------------------------- MODULE BudgetRolling -----------------------------
(***************************************************************************)
(* The tracker observed at the grain of single ticks, to compare its hour  *)
(* windows, which start at full hours, with the windows of one hour that   *)
(* start at any tick.  paidFrom is a history variable.                     *)
(***************************************************************************)
EXTENDS BudgetTracker

VARIABLE paidFrom   \* what was admitted within the hour that starts at each tick

rollingVars == <<trackerVars, paidFrom>>

HourFrom(t) == t .. t + HourLength - 1

RollingInit == Init /\ paidFrom = [t \in Clock |-> 0]

RollingNext ==
    \/ \E a \in Amounts, h \in Hosts :
        /\ CheckAndRecord(a, h)
        /\ paidFrom' = [t \in Clock |-> IF now \in HourFrom(t) THEN paidFrom[t] + a
                                        ELSE paidFrom[t]]
    \/ \E t \in Clock : ClockStep(t) /\ UNCHANGED paidFrom

RollingSpec == RollingInit /\ [][RollingNext]_rollingVars

-----------------------------------------------------------------------------

HourlyLimits == {b.hourly_max : b \in Budgets}

(* The counters are kept by full hours (budget.rs:116), so the cap is not a *)
(* rolling one.  A window of one hour, wherever it starts, meets two full   *)
(* hours and sees at most twice an hourly limit.                            *)
RollingTwiceHourlyCap ==
    Exact => \A t \in Clock : \E limit \in HourlyLimits :
                limit # NoLimit => paidFrom[t] <= 2 * limit
=============================================================================
