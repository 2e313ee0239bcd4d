--------------------------- MODULE MCBudgetRolling ---------------------------
EXTENDS BudgetRolling, TLC

CONSTANT h1

\* an hourly limit alone; three hours of three ticks fit on the clock
HourlyDefault == [per_request_max |-> NoLimit, hourly_max |-> 2,
                  daily_max |-> NoLimit, total_max |-> NoLimit]
NoOverrides == << >>
=============================================================================
