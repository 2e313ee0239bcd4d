--------------------------- MODULE MCBudgetTracker ---------------------------
(***************************************************************************)
(* An instance of BudgetTracker for TLC.  Two hosts with an override and   *)
(* one on the default limits share the counters.                           *)
(***************************************************************************)
EXTENDS BudgetTracker, TLC

CONSTANTS h1, h2, h3, LedgerBound

Lim(request, hour, day, lifetime) ==
    [per_request_max |-> request, hourly_max |-> hour,
     daily_max |-> day, total_max |-> lifetime]

\* every limit bites: two payments fill an hour, three a day, five a lifetime;
\* without a limit of its own h3 takes the total to the width of the counter
Default   == Lim(2, 2, 3, 5)
Overrides == h2 :> Lim(1, 1, 3, 4) @@ h3 :> Lim(NoLimit, 2, 3, NoLimit)

\* the clock may go around while an ever growing ledger is cut at LedgerBound
MCNext == Next /\ ledger'.total <= LedgerBound
MCSpec == Init /\ [][MCNext]_trackerVars
=============================================================================
