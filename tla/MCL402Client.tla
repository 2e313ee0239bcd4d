----------------------------- MODULE MCL402Client -----------------------------
(***************************************************************************)
(* Instances of L402Client for TLC: one URL with an override of its host's *)
(* limits and one on the default limits.                                   *)
(***************************************************************************)
EXTENDS L402Client, TLC

CONSTANTS u1, u2, h1, h2

Lim(request, hour, day, lifetime) ==
    [per_request_max |-> request, hourly_max |-> hour,
     daily_max |-> day, total_max |-> lifetime]

\* the third payment is one too many, and so is the second in an hour
TightDefault   == Lim(2, 2, NoLimit, 3)
TightOverrides == h2 :> Lim(1, NoLimit, NoLimit, 2)

HostOfUrl == u1 :> h1 @@ u2 :> h2
OneHost   == u1 :> h1
NoOverrides == << >>

Symmetry == Permutations(Challenges) \cup Permutations(Tasks)
OneTaskSymmetry == Permutations(Challenges)
Keeps    == \A u \in Urls : WF_vars(\E t \in Tasks : Start(t, u))
KeepSpec == FairSpec /\ Keeps
=============================================================================
