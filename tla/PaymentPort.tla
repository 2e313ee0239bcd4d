---------------------------- MODULE PaymentPort ----------------------------
(***************************************************************************)
(* What the client may rely on when it calls LnBackend::pay_invoice, for   *)
(* one call: success is reported of settled payments only, and failure     *)
(* only in the states the backend is trusted with.  An error of the        *)
(* backend itself says nothing about the payment, which goes on without    *)
(* the caller.                                                             *)
(***************************************************************************)
VARIABLES
    trust,     \* the states in which PaymentFailed may be reported
    payment,   \* the payment at the node
    answer     \* what pay_invoice returns

PaymentStates == {"none", "in_flight", "settled", "failed"}

PortInit ==
    /\ trust \in SUBSET PaymentStates
    /\ payment = "none"
    /\ answer = "none"

PortSend ==
    /\ payment = "none"
    /\ payment' = "in_flight"
    /\ UNCHANGED <<trust, answer>>

PortResolve ==
    /\ payment = "in_flight"
    /\ payment' \in {"settled", "failed"}
    /\ UNCHANGED <<trust, answer>>

PortReturn ==
    /\ answer = "none"
    /\ answer' \in {"ok", "failed", "backend"}
    /\ answer' = "ok" => payment = "settled"
    /\ answer' = "failed" => payment \in trust
    /\ UNCHANGED <<trust, payment>>

PortNext == PortSend \/ PortResolve \/ PortReturn

PortSpec == PortInit /\ [][PortNext]_<<trust, payment, answer>>
=============================================================================
