----------------------------- MODULE LnBackends -----------------------------
(***************************************************************************)
(* One call of pay_invoice through one of the adapters, and the node behind *)
(* it, which goes on whatever becomes of the call; and a query of the      *)
(* node's funds.  The adapter's part is in BackendAnswers.                 *)
(***************************************************************************)
EXTENDS BackendAnswers

CONSTANTS
    Asked,        \* amounts of invoices, in millisatoshis
    Fees,         \* routing fees, in millisatoshis
    FeeLimits,    \* limits of the caller, in satoshis
    Wallets,      \* what a node can say of its funds: [channels, info]
    MaxUpdates    \* bound on the lines of a stream

ASSUME BackendAssumption ==
    /\ Asked \subseteq Nat /\ Fees \subseteq Nat /\ FeeLimits \subseteq Nat /\ MaxUpdates \in Nat
    /\ \A wallet \in Wallets : wallet.channels \in Seq(Fields)

\* No node has more millisatoshis in its channels than a u64 can count: all
\* there will ever be are fewer.
ASSUME FundsAssumption == \A wallet \in Wallets : ClnSum(wallet.channels) < Modulus

Streaming == {"lnd_rest"}
Waiting   == {"lnd_rest", "lnd_grpc"}                 \* answer when the payment is over
Polling   == {"cln_rest", "cln_grpc", "swissknife"}   \* may answer before it is

FaultKinds == {"early_end",   \* an answer ends without a final update, as a proxy ends it
               "garbled"}     \* a wrapper leaves fields out or mixes them up

Environments == [inline : BOOLEAN, path : BOOLEAN, file : BOOLEAN,
                 address : {"invalid", "unreachable", "reachable"}]

VARIABLES
    kind, faults, asked, maxFee,   \* chosen once
    credential,  \* "none", then "good", "rejected" by the node, "invalid" as a header
    call,        \* "new", "ready", "unusable", "sent", "returned", "dropped", "panicked"
    limit,       \* the fee limit the node was given
    payment,     \* at the node
    feePaid,     \* at the node
    updates,     \* the answer so far
    closed,      \* "open", "complete", "cut", "refused"
    result,      \* what pay_invoice returned
    queried      \* what get_balance and get_info returned, and of which wallet

chosen == <<kind, faults, asked, maxFee>>
vars   == <<chosen, credential, call, limit, payment, feePaid, updates, closed, result, queried>>

NotQueried == [wallet |-> [channels |-> <<>>, info |-> Absent], sats |-> 0, channels |-> 0]

-----------------------------------------------------------------------------
Init ==
    /\ kind \in Kinds /\ faults \in SUBSET FaultKinds
    /\ asked \in Asked /\ maxFee \in FeeLimits
    /\ credential = "none" /\ call = "new" /\ limit = NoLimit
    /\ payment = "none" /\ feePaid = 0
    /\ updates = <<>> /\ closed = "open"
    /\ result = NoResult /\ queried = NotQueried

(* from_env.  Only a credential that is used as it was written can be      *)
(* impossible as a header: files are written as hex.                       *)
Connect(env) ==
    /\ call = "new"
    /\ \/ /\ FromEnv(kind, env) = "ok"
          /\ call' = "ready"
          /\ credential' \in {"good", "rejected"}
                \cup (IF kind \in Rest /\ env.inline THEN {"invalid"} ELSE {})
       \/ /\ FromEnv(kind, env) # "ok"
          /\ call' = "unusable" /\ UNCHANGED credential
    /\ UNCHANGED <<chosen, limit, payment, feePaid, updates, closed, result, queried>>

(* pay_invoice sends its request.  A credential that is no header value    *)
(* ends it there: with a panic in SwissKnife's adapter, else as an error.  *)
Send ==
    /\ call = "ready"
    /\ \/ /\ credential # "invalid"
          /\ call' = "sent" /\ limit' = FeeLimit(kind, maxFee) /\ UNCHANGED result
       \/ /\ credential = "invalid" /\ kind = "swissknife"
          /\ call' = "panicked" /\ UNCHANGED <<limit, result>>
       \/ /\ credential = "invalid" /\ kind # "swissknife"
          /\ call' = "returned" /\ result' = Error("transport") /\ UNCHANGED limit
    /\ UNCHANGED <<chosen, credential, payment, feePaid, updates, closed, queried>>

UnderWay == call \in {"sent", "dropped"} /\ closed = "open"

(* The node tries to pay, even if the connection broke meanwhile.          *)
Attempt ==
    /\ call \in {"sent", "dropped"} /\ closed \in {"open", "cut"}
    /\ credential = "good" /\ payment = "none"
    /\ payment' = "in_flight"
    /\ UNCHANGED <<chosen, credential, call, limit, feePaid, updates, closed, result, queried>>

Settle(fee) ==
    /\ payment = "in_flight"
    /\ limit = NoLimit \/ fee <= limit
    /\ payment' = "settled" /\ feePaid' = fee
    /\ UNCHANGED <<chosen, credential, call, limit, updates, closed, result, queried>>

GiveUp ==
    /\ payment = "in_flight"
    /\ payment' = "failed"
    /\ UNCHANGED <<chosen, credential, call, limit, feePaid, updates, closed, result, queried>>

-----------------------------------------------------------------------------
(* The answer.                                                             *)

StatusOf == [in_flight |-> "IN_FLIGHT", settled |-> "SUCCEEDED", failed |-> "FAILED"]

IsFinal(update) == update.status \in {"SUCCEEDED", "FAILED"}
HasFinal == \E i \in DOMAIN updates : IsFinal(updates[i])

FullUpdate == Update(StatusOf[payment], "given", Number(asked), Number(SatoshisFloor(asked)),
                     Number(feePaid), Number(SatoshisFloor(feePaid)), Number(asked + feePaid))
Garbled ==
    {[FullUpdate EXCEPT !.proof = proof] : proof \in Proofs}
    \cup {[FullUpdate EXCEPT !.msat = field] : field \in {Absent, Junk}}
    \cup {[FullUpdate EXCEPT !.fee = field, !.sent = field] : field \in {Absent, Junk}}

(* The node tells where the payment is: a stream at any time, otherwise    *)
(* once, and only some while the payment is under way.                     *)
Report ==
    /\ UnderWay /\ payment # "none" /\ ~HasFinal /\ Len(updates) < MaxUpdates
    /\ kind \in Streaming \/ updates = <<>>
    /\ payment = "in_flight" => kind \in Streaming \cup Polling
    /\ \E update \in (IF "garbled" \in faults /\ payment = "settled"
                      THEN Garbled ELSE {FullUpdate}) :
            updates' = Append(updates, update)
    /\ UNCHANGED <<chosen, credential, call, limit, payment, feePaid, closed, result, queried>>

(* A line behind the final update that carries no status.                  *)
Trailer ==
    /\ UnderWay /\ kind \in Streaming /\ HasFinal /\ Len(updates) < MaxUpdates
    /\ updates' = Append(updates, Bare("absent"))
    /\ UNCHANGED <<chosen, credential, call, limit, payment, feePaid, closed, result, queried>>

(* The node answers with an error before it tries to pay.                  *)
Refuse ==
    /\ UnderWay /\ payment = "none"
    /\ closed' = "refused"
    /\ UNCHANGED <<chosen, credential, call, limit, payment, feePaid, updates, result, queried>>

(* The answer is over.                                                     *)
Complete ==
    /\ UnderWay /\ payment # "none" /\ updates # <<>>
    /\ kind \in Streaming => HasFinal
    /\ closed' = "complete"
    /\ UNCHANGED <<chosen, credential, call, limit, payment, feePaid, updates, result, queried>>

(* It ends early as if it were over.                                       *)
EndEarly ==
    /\ UnderWay /\ payment # "none" /\ kind \in Waiting /\ "early_end" \in faults
    /\ closed' = "complete"
    /\ UNCHANGED <<chosen, credential, call, limit, payment, feePaid, updates, result, queried>>

(* It ends within a line, which is all there is where there is one.        *)
EndWithinLine ==
    /\ UnderWay /\ payment # "none" /\ kind \in Rest /\ "early_end" \in faults
    /\ Len(updates) < MaxUpdates /\ (kind \in Streaming \/ updates = <<>>)
    /\ updates' = Append(updates, Unparsable)
    /\ closed' = "complete"
    /\ UNCHANGED <<chosen, credential, call, limit, payment, feePaid, result, queried>>

(* The connection breaks.                                                  *)
Cut ==
    /\ UnderWay
    /\ closed' = "cut"
    /\ UNCHANGED <<chosen, credential, call, limit, payment, feePaid, updates, result, queried>>

-----------------------------------------------------------------------------
Return ==
    /\ call = "sent" /\ closed # "open"
    /\ call' = "returned"
    /\ result' = ResultOf(kind, updates, closed, credential = "rejected")
    /\ UNCHANGED <<chosen, credential, limit, payment, feePaid, updates, closed, queried>>

(* The caller drops the future; the node goes on.                          *)
Cancel ==
    /\ call = "sent"
    /\ call' = "dropped"
    /\ UNCHANGED <<chosen, credential, limit, payment, feePaid, updates, closed, result, queried>>

(* get_balance and get_info.  Core Lightning lists its channels, the others *)
(* name one number; only that of SwissKnife is signed.                     *)
Query(wallet) ==
    /\ call = "ready" /\ credential = "good" /\ queried = NotQueried
    /\ Len(wallet.channels) # 1 => kind \in {"cln_rest", "cln_grpc"}
    /\ kind # "swissknife" => \A i \in DOMAIN wallet.channels : OrZero(wallet.channels[i]) >= 0
    /\ queried' = [wallet |-> wallet, sats |-> BalanceOf(kind, wallet.channels),
                   channels |-> ChannelsOf(kind, wallet.info)]
    /\ UNCHANGED <<chosen, credential, call, limit, payment, feePaid, updates, closed, result>>

Next ==
    \/ \E env \in Environments : Connect(env)
    \/ Send \/ Attempt \/ GiveUp \/ Report \/ Trailer
    \/ Refuse \/ Complete \/ EndEarly \/ EndWithinLine \/ Cut
    \/ Return \/ Cancel
    \/ \E fee \in Fees : Settle(fee)
    \/ \E wallet \in Wallets : Query(wallet)

Spec == Init /\ [][Next]_vars

-----------------------------------------------------------------------------
(* The states of the payment in which an adapter may report PaymentFailed: *)
(* when it failed; besides, where the node may answer before the end, which *)
(* the payment can overtake, and where an answer that broke off is taken   *)
(* for a whole one; but never where the adapter waits for the end and gets *)
(* it.                                                                     *)
Trust ==
    IF kind = "nwc" THEN {}
    ELSE {"failed"}
         \cup (IF kind \in Polling THEN {"in_flight", "settled"} ELSE {})
         \cup (IF kind \in Waiting /\ "early_end" \in faults
               THEN {"in_flight", "settled"} ELSE {})
         \cup (IF kind \in Rest /\ "garbled" \in faults THEN {"settled"} ELSE {})

(* The answer is decided once the node has given it.                       *)
Decided ==
    IF closed # "open" THEN ResultOf(kind, updates, closed, credential = "rejected").tag
    ELSE result.tag

Answer == CASE Decided = "payment_failed" -> "failed"
            [] Decided = "ok"             -> "ok"
            [] Decided = "backend"        -> "backend"
            [] Decided = "none"           -> "none"

(* Every adapter implements the port that the client relies on             *)
(* (port.rs:44): it reports success only of settled payments, and failure  *)
(* only in the states it is trusted with, by however many updates, in      *)
(* whatever order and with whatever end the answer came.                   *)
Port == INSTANCE PaymentPort WITH trust <- Trust, answer <- Answer
ImplementsPort == Port!PortSpec

(* A payment that the node reported as settled in an answer that came to   *)
(* its end is returned with its proof, whatever stands before or behind    *)
(* that report in the answer (rest.rs:330).                                *)
SuccessIsReported ==
    /\ call = "returned" /\ closed = "complete"
    /\ \E i \in DOMAIN updates : IsSucceeded(updates[i]) /\ "garbled" \notin faults
    /\ \A i \in DOMAIN updates : updates[i].parses
    => result.tag = "ok"

(* No routing fee beyond the caller's limit is paid or reported, however   *)
(* large the limit is; except by the two wallets that are not told of it   *)
(* (swissknife/backend.rs:221, nwc/backend.rs:124).                        *)
FeeWithinLimit ==
    kind \notin {"swissknife", "nwc"} =>
        /\ feePaid <= maxFee * MsatPerSat
        /\ result.tag = "ok" /\ "garbled" \notin faults => result.fee <= maxFee

(* What is reported is never more than what is true: the amount of a       *)
(* receipt is at most what the budget was charged for its invoice, and     *)
(* less than a satoshi below it unless the wallet does not tell; the       *)
(* balance is at most the funds.                                           *)
ReportsAreCovered ==
    /\ result.tag = "ok" =>
        /\ result.amount <= Satoshis(asked)
        /\ kind # "nwc" /\ "garbled" \notin faults => result.amount + 1 >= Satoshis(asked)
    /\ queried # NotQueried =>
        LET funds == ClnSum(queried.wallet.channels)
        IN  /\ queried.sats >= 0
            /\ queried.sats * MsatPerSat <= (IF funds > 0 THEN funds ELSE 0)
            /\ (queried.sats + 1) * MsatPerSat > funds
=============================================================================
