------------------------------ MODULE L402Client ------------------------------
(***************************************************************************)
(* The request engine of bolt402-core (client.rs, L402Client::request):    *)
(* any number of requests of one client run at the same time, each a task  *)
(* that goes from one await, or one lock, to the next.  They share the     *)
(* budget, the token store and the receipts.  The budget is the promise of *)
(* SpendingCap, which BudgetTracker implements; the store is the port      *)
(* TokenStore, which TokenCache implements.                                *)
(*                                                                         *)
(* A challenge of the server stands for its macaroon, its invoice and the  *)
(* preimage that paying the invoice reveals, so a token is named by its    *)
(* challenge.  The server and the Lightning node are the environment.      *)
(***************************************************************************)
EXTENDS SpendingCap, FiniteSets, Sequences, Functions

CONSTANTS
    Tasks,        \* the requests that can be under way at the same time
    Urls,
    Challenges,   \* the challenges the server can issue, each once
    None,         \* no challenge, no token
    HostOf,       \* the host of each URL
    MaxFee,       \* the most that the node takes for routing one payment, on
                  \* top of the invoice: max_fee_sats, which it is sent with
    Faults        \* what can go wrong in the environment, a subset of:

FaultKinds == {"http",          \* a request to the server fails
               "server_error",  \* the server answers 5xx
               "bad_challenge", \* a 402 carries no challenge that parses
               "unreadable",    \* the node pays an invoice the client cannot decode
               "reject_401",    \* the server refuses a token with 401, not 402
               "store",         \* an operation of the token store fails
               "backend",       \* the Lightning backend reports an error: the
                                \* payment was never sent, or its end is unknown
               "pending",       \* it reports a payment still under way as failed
               "header",        \* it reports a preimage that fits in no header
               "cancel"}        \* the caller drops the request

ASSUME ClientAssumption ==
    /\ None \notin Challenges
    /\ None \notin Urls
    /\ HostOf \in [Urls -> Hosts]
    /\ MaxFee \in Nat
    /\ Faults \subseteq FaultKinds

VARIABLES
    pc,        \* where each task is: the step it takes next
    url,       \* the URL each task requests
    held,      \* the challenge, or the token, that each task works with
    cached,    \* the token store
    receipts,  \* L402Client.receipts
    issued,    \* server: the URL and the amount of each challenge it issued
    revoked,   \* server: the challenges whose tokens it no longer accepts
    payment,   \* node: the state of the payment of each challenge
    fee,       \* node: what it took for routing the payment of each challenge
    ended      \* history: how the request that got each challenge ended

taskVars   == <<pc, url, held>>
serverVars == <<issued, revoked>>
vars == <<capVars, taskVars, cached, receipts, serverVars, payment, fee, ended>>

Store == INSTANCE TokenStore WITH Endpoints <- Urls, Tokens <- Challenges, NoToken <- None

\* An amount of 0 stands for an invoice that states none.
Invoices == [url : Urls, amount : Amounts, readable : BOOLEAN]

ASSUME NoInvoiceAssumption == None \notin Invoices

\* What the client decodes the amount of an invoice to: an invoice it cannot
\* decode counts as one that states no amount.
Decoded(c) == IF issued[c].readable THEN issued[c].amount ELSE 0

Steps == {"idle", "lookup", "try_cached", "discard", "request", "charge", "pay",
          "paying", "put", "retry", "discard_paid"}

Errors == {"http", "challenge", "store", "budget", "payment_failed", "backend",
           "retry_failed", "cancelled"}
Outcomes == {"free", "cached", "paid"} \cup Errors

PaymentStates == {"none", "in_flight", "settled", "failed"}

Statuses == {"ok", "server_error", "unauthorized"}   \* of the answers that are not 402

\* The server accepts the token of a challenge it issued for this URL, once
\* the invoice is paid and until it revokes the token.
Accepts(u, c) ==
    /\ c # None
    /\ issued[c] # None
    /\ issued[c].url = u
    /\ payment[c] = "settled"
    /\ c \notin revoked

\* What the server answers to a token: anything but 402 when it accepts it.
Answers(u, c) ==
    IF Accepts(u, c)
    THEN {"ok"} \cup (Faults \cap {"server_error", "http"})
    ELSE {IF "reject_401" \in Faults THEN "unauthorized" ELSE "payment_required"}
            \cup (Faults \cap {"http"})

-----------------------------------------------------------------------------

Init ==
    /\ CapInit
    /\ pc = [t \in Tasks |-> "idle"]
    /\ url = [t \in Tasks |-> None]
    /\ held = [t \in Tasks |-> None]
    /\ Store!StoreInit
    /\ receipts = << >>
    /\ issued = [c \in Challenges |-> None]
    /\ revoked = {}
    /\ payment = [c \in Challenges |-> "none"]
    /\ fee = [c \in Challenges |-> 0]
    /\ ended = [c \in Challenges |-> "open"]

\* A task moves on to a step, or its request ends.
Goto(t, step) ==
    /\ pc' = [pc EXCEPT ![t] = step]
    /\ UNCHANGED <<url, held, ended>>

Hold(t, c, step) ==
    /\ pc' = [pc EXCEPT ![t] = step]
    /\ held' = [held EXCEPT ![t] = c]
    /\ UNCHANGED <<url, ended>>

\* The steps at which the task holds the challenge its own request was given.
WithChallenge == {"charge", "pay", "paying", "put", "retry", "discard_paid"}

Finish(t, outcome) ==
    /\ pc' = [pc EXCEPT ![t] = "idle"]
    /\ url' = [url EXCEPT ![t] = None]
    /\ held' = [held EXCEPT ![t] = None]
    /\ ended' = IF pc[t] \in WithChallenge
                THEN [ended EXCEPT ![held[t]] = outcome]
                ELSE ended

\* PaymentResult.amount_sats: the satoshis of the payment as the backend reports
\* them, rounded down by some, 0 by Nostr Wallet Connect and never more than the
\* invoice asks for (LnBackends, ReportsAreCovered).  The receipt takes it; what
\* the budget was charged is another number.
Reported(c) == 0 .. issued[c].amount

AddReceipt(t, amount, status) ==
    receipts' = Append(receipts, [paid   |-> held[t],
                                  url    |-> url[t],
                                  amount |-> amount,
                                  status |-> status])

\* get, post: a caller starts a request
Start(t, u) ==
    /\ pc[t] = "idle"
    /\ pc' = [pc EXCEPT ![t] = "lookup"]
    /\ url' = [url EXCEPT ![t] = u]
    /\ UNCHANGED <<capVars, held, cached, receipts, serverVars, payment, fee, ended>>

\* Mutant: the store is not consulted.
LookupSkipped(t) ==
    /\ pc[t] = "lookup"
    /\ Goto(t, "request")
    /\ UNCHANGED <<capVars, cached, receipts, serverVars, payment, fee>>

\* token_store.get(url)
Lookup(t) ==
    /\ pc[t] = "lookup"
    /\ \/ cached[url[t]] # None /\ Hold(t, cached[url[t]], "try_cached")
       \/ cached[url[t]] = None /\ Goto(t, "request")
       \/ "store" \in Faults /\ Finish(t, "store")
    /\ UNCHANGED <<capVars, cached, receipts, serverVars, payment, fee>>

\* Mutants of TryCached: a rejected token is tried again; a response that used
\* a cached token gets a receipt.
TryCachedAgain(t) ==
    /\ pc[t] = "try_cached"
    /\ \E answer \in Answers(url[t], held[t]) :
        \/ answer = "payment_required" /\ Goto(t, "lookup")
        \/ answer = "http" /\ Finish(t, "http")
        \/ answer \notin {"payment_required", "http"} /\ Finish(t, "cached")
    /\ UNCHANGED <<capVars, cached, receipts, serverVars, payment, fee>>
TryCachedRecords(t) ==
    /\ pc[t] = "try_cached"
    /\ \E answer \in Answers(url[t], held[t]) :
        \/ answer = "payment_required" /\ Goto(t, "discard") /\ UNCHANGED receipts
        \/ answer = "http" /\ Finish(t, "http") /\ UNCHANGED receipts
        \/ /\ answer \notin {"payment_required", "http"}
           /\ Finish(t, "cached")
           /\ \E amount \in Reported(held[t]) : AddReceipt(t, amount, answer)
    /\ UNCHANGED <<capVars, cached, serverVars, payment, fee>>

\* send_with_auth with the cached token: any answer but 402 is returned
TryCached(t) ==
    /\ pc[t] = "try_cached"
    /\ \/ \E answer \in Answers(url[t], held[t]) :
            \/ answer = "payment_required" /\ Goto(t, "discard")
            \/ answer = "http" /\ Finish(t, "http")
            \/ answer \notin {"payment_required", "http"} /\ Finish(t, "cached")
       \/ "header" \in Faults /\ Finish(t, "backend")
    /\ UNCHANGED <<capVars, cached, receipts, serverVars, payment, fee>>

\* Mutants of Discard: the whole store is cleared; the token is left there.
DiscardAll(t) ==
    /\ pc[t] = "discard"
    /\ Store!StoreClear /\ Hold(t, None, "request")
    /\ UNCHANGED <<capVars, receipts, serverVars, payment, fee>>
DiscardNothing(t) ==
    /\ pc[t] = "discard"
    /\ Hold(t, None, "request")
    /\ UNCHANGED <<capVars, cached, receipts, serverVars, payment, fee>>

\* token_store.remove(url) after a rejected token, then on without a token
Discard(t) ==
    /\ pc[t] = "discard"
    /\ \/ Store!StoreRemove(url[t]) /\ Hold(t, None, "request")
       \/ "store" \in Faults /\ Finish(t, "store") /\ UNCHANGED cached
    /\ UNCHANGED <<capVars, receipts, serverVars, payment, fee>>

\* send_request without a token, and what the server answers
Request(t) ==
    /\ pc[t] = "request"
    /\ \/ \E c \in Challenges, invoice \in Invoices :
            /\ issued[c] = None
            /\ invoice.url = url[t]
            /\ invoice.readable \/ "unreadable" \in Faults
            /\ issued' = [issued EXCEPT ![c] = invoice]
            /\ Hold(t, c, "charge")
       \/ Finish(t, "free") /\ UNCHANGED issued
       \/ "http" \in Faults /\ Finish(t, "http") /\ UNCHANGED issued
       \/ "bad_challenge" \in Faults /\ Finish(t, "challenge") /\ UNCHANGED issued
    /\ UNCHANGED <<capVars, cached, receipts, revoked, payment, fee>>

\* Mutant: the amount is checked but not recorded.
ChargeNotRecorded(t) ==
    /\ pc[t] = "charge"
    /\ \/ LedgerAdmits(Decoded(held[t]), HostOf[url[t]]) /\ Goto(t, "pay")
       \/ ~LedgerAdmits(Decoded(held[t]), HostOf[url[t]]) /\ Finish(t, "budget")
    /\ UNCHANGED <<capVars, cached, receipts, serverVars, payment, fee>>

\* check_and_record with the amount that the invoice decodes to
Charge(t) ==
    LET amount == Decoded(held[t])
        host   == HostOf[url[t]]
    IN
    /\ pc[t] = "charge"
    /\ \/ Spend(amount, host) /\ Goto(t, "pay")
       \/ ~LedgerAdmits(amount, host) /\ Finish(t, "budget") /\ UNCHANGED capVars
    /\ UNCHANGED <<cached, receipts, serverVars, payment, fee>>

\* ln_backend.pay_invoice: the payment is sent, unless the backend fails first.
\* It may cost up to MaxFee more than was charged.
Pay(t) ==
    /\ pc[t] = "pay"
    /\ \/ payment' = [payment EXCEPT ![held[t]] = "in_flight"] /\ Goto(t, "paying")
       \/ "backend" \in Faults /\ Finish(t, "backend") /\ UNCHANGED payment
    /\ UNCHANGED <<capVars, cached, receipts, serverVars, fee>>

\* Mutant: a payment under way counts as settled.
PayReturnsEarly(t) ==
    /\ pc[t] = "paying"
    /\ \/ payment[held[t]] # "failed" /\ Goto(t, "put")
       \/ payment[held[t]] = "failed" /\ Finish(t, "payment_failed")
    /\ UNCHANGED <<capVars, cached, receipts, serverVars, payment, fee>>

\* pay_invoice returns: the preimage of a settled payment, or an error
PayReturns(t) ==
    /\ pc[t] = "paying"
    /\ \/ payment[held[t]] = "settled" /\ Goto(t, "put")
       \/ payment[held[t]] = "failed" /\ Finish(t, "payment_failed")
       \/ /\ "pending" \in Faults
          /\ payment[held[t]] = "in_flight"
          /\ Finish(t, "payment_failed")
       \/ "backend" \in Faults /\ Finish(t, "backend")
    /\ UNCHANGED <<capVars, cached, receipts, serverVars, payment, fee>>

\* token_store.put(url, macaroon, preimage)
Put(t) ==
    /\ pc[t] = "put"
    /\ \/ Store!StorePut(url[t], held[t]) /\ Goto(t, "retry")
       \/ "store" \in Faults /\ Finish(t, "store") /\ UNCHANGED cached
    /\ UNCHANGED <<capVars, receipts, serverVars, payment, fee>>

\* Mutants of Retry: a second 402 is a success; a success has no receipt.
RetryAccepts402(t) ==
    /\ pc[t] = "retry"
    /\ \E answer \in Answers(url[t], held[t]) :
        \/ answer = "http" /\ Finish(t, "http") /\ UNCHANGED receipts
        \/ /\ answer # "http"
           /\ Finish(t, "paid")
           /\ \E amount \in Reported(held[t]) : AddReceipt(t, amount, answer)
    /\ UNCHANGED <<capVars, cached, serverVars, payment, fee>>
RetryNoReceipt(t) ==
    /\ pc[t] = "retry"
    /\ \E answer \in Answers(url[t], held[t]) :
        \/ answer = "payment_required" /\ Goto(t, "discard_paid")
        \/ answer = "http" /\ Finish(t, "http")
        \/ answer \notin {"payment_required", "http"} /\ Finish(t, "paid")
    /\ UNCHANGED <<capVars, cached, receipts, serverVars, payment, fee>>

\* send_with_auth with the token just paid for: any answer but 402 is a success
Retry(t) ==
    /\ pc[t] = "retry"
    /\ \/ \E answer \in Answers(url[t], held[t]) :
            \/ answer = "payment_required" /\ Goto(t, "discard_paid") /\ UNCHANGED receipts
            \/ answer = "http" /\ Finish(t, "http") /\ UNCHANGED receipts
            \/ /\ answer \notin {"payment_required", "http"}
               /\ Finish(t, "paid")
               /\ \E amount \in Reported(held[t]) : AddReceipt(t, amount, answer)
       \/ "header" \in Faults /\ Finish(t, "backend") /\ UNCHANGED receipts
    /\ UNCHANGED <<capVars, cached, serverVars, payment, fee>>

\* token_store.remove(url) after a second 402
DiscardPaid(t) ==
    /\ pc[t] = "discard_paid"
    /\ \/ Store!StoreRemove(url[t]) /\ Finish(t, "retry_failed")
       \/ "store" \in Faults /\ Finish(t, "store") /\ UNCHANGED cached
    /\ UNCHANGED <<capVars, receipts, serverVars, payment, fee>>

\* The caller drops the future of the request at one of its awaits.  There is
\* none between the answer of the server and the charge.  An operation that the
\* store has begun by then still completes: the task is dropped after it.
Cancel(t) ==
    /\ "cancel" \in Faults
    /\ pc[t] \notin {"idle", "charge"}
    /\ Finish(t, "cancelled")
    /\ UNCHANGED <<capVars, cached, receipts, serverVars, payment, fee>>

-----------------------------------------------------------------------------
(* The environment. *)

\* The node settles a payment, for a fee; it refuses an invoice that states no
\* amount.
Settle(c) ==
    /\ payment[c] = "in_flight"
    /\ issued[c].amount > 0
    /\ payment' = [payment EXCEPT ![c] = "settled"]
    /\ \E f \in 0 .. MaxFee : fee' = [fee EXCEPT ![c] = f]
    /\ UNCHANGED <<capVars, taskVars, cached, receipts, serverVars, ended>>

FailPayment(c) ==
    /\ payment[c] = "in_flight"
    /\ payment' = [payment EXCEPT ![c] = "failed"]
    /\ UNCHANGED <<capVars, taskVars, cached, receipts, serverVars, fee, ended>>

\* The server stops accepting a token: it expired or was used up.
Revoke(c) ==
    /\ payment[c] = "settled"
    /\ c \notin revoked
    /\ revoked' = revoked \cup {c}
    /\ UNCHANGED <<capVars, taskVars, cached, receipts, issued, payment, fee, ended>>

\* A token leaves the store by itself: it expired there.
Expire(u) ==
    /\ cached[u] # None
    /\ Store!StoreForget({u})
    /\ UNCHANGED <<capVars, taskVars, receipts, serverVars, payment, fee, ended>>

ClockMoves(t) ==
    /\ t # now
    /\ SetClock(t)
    /\ UNCHANGED <<taskVars, cached, receipts, serverVars, payment, fee, ended>>

-----------------------------------------------------------------------------

TaskStep(t) ==
    \/ Lookup(t) \/ TryCached(t) \/ Discard(t) \/ Request(t) \/ Charge(t)
    \/ Pay(t) \/ PayReturns(t) \/ Put(t) \/ Retry(t) \/ DiscardPaid(t)

Environment ==
    \/ \E c \in Challenges : Settle(c) \/ FailPayment(c) \/ Revoke(c)
    \/ \E u \in Urls : Expire(u)
    \/ \E t \in Clock : ClockMoves(t)

Next ==
    \/ \E t \in Tasks, u \in Urls : Start(t, u)
    \/ \E t \in Tasks : TaskStep(t) \/ Cancel(t)
    \/ Environment

Spec == Init /\ [][Next]_vars

\* A task that can move does: the executor polls it.  The server answers each
\* request and the node resolves each payment.
Fairness ==
    /\ \A t \in Tasks : WF_vars(TaskStep(t))
    /\ \A c \in Challenges : WF_vars(Settle(c) \/ FailPayment(c))

FairSpec == Spec /\ Fairness

-----------------------------------------------------------------------------

Receipts == [paid : Challenges, url : Urls, amount : Nat, status : Statuses]

TypeOK ==
    /\ CapTypeOK
    /\ pc \in [Tasks -> Steps]
    /\ url \in [Tasks -> Urls \cup {None}]
    /\ held \in [Tasks -> Challenges \cup {None}]
    /\ Store!StoreTypeOK
    /\ receipts \in Seq(Receipts)
    /\ issued \in [Challenges -> Invoices \cup {None}]
    /\ revoked \subseteq Challenges
    /\ payment \in [Challenges -> PaymentStates]
    /\ fee \in [Challenges -> 0 .. MaxFee]
    /\ ended \in [Challenges -> Outcomes \cup {"open"}]

\* The satoshis that the invoices of a set of challenges ask for.
Sum(S) == SumFunctionOnSet([c \in Challenges |->
            IF issued[c] = None THEN 0 ELSE issued[c].amount], S)

\* The payments that have left, or may still leave, the node.
Sent == {c \in Challenges : payment[c] \in {"in_flight", "settled"}}
SentTo(h) == {c \in Sent : HostOf[issued[c].url] = h}

SettledOf(S) == {c \in S : payment[c] = "settled"}

\* What leaves the node altogether: invoices, and the fees of those it has paid.
MoneyOut(S) == Sum(S) + SumFunctionOnSet(fee, SettledOf(S))

\* What leaves the node for the challenges of S exceeds a limit by fees at most.
OverByFeesOnly(S, limit) ==
    /\ Within(Sum(S), limit)
    /\ limit # NoLimit => MoneyOut(S) <= limit + MaxFee * Cardinality(SettledOf(S))

(* The invoices that the node pays stay within the limits, however the      *)
(* requests interleave and whatever the backend answers: in total within    *)
(* some budget, to each host within the limit that applies to it            *)
(* (client.rs:287, the check before the payment).  The routing fees are     *)
(* outside the budget (client.rs:295): by them the money that leaves the    *)
(* node may exceed a limit, by at most MaxFee for each payment.  All this   *)
(* takes invoices that the client can decode.                               *)
MoneyOutWithinLimits == "unreadable" \notin Faults =>
    /\ \E b \in Budgets : OverByFeesOnly(Sent, b.total_max)
    /\ \A h \in Hosts : OverByFeesOnly(SentTo(h), Effective(h).total_max)

\* What the receipts add up to.
ReceiptTotal == SumFunctionOnSet([i \in 1 .. Len(receipts) |-> receipts[i].amount],
                                 1 .. Len(receipts))

\* The payment of each receipt settled, for its URL, and has no other receipt.
EachPaidOnce ==
    /\ \A i \in 1 .. Len(receipts) :
        /\ payment[receipts[i].paid] = "settled"
        /\ issued[receipts[i].paid].url = receipts[i].url
    /\ \A i, j \in 1 .. Len(receipts) :
        receipts[i].paid = receipts[j].paid => i = j

(* Every receipt is of a payment that settled, for the URL it names, and no *)
(* payment has two (client.rs:312).  With invoices that the client can      *)
(* decode, the amounts of the receipts, as the backends report them, add up *)
(* to no more than total_spent() (client.rs:410).                           *)
ReceiptsAreSettledPayments ==
    /\ EachPaidOnce
    /\ "unreadable" \notin Faults => ReceiptTotal <= ledger.total

(* The store never holds a token that was not paid for, nor one of another  *)
(* URL (client.rs:298).                                                     *)
CachedTokensArePaid ==
    \A u \in Urls : cached[u] # None =>
        /\ payment[cached[u]] = "settled"
        /\ issued[cached[u]].url = u

(* What a request reports about the money is true: BudgetExceeded means     *)
(* that no payment was attempted, a paid response that the payment settled  *)
(* and has its receipt, RetryFailed that the server does not honour what    *)
(* was paid for, and PaymentFailed, from a backend that waits for the end   *)
(* of a payment, that it never settles.                                     *)
OutcomesAreHonest ==
    \A c \in Challenges :
        /\ ended[c] = "budget" => payment[c] = "none"
        /\ ended[c] = "paid" <=> \E i \in 1 .. Len(receipts) : receipts[i].paid = c
        /\ ended[c] = "payment_failed" /\ "pending" \notin Faults => payment[c] = "failed"
        /\ ended[c] = "retry_failed" => payment[c] = "settled" /\ c \in revoked

(* A request pays only if the store has no token that the server would      *)
(* accept for its URL (port.rs:76, "avoid re-paying for the same resource").*)
PaysOnlyWithoutToken ==
    [][ \A t \in Tasks : pc[t] = "pay" /\ pc'[t] = "paying" =>
            ~Accepts(url[t], cached[url[t]]) ]_vars

(* The token that a request removes after a 402 is the one the server       *)
(* rejected (client.rs:255, "Token was rejected - remove it from cache").   *)
RemovesOnlyRejected ==
    [][ \A t \in Tasks :
            /\ pc[t] \in {"discard", "discard_paid"} /\ pc'[t] # pc[t]
            => \A u \in Urls : cached'[u] # cached[u] =>
                    u = url[t] /\ cached[u] = held[t] ]_vars

(* Every request ends, as long as the server answers and the node resolves  *)
(* its payments (client.rs, request): no request waits on another one.      *)
RequestsEnd == \A t \in Tasks : pc[t] # "idle" ~> pc[t] = "idle"

(* A token that the server no longer accepts does not stay in the store as  *)
(* long as its URL keeps being requested (client.rs:255).                   *)
StaleTokensLeave ==
    \A u \in Urls, c \in Challenges :
        cached[u] = c /\ c \in revoked ~> cached[u] # c
=============================================================================
