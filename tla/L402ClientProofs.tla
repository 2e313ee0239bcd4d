---------------------------- MODULE L402ClientProofs ----------------------------
(***************************************************************************)
(* What a request says about money and tokens is true, for any number of   *)
(* requests, URLs and challenges, any limits and any set of faults.        *)
(***************************************************************************)
EXTENDS L402Client, FiniteSetTheorems, WellFoundedInduction, TLAPS

CapInv == CapTypeOK

StoreInv == Store!StoreTypeOK /\ CachedTokensArePaid

ReceiptsInv == receipts \in Seq(Receipts) /\ EachPaidOnce

\* A challenge is paid for, and a request given it ends, only after the server
\* has issued it.
ChallengeInv ==
    /\ issued \in [Challenges -> Invoices \cup {None}]
    /\ revoked \subseteq Challenges
    /\ payment \in [Challenges -> PaymentStates]
    /\ fee \in [Challenges -> 0 .. MaxFee]
    /\ ended \in [Challenges -> Outcomes \cup {"open"}]
    /\ \A c \in Challenges : issued[c] = None => payment[c] = "none" /\ ended[c] = "open"

TaskTypes ==
    /\ pc \in [Tasks -> Steps]
    /\ url \in [Tasks -> Urls \cup {None}]
    /\ held \in [Tasks -> Challenges \cup {None}]

\* What a task may rely on at each of its steps.
TaskOK(t) ==
    /\ pc[t] # "idle" => url[t] \in Urls
    /\ pc[t] \in WithChallenge =>
        /\ held[t] \in Challenges
        /\ issued[held[t]] # None
        /\ issued[held[t]].url = url[t]
        /\ ended[held[t]] = "open"
    /\ pc[t] \in {"charge", "pay"} => payment[held[t]] = "none"
    /\ pc[t] \in {"put", "retry", "discard_paid"} => payment[held[t]] = "settled"
    /\ pc[t] = "discard_paid" => held[t] \in revoked

TaskInv == \A t \in Tasks : TaskOK(t)

\* No two tasks work with the same challenge: what one task does to the payment
\* of its challenge leaves what the others rely on as it was.
DistinctInv ==
    \A s, t \in Tasks :
        s # t /\ pc[s] \in WithChallenge /\ pc[t] \in WithChallenge => held[s] # held[t]

IInv == /\ CapInv /\ StoreInv /\ ReceiptsInv /\ ChallengeInv /\ TaskTypes
        /\ TaskInv /\ DistinctInv /\ OutcomesAreHonest

-----------------------------------------------------------------------------
(* Parts of the invariant that a step leaves alone. *)

\* A settled payment stays settled, and its invoice what it was.
SettledStays ==
    \A c \in Challenges : payment[c] = "settled" =>
        payment'[c] = "settled" /\ issued'[c] = issued[c]

LEMMA CapStays == CapInv /\ UNCHANGED capVars => CapInv'
    BY DEF CapInv, CapTypeOK, capVars

LEMMA StoreStays == StoreInv /\ UNCHANGED cached /\ SettledStays => StoreInv'
    BY DEF StoreInv, Store!StoreTypeOK, CachedTokensArePaid, SettledStays

LEMMA ReceiptsStay ==
    ASSUME ReceiptsInv, UNCHANGED receipts, SettledStays
    PROVE  ReceiptsInv'
<1>1. ASSUME NEW i \in 1 .. Len(receipts) PROVE receipts[i].paid \in Challenges
    <2>1. receipts[i] \in Receipts
        BY DEF ReceiptsInv
    <2>2. QED
        BY <2>1 DEF Receipts
<1>2. QED
    BY <1>1 DEF ReceiptsInv, EachPaidOnce, SettledStays

LEMMA TaskTypesStay == TaskTypes /\ DistinctInv /\ UNCHANGED taskVars => TaskTypes' /\ DistinctInv'
    BY DEF TaskTypes, DistinctInv, taskVars

-----------------------------------------------------------------------------
(* The steps of the environment. *)

LEMMA SettleIInv ==
    ASSUME IInv, NEW c \in Challenges, Settle(c)
    PROVE  IInv'
<1> USE DEF IInv, Settle
<1>1. CapInv' /\ StoreInv' /\ ReceiptsInv' /\ TaskTypes' /\ DistinctInv'
    BY CapStays, StoreStays, ReceiptsStay, TaskTypesStay DEF SettledStays,
       serverVars, ChallengeInv
<1>2. ChallengeInv'
    BY DEF ChallengeInv, serverVars, PaymentStates
<1>3. OutcomesAreHonest'
    BY DEF OutcomesAreHonest, serverVars
<1>4. TaskInv'
    BY DEF TaskInv, TaskOK, taskVars, serverVars
<1>5. QED
    BY <1>1, <1>2, <1>3, <1>4

LEMMA FailPaymentIInv ==
    ASSUME IInv, NEW c \in Challenges, FailPayment(c)
    PROVE  IInv'
<1> USE DEF IInv, FailPayment
<1>1. CapInv' /\ StoreInv' /\ ReceiptsInv' /\ TaskTypes' /\ DistinctInv'
    BY CapStays, StoreStays, ReceiptsStay, TaskTypesStay DEF SettledStays,
       serverVars, ChallengeInv
<1>2. ChallengeInv'
    BY DEF ChallengeInv, serverVars, PaymentStates
<1>3. OutcomesAreHonest'
    BY DEF OutcomesAreHonest, serverVars
<1>4. TaskInv'
    BY DEF TaskInv, TaskOK, taskVars, serverVars
<1>5. QED
    BY <1>1, <1>2, <1>3, <1>4

LEMMA RevokeIInv ==
    ASSUME IInv, NEW c \in Challenges, Revoke(c)
    PROVE  IInv'
<1> USE DEF IInv, Revoke
<1>1. CapInv' /\ StoreInv' /\ ReceiptsInv' /\ TaskTypes' /\ DistinctInv'
    BY CapStays, StoreStays, ReceiptsStay, TaskTypesStay DEF SettledStays,
       serverVars
<1>2. ChallengeInv'
    BY DEF ChallengeInv
<1>3. OutcomesAreHonest'
    BY DEF OutcomesAreHonest
<1>4. TaskInv'
    BY DEF TaskInv, TaskOK, taskVars, serverVars
<1>5. QED
    BY <1>1, <1>2, <1>3, <1>4

LEMMA ExpireIInv ==
    ASSUME IInv, NEW u \in Urls, Expire(u)
    PROVE  IInv'
<1> USE DEF IInv, Expire
<1>1. CapInv' /\ ReceiptsInv' /\ TaskTypes' /\ DistinctInv'
    BY CapStays, ReceiptsStay, TaskTypesStay DEF SettledStays, serverVars
<1>2. StoreInv'
    BY DEF StoreInv, Store!StoreTypeOK, CachedTokensArePaid, serverVars,
       Store!StoreForget
<1>3. ChallengeInv'
    BY DEF ChallengeInv, serverVars
<1>4. OutcomesAreHonest'
    BY DEF OutcomesAreHonest, serverVars
<1>5. TaskInv'
    BY DEF TaskInv, TaskOK, taskVars, serverVars
<1>6. QED
    BY <1>1, <1>2, <1>3, <1>4, <1>5

LEMMA ClockMovesIInv ==
    ASSUME IInv, NEW t \in Clock, ClockMoves(t)
    PROVE  IInv'
<1> USE DEF IInv, ClockMoves
<1>1. StoreInv' /\ ReceiptsInv' /\ TaskTypes' /\ DistinctInv'
    BY StoreStays, ReceiptsStay, TaskTypesStay DEF SettledStays, serverVars
<1>2. CapInv'
    BY DEF CapInv, CapTypeOK, SetClock
<1>3. ChallengeInv'
    BY DEF ChallengeInv, serverVars
<1>4. OutcomesAreHonest'
    BY DEF OutcomesAreHonest, serverVars
<1>5. TaskInv'
    BY DEF TaskInv, TaskOK, taskVars, serverVars
<1>6. QED
    BY <1>1, <1>2, <1>3, <1>4, <1>5

-----------------------------------------------------------------------------
(* The steps of the tasks. *)

LEMMA StartIInv ==
    ASSUME IInv, NEW t \in Tasks, NEW u \in Urls, Start(t, u)
    PROVE  IInv'
<1> USE DEF IInv, Start
<1>1. CapInv' /\ StoreInv' /\ ReceiptsInv'
    BY CapStays, StoreStays, ReceiptsStay DEF SettledStays, serverVars
<1>2. ChallengeInv'
    BY DEF ChallengeInv, serverVars
<1>3. OutcomesAreHonest'
    BY DEF OutcomesAreHonest, serverVars
<1>4. TaskTypes'
    BY DEF TaskTypes, Steps
<1>5. TaskInv'
    BY DEF TaskInv, TaskOK, TaskTypes, taskVars, serverVars, WithChallenge
<1>6. DistinctInv'
    BY DEF DistinctInv, WithChallenge
<1>7. QED
    BY <1>1, <1>2, <1>3, <1>4, <1>5, <1>6

LEMMA LookupIInv ==
    ASSUME IInv, NEW t \in Tasks, Lookup(t)
    PROVE  IInv'
<1> USE DEF IInv, Lookup, Goto, Hold, Finish
<1>1. CapInv' /\ StoreInv' /\ ReceiptsInv'
    BY CapStays, StoreStays, ReceiptsStay DEF SettledStays, serverVars
<1>2. ChallengeInv'
    BY DEF ChallengeInv, serverVars, WithChallenge
<1>3. OutcomesAreHonest'
    BY DEF OutcomesAreHonest, WithChallenge, serverVars
<1>4. TaskTypes'
    BY DEF TaskTypes, Steps, TaskInv, TaskOK, StoreInv, Store!StoreTypeOK
<1>5. TaskInv'
    BY DEF TaskInv, TaskOK, TaskTypes, taskVars, serverVars, WithChallenge
<1>6. DistinctInv'
    BY DEF DistinctInv, TaskTypes, WithChallenge
<1>7. QED
    BY <1>1, <1>2, <1>3, <1>4, <1>5, <1>6

LEMMA TryCachedIInv ==
    ASSUME IInv, NEW t \in Tasks, TryCached(t)
    PROVE  IInv'
<1> USE DEF IInv, TryCached, Goto, Finish
<1>1. CapInv' /\ StoreInv' /\ ReceiptsInv'
    BY CapStays, StoreStays, ReceiptsStay DEF SettledStays, serverVars
<1>2. ChallengeInv'
    BY DEF ChallengeInv, serverVars, WithChallenge
<1>3. OutcomesAreHonest'
    BY DEF OutcomesAreHonest, WithChallenge, serverVars
<1>4. TaskTypes'
    BY DEF TaskTypes, Steps
<1>5. TaskInv'
    BY DEF TaskInv, TaskOK, TaskTypes, taskVars, serverVars, WithChallenge
<1>6. DistinctInv'
    BY DEF DistinctInv, TaskTypes, WithChallenge
<1>7. QED
    BY <1>1, <1>2, <1>3, <1>4, <1>5, <1>6

LEMMA DiscardIInv ==
    ASSUME IInv, NEW t \in Tasks, Discard(t)
    PROVE  IInv'
<1> USE DEF IInv, Discard, Hold, Finish
<1>1. CapInv' /\ ReceiptsInv'
    BY CapStays, ReceiptsStay DEF SettledStays, serverVars
<1>2. StoreInv'
    BY DEF StoreInv, Store!StoreTypeOK, CachedTokensArePaid, serverVars,
       Store!StoreRemove
<1>3. ChallengeInv'
    BY DEF ChallengeInv, serverVars, WithChallenge
<1>4. OutcomesAreHonest'
    BY DEF OutcomesAreHonest, WithChallenge, serverVars
<1>5. TaskTypes'
    BY DEF TaskTypes, Steps
<1>6. TaskInv'
    BY DEF TaskInv, TaskOK, TaskTypes, taskVars, serverVars, WithChallenge
<1>7. DistinctInv'
    BY DEF DistinctInv, TaskTypes, WithChallenge
<1>8. QED
    BY <1>1, <1>2, <1>3, <1>4, <1>5, <1>6, <1>7

LEMMA RequestIInv ==
    ASSUME IInv, NEW t \in Tasks, Request(t)
    PROVE  IInv'
<1> USE DEF IInv, Request, Hold, Finish
<1>1. CapInv' /\ StoreInv' /\ ReceiptsInv'
    BY CapStays, StoreStays, ReceiptsStay DEF SettledStays, ChallengeInv
<1>2. ChallengeInv'
    BY DEF ChallengeInv, WithChallenge
<1>3. OutcomesAreHonest'
    BY DEF OutcomesAreHonest, WithChallenge
<1>4. TaskTypes'
    BY DEF TaskTypes, Steps
<1>5. TaskInv'
    <2>1. \A c \in Challenges : issued[c] # None => issued'[c] = issued[c]
        BY DEF ChallengeInv
    <2>2. pc[t] \notin WithChallenge /\ UNCHANGED <<payment, revoked>>
        BY DEF WithChallenge
    <2>3. ended' = ended /\ url[t] \in Urls
        BY <2>2 DEF TaskInv, TaskOK, WithChallenge
    <2>4. ASSUME NEW c \in Challenges, NEW invoice \in Invoices, issued[c] = None,
                 invoice.url = url[t], issued' = [issued EXCEPT ![c] = invoice],
                 Hold(t, c, "charge"), NEW s \in Tasks
          PROVE  TaskOK(s)'
        <3>1. issued'[c].url = url[t] /\ issued'[c] # None
            BY <2>4, NoInvoiceAssumption DEF ChallengeInv
        <3>2. QED
            BY <2>1, <2>2, <2>3, <2>4, <3>1 DEF TaskInv, TaskOK, TaskTypes, WithChallenge, ChallengeInv
    <2>5. ASSUME NEW o, Finish(t, o), issued' = issued, NEW s \in Tasks
          PROVE  TaskOK(s)'
        BY <2>1, <2>2, <2>3, <2>5 DEF TaskInv, TaskOK, TaskTypes, WithChallenge, ChallengeInv
    <2> HIDE DEF Finish, Hold
    <2>6. QED
        BY <2>4, <2>5 DEF TaskInv
<1>6. DistinctInv'
    BY DEF DistinctInv, TaskTypes, WithChallenge, TaskInv, TaskOK
<1>7. QED
    BY <1>1, <1>2, <1>3, <1>4, <1>5, <1>6

LEMMA ChargeIInv ==
    ASSUME IInv, NEW t \in Tasks, Charge(t)
    PROVE  IInv'
<1> USE DEF IInv, Charge, Goto, Finish
<1>1. StoreInv' /\ ReceiptsInv'
    BY StoreStays, ReceiptsStay DEF SettledStays, serverVars
<1>2. CapInv'
    <2>1. CASE UNCHANGED capVars
        BY <2>1 DEF CapInv, CapTypeOK, capVars
    <2>2. CASE Spend(Decoded(held[t]), HostOf[url[t]])
        <3>1. Decoded(held[t]) \in Nat
            BY AmountsAssumption
               DEF Decoded, TaskInv, TaskOK, WithChallenge, ChallengeInv, Invoices
        <3>2. HostOf[url[t]] \in Hosts
            BY ClientAssumption DEF TaskInv, TaskOK
        <3>3. HourOf(now) \in Hours /\ DayOf(now) \in Days
            BY DEF CapInv, CapTypeOK, Hours, Days
        <3>4. QED
            BY <2>2, <3>1, <3>2, <3>3 DEF Spend, Enter, CapInv, CapTypeOK, Ledger
    <2>3. QED
        BY <2>1, <2>2
<1>3. ChallengeInv'
    BY DEF ChallengeInv, serverVars, TaskInv, TaskOK, Outcomes, Errors
<1>4. OutcomesAreHonest'
    BY DEF OutcomesAreHonest, TaskInv, TaskOK, ChallengeInv, serverVars
<1>5. TaskTypes'
    BY DEF TaskTypes, Steps
<1>6. TaskInv'
    BY DEF TaskInv, TaskOK, TaskTypes, taskVars, serverVars, WithChallenge,
       ChallengeInv, DistinctInv
<1>7. DistinctInv'
    BY DEF DistinctInv, TaskTypes, WithChallenge
<1>8. QED
    BY <1>1, <1>2, <1>3, <1>4, <1>5, <1>6, <1>7

LEMMA PayIInv ==
    ASSUME IInv, NEW t \in Tasks, Pay(t)
    PROVE  IInv'
<1> USE DEF IInv, Pay, Goto, Finish
<1>1. CapInv' /\ StoreInv' /\ ReceiptsInv'
    BY CapStays, StoreStays, ReceiptsStay DEF SettledStays, serverVars,
       ChallengeInv, TaskInv, TaskOK
<1>2. ChallengeInv'
    BY DEF ChallengeInv, serverVars, TaskInv, TaskOK, WithChallenge, Outcomes,
       Errors, PaymentStates
<1>3. OutcomesAreHonest'
    BY DEF OutcomesAreHonest, TaskInv, TaskOK, WithChallenge, ChallengeInv,
       serverVars
<1>4. TaskTypes'
    BY DEF TaskTypes, Steps
<1>5. TaskInv'
    BY DEF TaskInv, TaskOK, TaskTypes, taskVars, serverVars, WithChallenge,
       ChallengeInv, DistinctInv
<1>6. DistinctInv'
    BY DEF DistinctInv, TaskTypes, WithChallenge
<1>7. QED
    BY <1>1, <1>2, <1>3, <1>4, <1>5, <1>6

LEMMA PayReturnsIInv ==
    ASSUME IInv, NEW t \in Tasks, PayReturns(t)
    PROVE  IInv'
<1> USE DEF IInv, PayReturns, Goto, Finish
<1>1. CapInv' /\ StoreInv' /\ ReceiptsInv'
    BY CapStays, StoreStays, ReceiptsStay DEF SettledStays, serverVars
<1>2. ChallengeInv'
    BY DEF ChallengeInv, serverVars, TaskInv, TaskOK, Outcomes, Errors
<1>3. OutcomesAreHonest'
    BY DEF OutcomesAreHonest, TaskInv, TaskOK, ChallengeInv, serverVars
<1>4. TaskTypes'
    BY DEF TaskTypes, Steps
<1>5. TaskInv'
    BY DEF TaskInv, TaskOK, TaskTypes, taskVars, serverVars, WithChallenge,
       ChallengeInv, DistinctInv
<1>6. DistinctInv'
    BY DEF DistinctInv, TaskTypes, WithChallenge
<1>7. QED
    BY <1>1, <1>2, <1>3, <1>4, <1>5, <1>6

LEMMA PutIInv ==
    ASSUME IInv, NEW t \in Tasks, Put(t)
    PROVE  IInv'
<1> USE DEF IInv, Put, Goto, Finish
<1>1. CapInv' /\ ReceiptsInv'
    BY CapStays, ReceiptsStay DEF SettledStays, serverVars
<1>2. StoreInv'
    BY DEF StoreInv, Store!StoreTypeOK, CachedTokensArePaid, serverVars,
       Store!StorePut, TaskInv, TaskOK, WithChallenge
<1>3. ChallengeInv'
    BY DEF ChallengeInv, serverVars, TaskInv, TaskOK, Outcomes, Errors
<1>4. OutcomesAreHonest'
    BY DEF OutcomesAreHonest, TaskInv, TaskOK, ChallengeInv, serverVars
<1>5. TaskTypes'
    BY DEF TaskTypes, Steps
<1>6. TaskInv'
    BY DEF TaskInv, TaskOK, TaskTypes, taskVars, serverVars, WithChallenge,
       ChallengeInv, DistinctInv
<1>7. DistinctInv'
    BY DEF DistinctInv, TaskTypes, WithChallenge
<1>8. QED
    BY <1>1, <1>2, <1>3, <1>4, <1>5, <1>6, <1>7

LEMMA RetryIInv ==
    ASSUME IInv, NEW t \in Tasks, Retry(t)
    PROVE  IInv'
<1> USE DEF IInv, Retry, Goto, Finish
<1>1. "payment_required" \in Answers(url[t], held[t]) => held[t] \in revoked
    BY ClientAssumption DEF Answers, Accepts, TaskInv, TaskOK, WithChallenge
<1>2. /\ held[t] \in Challenges /\ url[t] \in Urls
      /\ payment[held[t]] = "settled" /\ ended[held[t]] = "open"
      /\ issued[held[t]] \in Invoices /\ issued[held[t]].url = url[t]
    BY DEF TaskInv, TaskOK, WithChallenge, ChallengeInv
<1>3. ReceiptsInv' /\ OutcomesAreHonest'
    <2>1. CASE UNCHANGED receipts
        <3>1. ReceiptsInv'
            BY <2>1, ReceiptsStay DEF SettledStays, serverVars
        <3>2. \/ UNCHANGED ended
              \/ ended' = [ended EXCEPT ![held[t]] = "http"]
              \/ ended' = [ended EXCEPT ![held[t]] = "backend"]
            <4>1. \A r : receipts # Append(receipts, r)
                BY DEF ReceiptsInv
            <4>2. QED
                BY <2>1, <4>1 DEF WithChallenge, AddReceipt
        <3>3. QED
            BY <1>2, <2>1, <3>1, <3>2 DEF OutcomesAreHonest, ChallengeInv, serverVars
    <2>2. ASSUME NEW answer \in Answers(url[t], held[t]),
                 answer \notin {"payment_required", "http"},
                 Finish(t, "paid"),
                 NEW amount \in Reported(held[t]), AddReceipt(t, amount, answer)
          PROVE  ReceiptsInv' /\ OutcomesAreHonest'
        <3> DEFINE r == [paid   |-> held[t],
                         url    |-> url[t],
                         amount |-> amount,
                         status |-> answer]
        <3>1. r \in Receipts
            <4>1. answer \in Statuses
                BY <2>2 DEF Answers, Statuses
            <4>2. amount \in Nat
                BY <2>2 DEF Reported
            <4>3. QED
                BY <1>2, <4>1, <4>2 DEF Receipts
        <3>2. receipts \in Seq(Receipts)
            BY DEF ReceiptsInv
        <3>3. r.paid = held[t] /\ r.url = url[t] /\ receipts' = Append(receipts, r)
            BY <2>2 DEF AddReceipt
        <3> HIDE DEF r
        <3>4. /\ receipts' \in Seq(Receipts)
              /\ Len(receipts') = Len(receipts) + 1
              /\ receipts'[Len(receipts) + 1] = r
              /\ \A i \in 1 .. Len(receipts) : receipts'[i] = receipts[i]
            BY <3>1, <3>2, <3>3
        <3>5. ASSUME NEW i \in 1 .. Len(receipts)
              PROVE  receipts[i].paid \in Challenges /\ receipts[i].paid # held[t]
            <4>1. receipts[i] \in Receipts
                BY <3>2
            <4>2. receipts[i].paid \in Challenges
                BY <4>1 DEF Receipts
            <4>3. QED
                BY <1>2, <4>2 DEF OutcomesAreHonest
        <3>6. UNCHANGED <<payment, issued, revoked>>
            BY DEF serverVars
        <3>7. ReceiptsInv'
            <4>1. ASSUME NEW i \in 1 .. Len(receipts')
                  PROVE  /\ payment[receipts'[i].paid] = "settled"
                         /\ issued[receipts'[i].paid].url = receipts'[i].url
                BY <1>2, <3>2, <3>3, <3>4 DEF ReceiptsInv, EachPaidOnce
            <4>2. ASSUME NEW i \in 1 .. Len(receipts'), NEW j \in 1 .. Len(receipts'),
                         receipts'[i].paid = receipts'[j].paid
                  PROVE  i = j
                BY <3>2, <3>3, <3>4, <3>5, <4>2 DEF ReceiptsInv, EachPaidOnce
            <4>3. QED
                BY <3>4, <3>6, <4>1, <4>2 DEF ReceiptsInv, EachPaidOnce
        <3>8. OutcomesAreHonest'
            <4>1. ended' = [ended EXCEPT ![held[t]] = "paid"]
                BY <2>2 DEF WithChallenge
            <4>2. ASSUME NEW c \in Challenges
                  PROVE  ended'[c] = "paid"
                            <=> \E i \in 1 .. Len(receipts') : receipts'[i].paid = c
                <5>1. CASE c = held[t]
                    <6>1. Len(receipts) + 1 \in 1 .. Len(receipts')
                        BY <3>2, <3>4
                    <6>2. receipts'[Len(receipts) + 1].paid = c
                        BY <3>3, <3>4, <5>1
                    <6>3. ended'[c] = "paid"
                        BY <1>2, <4>1, <5>1 DEF ChallengeInv
                    <6>4. QED
                        BY <6>1, <6>2, <6>3
                <5>2. CASE c # held[t]
                    <6>1. ended'[c] = ended[c]
                        BY <4>1, <5>2 DEF ChallengeInv
                    <6>2. \A i \in 1 .. Len(receipts') :
                            i = Len(receipts) + 1 \/ i \in 1 .. Len(receipts)
                        BY <3>2, <3>4
                    <6>3. \A i \in 1 .. Len(receipts) : i \in 1 .. Len(receipts')
                        BY <3>2, <3>4
                    <6>4. QED
                        BY <3>3, <3>4, <5>2, <6>1, <6>2, <6>3 DEF OutcomesAreHonest
                <5>3. QED
                    BY <5>1, <5>2
            <4>3. QED
                BY <1>2, <3>6, <4>1, <4>2 DEF OutcomesAreHonest, ChallengeInv
        <3>9. QED
            BY <3>7, <3>8
    <2> HIDE DEF Finish
    <2>3. QED
        BY <2>1, <2>2
<1>4. TaskInv'
    BY <1>1 DEF TaskInv, TaskOK, TaskTypes, WithChallenge, ChallengeInv, DistinctInv,
                serverVars
<1>5. CapInv' /\ StoreInv'
    BY CapStays, StoreStays DEF SettledStays, serverVars
<1>6. ChallengeInv'
    BY <1>2 DEF ChallengeInv, serverVars, Outcomes, Errors
<1>7. TaskTypes' /\ DistinctInv'
    BY DEF TaskTypes, DistinctInv, Steps, WithChallenge
<1>8. QED
    BY <1>3, <1>4, <1>5, <1>6, <1>7

LEMMA DiscardPaidIInv ==
    ASSUME IInv, NEW t \in Tasks, DiscardPaid(t)
    PROVE  IInv'
<1> USE DEF IInv, DiscardPaid, Finish
<1>1. CapInv' /\ ReceiptsInv'
    BY CapStays, ReceiptsStay DEF SettledStays, serverVars
<1>2. StoreInv'
    BY DEF StoreInv, Store!StoreTypeOK, CachedTokensArePaid, serverVars,
       Store!StoreRemove
<1>3. ChallengeInv'
    BY DEF ChallengeInv, serverVars, TaskInv, TaskOK, Outcomes, Errors
<1>4. OutcomesAreHonest'
    BY DEF OutcomesAreHonest, TaskInv, TaskOK, ChallengeInv, serverVars
<1>5. TaskTypes'
    BY DEF TaskTypes, Steps
<1>6. TaskInv'
    BY DEF TaskInv, TaskOK, TaskTypes, taskVars, serverVars, WithChallenge,
       ChallengeInv, DistinctInv
<1>7. DistinctInv'
    BY DEF DistinctInv, TaskTypes, WithChallenge
<1>8. QED
    BY <1>1, <1>2, <1>3, <1>4, <1>5, <1>6, <1>7

LEMMA CancelIInv ==
    ASSUME IInv, NEW t \in Tasks, Cancel(t)
    PROVE  IInv'
<1> USE DEF IInv, Cancel, Finish
<1>1. CapInv' /\ StoreInv' /\ ReceiptsInv'
    BY CapStays, StoreStays, ReceiptsStay DEF SettledStays, serverVars
<1>2. ChallengeInv'
    BY DEF ChallengeInv, serverVars, TaskInv, TaskOK, Outcomes, Errors
<1>3. OutcomesAreHonest'
    BY DEF OutcomesAreHonest, TaskInv, TaskOK, serverVars
<1>4. TaskTypes'
    BY DEF TaskTypes, Steps
<1>5. TaskInv'
    BY DEF TaskInv, TaskOK, TaskTypes, taskVars, serverVars, WithChallenge,
       DistinctInv
<1>6. DistinctInv'
    BY DEF DistinctInv, TaskTypes, WithChallenge
<1>7. QED
    BY <1>1, <1>2, <1>3, <1>4, <1>5, <1>6

-----------------------------------------------------------------------------

LEMMA InitIInv == Init => IInv
<1> SUFFICES ASSUME Init PROVE IInv
    OBVIOUS
<1> USE DEF Init
<1>1. CapInv
    BY DEF CapInit, CapInv, CapTypeOK, EmptyLedger, Ledger
<1>2. StoreInv
    BY DEF Store!StoreInit, StoreInv, Store!StoreTypeOK, CachedTokensArePaid
<1>3. ReceiptsInv
    BY DEF ReceiptsInv, EachPaidOnce
<1>4. ChallengeInv /\ OutcomesAreHonest
    BY ClientAssumption DEF ChallengeInv, PaymentStates, OutcomesAreHonest
<1>5. TaskTypes /\ TaskInv /\ DistinctInv
    BY DEF TaskTypes, TaskInv, TaskOK, DistinctInv, Steps, WithChallenge
<1>6. QED
    BY <1>1, <1>2, <1>3, <1>4, <1>5 DEF IInv

LEMMA StepIInv == IInv /\ [Next]_vars => IInv'
<1> SUFFICES ASSUME IInv, [Next]_vars PROVE IInv'
    OBVIOUS
<1>1. ASSUME NEW t \in Tasks, TaskStep(t) PROVE IInv'
    BY <1>1, LookupIInv, TryCachedIInv, DiscardIInv, RequestIInv, ChargeIInv, PayIInv,
       PayReturnsIInv, PutIInv, RetryIInv, DiscardPaidIInv DEF TaskStep
<1>2. CASE Environment
    BY <1>2, SettleIInv, FailPaymentIInv, RevokeIInv, ExpireIInv, ClockMovesIInv
       DEF Environment
<1>3. CASE UNCHANGED vars
    <2>1. UNCHANGED <<capVars, taskVars, cached, receipts, issued, revoked, payment, fee, ended>>
        BY <1>3 DEF vars, serverVars
    <2>2. CapInv' /\ StoreInv' /\ ReceiptsInv' /\ TaskTypes' /\ DistinctInv'
        BY <2>1, CapStays, StoreStays, ReceiptsStay, TaskTypesStay DEF IInv, SettledStays
    <2>3. ChallengeInv' /\ OutcomesAreHonest'
        BY <2>1 DEF IInv, ChallengeInv, OutcomesAreHonest
    <2>4. TaskInv'
        BY <2>1 DEF IInv, TaskInv, TaskOK, taskVars
    <2>5. QED
        BY <2>2, <2>3, <2>4 DEF IInv
<1>4. QED
    BY <1>1, <1>2, <1>3, StartIInv, CancelIInv DEF Next

(* The inductive invariant of the client (client.rs, request).              *)
THEOREM ClientInvariant == Spec => []IInv
    BY InitIInv, StepIInv, PTL DEF Spec

(* Type correctness of the client (client.rs, L402Client).                  *)
THEOREM ClientTypeCorrect == Spec => []TypeOK
<1>1. IInv => TypeOK
    BY DEF IInv, TypeOK, CapInv, StoreInv, ReceiptsInv, ChallengeInv, TaskTypes
<1>2. QED
    BY <1>1, ClientInvariant, PTL

(* The store never holds a token that was not paid for, nor one of another  *)
(* URL (client.rs:298), with every fault and every interleaving.            *)
THEOREM ClientTokens == Spec => []CachedTokensArePaid
<1>1. IInv => CachedTokensArePaid
    BY DEF IInv, StoreInv
<1>2. QED
    BY <1>1, ClientInvariant, PTL

(* What a request reports about the money is true (client.rs, the returns   *)
(* of request).                                                             *)
THEOREM ClientOutcomes == Spec => []OutcomesAreHonest
<1>1. IInv => OutcomesAreHonest
    BY DEF IInv
<1>2. QED
    BY <1>1, ClientInvariant, PTL

-----------------------------------------------------------------------------
(* Sums over finite sets.  The library's fold is a recursion over subsets:  *)
(* that it has a solution, and that the order of the elements makes no      *)
(* difference, is shown by a smallest counterexample.                       *)

First(s) == CHOOSE x \in s : TRUE

LEMMA FirstIn == ASSUME NEW s, s # {} PROVE First(s) \in s
    BY DEF First

\* g is what the fold of the library defines by recursion over the subsets of S.
IsRunningSum(f, S, g) ==
    g = [s \in SUBSET S |-> IF s = {} THEN 0 ELSE f[First(s)] + g[s \ {First(s)}]]

LEMMA SumIsRunningSum ==
    ASSUME NEW f, NEW S
    PROVE  SumFunctionOnSet(f, S) = (CHOOSE g : IsRunningSum(f, S, g))[S]
    BY DEF SumFunctionOnSet, FoldFunctionOnSet, MapThenFoldSet, IsRunningSum, First

\* A set of finite sets has one that contains no other.
LEMMA SmallestSet ==
    ASSUME NEW S, IsFiniteSet(S), NEW T, T \subseteq SUBSET S, T # {}
    PROVE  \E low \in T : \A t \in T : t \subseteq low => t = low
<1>1. IsWellFoundedOn(StrictSubsetOrdering(S), SUBSET S)
    BY FS_StrictSubsetOrderingWellFounded, FS_FiniteSubsetsOfFinite
<1>2. PICK low \in T : \A t \in T : ~ (<<t, low>> \in StrictSubsetOrdering(S))
    BY <1>1, WFMin, Zenon
<1>3. ASSUME NEW t \in T, t \subseteq low PROVE t = low
    BY <1>2, <1>3 DEF StrictSubsetOrdering
<1>4. QED
    BY <1>3

LEMMA SmallestNat ==
    ASSUME NEW T, T \subseteq Nat, T # {}
    PROVE  \E low \in T : \A t \in T : low <= t
<1>1. PICK low \in T : \A t \in T : ~ (<<t, low>> \in OpToRel(<, Nat))
    BY NatLessThanWellFounded, WFMin, Zenon
<1>2. \A t \in T : ~ (t < low)
    BY <1>1, Zenon DEF OpToRel
<1>3. QED
    BY <1>2

\* The recursion has a solution: it is extended from the subsets of n elements to
\* those of n + 1.
LEMMA RunningSumExists ==
    ASSUME NEW f, NEW S, IsFiniteSet(S)
    PROVE  \E g : IsRunningSum(f, S, g)
<1> DEFINE Body(g, s) == IF s = {} THEN 0 ELSE f[First(s)] + g[s \ {First(s)}]
           Good(n)    == \E g : \A s \in SUBSET S : Cardinality(s) <= n => g[s] = Body(g, s)
           Bad        == {n \in Nat : ~Good(n)}
<1>1. ASSUME NEW s \in SUBSET S
      PROVE  IsFiniteSet(s) /\ Cardinality(s) \in Nat /\ (Cardinality(s) = 0 <=> s = {})
    BY FS_Subset, FS_CardinalityType, FS_EmptySet
<1>2. ASSUME NEW n \in Bad, \A m \in Bad : n <= m PROVE FALSE
    <2>1. CASE n = 0
        <3> DEFINE g == [s \in SUBSET S |-> 0]
        <3>1. \A s \in SUBSET S : Cardinality(s) <= 0 => g[s] = Body(g, s)
            BY <1>1
        <3>2. Good(0)
            BY <3>1
        <3>3. QED
            BY <2>1, <3>2
    <2>2. CASE n # 0
        <3>1. n - 1 \in Nat /\ n - 1 \notin Bad
            <4>1. n \in Nat
                OBVIOUS
            <4> HIDE DEF Bad
            <4>2. QED
                BY <1>2, <2>2, <4>1
        <3>2. PICK g : \A s \in SUBSET S : Cardinality(s) <= n - 1 => g[s] = Body(g, s)
            BY <3>1
        <3> DEFINE h == [s \in SUBSET S |-> Body(g, s)]
        <3>3. ASSUME NEW s \in SUBSET S, Cardinality(s) <= n
              PROVE  h[s] = Body(h, s)
            <4>1. CASE s = {}
                BY <4>1
            <4>2. CASE s # {}
                <5> DEFINE r == s \ {First(s)}
                <5>1. First(s) \in s
                    BY <4>2, FirstIn
                <5>2. r \in SUBSET S /\ Cardinality(r) = Cardinality(s) - 1
                    BY <1>1, <5>1, FS_RemoveElement
                <5>3. Cardinality(r) <= n - 1
                    BY <1>1, <3>1, <3>3, <5>2
                <5>4. g[r] = Body(g, r)
                    BY <3>2, <5>2, <5>3
                <5>5. h[r] = Body(g, r)
                    BY <5>2
                <5>6. h[s] = Body(g, s)
                    OBVIOUS
                <5>7. QED
                    BY <4>2, <5>4, <5>5, <5>6
            <4>3. QED
                BY <4>1, <4>2
        <3>4. Good(n)
            BY <3>3
        <3>5. QED
            BY <3>4
    <2>3. QED
        BY <2>1, <2>2
<1>3. Bad = {}
    <2> HIDE DEF Bad
    <2>1. Bad \subseteq Nat
        BY DEF Bad
    <2>2. QED
        BY <1>2, <2>1, SmallestNat
<1>4. Good(Cardinality(S))
    BY <1>1, <1>3
<1>5. PICK g : \A s \in SUBSET S : Cardinality(s) <= Cardinality(S) => g[s] = Body(g, s)
    BY <1>4
<1>6. \A s \in SUBSET S : g[s] = Body(g, s)
    BY <1>1, <1>5, FS_Subset
<1> DEFINE h == [s \in SUBSET S |-> g[s]]
<1>7. h = [s \in SUBSET S |-> Body(h, s)]
    <2>1. ASSUME NEW s \in SUBSET S PROVE h[s] = Body(h, s)
        <3>1. CASE s = {}
            BY <1>6, <3>1
        <3>2. CASE s # {}
            BY <1>6, <3>2, FirstIn
        <3>3. QED
            BY <3>1, <3>2
    <2>2. QED
        BY <2>1
<1>8. QED
    BY <1>7 DEF IsRunningSum

\* A running sum, step by step.
LEMMA RunningSumSteps ==
    ASSUME NEW f, NEW S, NEW g, IsRunningSum(f, S, g)
    PROVE  /\ g[{}] = 0
           /\ \A s \in SUBSET S : s # {} =>
                /\ First(s) \in s
                /\ g[s] = f[First(s)] + g[s \ {First(s)}]
    BY FirstIn DEF IsRunningSum

SameOn(f1, f2, T) == \A x \in T : f1[x] = f2[x]

\* Two running sums agree where they sum the same numbers.
LEMMA RunningSumsAgree ==
    ASSUME NEW S1, NEW S2, IsFiniteSet(S1), NEW f1, NEW f2, NEW g1, NEW g2,
           IsRunningSum(f1, S1, g1), IsRunningSum(f2, S2, g2),
           NEW T, T \subseteq S1, T \subseteq S2, SameOn(f1, f2, T)
    PROVE  g1[T] = g2[T]
<1> DEFINE Bad == {s \in SUBSET T : g1[s] # g2[s]}
<1>1. IsFiniteSet(T)
    BY FS_Subset
<1>2. SUFFICES ASSUME Bad # {} PROVE FALSE
    OBVIOUS
<1>3. PICK s \in Bad : \A t \in Bad : t \subseteq s => t = s
    <2>1. Bad \subseteq SUBSET T
        OBVIOUS
    <2> HIDE DEF Bad
    <2>2. QED
        BY <1>1, <1>2, <2>1, SmallestSet
<1>4. s # {} /\ s \in SUBSET S1 /\ s \in SUBSET S2
    BY <1>3, RunningSumSteps
<1>5. First(s) \in s /\ s \ {First(s)} \in SUBSET T
    BY <1>4, FirstIn
<1>6. g1[s \ {First(s)}] = g2[s \ {First(s)}]
    BY <1>3, <1>5
<1>7. g1[s] = f1[First(s)] + g1[s \ {First(s)}] /\ g2[s] = f2[First(s)] + g2[s \ {First(s)}]
    BY <1>4, <1>5, RunningSumSteps
<1>8. QED
    BY <1>3, <1>5, <1>6, <1>7 DEF SameOn

\* A running sum of natural numbers is one.
LEMMA RunningSumIsNat ==
    ASSUME NEW S, IsFiniteSet(S), NEW f, NEW g, IsRunningSum(f, S, g),
           \A x \in S : f[x] \in Nat
    PROVE  \A s \in SUBSET S : g[s] \in Nat
<1> DEFINE Bad == {s \in SUBSET S : g[s] \notin Nat}
<1>1. SUFFICES ASSUME Bad # {} PROVE FALSE
    OBVIOUS
<1>2. PICK s \in Bad : \A t \in Bad : t \subseteq s => t = s
    <2>1. Bad \subseteq SUBSET S
        OBVIOUS
    <2> HIDE DEF Bad
    <2>2. QED
        BY <1>1, <2>1, SmallestSet
<1>3. s # {}
    <2>1. g[{}] = 0 /\ g[s] \notin Nat
        BY <1>2, RunningSumSteps
    <2>2. QED
        BY <2>1
<1>4. First(s) \in s /\ g[s] = f[First(s)] + g[s \ {First(s)}]
    BY <1>2, <1>3, RunningSumSteps
<1>5. g[s \ {First(s)}] \in Nat
    BY <1>2, <1>4
<1>6. QED
    BY <1>2, <1>4, <1>5

\* It makes no difference which element is added last.
LEMMA RunningSumAnyElement ==
    ASSUME NEW S, IsFiniteSet(S), NEW f, NEW g, IsRunningSum(f, S, g),
           \A x \in S : f[x] \in Nat
    PROVE  \A s \in SUBSET S : \A y \in s : g[s] = f[y] + g[s \ {y}]
<1> DEFINE Bad == {s \in SUBSET S : \E y \in s : g[s] # f[y] + g[s \ {y}]}
<1>1. SUFFICES ASSUME Bad # {} PROVE FALSE
    OBVIOUS
<1>2. PICK s \in Bad : \A t \in Bad : t \subseteq s => t = s
    <2>1. Bad \subseteq SUBSET S
        OBVIOUS
    <2> HIDE DEF Bad
    <2>2. QED
        BY <1>1, <2>1, SmallestSet
<1>3. PICK y \in s : g[s] # f[y] + g[s \ {y}]
    BY <1>2
<1> DEFINE x == First(s)
<1>4. x \in s /\ g[s] = f[x] + g[s \ {x}]
    <2>1. s \in SUBSET S /\ s # {}
        BY <1>2, <1>3
    <2>2. QED
        BY <2>1, RunningSumSteps
<1> HIDE DEF x
<1>5. x # y
    BY <1>3, <1>4
<1>6. g[s \ {x}] = f[y] + g[(s \ {x}) \ {y}]
    <2>1. s \ {x} \notin Bad /\ s \ {x} \in SUBSET S /\ y \in s \ {x}
        BY <1>2, <1>3, <1>4, <1>5
    <2>2. QED
        BY <2>1
<1>7. g[s \ {y}] = f[x] + g[(s \ {y}) \ {x}]
    <2>1. s \ {y} \notin Bad /\ s \ {y} \in SUBSET S /\ x \in s \ {y}
        BY <1>2, <1>3, <1>4, <1>5
    <2>2. QED
        BY <2>1
<1>8. (s \ {x}) \ {y} = (s \ {y}) \ {x} /\ (s \ {x}) \ {y} \in SUBSET S
    BY <1>2
<1>9. g[(s \ {x}) \ {y}] \in Nat /\ f[x] \in Nat /\ f[y] \in Nat
    BY <1>2, <1>3, <1>4, <1>8, RunningSumIsNat
<1> DEFINE rest == g[(s \ {x}) \ {y}]
<1>10. g[s] = f[x] + (f[y] + rest) /\ g[s] # f[y] + (f[x] + rest)
    BY <1>3, <1>4, <1>6, <1>7, <1>8, Zenon
<1> HIDE DEF rest
<1>11. QED
    BY <1>9, <1>10 DEF rest

\* What a sum over a finite set is: of nothing, of natural numbers, of the same
\* numbers, of one number more and of fewer numbers.
LEMMA SumSolves ==
    ASSUME NEW f, NEW S, IsFiniteSet(S)
    PROVE  \E g : IsRunningSum(f, S, g) /\ SumFunctionOnSet(f, S) = g[S]
    BY SumIsRunningSum, RunningSumExists

LEMMA SumOfNothing == ASSUME NEW f PROVE SumFunctionOnSet(f, {}) = 0
    BY SumSolves, RunningSumSteps, FS_EmptySet

LEMMA SumIsNat ==
    ASSUME NEW f, NEW S, IsFiniteSet(S), \A x \in S : f[x] \in Nat
    PROVE  SumFunctionOnSet(f, S) \in Nat
    BY SumSolves, RunningSumIsNat

LEMMA SumOfSame ==
    ASSUME NEW S, IsFiniteSet(S), NEW a, NEW b, \A x \in S : a[x] = b[x]
    PROVE  SumFunctionOnSet(a, S) = SumFunctionOnSet(b, S)
<1>1. PICK g : IsRunningSum(a, S, g) /\ SumFunctionOnSet(a, S) = g[S]
    BY SumSolves
<1>2. PICK h : IsRunningSum(b, S, h) /\ SumFunctionOnSet(b, S) = h[S]
    BY SumSolves
<1>3. g[S] = h[S]
    <2>1. S \subseteq S /\ SameOn(a, b, S)
        BY DEF SameOn
    <2>2. QED
        BY <1>1, <1>2, <2>1, RunningSumsAgree
<1>4. QED
    BY <1>1, <1>2, <1>3

LEMMA SumOfOneMore ==
    ASSUME NEW f, NEW S, IsFiniteSet(S), NEW y, y \notin S,
           \A x \in S \cup {y} : f[x] \in Nat
    PROVE  SumFunctionOnSet(f, S \cup {y}) = SumFunctionOnSet(f, S) + f[y]
<1>1. IsFiniteSet(S \cup {y})
    BY FS_AddElement
<1>2. PICK g : IsRunningSum(f, S, g) /\ SumFunctionOnSet(f, S) = g[S]
    BY SumSolves
<1>3. PICK h : IsRunningSum(f, S \cup {y}, h) /\ SumFunctionOnSet(f, S \cup {y}) = h[S \cup {y}]
    BY <1>1, SumSolves
<1>4. h[S \cup {y}] = f[y] + h[(S \cup {y}) \ {y}]
    BY <1>1, <1>3, RunningSumAnyElement
<1>5. (S \cup {y}) \ {y} = S
    OBVIOUS
<1>6. h[S] = g[S]
    <2>1. S \subseteq S \cup {y}
        OBVIOUS
    <2>2. SameOn(f, f, S)
        BY DEF SameOn
    <2>3. QED
        BY <1>2, <1>3, <2>1, <2>2, RunningSumsAgree
<1>7. g[S] \in Nat /\ f[y] \in Nat
    BY <1>2, SumIsNat
<1>8. SumFunctionOnSet(f, S \cup {y}) = f[y] + g[S]
    BY <1>3, <1>4, <1>5, <1>6, Zenon
<1>9. QED
    BY <1>2, <1>7, <1>8

LEMMA SumOfFewer ==
    ASSUME NEW f, NEW S, IsFiniteSet(S), \A x \in S : f[x] \in Nat, NEW T, T \subseteq S
    PROVE  SumFunctionOnSet(f, T) <= SumFunctionOnSet(f, S)
<1> DEFINE Bad == {s \in SUBSET S : T \subseteq s /\ ~(SumFunctionOnSet(f, T) <= SumFunctionOnSet(f, s))}
<1>1. SUFFICES ASSUME Bad # {} PROVE FALSE
    OBVIOUS
<1>2. PICK s \in Bad : \A t \in Bad : t \subseteq s => t = s
    <2>1. Bad \subseteq SUBSET S
        OBVIOUS
    <2> HIDE DEF Bad
    <2>2. QED
        BY <1>1, <2>1, SmallestSet
<1>3. /\ IsFiniteSet(T) /\ SumFunctionOnSet(f, T) \in Nat
      /\ IsFiniteSet(s) /\ SumFunctionOnSet(f, s) \in Nat
    BY <1>2, FS_Subset, SumIsNat
<1>4. PICK y \in s : y \notin T
    <2>1. s # T
        <3>1. SumFunctionOnSet(f, T) <= SumFunctionOnSet(f, T)
            BY <1>3
        <3>2. QED
            BY <1>2, <3>1
    <2>2. QED
        BY <1>2, <2>1
<1>5. s \ {y} \in SUBSET S /\ T \subseteq s \ {y} /\ s \ {y} \notin Bad
    BY <1>2, <1>4
<1>6. SumFunctionOnSet(f, T) <= SumFunctionOnSet(f, s \ {y})
    BY <1>5
<1>7. IsFiniteSet(s \ {y}) /\ SumFunctionOnSet(f, s \ {y}) \in Nat /\ f[y] \in Nat
    BY <1>2, <1>5, FS_Subset, SumIsNat
<1>8. SumFunctionOnSet(f, (s \ {y}) \cup {y}) = SumFunctionOnSet(f, s \ {y}) + f[y]
    BY <1>2, <1>5, <1>7, SumOfOneMore
<1>9. (s \ {y}) \cup {y} = s
    BY <1>4
<1>10. SumFunctionOnSet(f, s) = SumFunctionOnSet(f, s \ {y}) + f[y]
    BY <1>8, <1>9
<1>11. SumFunctionOnSet(f, T) <= SumFunctionOnSet(f, s)
    BY <1>3, <1>6, <1>7, <1>10
<1>12. QED
    BY <1>2, <1>11

\* A sum of numbers of which none is above m.
LEMMA SumIsBounded ==
    ASSUME NEW f, NEW m \in Nat, NEW S, IsFiniteSet(S), \A x \in S : f[x] \in 0 .. m
    PROVE  SumFunctionOnSet(f, S) <= m * Cardinality(S)
<1> DEFINE Bad == {s \in SUBSET S : ~(SumFunctionOnSet(f, s) <= m * Cardinality(s))}
<1>1. SUFFICES ASSUME Bad # {} PROVE FALSE
    OBVIOUS
<1>2. PICK s \in Bad : \A t \in Bad : t \subseteq s => t = s
    <2>1. Bad \subseteq SUBSET S
        OBVIOUS
    <2> HIDE DEF Bad
    <2>2. QED
        BY <1>1, <2>1, SmallestSet
<1>3. PICK y \in s : TRUE
    <2>1. SumFunctionOnSet(f, {}) = 0 /\ Cardinality({}) = 0
        BY SumOfNothing, FS_EmptySet
    <2>2. {} \notin Bad
        BY <2>1
    <2>3. QED
        BY <1>2, <2>2
<1> DEFINE rest == s \ {y}
<1>4. rest \in SUBSET S /\ y \notin rest /\ rest \cup {y} = s /\ rest \notin Bad
    BY <1>2, <1>3
<1>5. /\ IsFiniteSet(rest) /\ Cardinality(rest) \in Nat
      /\ SumFunctionOnSet(f, rest) \in Nat
    BY <1>4, FS_Subset, FS_CardinalityType, SumIsNat
<1>6. SumFunctionOnSet(f, rest) <= m * Cardinality(rest)
    BY <1>4
<1>7. Cardinality(s) = Cardinality(rest) + 1
    <2>1. Cardinality(rest \cup {y}) = Cardinality(rest) + 1
        BY <1>4, <1>5, FS_AddElement
    <2>2. QED
        BY <1>4, <2>1
<1>8. SumFunctionOnSet(f, s) = SumFunctionOnSet(f, rest) + f[y]
    <2>1. \A x \in rest \cup {y} : f[x] \in Nat
        BY <1>2, <1>4
    <2>2. SumFunctionOnSet(f, rest \cup {y}) = SumFunctionOnSet(f, rest) + f[y]
        BY <1>4, <1>5, <2>1, SumOfOneMore
    <2>3. QED
        BY <1>4, <2>2
<1>9. ~(SumFunctionOnSet(f, s) <= m * Cardinality(s)) /\ f[y] \in 0 .. m
    BY <1>2, <1>3
<1> HIDE DEF rest, Bad
<1>10. m * (Cardinality(rest) + 1) = m * Cardinality(rest) + m
    BY <1>5
<1>11. m * Cardinality(rest) \in Nat
    BY <1>5
<1>12. QED
    BY <1>5, <1>6, <1>7, <1>8, <1>9, <1>10, <1>11

-----------------------------------------------------------------------------
(* What leaves the node.                                                   *)

\* The challenges whose payment has left the node or may still do so: it was
\* sent, or the task that has charged its invoice is about to send it.
Charged ==
    {c \in Challenges : \/ payment[c] \in {"in_flight", "settled"}
                        \/ \E t \in Tasks : pc[t] = "pay" /\ held[t] = c}
ChargedTo(h) == {c \in Charged : HostOf[issued[c].url] = h}

\* The ledger is within the limits.
LedgerInv ==
    /\ \E b \in Budgets : Within(ledger.total, b.total_max)
    /\ \A h \in Hosts : /\ ledger.host[h] <= ledger.total
                        /\ Within(ledger.host[h], Effective(h).total_max)

\* And it has every charge that may still be paid, if invoices are readable.
MoneyInv ==
    /\ LedgerInv
    /\ IsFiniteSet(Charged)
    /\ "unreadable" \notin Faults =>
        /\ \A c \in Challenges : issued[c] # None => issued[c].readable
        /\ Sum(Charged) <= ledger.total
        /\ \A h \in Hosts : Sum(ChargedTo(h)) <= ledger.host[h]

\* What the invoice of a challenge asks for.
Price == [c \in Challenges |-> IF issued[c] = None THEN 0 ELSE issued[c].amount]

LEMMA PriceIsNat ==
    ASSUME IInv
    PROVE  \A c \in Challenges : Price[c] \in Nat
    BY AmountsAssumption DEF IInv, ChallengeInv, Invoices, Price

LEMMA ChargedAreIssued ==
    ASSUME IInv, NEW c \in Charged
    PROVE  c \in Challenges /\ issued[c] # None
    BY DEF IInv, ChallengeInv, TaskInv, TaskOK, WithChallenge, Charged

\* Nothing is charged and no price changes: what is left to pay can only shrink.
LEMMA NoCharge ==
    ASSUME IInv, MoneyInv, UNCHANGED ledger, Charged' \subseteq Charged,
           \A c \in Charged : issued'[c] = issued[c],
           "unreadable" \notin Faults =>
                \A c \in Challenges : issued'[c] # None => issued'[c].readable
    PROVE  MoneyInv'
<1>1. LedgerInv'
    BY DEF MoneyInv, LedgerInv
<1>2. IsFiniteSet(Charged')
    BY FS_Subset DEF MoneyInv
<1>3. \A c \in Charged : Price'[c] = Price[c] /\ Price[c] \in Nat
    BY PriceIsNat, ChargedAreIssued DEF Price
<1>4. ASSUME NEW S, S \subseteq Charged, NEW T, T \subseteq S
      PROVE  SumFunctionOnSet(Price', T) <= SumFunctionOnSet(Price, S)
    <2>1. IsFiniteSet(S) /\ IsFiniteSet(T) /\ SameOn(Price', Price, T)
        BY <1>3, <1>4, FS_Subset DEF MoneyInv, SameOn
    <2>2. SumFunctionOnSet(Price', T) = SumFunctionOnSet(Price, T)
        BY <2>1, SumOfSame DEF SameOn
    <2>3. SumFunctionOnSet(Price, T) <= SumFunctionOnSet(Price, S)
        BY <1>3, <1>4, <2>1, SumOfFewer
    <2>4. QED
        BY <2>2, <2>3
<1>5. SUFFICES ASSUME "unreadable" \notin Faults
               PROVE  /\ SumFunctionOnSet(Price', Charged') <= ledger'.total
                      /\ \A h \in Hosts : SumFunctionOnSet(Price', ChargedTo(h)') <= ledger'.host[h]
    BY <1>1, <1>2 DEF MoneyInv, Sum, Price
<1>6. ledger.total \in Nat /\ \A h \in Hosts : ledger.host[h] \in Nat
    BY DEF IInv, CapInv, CapTypeOK, Ledger
<1>7. SumFunctionOnSet(Price', Charged') <= ledger'.total
    <2>1. SumFunctionOnSet(Price', Charged') <= SumFunctionOnSet(Price, Charged)
        BY <1>4
    <2>2. SumFunctionOnSet(Price, Charged) <= ledger.total
        BY <1>5 DEF MoneyInv, Sum, Price
    <2>3. SumFunctionOnSet(Price, Charged) \in Nat /\ SumFunctionOnSet(Price', Charged') \in Nat
        BY <1>2, <1>3, SumIsNat DEF MoneyInv
    <2>4. QED
        BY <1>6, <2>1, <2>2, <2>3
<1>8. ASSUME NEW h \in Hosts
      PROVE  SumFunctionOnSet(Price', ChargedTo(h)') <= ledger'.host[h]
    <2>1. ChargedTo(h)' \subseteq ChargedTo(h) /\ ChargedTo(h) \subseteq Charged
        BY DEF ChargedTo
    <2>2. SumFunctionOnSet(Price', ChargedTo(h)') <= SumFunctionOnSet(Price, ChargedTo(h))
        BY <1>4, <2>1
    <2>3. SumFunctionOnSet(Price, ChargedTo(h)) <= ledger.host[h]
        BY <1>5 DEF MoneyInv, Sum, Price
    <2>4. /\ SumFunctionOnSet(Price, ChargedTo(h)) \in Nat
          /\ SumFunctionOnSet(Price', ChargedTo(h)') \in Nat
        BY <1>2, <1>3, <2>1, SumIsNat, FS_Subset DEF MoneyInv
    <2>5. QED
        BY <1>6, <2>2, <2>3, <2>4
<1>9. QED
    BY <1>5, <1>7, <1>8

\* The environment and the start of a request charge nothing.
LEMMA EnvironmentMoney ==
    ASSUME IInv, MoneyInv, Environment \/ \E t \in Tasks, u \in Urls : Start(t, u)
    PROVE  MoneyInv'
<1>1. UNCHANGED <<issued, ledger>>
    BY DEF Environment, Settle, FailPayment, Revoke, Expire, ClockMoves, SetClock, Start,
           capVars, serverVars
<1>2. Charged' \subseteq Charged
    <2>1. ASSUME NEW c \in Challenges, Settle(c) \/ FailPayment(c) PROVE Charged' \subseteq Charged
        BY <2>1 DEF Settle, FailPayment, taskVars, Charged, IInv, ChallengeInv
    <2>2. ASSUME UNCHANGED <<pc, held, payment>> PROVE Charged' \subseteq Charged
        BY <2>2 DEF Charged
    <2>3. ASSUME NEW t \in Tasks, NEW u \in Urls, Start(t, u) PROVE Charged' \subseteq Charged
        BY <2>3 DEF Start, Charged, IInv, TaskTypes
    <2>4. QED
        BY <2>1, <2>2, <2>3 DEF Environment, Revoke, Expire, ClockMoves, taskVars
<1>3. QED
    BY <1>1, <1>2, NoCharge DEF MoneyInv

\* No step of a task but the charge adds to what may be paid.
LEMMA TaskMoney ==
    ASSUME IInv, MoneyInv, NEW t \in Tasks, TaskStep(t) \/ Cancel(t), UNCHANGED ledger,
           pc[t] = "charge" => pc'[t] # "pay"
    PROVE  MoneyInv'
<1> USE DEF IInv, TaskTypes
<1>1. CASE Request(t)
    <2>1. \A c \in Challenges : issued'[c] = issued[c] \/ issued[c] = None
        BY <1>1 DEF Request, ChallengeInv
    <2>2. "unreadable" \notin Faults =>
              \A c \in Challenges : issued'[c] # None => issued'[c].readable
        BY <1>1 DEF Request, MoneyInv, ChallengeInv
    <2>3. UNCHANGED payment /\ \A s \in Tasks : pc'[s] = "pay" => pc[s] = "pay" /\ held'[s] = held[s]
        BY <1>1 DEF Request, Hold, Finish
    <2>4. Charged' \subseteq Charged
        BY <2>3 DEF Charged
    <2>5. \A c \in Charged : issued'[c] = issued[c]
        BY <2>1, ChargedAreIssued
    <2>6. QED
        BY <2>2, <2>4, <2>5, NoCharge
<1>2. CASE Pay(t)
    <2>1. UNCHANGED issued
        BY <1>2 DEF Pay, serverVars
    <2>2. Charged' \subseteq Charged
        BY <1>2 DEF Pay, Goto, Finish, Charged, ChallengeInv
    <2>3. QED
        BY <2>1, <2>2, NoCharge DEF MoneyInv
<1>3. CASE \/ Lookup(t) \/ TryCached(t) \/ Discard(t) \/ Charge(t) \/ PayReturns(t)
           \/ Put(t) \/ Retry(t) \/ DiscardPaid(t) \/ Cancel(t)
    <2>1. UNCHANGED <<issued, payment>>
        BY <1>3 DEF Lookup, TryCached, Discard, Charge, PayReturns, Put, Retry, DiscardPaid,
                    Cancel, serverVars
    <2>2. \A s \in Tasks : pc'[s] = "pay" => pc[s] = "pay" /\ held'[s] = held[s]
        <3>1. CASE Lookup(t) \/ TryCached(t) \/ Discard(t)
            BY <3>1 DEF Lookup, TryCached, Discard, Goto, Hold, Finish
        <3>2. CASE Charge(t)
            BY <3>2 DEF Charge, Goto, Finish
        <3>3. CASE PayReturns(t) \/ Put(t) \/ Retry(t)
            BY <3>3 DEF PayReturns, Put, Retry, Goto, Finish
        <3>4. CASE DiscardPaid(t) \/ Cancel(t)
            BY <3>4 DEF DiscardPaid, Cancel, Goto, Finish
        <3>5. QED
            BY <1>3, <3>1, <3>2, <3>3, <3>4
    <2>3. Charged' \subseteq Charged
        BY <2>1, <2>2 DEF Charged
    <2>4. QED
        BY <2>1, <2>3, NoCharge DEF MoneyInv
<1>4. QED
    BY <1>1, <1>2, <1>3 DEF TaskStep

\* The charge adds its invoice to what may be paid and to the ledger.
LEMMA ChargeMoney ==
    ASSUME IInv, MoneyInv, NEW t \in Tasks, Charge(t), pc'[t] = "pay",
           Spend(Decoded(held[t]), HostOf[url[t]])
    PROVE  MoneyInv'
<1> DEFINE c      == held[t]
           host   == HostOf[url[t]]
           amount == Decoded(c)
<1>1. /\ c \in Challenges /\ url[t] \in Urls /\ host \in Hosts
      /\ issued[c] \in Invoices /\ issued[c] # None /\ issued[c].url = url[t]
      /\ payment[c] = "none" /\ pc[t] = "charge"
    BY ClientAssumption DEF IInv, TaskInv, TaskOK, WithChallenge, ChallengeInv, Charge
<1>2. amount \in Nat
    BY <1>1, AmountsAssumption DEF Decoded, Invoices
<1>3. /\ ledger \in Ledger /\ LedgerAdmits(amount, host)
      /\ ledger' = Enter(ledger, amount, host, now)
    BY DEF IInv, CapInv, CapTypeOK, Spend
<1>4. /\ ledger'.total = ledger.total + amount /\ ledger.total \in Nat
      /\ \A h \in Hosts : ledger.host[h] \in Nat
      /\ \A h \in Hosts : ledger'.host[h] = IF h = host THEN ledger.host[h] + amount
                                            ELSE ledger.host[h]
    BY <1>1, <1>3 DEF Enter, Ledger
<1>5. UNCHANGED <<issued, payment>>
    BY DEF Charge, serverVars
<1>6. pc' = [pc EXCEPT ![t] = "pay"] /\ UNCHANGED held
    BY <1>1 DEF Charge, Goto, Finish, IInv, TaskTypes
<1>7. c \notin Charged /\ Charged' = Charged \cup {c}
    <2>1. ASSUME NEW s \in Tasks, pc[s] = "pay" PROVE held[s] # c
        BY <1>1, <2>1 DEF IInv, DistinctInv, WithChallenge
    <2>2. c \notin Charged
        BY <1>1, <2>1 DEF Charged
    <2>3. \A x \in Challenges : x \in Charged' <=> x \in Charged \/ x = c
        BY <1>1, <1>5, <1>6 DEF Charged, IInv, TaskTypes
    <2>4. QED
        BY <1>1, <2>2, <2>3 DEF Charged
<1> HIDE DEF c, host, amount
<1>8. LedgerInv'
    <2>1. Effective(host) \in Budgets
        BY <1>1 DEF Budgets
    <2>2. Within(ledger.total + amount, Effective(host).total_max)
        BY <1>3 DEF LedgerAdmits, Passes
    <2>3. \A h \in Hosts : ledger.host[h] <= ledger.total
                           /\ Within(ledger.host[h], Effective(h).total_max)
        BY DEF MoneyInv, LedgerInv
    <2>4. Effective(host).total_max = NoLimit \/ Effective(host).total_max \in Nat
        BY <1>1, LimitsAssumption DEF Effective, BudgetLimits, Limit
    <2>5. ASSUME NEW h \in Hosts
          PROVE  /\ ledger'.host[h] <= ledger'.total
                 /\ Within(ledger'.host[h], Effective(h).total_max)
        BY <1>2, <1>4, <2>2, <2>3, <2>4 DEF Within
    <2>6. QED
        BY <1>4, <2>1, <2>2, <2>5 DEF LedgerInv
<1>9. IsFiniteSet(Charged')
    BY <1>7, FS_AddElement DEF MoneyInv
<1>10. SUFFICES ASSUME "unreadable" \notin Faults
                PROVE  /\ Sum(Charged)' <= ledger'.total
                       /\ \A h \in Hosts : Sum(ChargedTo(h))' <= ledger'.host[h]
    BY <1>5, <1>8, <1>9 DEF MoneyInv
<1>11. Price' = Price /\ Price[c] = amount
    BY <1>1, <1>5, <1>10 DEF Price, MoneyInv, Decoded, amount
<1>12. \A x \in Charged \cup {c} : Price[x] \in Nat
    BY <1>1, PriceIsNat DEF Charged
<1>13. ASSUME NEW S, S \subseteq Charged
       PROVE  /\ SumFunctionOnSet(Price, S) \in Nat
              /\ SumFunctionOnSet(Price, S \cup {c}) = SumFunctionOnSet(Price, S) + amount
    <2>1. IsFiniteSet(S)
        BY <1>13, FS_Subset DEF MoneyInv
    <2>2. QED
        BY <1>7, <1>11, <1>12, <1>13, <2>1, SumIsNat, SumOfOneMore
<1>14. Sum(Charged)' <= ledger'.total
    <2>1. Sum(Charged)' = SumFunctionOnSet(Price, Charged) + amount
        BY <1>7, <1>11, <1>13 DEF Sum, Price
    <2>2. SumFunctionOnSet(Price, Charged) <= ledger.total
        BY <1>10 DEF MoneyInv, Sum, Price
    <2>3. SumFunctionOnSet(Price, Charged) \in Nat
        BY <1>13
    <2>4. QED
        BY <1>2, <1>4, <2>1, <2>2, <2>3
<1>15. ASSUME NEW h \in Hosts
       PROVE  Sum(ChargedTo(h))' <= ledger'.host[h]
    <2>1. ChargedTo(h) \subseteq Charged
        BY DEF ChargedTo
    <2>2. SumFunctionOnSet(Price, ChargedTo(h)) <= ledger.host[h]
        BY <1>10 DEF MoneyInv, Sum, Price
    <2>3. CASE h = host
        <3>1. ChargedTo(h)' = ChargedTo(h) \cup {c}
            BY <1>1, <1>5, <1>7, <2>3 DEF ChargedTo, host
        <3>2. Sum(ChargedTo(h))' = SumFunctionOnSet(Price, ChargedTo(h)) + amount
            BY <1>11, <1>13, <2>1, <3>1 DEF Sum, Price
        <3>3. SumFunctionOnSet(Price, ChargedTo(h)) \in Nat
            BY <1>13, <2>1
        <3>4. ledger'.host[h] = ledger.host[h] + amount /\ ledger.host[h] \in Nat
            BY <1>4, <2>3
        <3>5. QED
            BY <1>2, <2>2, <3>2, <3>3, <3>4
    <2>4. CASE h # host
        <3>1. ChargedTo(h)' = ChargedTo(h)
            BY <1>1, <1>5, <1>7, <2>4 DEF ChargedTo, host
        <3>2. Sum(ChargedTo(h))' = SumFunctionOnSet(Price, ChargedTo(h))
            BY <1>11, <3>1 DEF Sum, Price
        <3>3. QED
            BY <1>4, <2>2, <2>4, <3>2
    <2>5. QED
        BY <2>3, <2>4
<1>16. QED
    BY <1>14, <1>15

LEMMA StepMoney == IInv /\ MoneyInv /\ [Next]_vars => MoneyInv'
<1> SUFFICES ASSUME IInv, MoneyInv, [Next]_vars PROVE MoneyInv'
    OBVIOUS
<1>1. ASSUME NEW t \in Tasks, TaskStep(t) \/ Cancel(t) PROVE MoneyInv'
    <2>1. CASE pc[t] = "charge" /\ pc'[t] = "pay"
        <3>1. Charge(t)
            BY <1>1, <2>1 DEF TaskStep, Lookup, TryCached, Discard, Request, Pay, PayReturns, Put,
                              Retry, DiscardPaid, Cancel
        <3>2. Spend(Decoded(held[t]), HostOf[url[t]])
            BY <2>1, <3>1 DEF Charge, Finish, IInv, TaskTypes
        <3>3. QED
            BY <2>1, <3>1, <3>2, ChargeMoney
    <2>2. CASE ~(pc[t] = "charge" /\ pc'[t] = "pay")
        <3>1. UNCHANGED ledger
            BY <1>1, <2>2 DEF TaskStep, Lookup, TryCached, Discard, Request, Charge, Pay,
                  PayReturns, Put, Retry, DiscardPaid, Cancel, Goto, capVars, IInv, TaskTypes
        <3>2. QED
            BY <1>1, <2>2, <3>1, TaskMoney
    <2>3. QED
        BY <2>1, <2>2
<1>2. CASE UNCHANGED vars
    <2>1. UNCHANGED <<ledger, issued, Charged>>
        BY <1>2 DEF vars, capVars, serverVars, taskVars, Charged
    <2>2. QED
        BY <2>1, NoCharge DEF MoneyInv
<1>3. QED
    BY <1>1, <1>2, EnvironmentMoney DEF Next

LEMMA InitMoney == Init => MoneyInv
<1> SUFFICES ASSUME Init PROVE MoneyInv
    OBVIOUS
<1>1. Charged = {} /\ \A h \in Hosts : ChargedTo(h) = {}
    BY DEF Init, Charged, ChargedTo
<1>2. ledger = EmptyLedger
    BY DEF Init, CapInit
<1>3. LedgerInv
    <2>1. PICK h \in Hosts : TRUE
        BY LimitsAssumption
    <2>2. Effective(h) \in Budgets
        BY DEF Budgets
    <2>3. ASSUME NEW g \in Hosts PROVE Within(0, Effective(g).total_max)
        <3>1. Effective(g).total_max \in Limit
            BY LimitsAssumption DEF Effective, BudgetLimits
        <3>2. QED
            BY <3>1 DEF Within, Limit
    <2>4. QED
        BY <1>2, <2>2, <2>3 DEF EmptyLedger, LedgerInv
<1>4. Sum({}) = 0
    BY SumOfNothing DEF Sum
<1>5. Sum(Charged) = 0 /\ \A h \in Hosts : Sum(ChargedTo(h)) = 0
    BY <1>1, <1>4
<1>6. IsFiniteSet(Charged)
    BY <1>1, FS_EmptySet
<1>7. \A c \in Challenges : issued[c] = None
    BY DEF Init
<1>8. QED
    BY <1>2, <1>3, <1>5, <1>6, <1>7 DEF MoneyInv, EmptyLedger

\* Invoices within a limit, with the fees for them.
LEMMA FeesOnTop ==
    ASSUME IInv, MoneyInv, NEW S, S \subseteq Charged, Sum(S) \in Nat,
           NEW limit \in Limit, Within(Sum(S), limit)
    PROVE  OverByFeesOnly(S, limit)
<1> DEFINE paid == SettledOf(S)
<1>1. IsFiniteSet(paid) /\ paid \subseteq Challenges
    BY FS_Subset DEF MoneyInv, SettledOf, Charged
<1>2. \A c \in paid : fee[c] \in 0 .. MaxFee
    BY <1>1 DEF IInv, ChallengeInv
<1>3. SumFunctionOnSet(fee, paid) <= MaxFee * Cardinality(paid)
    BY <1>1, <1>2, ClientAssumption, SumIsBounded
<1>4. SumFunctionOnSet(fee, paid) \in Nat /\ MaxFee * Cardinality(paid) \in Nat
    <2>1. \A c \in paid : fee[c] \in Nat
        BY <1>2, ClientAssumption
    <2>2. Cardinality(paid) \in Nat
        BY <1>1, FS_CardinalityType
    <2>3. QED
        BY <1>1, <2>1, <2>2, ClientAssumption, SumIsNat
<1> HIDE DEF paid
<1>5. limit # NoLimit => limit \in Nat /\ Sum(S) <= limit
    BY DEF Limit, Within
<1>6. MoneyOut(S) = Sum(S) + SumFunctionOnSet(fee, paid)
    BY DEF MoneyOut, paid
<1>7. limit # NoLimit => MoneyOut(S) <= limit + MaxFee * Cardinality(paid)
    BY <1>3, <1>4, <1>5, <1>6
<1>8. QED
    BY <1>7 DEF OverByFeesOnly, paid

(* The invoices that the node pays stay within the limits (client.rs:287,   *)
(* the check before the payment), in total and to each host, and what       *)
(* leaves the node exceeds them by routing fees only, MaxFee at most for    *)
(* each payment (client.rs:295): however many requests there are and        *)
(* however they interleave, whatever fails or is dropped between the charge *)
(* and the payment.                                                         *)
THEOREM ClientMoney == Spec => []MoneyOutWithinLimits
<1>1. IInv /\ MoneyInv => MoneyOutWithinLimits
    <2> SUFFICES ASSUME IInv, MoneyInv, "unreadable" \notin Faults
                 PROVE  /\ \E b \in Budgets : OverByFeesOnly(Sent, b.total_max)
                        /\ \A h \in Hosts : OverByFeesOnly(SentTo(h), Effective(h).total_max)
        BY DEF MoneyOutWithinLimits
    <2>1. \A c \in Charged : Price[c] \in Nat
        BY PriceIsNat DEF Charged
    <2>2. ASSUME NEW S, S \subseteq Charged, NEW T, T \subseteq S
          PROVE  /\ Sum(S) \in Nat /\ Sum(T) \in Nat
                 /\ Sum(T) <= Sum(S)
        <3>1. IsFiniteSet(S) /\ IsFiniteSet(T)
            BY <2>2, FS_Subset DEF MoneyInv
        <3>2. Sum(S) = SumFunctionOnSet(Price, S) /\ Sum(T) = SumFunctionOnSet(Price, T)
            BY DEF Sum, Price
        <3>3. \A c \in S : Price[c] \in Nat
            BY <2>1, <2>2
        <3>4. SumFunctionOnSet(Price, S) \in Nat
            BY <3>1, <3>3, SumIsNat
        <3>5. SumFunctionOnSet(Price, T) \in Nat
            BY <2>2, <3>1, <3>3, SumIsNat
        <3>6. SumFunctionOnSet(Price, T) <= SumFunctionOnSet(Price, S)
            BY <2>2, <3>1, <3>3, SumOfFewer
        <3>7. QED
            BY <3>2, <3>4, <3>5, <3>6
    <2>3. Sent \subseteq Charged /\ \A h \in Hosts : SentTo(h) \subseteq ChargedTo(h)
        BY DEF Sent, SentTo, Charged, ChargedTo
    <2>4. ledger.total \in Nat /\ \A h \in Hosts : ledger.host[h] \in Nat
        BY DEF IInv, CapInv, CapTypeOK, Ledger
    <2>5. Sum(Sent) \in Nat /\ Sum(Sent) <= ledger.total
        <3>1. Sum(Sent) \in Nat /\ Sum(Charged) \in Nat /\ Sum(Sent) <= Sum(Charged)
            BY <2>2, <2>3
        <3>2. QED
            BY <2>4, <3>1 DEF MoneyInv
    <2>6. ASSUME NEW h \in Hosts
          PROVE  Sum(SentTo(h)) \in Nat /\ Sum(SentTo(h)) <= ledger.host[h]
        <3>1. ChargedTo(h) \subseteq Charged
            BY DEF ChargedTo
        <3>2. /\ Sum(SentTo(h)) \in Nat /\ Sum(ChargedTo(h)) \in Nat
              /\ Sum(SentTo(h)) <= Sum(ChargedTo(h))
            BY <2>2, <2>3, <3>1
        <3>3. QED
            BY <2>4, <3>2 DEF MoneyInv
    <2>7. \A b \in Budgets : b.total_max \in Limit
        BY LimitsAssumption DEF Budgets, Effective, BudgetLimits
    <2>8. \E b \in Budgets : OverByFeesOnly(Sent, b.total_max)
        <3>1. PICK b \in Budgets : Within(ledger.total, b.total_max)
            BY DEF MoneyInv, LedgerInv
        <3>2. Within(Sum(Sent), b.total_max)
            BY <2>4, <2>5, <2>7, <3>1 DEF Within, Limit
        <3>3. OverByFeesOnly(Sent, b.total_max)
            BY <2>3, <2>5, <2>7, <3>2, FeesOnTop
        <3>4. QED
            BY <3>3
    <2>9. ASSUME NEW h \in Hosts PROVE OverByFeesOnly(SentTo(h), Effective(h).total_max)
        <3>1. Within(ledger.host[h], Effective(h).total_max) /\ Effective(h).total_max \in Limit
            BY <2>7 DEF MoneyInv, LedgerInv, Budgets
        <3>2. Within(Sum(SentTo(h)), Effective(h).total_max)
            BY <2>4, <2>6, <3>1 DEF Within, Limit
        <3>3. SentTo(h) \subseteq Charged
            BY <2>3 DEF ChargedTo
        <3>4. QED
            BY <2>6, <3>1, <3>2, <3>3, FeesOnTop
    <2>10. QED
        BY <2>8, <2>9
<1>2. QED
    BY <1>1, ClientInvariant, InitMoney, StepMoney, PTL DEF Spec

\* The challenges whose request ended with a receipt.
Receipted == {c \in Challenges : ended[c] = "paid"}

\* The receipts add up to no more than the invoices they are for.
ReceiptsCovered == ReceiptTotal <= Sum(Receipted)

ReceiptAmounts == [i \in 1 .. Len(receipts) |-> receipts[i].amount]

LEMMA ReceiptedAreSettled ==
    ASSUME IInv, NEW c \in Receipted
    PROVE  payment[c] = "settled" /\ issued[c] # None
<1>1. PICK i \in 1 .. Len(receipts) : receipts[i].paid = c
    BY DEF IInv, OutcomesAreHonest, Receipted
<1>2. payment[c] = "settled"
    BY <1>1 DEF IInv, ReceiptsInv, EachPaidOnce
<1>3. QED
    BY <1>2 DEF IInv, ChallengeInv, Receipted

LEMMA ReceiptAmountsAreNat ==
    ASSUME IInv
    PROVE  /\ \A i \in 1 .. Len(receipts) : ReceiptAmounts[i] \in Nat
           /\ Len(receipts) \in Nat
           /\ IsFiniteSet(1 .. Len(receipts))
<1>1. receipts \in Seq(Receipts)
    BY DEF IInv, ReceiptsInv
<1>2. ASSUME NEW i \in 1 .. Len(receipts) PROVE ReceiptAmounts[i] \in Nat
    <2>1. receipts[i] \in Receipts
        BY <1>1
    <2>2. QED
        BY <2>1 DEF Receipts, ReceiptAmounts
<1>3. Len(receipts) \in Nat
    BY <1>1
<1>4. QED
    BY <1>2, <1>3, FS_Interval

LEMMA ReceiptedIsCharged ==
    ASSUME IInv, MoneyInv
    PROVE  Receipted \subseteq Charged /\ IsFiniteSet(Receipted)
<1>1. Receipted \subseteq Charged
    BY ReceiptedAreSettled DEF Receipted, Charged
<1>2. QED
    BY <1>1, FS_Subset DEF MoneyInv

\* Invoices that were issued stay as they are.
LEMMA IssuedStay ==
    ASSUME IInv, [Next]_vars, NEW c \in Challenges, issued[c] # None
    PROVE  issued'[c] = issued[c]
<1>1. UNCHANGED issued \/ \E t \in Tasks : Request(t)
    BY DEF Next, TaskStep, Lookup, TryCached, Discard, Charge, Pay, PayReturns, Put, Retry,
           DiscardPaid, Cancel, Start, Environment, Settle, FailPayment, Revoke, Expire,
           ClockMoves, vars, serverVars
<1>2. QED
    BY <1>1 DEF Request, IInv, ChallengeInv

LEMMA ReceiptedKeepsPrice ==
    ASSUME IInv, MoneyInv, [Next]_vars
    PROVE  SumFunctionOnSet(Price', Receipted) = Sum(Receipted)
<1>1. ASSUME NEW c \in Receipted PROVE Price'[c] = Price[c]
    <2>1. c \in Challenges /\ issued[c] # None
        BY ReceiptedAreSettled DEF Receipted
    <2>2. issued'[c] = issued[c]
        BY <2>1, IssuedStay
    <2>3. QED
        BY <2>1, <2>2 DEF Price
<1>2. SumFunctionOnSet(Price', Receipted) = SumFunctionOnSet(Price, Receipted)
    BY <1>1, ReceiptedIsCharged, SumOfSame
<1>3. QED
    BY <1>2 DEF Sum, Price

\* A step without a receipt changes neither side.
LEMMA NoReceipt ==
    ASSUME IInv, IInv', MoneyInv, ReceiptsCovered, UNCHANGED receipts, [Next]_vars
    PROVE  ReceiptsCovered'
<1>1. Receipted' = Receipted
    BY DEF IInv, OutcomesAreHonest, Receipted
<1>2. ReceiptTotal' = ReceiptTotal
    BY DEF ReceiptTotal
<1>3. Sum(Receipted)' = Sum(Receipted)
    <2>1. Sum(Receipted)' = SumFunctionOnSet(Price', Receipted')
        BY DEF Sum, Price
    <2>2. QED
        BY <1>1, <2>1, ReceiptedKeepsPrice
<1>4. QED
    BY <1>2, <1>3 DEF ReceiptsCovered

\* A receipt adds what the backend reported to the one side and what the invoice
\* asked for to the other.
LEMMA OneReceipt ==
    ASSUME IInv, IInv', MoneyInv, ReceiptsCovered, [Next]_vars,
           NEW t \in Tasks, NEW answer, Retry(t), Finish(t, "paid"),
           NEW amount \in Reported(held[t]), AddReceipt(t, amount, answer)
    PROVE  ReceiptsCovered'
<1> DEFINE c == held[t]
           n == Len(receipts)
<1>1. /\ c \in Challenges /\ issued[c] \in Invoices /\ issued[c] # None
      /\ ended[c] = "open" /\ pc[t] = "retry"
    BY DEF IInv, TaskInv, TaskOK, WithChallenge, ChallengeInv, Retry
<1>2. c \notin Receipted /\ Receipted' = Receipted \cup {c}
    <2>1. ended' = [ended EXCEPT ![c] = "paid"]
        BY <1>1 DEF Finish, WithChallenge
    <2>2. QED
        BY <1>1, <2>1 DEF Receipted, IInv, ChallengeInv
<1>3. /\ Price'[c] = issued[c].amount /\ issued[c].amount \in Nat
      /\ amount \in Nat /\ amount <= issued[c].amount
    <2>1. issued'[c] = issued[c] /\ issued[c].amount \in Nat
        BY <1>1, IssuedStay, AmountsAssumption DEF Invoices
    <2>2. QED
        BY <1>1, <2>1 DEF Price, Reported
<1>4. /\ n \in Nat /\ Len(receipts') = n + 1
      /\ receipts'[n + 1].amount = amount
      /\ \A i \in 1 .. n : receipts'[i] = receipts[i]
    <2>1. receipts \in Seq(Receipts)
        BY DEF IInv, ReceiptsInv
    <2>2. QED
        BY <2>1 DEF AddReceipt
<1> HIDE DEF c, n
<1>5. ReceiptTotal' = ReceiptTotal + amount
    <2>1. 1 .. n + 1 = (1 .. n) \cup {n + 1} /\ n + 1 \notin 1 .. n
        BY <1>4
    <2>2. /\ \A i \in 1 .. n : ReceiptAmounts'[i] = ReceiptAmounts[i]
          /\ ReceiptAmounts'[n + 1] = amount
        BY <1>4 DEF ReceiptAmounts, n
    <2>3. IsFiniteSet(1 .. n) /\ \A i \in 1 .. n : ReceiptAmounts[i] \in Nat
        BY ReceiptAmountsAreNat DEF n
    <2>4. \A i \in (1 .. n) \cup {n + 1} : ReceiptAmounts'[i] \in Nat
        BY <1>3, <2>2, <2>3
    <2>5. SumFunctionOnSet(ReceiptAmounts', (1 .. n) \cup {n + 1})
            = SumFunctionOnSet(ReceiptAmounts', 1 .. n) + ReceiptAmounts'[n + 1]
        <3> DEFINE indices == 1 .. n
                   last == n + 1
        <3>1. IsFiniteSet(indices) /\ last \notin indices
            BY <2>1, <2>3
        <3>2. \A i \in indices \cup {last} : ReceiptAmounts'[i] \in Nat
            BY <2>4
        <3> HIDE DEF indices, last
        <3>3. SumFunctionOnSet(ReceiptAmounts', indices \cup {last})
                = SumFunctionOnSet(ReceiptAmounts', indices) + ReceiptAmounts'[last]
            BY <3>1, <3>2, SumOfOneMore
        <3>4. QED
            BY <3>3, Zenon DEF indices, last
    <2>6. SumFunctionOnSet(ReceiptAmounts', 1 .. n) = SumFunctionOnSet(ReceiptAmounts, 1 .. n)
        BY <2>2, <2>3, SumOfSame
    <2>7. /\ ReceiptTotal = SumFunctionOnSet(ReceiptAmounts, 1 .. n)
          /\ ReceiptTotal' = SumFunctionOnSet(ReceiptAmounts', 1 .. n + 1)
        BY <1>4 DEF ReceiptTotal, ReceiptAmounts, n
    <2>8. QED
        BY <2>1, <2>2, <2>5, <2>6, <2>7
<1>6. Sum(Receipted)' = Sum(Receipted) + issued[c].amount /\ Sum(Receipted) \in Nat
    <2>1. IsFiniteSet(Receipted)
        BY ReceiptedIsCharged
    <2>2. \A x \in Receipted : Price[x] \in Nat
        BY PriceIsNat DEF Receipted
    <2>3. Sum(Receipted) \in Nat
        BY <2>1, <2>2, SumIsNat DEF Sum, Price
    <2>4. \A x \in Receipted \cup {c} : Price'[x] \in Nat
        <3>1. \A x \in Challenges : Price'[x] \in Nat
            BY AmountsAssumption DEF IInv, ChallengeInv, Invoices, Price
        <3>2. QED
            BY <1>1, <3>1 DEF Receipted
    <2>5. SumFunctionOnSet(Price', Receipted \cup {c})
            = SumFunctionOnSet(Price', Receipted) + Price'[c]
        BY <1>2, <2>1, <2>4, SumOfOneMore
    <2>6. Sum(Receipted)' = SumFunctionOnSet(Price', Receipted')
        BY DEF Sum, Price
    <2>7. QED
        BY <1>2, <1>3, <2>3, <2>5, <2>6, ReceiptedKeepsPrice
<1>7. ReceiptTotal \in Nat
    BY ReceiptAmountsAreNat, SumIsNat DEF ReceiptTotal, ReceiptAmounts
<1>8. QED
    BY <1>3, <1>5, <1>6, <1>7 DEF ReceiptsCovered

LEMMA StepReceipts ==
    ASSUME IInv, IInv', MoneyInv, ReceiptsCovered, [Next]_vars
    PROVE  ReceiptsCovered'
<1>1. CASE UNCHANGED receipts
    BY <1>1, NoReceipt
<1>2. CASE ~UNCHANGED receipts
    <2>1. PICK t \in Tasks : Retry(t)
        BY <1>2 DEF Next, TaskStep, Lookup, TryCached, Discard, Request, Charge, Pay, PayReturns,
               Put, DiscardPaid, Cancel, Start, Environment, Settle, FailPayment, Revoke, Expire,
               ClockMoves, vars
    <2>2. PICK answer \in Answers(url[t], held[t]) :
                /\ Finish(t, "paid")
                /\ \E amount \in Reported(held[t]) : AddReceipt(t, amount, answer)
        BY <1>2, <2>1, Zenon DEF Retry
    <2>3. PICK amount \in Reported(held[t]) : AddReceipt(t, amount, answer)
        BY <2>2
    <2>4. QED
        BY <2>1, <2>2, <2>3, OneReceipt
<1>3. QED
    BY <1>1, <1>2

LEMMA InitReceipts == Init => ReceiptsCovered
<1> SUFFICES ASSUME Init PROVE ReceiptsCovered
    OBVIOUS
<1>1. Receipted = {} /\ 1 .. Len(receipts) = {}
    BY DEF Init, Receipted
<1>2. ReceiptTotal = 0 /\ Sum(Receipted) = 0
    BY <1>1, SumOfNothing DEF ReceiptTotal, Sum
<1>3. QED
    BY <1>2 DEF ReceiptsCovered

(* Every receipt is of a payment that settled, for the URL it names, and no *)
(* payment has two (client.rs:312).  The amounts of the receipts, whatever  *)
(* backend reports them, add up to no more than total_spent()               *)
(* (client.rs:410) when the client can decode the invoices.                 *)
THEOREM ClientReceipts == Spec => []ReceiptsAreSettledPayments
<1>1. IInv /\ MoneyInv /\ ReceiptsCovered => ReceiptsAreSettledPayments
    <2> SUFFICES ASSUME IInv, MoneyInv, ReceiptsCovered, "unreadable" \notin Faults
                 PROVE  ReceiptTotal <= ledger.total
        BY DEF ReceiptsAreSettledPayments, IInv, ReceiptsInv
    <2>1. Receipted \subseteq Charged /\ IsFiniteSet(Receipted) /\ IsFiniteSet(Charged)
        BY ReceiptedIsCharged DEF MoneyInv
    <2>2. \A c \in Charged : Price[c] \in Nat
        BY PriceIsNat DEF Charged
    <2>3. /\ SumFunctionOnSet(Price, Receipted) <= SumFunctionOnSet(Price, Charged)
          /\ SumFunctionOnSet(Price, Receipted) \in Nat
          /\ SumFunctionOnSet(Price, Charged) \in Nat
        BY <2>1, <2>2, SumIsNat, SumOfFewer
    <2>4. Sum(Receipted) <= Sum(Charged) /\ Sum(Receipted) \in Nat /\ Sum(Charged) \in Nat
        BY <2>3 DEF Sum, Price
    <2>5. ReceiptTotal <= Sum(Receipted) /\ Sum(Charged) <= ledger.total
        BY DEF ReceiptsCovered, MoneyInv
    <2>6. ReceiptTotal \in Nat /\ ledger.total \in Nat
        BY ReceiptAmountsAreNat, SumIsNat
           DEF ReceiptTotal, ReceiptAmounts, IInv, CapInv, CapTypeOK, Ledger
    <2>7. QED
        BY <2>4, <2>5, <2>6
<1>2. QED
    BY <1>1, ClientInvariant, StepIInv, InitMoney, StepMoney, InitReceipts, StepReceipts,
       PTL DEF Spec

-----------------------------------------------------------------------------
(* One request at a time.                                                  *)

\* What the store holds for the URL of a task at each of its steps, when no
\* other task can change it: the token it tried, or what it has itself put there,
\* unless that has expired; nothing while it pays.
StoreOK(t) ==
    /\ pc[t] \in {"try_cached", "discard", "retry", "discard_paid"} =>
            cached[url[t]] \in {held[t], None}
    /\ pc[t] \in {"request", "charge", "pay", "paying"} => cached[url[t]] = None

AloneInv == \A t \in Tasks : StoreOK(t)

LEMMA StepAlone ==
    ASSUME \A s, t \in Tasks : s = t, IInv, AloneInv, [Next]_vars
    PROVE  AloneInv'
<1> USE DEF IInv, TaskTypes
<1>1. \A t \in Tasks : pc[t] # "idle" => url[t] \in Urls
    BY DEF TaskInv, TaskOK
<1>2. cached \in [Urls -> Challenges \cup {None}]
    BY DEF StoreInv, Store!StoreTypeOK
<1>3. ASSUME NEW t \in Tasks, TaskStep(t) \/ Cancel(t) PROVE StoreOK(t)'
    <2>1. CASE Lookup(t)
        BY <1>1, <1>2, <2>1 DEF Lookup, Goto, Hold, Finish, StoreOK, AloneInv
    <2>2. CASE TryCached(t)
        BY <1>1, <1>2, <2>2 DEF TryCached, Goto, Finish, StoreOK, AloneInv
    <2>3. CASE Discard(t)
        BY <1>1, <1>2, <2>3 DEF Discard, Hold, Finish, StoreOK, AloneInv, Store!StoreRemove
    <2>4. CASE Request(t)
        BY <1>1, <1>2, <2>4 DEF Request, Hold, Finish, StoreOK, AloneInv
    <2>5. CASE Charge(t)
        BY <1>1, <1>2, <2>5 DEF Charge, Goto, Finish, StoreOK, AloneInv
    <2>6. CASE Pay(t) \/ PayReturns(t)
        BY <1>1, <1>2, <2>6 DEF Pay, PayReturns, Goto, Finish, StoreOK, AloneInv
    <2>7. CASE Put(t)
        BY <1>1, <1>2, <2>7 DEF Put, Goto, Finish, StoreOK, AloneInv, Store!StorePut
    <2>8. CASE Retry(t)
        BY <1>1, <1>2, <2>8 DEF Retry, Goto, Finish, StoreOK, AloneInv
    <2>9. CASE DiscardPaid(t) \/ Cancel(t)
        BY <1>1, <1>2, <2>9 DEF DiscardPaid, Cancel, Finish, StoreOK, AloneInv
    <2>10. QED
        BY <1>3, <2>1, <2>2, <2>3, <2>4, <2>5, <2>6, <2>7, <2>8, <2>9 DEF TaskStep
<1>4. ASSUME NEW t \in Tasks, NEW u \in Urls, Start(t, u) PROVE StoreOK(t)'
    BY <1>4 DEF Start, StoreOK
<1>5. ASSUME UNCHANGED taskVars,
             cached' = cached \/ \E u \in Urls : Store!StoreForget({u}),
             NEW t \in Tasks
      PROVE  StoreOK(t)'
    BY <1>1, <1>2, <1>5 DEF taskVars, StoreOK, AloneInv, Store!StoreForget
<1>6. CASE Environment \/ UNCHANGED vars
    BY <1>5, <1>6 DEF Environment, Settle, FailPayment, Revoke, Expire, ClockMoves, vars, AloneInv
<1>7. QED
    BY <1>3, <1>4, <1>6 DEF Next, AloneInv

LEMMA AloneInvariant ==
    ASSUME \A s, t \in Tasks : s = t
    PROVE  Spec => [](IInv /\ AloneInv)
<1>1. Init => AloneInv
    BY DEF Init, AloneInv, StoreOK
<1>2. IInv /\ AloneInv /\ [Next]_vars => AloneInv'
    BY StepAlone
<1>3. QED
    BY <1>1, <1>2, ClientInvariant, PTL DEF Spec

(* Requests that follow one another pay only when the store has no token    *)
(* that the server would accept (port.rs:76, "avoid re-paying for the same  *)
(* resource"), for any number of URLs and with every fault.                 *)
THEOREM ClientPaysOnce ==
    ASSUME \A s, t \in Tasks : s = t
    PROVE  Spec => PaysOnlyWithoutToken
<1>1. IInv /\ AloneInv =>
        \A t \in Tasks : pc[t] = "pay" /\ pc'[t] = "paying" => ~Accepts(url[t], cached[url[t]])
    BY DEF AloneInv, StoreOK, Accepts
<1>2. QED
    BY <1>1, AloneInvariant, PTL DEF PaysOnlyWithoutToken

(* And the token that such a request removes after a 402 is the one the     *)
(* server rejected (client.rs:255).                                         *)
THEOREM ClientRemovesOnlyRejected ==
    ASSUME \A s, t \in Tasks : s = t
    PROVE  Spec => RemovesOnlyRejected
<1>1. ASSUME IInv, AloneInv, [Next]_vars,
             NEW t \in Tasks, pc[t] \in {"discard", "discard_paid"}, pc'[t] # pc[t],
             NEW u \in Urls, cached'[u] # cached[u]
      PROVE  u = url[t] /\ cached[u] = held[t]
    <2>1. Discard(t) \/ DiscardPaid(t) \/ UNCHANGED cached
        BY <1>1 DEF Next, TaskStep, Lookup, TryCached, Request, Charge, Pay, PayReturns, Put, Retry,
             Cancel, Start, Environment, Settle, FailPayment, Revoke, Expire, ClockMoves, taskVars, vars
    <2>2. Store!StoreRemove(url[t])
        BY <1>1, <2>1 DEF Discard, DiscardPaid
    <2>3. cached[url[t]] \in {held[t], None}
        BY <1>1 DEF AloneInv, StoreOK
    <2>4. cached \in [Urls -> Challenges \cup {None}] /\ url[t] \in Urls
        BY <1>1 DEF IInv, StoreInv, Store!StoreTypeOK, TaskInv, TaskOK
    <2>5. QED
        BY <1>1, <2>2, <2>3, <2>4 DEF Store!StoreRemove
<1>2. IInv /\ AloneInv /\ [Next]_vars =>
        \A t \in Tasks :
            /\ pc[t] \in {"discard", "discard_paid"} /\ pc'[t] # pc[t]
            => \A u \in Urls : cached'[u] # cached[u] => u = url[t] /\ cached[u] = held[t]
    BY <1>1
<1>3. QED
    BY <1>2, AloneInvariant, PTL DEF Spec, RemovesOnlyRejected

-----------------------------------------------------------------------------
(* The client and the two ports that it drives: what it does to the budget *)
(* is what the spending cap allows, and what it does to the store is what  *)
(* the store port offers.                                                  *)

LEMMA ChargeIsSpend ==
    ASSUME IInv, 0 \in Amounts, NEW t \in Tasks, Charge(t)
    PROVE  (\E a \in Amounts, h \in Hosts : Spend(a, h)) \/ UNCHANGED capVars
<1>1. pc[t] = "charge"
    BY DEF Charge
<1>2. url[t] \in Urls /\ held[t] \in Challenges /\ issued[held[t]] # None
    BY <1>1 DEF IInv, TaskInv, TaskOK, WithChallenge
<1>3. issued[held[t]] \in Invoices
    BY <1>2 DEF IInv, ChallengeInv
<1>4. Decoded(held[t]) \in Amounts /\ HostOf[url[t]] \in Hosts
    BY <1>2, <1>3, ClientAssumption DEF Decoded, Invoices
<1>5. Spend(Decoded(held[t]), HostOf[url[t]]) \/ UNCHANGED capVars
    BY DEF Charge
<1>6. QED
    BY <1>4, <1>5

LEMMA StepOfCap ==
    ASSUME IInv, 0 \in Amounts, [Next]_vars
    PROVE  [CapNext]_capVars
<1>1. ASSUME NEW t \in Tasks, TaskStep(t)
      PROVE  [CapNext]_capVars
    BY <1>1, ChargeIsSpend
       DEF TaskStep, Lookup, TryCached, Discard, Request, Pay, PayReturns, Put, Retry, DiscardPaid,
           CapNext
<1>2. CASE Environment
    BY <1>2 DEF Environment, Settle, FailPayment, Revoke, Expire, ClockMoves, CapNext
<1>3. ASSUME NEW t \in Tasks, Cancel(t) \/ \E u \in Urls : Start(t, u)
      PROVE  UNCHANGED capVars
    BY <1>3 DEF Cancel, Start
<1>4. CASE UNCHANGED vars
    BY <1>4 DEF vars
<1>5. QED
    BY <1>1, <1>2, <1>3, <1>4 DEF Next

(* The requests of a client, however they interleave, are one spender that  *)
(* keeps to the spending cap: check_and_record is the only thing that they  *)
(* do to the budget, with the host of the URL and the amount of the invoice *)
(* (client.rs:287).                                                         *)
THEOREM ClientKeepsCap ==
    ASSUME 0 \in Amounts
    PROVE  Spec => CapSpec
<1>1. Init => CapInit
    BY DEF Init
<1>2. IInv /\ [Next]_vars => [CapNext]_capVars
    BY StepOfCap
<1>3. QED
    BY <1>1, <1>2, ClientInvariant, PTL DEF Spec, CapSpec

\* What is spent keeps within the limits of every window.
LEMMA SpendKeepsCaps ==
    ASSUME CapTypeOK, CapsRespected, NEW a \in Amounts, NEW h \in Hosts, Spend(a, h)
    PROVE  CapsRespected'
<1> DEFINE b == Effective(h)
           hour == HourOf(now)
           day == DayOf(now)
<1>1. b \in Budgets /\ hour \in Hours /\ day \in Days /\ a \in Nat
    BY AmountsAssumption DEF Budgets, CapTypeOK, Hours, Days
<1>2. /\ Within(ledger.hour[hour] + a, b.hourly_max)
      /\ Within(ledger.day[day] + a, b.daily_max)
      /\ Within(ledger.total + a, b.total_max)
    BY DEF Spend, LedgerAdmits, Passes
<1>3. /\ ledger \in Ledger /\ ledger' = Enter(ledger, a, h, now)
    BY DEF Spend, CapTypeOK
<1> HIDE DEF b, hour, day
<1>4. /\ ledger'.total = ledger.total + a
      /\ \A k \in Hours : ledger'.hour[k] = IF k = hour THEN ledger.hour[k] + a ELSE ledger.hour[k]
      /\ \A k \in Days : ledger'.day[k] = IF k = day THEN ledger.day[k] + a ELSE ledger.day[k]
    BY <1>3 DEF Enter, Ledger, hour, day
<1>5. \A k \in Hours : \E any \in Budgets : Within(ledger'.hour[k], any.hourly_max)
    BY <1>1, <1>2, <1>4 DEF CapsRespected
<1>6. \A k \in Days : \E any \in Budgets : Within(ledger'.day[k], any.daily_max)
    BY <1>1, <1>2, <1>4 DEF CapsRespected
<1>7. \E any \in Budgets : Within(ledger'.total, any.total_max)
    BY <1>1, <1>2, <1>4
<1>8. QED
    BY <1>5, <1>6, <1>7 DEF CapsRespected

LEMMA InitCaps == Init => CapsRespected
<1> SUFFICES ASSUME Init PROVE CapsRespected
    OBVIOUS
<1>1. PICK h \in Hosts : TRUE
    BY LimitsAssumption
<1>2. Effective(h) \in Budgets /\ Effective(h) \in BudgetLimits
    BY LimitsAssumption DEF Budgets, Effective
<1>3. \A limit \in Limit : Within(0, limit)
    BY DEF Limit, Within
<1>4. /\ Within(0, Effective(h).hourly_max) /\ Within(0, Effective(h).daily_max)
      /\ Within(0, Effective(h).total_max)
    BY <1>2, <1>3 DEF BudgetLimits
<1>5. ledger = EmptyLedger
    BY DEF Init, CapInit
<1>6. QED
    BY <1>2, <1>4, <1>5 DEF EmptyLedger, CapsRespected

(* In no hour, on no day and over no lifetime of the client do its requests *)
(* together charge more than a configured budget allows (client.rs:287),    *)
(* whatever the clock does.                                                 *)
THEOREM ClientCaps ==
    ASSUME 0 \in Amounts
    PROVE  Spec => []CapsRespected
<1>1. CapTypeOK /\ CapsRespected /\ [CapNext]_capVars => CapsRespected'
    <2> SUFFICES ASSUME CapTypeOK, CapsRespected, [CapNext]_capVars PROVE CapsRespected'
        OBVIOUS
    <2>1. ASSUME NEW a \in Amounts, NEW h \in Hosts, Spend(a, h) PROVE CapsRespected'
        BY <2>1, SpendKeepsCaps
    <2>2. CASE UNCHANGED ledger
        BY <2>2 DEF CapsRespected
    <2>3. QED
        BY <2>1, <2>2 DEF CapNext, SetClock, capVars
<1>2. IInv /\ [Next]_vars => [CapNext]_capVars
    BY StepOfCap
<1>3. IInv => CapTypeOK
    BY DEF IInv, CapInv
<1>4. QED
    BY <1>1, <1>2, <1>3, InitCaps, ClientInvariant, PTL DEF Spec

LEMMA StepOfStore ==
    ASSUME IInv, [Next]_vars
    PROVE  [Store!StoreNext]_cached
<1>1. ASSUME NEW t \in Tasks, TaskStep(t)
      PROVE  [Store!StoreNext]_cached
    <2>1. CASE Discard(t) \/ DiscardPaid(t)
        <3>1. url[t] \in Urls
            BY <2>1 DEF Discard, DiscardPaid, IInv, TaskInv, TaskOK
        <3>2. Store!StoreRemove(url[t]) \/ UNCHANGED cached
            BY <2>1 DEF Discard, DiscardPaid
        <3>3. QED
            BY <3>1, <3>2 DEF Store!StoreNext
    <2>2. CASE Put(t)
        <3>1. url[t] \in Urls /\ held[t] \in Challenges
            BY <2>2 DEF Put, IInv, TaskInv, TaskOK, WithChallenge
        <3>2. Store!StorePut(url[t], held[t]) \/ UNCHANGED cached
            BY <2>2 DEF Put
        <3>3. QED
            BY <3>1, <3>2 DEF Store!StoreNext
    <2>3. CASE ~(Discard(t) \/ DiscardPaid(t) \/ Put(t))
        BY <1>1, <2>3 DEF TaskStep, Lookup, TryCached, Request, Charge, Pay, PayReturns, Retry
    <2>4. QED
        BY <2>1, <2>2, <2>3
<1>2. ASSUME NEW u \in Urls, Expire(u)
      PROVE  Store!StoreNext
    <2>1. {u} \in SUBSET Urls /\ Store!StoreForget({u})
        BY <1>2 DEF Expire
    <2>2. QED
        BY <2>1 DEF Store!StoreNext
<1>3. CASE Environment
    BY <1>2, <1>3 DEF Environment, Settle, FailPayment, Revoke, ClockMoves
<1>4. ASSUME NEW t \in Tasks, Cancel(t) \/ \E u \in Urls : Start(t, u)
      PROVE  UNCHANGED cached
    BY <1>4 DEF Cancel, Start
<1>5. CASE UNCHANGED vars
    BY <1>5 DEF vars
<1>6. QED
    BY <1>1, <1>3, <1>4, <1>5 DEF Next

(* The client uses the store as the port lets it: it puts a token for the   *)
(* URL of the request that paid for it and removes that of its own URL, and *)
(* relies on nothing else (port.rs, TokenStore).                            *)
THEOREM ClientDrivesStore == Spec => Store!StoreSpec
<1>1. Init => Store!StoreInit
    BY DEF Init
<1>2. IInv /\ [Next]_vars => [Store!StoreNext]_cached
    BY StepOfStore
<1>3. QED
    BY <1>1, <1>2, ClientInvariant, PTL DEF Spec, Store!StoreSpec

-----------------------------------------------------------------------------
(* How far a request is from its end.  RequestsEnd needs fairness and stays *)
(* with TLC; that no request goes round in circles does not.                *)

Left == [lookup |-> 10, try_cached |-> 9, discard |-> 8, request |-> 7, charge |-> 6,
         pay |-> 5, paying |-> 4, put |-> 3, retry |-> 2, discard_paid |-> 1, idle |-> 0]

\* A request that is under way stays where it is or gets nearer to its end.
RequestsGoOn ==
    \A t \in Tasks : pc[t] # "idle" => pc'[t] = pc[t] \/ Left[pc'[t]] < Left[pc[t]]

LEMMA TaskGoesOn ==
    ASSUME IInv, NEW t \in Tasks, TaskStep(t) \/ Cancel(t)
    PROVE  /\ \A s \in Tasks \ {t} : pc'[s] = pc[s]
           /\ pc[t] # "idle" /\ Left[pc'[t]] < Left[pc[t]]
<1> USE DEF IInv, TaskTypes, Goto, Hold, Finish
<1>1. CASE Lookup(t) \/ TryCached(t)
    BY <1>1 DEF Lookup, TryCached, Left
<1>2. CASE Discard(t) \/ Request(t)
    BY <1>2 DEF Discard, Request, Left
<1>3. CASE Charge(t)
    BY <1>3 DEF Charge, Left
<1>4. CASE Pay(t) \/ PayReturns(t)
    BY <1>4 DEF Pay, PayReturns, Left
<1>5. CASE Put(t) \/ DiscardPaid(t)
    BY <1>5 DEF Put, DiscardPaid, Left
<1>6. CASE Retry(t)
    BY <1>6 DEF Retry, Left
<1>7. CASE Cancel(t)
    <2>1. pc[t] \in Steps /\ pc[t] # "idle" /\ pc' = [pc EXCEPT ![t] = "idle"]
        BY <1>7 DEF Cancel
    <2>2. Left[pc[t]] > 0 /\ Left["idle"] = 0
        BY <2>1 DEF Steps, Left
    <2>3. QED
        BY <2>1, <2>2
<1>8. QED
    BY <1>1, <1>2, <1>3, <1>4, <1>5, <1>6, <1>7 DEF TaskStep

(* Each step of a request brings it nearer to its end: after a 402 to the   *)
(* token it paid for it gives up rather than pay again, and a token that is *)
(* rejected is not tried twice.  So a request takes at most ten steps and   *)
(* sends one payment at most (client.rs, request).                          *)
THEOREM ClientGoesOn == Spec => [][RequestsGoOn]_vars
<1>1. ASSUME IInv, [Next]_vars
      PROVE  [RequestsGoOn]_vars
    <2>1. ASSUME NEW t \in Tasks, TaskStep(t) \/ Cancel(t) PROVE RequestsGoOn
        BY <1>1, <2>1, TaskGoesOn DEF RequestsGoOn
    <2>2. ASSUME NEW t \in Tasks, NEW u \in Urls, Start(t, u) PROVE RequestsGoOn
        BY <1>1, <2>2 DEF Start, RequestsGoOn, IInv, TaskTypes
    <2>3. CASE Environment
        BY <2>3 DEF Environment, Settle, FailPayment, Revoke, Expire, ClockMoves, taskVars,
                    RequestsGoOn
    <2>4. QED
        BY <1>1, <2>1, <2>2, <2>3 DEF Next
<1>2. QED
    BY <1>1, ClientInvariant, PTL DEF Spec

\* The only step that may have to wait is the one for the end of a payment.
WaitsForItsPayment ==
    \A t \in Tasks : pc[t] = "paying" => payment[held[t]] \in {"in_flight", "settled", "failed"}

LEMMA StepWaits ==
    ASSUME IInv, WaitsForItsPayment, [Next]_vars
    PROVE  WaitsForItsPayment'
<1> USE DEF IInv, TaskTypes
<1>1. ASSUME NEW t \in Tasks, TaskStep(t) \/ Cancel(t), NEW s \in Tasks, pc'[s] = "paying"
      PROVE  payment'[held'[s]] \in {"in_flight", "settled", "failed"}
    <2>1. CASE Pay(t) /\ s = t
        <3>1. pc[t] = "pay" /\ held[t] \in Challenges
            BY <2>1 DEF Pay, TaskInv, TaskOK, WithChallenge
        <3>2. payment' = [payment EXCEPT ![held[t]] = "in_flight"] /\ held' = held
            BY <1>1, <2>1 DEF Pay, Goto, Finish
        <3>3. QED
            BY <2>1, <3>1, <3>2 DEF ChallengeInv
    <2>2. CASE Pay(t) /\ s # t
        <3>1. pc[s] = "paying" /\ pc[t] = "pay" /\ held'[s] = held[s]
            BY <1>1, <2>2 DEF Pay, Goto, Finish
        <3>2. held[s] # held[t] /\ held[s] \in Challenges
            BY <2>2, <3>1 DEF DistinctInv, TaskInv, TaskOK, WithChallenge
        <3>3. payment'[held[s]] = payment[held[s]]
            BY <2>2, <3>2 DEF Pay, ChallengeInv
        <3>4. QED
            BY <3>1, <3>3 DEF WaitsForItsPayment
    <2>3. CASE ~Pay(t)
        <3>1. payment' = payment
            BY <1>1, <2>3 DEF TaskStep, Lookup, TryCached, Discard, Request, Charge, PayReturns,
                              Put, Retry, DiscardPaid, Cancel
        <3>2. ~(s = t)
            BY <1>1, <2>3 DEF TaskStep, Lookup, TryCached, Discard, Request, Charge, PayReturns,
                              Put, Retry, DiscardPaid, Cancel, Goto, Hold, Finish
        <3>3. pc'[s] = pc[s] /\ held'[s] = held[s]
            BY <1>1, <3>2 DEF TaskStep, Lookup, TryCached, Discard, Request, Charge, Pay,
                              PayReturns, Put, Retry, DiscardPaid, Cancel, Goto, Hold, Finish
        <3>4. QED
            BY <1>1, <3>1, <3>3 DEF WaitsForItsPayment
    <2>4. QED
        BY <2>1, <2>2, <2>3
<1>2. ASSUME NEW t \in Tasks, NEW u \in Urls, Start(t, u)
      PROVE  WaitsForItsPayment'
    BY <1>2 DEF Start, WaitsForItsPayment
<1>3. CASE Environment
    <2>1. UNCHANGED <<pc, held>>
        BY <1>3 DEF Environment, Settle, FailPayment, Revoke, Expire, ClockMoves, taskVars
    <2>2. \A c \in Challenges : payment'[c] = payment[c] \/ payment'[c] \in {"settled", "failed"}
        BY <1>3 DEF Environment, Settle, FailPayment, Revoke, Expire, ClockMoves, ChallengeInv
    <2>3. \A t \in Tasks : pc[t] = "paying" => held[t] \in Challenges
        BY DEF TaskInv, TaskOK, WithChallenge
    <2>4. QED
        BY <2>1, <2>2, <2>3 DEF WaitsForItsPayment
<1>4. CASE UNCHANGED vars
    BY <1>4 DEF vars, taskVars, WaitsForItsPayment
<1>5. QED
    BY <1>1, <1>2, <1>3, <1>4 DEF Next, WaitsForItsPayment

(* A request that waits for the Lightning node has a payment of its own out *)
(* there, so what keeps it waiting is that payment alone: no lock, no other *)
(* request and no receipt (client.rs, request).                             *)
THEOREM ClientWaits == Spec => []WaitsForItsPayment
<1>1. Init => WaitsForItsPayment
    BY DEF Init, WaitsForItsPayment
<1>2. QED
    BY <1>1, StepWaits, ClientInvariant, PTL DEF Spec
=============================================================================
