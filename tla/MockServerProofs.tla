--------------------------- MODULE MockServerProofs ---------------------------
(***************************************************************************)
(* The mock server, for any number of requests and wallets, any prices that *)
(* fit into an invoice and any balance: requests are served exactly when   *)
(* they were paid, the wallet loses what clients read in the invoices, and *)
(* the two locks serve everyone in turn.                                   *)
(***************************************************************************)
EXTENDS MockServer, SequenceTheorems, TLAPS

\* In millisatoshis every price is a u64.
PricesFit == \A path \in DOMAIN Price : Price[path] * MsatPerSat < Modulus

Prices == {Price[path] : path \in DOMAIN Price}

-----------------------------------------------------------------------------
(* The price as an invoice and back.                                       *)

\* A whole number of satoshis is not changed by rounding it up.
LEMMA CeilOfMultiple ==
    ASSUME NEW a \in Nat, NEW m \in Nat \ {0}
    PROVE  (a * m + m - 1) \div m = a
<1> DEFINE n == a * m + m - 1
<1>1. n \in Nat /\ a * m <= n /\ n < (a + 1) * m
    BY SMT
<1>2. n \div m = a
    BY <1>1, SMT
<1>3. QED
    BY <1>2

\* The units of an invoice, in millisatoshis.
LEMMA UnitFacts ==
    /\ MsatPerNano \in Nat \ {0}
    /\ Kilo = 10 * MsatPerNano
    /\ SatsPerMicro = MsatPerNano
    /\ MsatPerSat = 10 * MsatPerNano
    BY Bolt11Assumption, SMT DEF MsatPerNano, PicosPerMsat, SatsPerMicro, MsatPerSat

\* An amount in whole units, whose product is amount satoshis, is charged as
\* that many satoshis.
LEMMA WholeCharge ==
    ASSUME NEW amount \in Nat, NEW units \in Nat, NEW factor \in Nat \ {0},
           amount * MsatPerSat < Modulus,
           units * factor = amount * MsatPerSat,
           NEW number, number.units = units
    PROVE  Charge(MulWhole(number, factor)) = amount
<1>1. MsatPerSat \in Nat \ {0} /\ Modulus \in Nat
    BY UnitFacts, Bolt11Assumption
<1>2. units <= units * factor
    BY SMT
<1>3. units < Modulus
    BY <1>1, <1>2
<1>4. MulWhole(number, factor) = Positive(amount * MsatPerSat)
    <2>1. ~(units >= Modulus)
        BY <1>1, <1>3
    <2>2. units * factor < Modulus
        OBVIOUS
    <2>3. QED
        BY <2>1, <2>2, Zenon DEF MulWhole
<1>5. CASE amount * MsatPerSat = 0
    <2>1. amount = 0
        BY <1>1, <1>5, SMT
    <2>2. QED
        BY <1>4, <1>5, <2>1 DEF Positive, Invalid, Charge
<1>6. CASE amount * MsatPerSat # 0
    <2>1. Charge(MulWhole(number, factor)) = Satoshis(amount * MsatPerSat)
        BY <1>4, <1>6 DEF Positive, Some, Charge
    <2>2. QED
        BY <1>1, <2>1, CeilOfMultiple DEF Satoshis
<1>7. QED
    BY <1>5, <1>6

\* Whatever unit the server writes a price in, the decoder reads the price.
LEMMA PriceReadBack ==
    ASSUME NEW amount \in Nat, amount * MsatPerSat < Modulus
    PROVE  Charge(Decode(InvoiceOf(amount))) = amount
<1> DEFINE number(units) == [kind |-> "integer", units |-> units, scale |-> 1]
<1>1. ASSUME NEW units \in Nat
      PROVE  /\ Decode(Invoice(units, "u")) = MulWhole(number(units), Kilo * MsatPerNano)
             /\ Decode(Invoice(units, "n")) = MulWhole(number(units), MsatPerNano)
    BY DEF Decode, Invoice, ParseAmount, MsatPer
<1>2. CASE amount >= SatsPerMicro /\ amount % SatsPerMicro = 0
    <2> DEFINE units == amount \div SatsPerMicro
    <2>1. units \in Nat /\ amount = SatsPerMicro * units
        BY <1>2, UnitFacts, SMT
    <2>2. units * (Kilo * MsatPerNano) = amount * MsatPerSat
        BY <2>1, UnitFacts, SMT
    <2>3. Kilo * MsatPerNano \in Nat \ {0}
        BY UnitFacts, SMT
    <2> HIDE DEF units
    <2>4. Charge(MulWhole(number(units), Kilo * MsatPerNano)) = amount
        BY <2>1, <2>2, <2>3, WholeCharge
    <2>5. InvoiceOf(amount) = Invoice(units, "u")
        BY <1>2 DEF InvoiceOf, units
    <2>6. QED
        BY <1>1, <2>1, <2>4, <2>5
<1>3. CASE ~(amount >= SatsPerMicro /\ amount % SatsPerMicro = 0)
    <2>1. (amount * 10) * MsatPerNano = amount * MsatPerSat /\ amount * 10 \in Nat
        BY UnitFacts, SMT
    <2>2. Charge(MulWhole(number(amount * 10), MsatPerNano)) = amount
        BY <2>1, UnitFacts, WholeCharge
    <2>3. InvoiceOf(amount) = Invoice(amount * 10, "n")
        BY <1>3 DEF InvoiceOf
    <2>4. QED
        BY <1>1, <2>1, <2>2, <2>3
<1>4. QED
    BY <1>2, <1>3

-----------------------------------------------------------------------------
(* The invariant.                                                          *)

Issuable == [id : Nat \ {0}, amount : Prices]
Args     == [macaroon : Nat, preimage : Nat, amount : Nat]
Steps    == {"idle", "insert", "validate", "find", "deduct", "set", "get"}

\* A task that writes, looks up or pays a challenge has its price, and one that
\* shows a preimage has it from a payment or made it up.
CallOK(step, call, known) ==
    /\ step \in {"insert", "find", "deduct"} => call.amount \in Prices
    /\ step = "insert" => call.macaroon # 0
    /\ step = "validate" => call.preimage \in known \cup {0}

TasksInv ==
    /\ pc \in [Tasks -> Steps] /\ arg \in [Tasks -> Args]
    /\ \A task \in Tasks : CallOK(pc[task], arg[task], revealed)

RegistryInv ==
    /\ issued \in Nat /\ challenges \subseteq Issuable /\ offered \subseteq Issuable
    /\ revealed \subseteq Nat

WalletInv == balance \in Nat /\ spent \in Nat /\ funded \in Nat /\ balance + spent = funded

IInv == TasksInv /\ RegistryInv /\ WalletInv

LEMMA PricesAreNat == Prices \subseteq Nat
    BY MockAssumption DEF Prices

LEMMA InitIInv == Init => IInv
<1> SUFFICES ASSUME Init PROVE IInv
    OBVIOUS
<1>1. TasksInv
    BY DEF Init, TasksInv, CallOK, Args, NoArg, Steps
<1>2. RegistryInv
    BY DEF Init, RegistryInv
<1>3. WalletInv
    BY MockAssumption DEF Init, WalletInv
<1>4. QED
    BY <1>1, <1>2, <1>3 DEF IInv

-----------------------------------------------------------------------------
(* A task that goes on with a call that is fit for its step leaves the     *)
(* others as they are.                                                     *)

LEMMA StepNames ==
    {"idle", "insert", "validate", "find", "deduct", "set", "get"} \subseteq Steps
    BY DEF Steps

LEMMA WaitKeepsTasks ==
    ASSUME TasksInv, NEW task \in Tasks, NEW step \in Steps, NEW call \in Args,
           Wait(task, step, call), CallOK(step, call, revealed'), revealed \subseteq revealed'
    PROVE  TasksInv'
<1>1. pc' \in [Tasks -> Steps] /\ arg' \in [Tasks -> Args]
    BY DEF TasksInv, Wait
<1>2. ASSUME NEW other \in Tasks
      PROVE  CallOK(pc'[other], arg'[other], revealed')
    <2>1. CASE other = task
        BY <2>1 DEF TasksInv, Wait
    <2>2. CASE other # task
        <3>1. pc'[other] = pc[other] /\ arg'[other] = arg[other]
            BY <2>2 DEF TasksInv, Wait
        <3>2. CallOK(pc[other], arg[other], revealed)
            BY DEF TasksInv
        <3>3. QED
            BY <3>1, <3>2 DEF CallOK
    <2>3. QED
        BY <2>1, <2>2
<1>3. QED
    BY <1>1, <1>2 DEF TasksInv

LEMMA FinishKeepsTasks ==
    ASSUME TasksInv, NEW task \in Tasks, Finish(task), revealed \subseteq revealed'
    PROVE  TasksInv'
<1>1. NoArg \in Args /\ CallOK("idle", NoArg, revealed')
    BY DEF NoArg, Args, CallOK
<1>2. Wait(task, "idle", NoArg)
    BY DEF Finish
<1>3. "idle" \in Steps
    BY DEF Steps
<1>4. QED
    BY <1>1, <1>2, <1>3, WaitKeepsTasks, Zenon

-----------------------------------------------------------------------------
(* One lemma per group of actions.                                         *)

LEMMA ServeStep ==
    ASSUME IInv, NEW task \in Handlers, Serve(task)
    PROVE  IInv'
<1> USE DEF IInv
<1>1. task \in Tasks
    BY DEF Tasks
<1>2. CASE \E path \in Paths : NotFound(task, path)
    <2>1. UNCHANGED <<pc, arg, registry, wallet>>
        BY <1>2 DEF NotFound
    <2>2. QED
        BY <2>1 DEF registry, wallet, TasksInv, RegistryInv, WalletInv
<1>3. ASSUME NEW path \in Paths, Unauthorized(task, path)
      PROVE  IInv'
    <2> DEFINE call == [NoArg EXCEPT !.macaroon = issued + 1, !.amount = Price[path]]
    <2>1. /\ issued' = issued + 1
          /\ UNCHANGED <<challenges, offered, revealed, balance, funded, spent>>
          /\ Wait(task, "insert", call) /\ path \in DOMAIN Price
        BY <1>3 DEF Unauthorized, wallet
    <2>2. call \in Args /\ call.amount \in Prices /\ call.macaroon # 0
        <3>1. Price[path] \in Prices /\ Price[path] \in Nat
            BY <2>1, MockAssumption DEF Prices
        <3>2. issued + 1 \in Nat \ {0}
            BY DEF RegistryInv
        <3>3. QED
            BY <3>1, <3>2 DEF Args, NoArg
    <2> HIDE DEF call
    <2>3. CallOK("insert", call, revealed')
        BY <2>2 DEF CallOK
    <2>4. TasksInv'
        BY <1>1, <2>1, <2>2, <2>3, WaitKeepsTasks, StepNames
    <2>5. RegistryInv' /\ WalletInv'
        BY <2>1 DEF RegistryInv, WalletInv
    <2>6. QED
        BY <2>4, <2>5
<1>4. ASSUME NEW path \in Paths, NEW challenge \in offered, NEW preimage \in revealed \cup {0},
             Authorized(task, path, challenge.id, preimage)
      PROVE  IInv'
    <2> DEFINE call == [NoArg EXCEPT !.macaroon = challenge.id, !.preimage = preimage]
    <2>1. UNCHANGED <<registry, wallet>> /\ Wait(task, "validate", call)
        BY <1>4 DEF Authorized
    <2>2. call \in Args /\ call.preimage = preimage
        <3>1. challenge.id \in Nat /\ preimage \in Nat
            BY DEF RegistryInv, Issuable
        <3>2. QED
            BY <3>1 DEF Args, NoArg
    <2> HIDE DEF call
    <2>3. revealed' = revealed
        BY <2>1 DEF wallet
    <2>4. CallOK("validate", call, revealed')
        BY <2>2, <2>3 DEF CallOK
    <2>5. TasksInv'
        BY <1>1, <2>1, <2>2, <2>3, <2>4, WaitKeepsTasks, StepNames
    <2>6. RegistryInv' /\ WalletInv'
        BY <2>1 DEF RegistryInv, WalletInv, registry, wallet
    <2>7. QED
        BY <2>5, <2>6
<1>5. QED
    BY <1>2, <1>3, <1>4 DEF Serve

LEMMA CallStep ==
    ASSUME IInv, NEW task \in Callers, Call(task)
    PROVE  IInv'
<1> USE DEF IInv
<1>1. task \in Tasks
    BY DEF Tasks
<1>2. UNCHANGED <<registry, wallet>>
    BY DEF Call, PayInvoice, SetBalance, GetBalance
<1>3. revealed' = revealed /\ RegistryInv' /\ WalletInv'
    BY <1>2 DEF RegistryInv, WalletInv, registry, wallet
<1>4. ASSUME NEW challenge \in offered, PayInvoice(task, challenge)
      PROVE  TasksInv'
    <2> DEFINE call == [NoArg EXCEPT !.macaroon = challenge.id, !.amount = challenge.amount]
    <2>1. Wait(task, "find", call)
        BY <1>4 DEF PayInvoice
    <2>2. call \in Args /\ call.amount \in Prices
        BY PricesAreNat DEF Args, NoArg, RegistryInv, Issuable
    <2> HIDE DEF call
    <2>3. CallOK("find", call, revealed')
        BY <2>2 DEF CallOK
    <2>4. QED
        BY <1>1, <1>3, <2>1, <2>2, <2>3, WaitKeepsTasks, StepNames
<1>5. ASSUME NEW sats \in Balances, SetBalance(task, sats)
      PROVE  TasksInv'
    <2> DEFINE call == [NoArg EXCEPT !.amount = sats]
    <2>1. Wait(task, "set", call)
        BY <1>5 DEF SetBalance
    <2>2. call \in Args
        BY MockAssumption DEF Args, NoArg
    <2> HIDE DEF call
    <2>3. CallOK("set", call, revealed')
        BY DEF CallOK
    <2>4. QED
        BY <1>1, <1>3, <2>1, <2>2, <2>3, WaitKeepsTasks, StepNames
<1>6. CASE GetBalance(task)
    <2>1. Wait(task, "get", NoArg)
        BY <1>6 DEF GetBalance
    <2>2. NoArg \in Args /\ CallOK("get", NoArg, revealed')
        BY DEF NoArg, Args, CallOK
    <2>3. QED
        BY <1>1, <1>3, <2>1, <2>2, WaitKeepsTasks, StepNames
<1>7. TasksInv'
    BY <1>4, <1>5, <1>6 DEF Call
<1>8. QED
    BY <1>3, <1>7

\* What a task takes out of the registry is what it waited with.
LEMMA InsertStep ==
    ASSUME IInv, NEW task \in Tasks, Insert(task)
    PROVE  IInv'
<1> USE DEF IInv
<1> DEFINE challenge == [id |-> arg[task].macaroon, amount |-> arg[task].amount]
<1>1. /\ challenges' = challenges \cup {challenge} /\ offered' = offered \cup {challenge}
      /\ UNCHANGED <<issued, wallet>> /\ Finish(task) /\ pc[task] = "insert"
    BY DEF Insert, Reply
<1>2. CallOK("insert", arg[task], revealed) /\ arg[task] \in Args
    BY <1>1 DEF TasksInv
<1>3. challenge \in Issuable
    BY <1>2 DEF CallOK, Args, Issuable
<1> HIDE DEF challenge
<1>4. TasksInv'
    BY <1>1, FinishKeepsTasks DEF wallet
<1>5. RegistryInv' /\ WalletInv'
    BY <1>1, <1>3 DEF RegistryInv, WalletInv, wallet
<1>6. QED
    BY <1>4, <1>5

LEMMA FindStep ==
    ASSUME IInv, NEW task \in Tasks, Find(task)
    PROVE  IInv'
<1> USE DEF IInv
<1>1. UNCHANGED <<registry, wallet>> /\ pc[task] = "find"
    BY DEF Find
<1>2. revealed' = revealed /\ RegistryInv' /\ WalletInv'
    BY <1>1 DEF RegistryInv, WalletInv, registry, wallet
<1>3. CASE Known(task)
    <2>1. Wait(task, "deduct", arg[task])
        BY <1>3 DEF Find
    <2>2. arg[task] \in Args /\ CallOK("find", arg[task], revealed)
        BY <1>1 DEF TasksInv
    <2>3. CallOK("deduct", arg[task], revealed')
        BY <2>2 DEF CallOK
    <2>4. QED
        BY <1>2, <2>1, <2>2, <2>3, WaitKeepsTasks, StepNames
<1>4. CASE ~Known(task)
    <2>1. Finish(task)
        BY <1>4 DEF Find
    <2>2. QED
        BY <1>2, <2>1, FinishKeepsTasks
<1>5. QED
    BY <1>3, <1>4

\* A payment takes from the wallet what the client reads in its invoice.
LEMMA DeductStep ==
    ASSUME IInv, PricesFit, NEW task \in Tasks, Deduct(task)
    PROVE  IInv'
<1> USE DEF IInv
<1> DEFINE amount == arg[task].amount
<1>1. /\ pc[task] = "deduct" /\ Finish(task) /\ UNCHANGED registry
      /\ IF balance < amount THEN UNCHANGED wallet
         ELSE /\ balance' = balance - amount
              /\ revealed' = revealed \cup {arg[task].macaroon}
              /\ spent' = spent + Charge(Decode(InvoiceOf(amount)))
              /\ UNCHANGED funded
    BY DEF Deduct
<1>2. CallOK("deduct", arg[task], revealed) /\ arg[task] \in Args
    BY <1>1 DEF TasksInv
<1>3. amount \in Nat /\ amount * MsatPerSat < Modulus
    <2>1. amount \in Prices
        BY <1>2 DEF CallOK
    <2>2. PICK path \in DOMAIN Price : amount = Price[path]
        BY <2>1 DEF Prices
    <2>3. QED
        BY <2>2, MockAssumption DEF PricesFit
<1>4. arg[task].macaroon \in Nat
    BY <1>2 DEF Args
<1>5. Charge(Decode(InvoiceOf(amount))) = amount
    BY <1>3, PriceReadBack
<1> HIDE DEF amount
<1>6. CASE balance < amount
    <2>1. UNCHANGED <<registry, wallet>>
        BY <1>1, <1>6
    <2>2. TasksInv'
        BY <1>1, <2>1, FinishKeepsTasks DEF wallet
    <2>3. RegistryInv' /\ WalletInv'
        BY <2>1 DEF RegistryInv, WalletInv, registry, wallet
    <2>4. QED
        BY <2>2, <2>3
<1>7. CASE ~(balance < amount)
    <2>1. /\ balance' = balance - amount /\ spent' = spent + amount /\ funded' = funded
          /\ revealed' = revealed \cup {arg[task].macaroon}
        BY <1>1, <1>5, <1>7
    <2>2. TasksInv'
        BY <1>1, <2>1, FinishKeepsTasks
    <2>3. RegistryInv'
        BY <1>1, <1>4, <2>1 DEF RegistryInv, registry
    <2>4. WalletInv'
        BY <1>3, <1>7, <2>1 DEF WalletInv
    <2>5. QED
        BY <2>2, <2>3, <2>4
<1>8. QED
    BY <1>6, <1>7

LEMMA StoreStep ==
    ASSUME IInv, NEW task \in Tasks, Store(task)
    PROVE  IInv'
<1> USE DEF IInv
<1>1. /\ balance' = arg[task].amount /\ funded' = arg[task].amount /\ spent' = 0
      /\ UNCHANGED <<registry, revealed>> /\ Finish(task)
    BY DEF Store
<1>2. arg[task].amount \in Nat
    BY DEF TasksInv, Args
<1>3. TasksInv'
    BY <1>1, FinishKeepsTasks
<1>4. RegistryInv' /\ WalletInv'
    BY <1>1, <1>2 DEF RegistryInv, WalletInv, registry
<1>5. QED
    BY <1>3, <1>4

\* Steps that only end a call.
LEMMA EndStep ==
    ASSUME IInv, NEW task \in Tasks, Validate(task) \/ Load(task) \/ Cancel(task)
    PROVE  IInv'
<1> USE DEF IInv
<1>1. UNCHANGED <<registry, wallet>> /\ Finish(task)
    BY DEF Validate, Load, Cancel, Reply
<1>2. TasksInv'
    BY <1>1, FinishKeepsTasks DEF wallet
<1>3. RegistryInv' /\ WalletInv'
    BY <1>1 DEF RegistryInv, WalletInv, registry, wallet
<1>4. QED
    BY <1>2, <1>3

LEMMA RestartStep ==
    ASSUME IInv, Restart
    PROVE  IInv'
<1>1. TasksInv'
    BY DEF Restart, TasksInv, CallOK, Args, NoArg, Steps
<1>2. RegistryInv'
    BY DEF Restart, IInv, RegistryInv
<1>3. WalletInv'
    BY MockAssumption DEF Restart, WalletInv
<1>4. QED
    BY <1>1, <1>2, <1>3 DEF IInv

LEMMA StepIInv ==
    ASSUME IInv, PricesFit, [Next]_vars
    PROVE  IInv'
<1>1. ASSUME NEW task \in Handlers, Serve(task) PROVE IInv'
    BY <1>1, ServeStep
<1>2. ASSUME NEW task \in Callers, Call(task) PROVE IInv'
    BY <1>2, CallStep
<1>3. ASSUME NEW task \in Tasks, Step(task) PROVE IInv'
    BY <1>3, InsertStep, FindStep, DeductStep, StoreStep, EndStep DEF Step
<1>4. ASSUME NEW task \in Tasks, Cancel(task) PROVE IInv'
    BY <1>4, EndStep
<1>5. CASE Restart
    BY <1>5, RestartStep
<1>6. CASE UNCHANGED vars
    BY <1>6 DEF vars, registry, wallet, IInv, TasksInv, RegistryInv, WalletInv
<1>7. QED
    BY <1>1, <1>2, <1>3, <1>4, <1>5, <1>6 DEF Next

-----------------------------------------------------------------------------
(* Answers.                                                                *)

LEMMA ServedStep ==
    ASSUME IInv, ServedIffPaid, [Next]_vars
    PROVE  ServedIffPaid'
<1>1. CASE answer'.status \notin {200, 401}
    BY <1>1 DEF ServedIffPaid
<1>2. ASSUME NEW task \in Tasks, Validate(task)
      PROVE  ServedIffPaid'
    <2> DEFINE known == \E challenge \in challenges :
                   ValidateAuth(challenge, arg[task].macaroon, arg[task].preimage)
    <2>1. /\ answer'.status = IF known THEN 200 ELSE 401
          /\ answer'.macaroon = arg[task].macaroon /\ answer'.preimage = arg[task].preimage
          /\ pc[task] = "validate" /\ UNCHANGED <<registry, wallet>>
        BY <1>2 DEF Validate, Reply
    <2>2. arg[task].preimage \in revealed \cup {0}
        BY <2>1 DEF IInv, TasksInv, CallOK
    <2>3. ASSUME NEW challenge \in challenges PROVE challenge.id # 0
        BY DEF IInv, RegistryInv, Issuable
    <2>4. known <=> /\ arg[task].macaroon = arg[task].preimage
                    /\ arg[task].preimage \in revealed
                    /\ \E challenge \in challenges : challenge.id = arg[task].macaroon
        BY <2>2, <2>3 DEF ValidateAuth, ValidatePreimage
    <2> HIDE DEF known
    <2>5. challenges' = challenges /\ revealed' = revealed
        BY <2>1 DEF registry, wallet
    <2>6. answer'.status = 200 <=> known
        BY <2>1
    <2>7. answer'.status = 401 <=> ~known
        BY <2>1
    <2>8. known <=> /\ answer'.macaroon = answer'.preimage
                    /\ answer'.preimage \in revealed'
                    /\ \E challenge \in challenges' : challenge.id = answer'.macaroon
        BY <2>1, <2>4, <2>5
    <2>9. QED
        BY <2>6, <2>7, <2>8 DEF ServedIffPaid
<1>3. ASSUME NEW task \in Tasks, Insert(task)
      PROVE  answer'.status = 402
    BY <1>3 DEF Insert, Reply
<1>4. ASSUME NEW task \in Tasks, NEW path \in Paths, NotFound(task, path)
      PROVE  answer'.status = 404
    BY <1>4 DEF NotFound, NoAnswer
<1>5. CASE answer' = NoAnswer
    BY <1>1, <1>5 DEF NoAnswer
<1>6. CASE UNCHANGED vars
    BY <1>6 DEF vars, registry, wallet, ServedIffPaid
<1>7. ASSUME NEW task \in Tasks, Step(task)
      PROVE  ServedIffPaid'
    BY <1>1, <1>2, <1>3, <1>5, <1>7 DEF Step, Find, Deduct, Store, Load
<1>8. ASSUME NEW task \in Handlers, Serve(task)
      PROVE  ServedIffPaid'
    <2>1. CASE \E path \in Paths : NotFound(task, path)
        BY <1>1, <1>4, <2>1 DEF Tasks
    <2>2. ASSUME NEW path \in Paths, Unauthorized(task, path)
          PROVE  answer' = NoAnswer
        BY <2>2 DEF Unauthorized
    <2>3. ASSUME NEW path \in Paths, NEW macaroon, NEW preimage,
                 Authorized(task, path, macaroon, preimage)
          PROVE  answer' = NoAnswer
        BY <2>3 DEF Authorized
    <2>4. QED
        BY <1>5, <1>8, <2>1, <2>2, <2>3 DEF Serve
<1>9. ASSUME NEW task \in Callers, Call(task)
      PROVE  ServedIffPaid'
    BY <1>5, <1>9 DEF Call, PayInvoice, SetBalance, GetBalance
<1>10. CASE Restart
    BY <1>5, <1>10 DEF Restart
<1>11. ASSUME NEW task \in Tasks, Cancel(task)
       PROVE  ServedIffPaid'
    BY <1>5, <1>11 DEF Cancel
<1>12. QED
    BY <1>6, <1>7, <1>8, <1>9, <1>10, <1>11 DEF Next

-----------------------------------------------------------------------------
(* The queues of the locks.                                                *)

Entries == [task : Tasks, mode : {"read", "write"}]

\* No task waits twice for a lock.
Queue(lock) ==
    /\ lock \in Seq(Entries)
    /\ \A i, j \in DOMAIN lock : lock[i].task = lock[j].task => i = j

InQueue(lock, task) == \E i \in DOMAIN lock : lock[i].task = task

LEMMA QueueOfTasks ==
    ASSUME NEW lock, Queue(lock)
    PROVE  \A i \in DOMAIN lock : lock[i].task \in Tasks
<1>1. \A i \in DOMAIN lock : lock[i] \in Entries
    BY DEF Queue
<1>2. QED
    BY <1>1 DEF Entries

\* What Acquire and Release do, by positions.
Joined(lock, new, task, mode) ==
    /\ Len(new) = Len(lock) + 1
    /\ \A i \in 1..Len(lock) : new[i] = lock[i]
    /\ new[Len(lock) + 1] = [task |-> task, mode |-> mode]

Left(lock, new, place) ==
    /\ Len(new) = Len(lock) - 1
    /\ \A i \in 1..(place - 1) : new[i] = lock[i]
    /\ \A i \in place..(Len(lock) - 1) : new[i] = lock[i + 1]

LEMMA AcquireJoins ==
    ASSUME NEW lock, Queue(lock), NEW task \in Tasks, NEW mode \in {"read", "write"}
    PROVE  /\ Acquire(lock, task, mode) \in Seq(Entries)
           /\ Joined(lock, Acquire(lock, task, mode), task, mode)
<1>1. [task |-> task, mode |-> mode] \in Entries
    BY DEF Entries
<1>2. QED
    BY <1>1 DEF Acquire, Joined, Queue

LEMMA ReleaseLeaves ==
    ASSUME NEW lock, Queue(lock), NEW task
    PROVE  /\ Release(lock, task) \in Seq(Entries)
           /\ ~InQueue(lock, task) => Release(lock, task) = lock
           /\ \A place \in DOMAIN lock : lock[place].task = task
                 => Left(lock, Release(lock, task), place)
<1>1. lock \in Seq(Entries) /\ Len(lock) \in Nat /\ DOMAIN lock = 1..Len(lock)
    BY DEF Queue
<1>2. CASE ~InQueue(lock, task)
    <2>1. Release(lock, task) = lock
        BY <1>1, <1>2 DEF Release, RemoveFirstMatch, InQueue
    <2>2. QED
        BY <1>1, <1>2, <2>1 DEF InQueue
<1>3. ASSUME NEW place \in DOMAIN lock, lock[place].task = task
      PROVE  Release(lock, task) \in Seq(Entries) /\ Left(lock, Release(lock, task), place)
    <2>1. {i \in 1..Len(lock) : lock[i].task = task} = {place}
        BY <1>1, <1>3 DEF Queue
    <2>2. SelectInSeq(lock, LAMBDA entry : entry.task = task) = place
        BY <1>1, <2>1 DEF SelectInSeq, Min
    <2>3. Release(lock, task) = RemoveAt(lock, place)
        BY <1>1, <1>3, <2>2 DEF Release, RemoveFirstMatch
    <2>4. place \in 1..Len(lock)
        BY <1>1
    <2> DEFINE front == SubSeq(lock, 1, place - 1)
               back == SubSeq(lock, place + 1, Len(lock))
    <2>5. /\ front \in Seq(Entries) /\ Len(front) = place - 1
          /\ \A i \in 1..(place - 1) : front[i] = lock[i]
        BY <1>1, <2>4
    <2>6. /\ back \in Seq(Entries) /\ Len(back) = Len(lock) - place
          /\ \A i \in 1..(Len(lock) - place) : back[i] = lock[i + place]
        BY <1>1, <2>4
    <2>7. Release(lock, task) = front \o back
        BY <2>3 DEF RemoveAt
    <2> HIDE DEF front, back
    <2>8. front \o back \in Seq(Entries) /\ Left(lock, front \o back, place)
        <3>1. front \o back \in Seq(Entries) /\ Len(front \o back) = Len(lock) - 1
            <4>1. Len(front \o back) = Len(front) + Len(back) /\ front \o back \in Seq(Entries)
                BY <2>5, <2>6, ConcatProperties
            <4>2. QED
                BY <1>1, <2>4, <2>5, <2>6, <4>1
        <3>2. ASSUME NEW i \in 1..(place - 1) PROVE (front \o back)[i] = lock[i]
            BY <1>1, <2>4, <2>5, <2>6, <3>2, Z3
        <3>3. ASSUME NEW i \in place..(Len(lock) - 1) PROVE (front \o back)[i] = lock[i + 1]
            <4>1. i \in 1..(Len(front) + Len(back)) /\ ~(i <= Len(front))
                BY <1>1, <2>4, <2>5, <2>6, <3>3
            <4>2. (front \o back)[i] = back[i - Len(front)]
                <5>1. (front \o back)[i] = IF i <= Len(front) THEN front[i]
                                                               ELSE back[i - Len(front)]
                    BY <2>5, <2>6, <4>1, ConcatProperties
                <5>2. QED
                    BY <4>1, <5>1
            <4>3. back[i - Len(front)] = lock[i + 1]
                BY <1>1, <2>4, <2>5, <2>6, <3>3
            <4>4. QED
                BY <4>2, <4>3
        <3>4. QED
            BY <3>1, <3>2, <3>3 DEF Left
    <2>9. QED
        BY <2>7, <2>8
<1>4. QED
    BY <1>2, <1>3 DEF InQueue

\* A task that is in a queue keeps its turn when another one joins or leaves.
Ahead(lock, task) ==
    {other \in Tasks : \E i, j \in DOMAIN lock :
        i < j /\ lock[i].task = other /\ lock[j].task = task}

LEMMA JoinedQueue ==
    ASSUME NEW lock, Queue(lock), NEW task \in Tasks, NEW mode \in {"read", "write"},
           ~InQueue(lock, task)
    PROVE  /\ Queue(Acquire(lock, task, mode))
           /\ \A other \in Tasks : Holds(lock, other) => Holds(Acquire(lock, task, mode), other)
           /\ \A other \in Tasks : InQueue(lock, other) =>
                 /\ InQueue(Acquire(lock, task, mode), other)
                 /\ Ahead(Acquire(lock, task, mode), other) \subseteq Ahead(lock, other)
<1> DEFINE new == Acquire(lock, task, mode)
<1>1. lock \in Seq(Entries) /\ new \in Seq(Entries) /\ Joined(lock, new, task, mode)
    BY AcquireJoins DEF Queue
<1> HIDE DEF new
<1>2. /\ Len(lock) \in Nat /\ DOMAIN lock = 1..Len(lock)
      /\ Len(new) = Len(lock) + 1 /\ DOMAIN new = 1..(Len(lock) + 1)
      /\ \A i \in 1..Len(lock) : new[i] = lock[i] /\ lock[i].task # task
      /\ new[Len(lock) + 1].task = task
    BY <1>1 DEF Joined, InQueue
<1>3. \A i, j \in 1..Len(lock) : lock[i].task = lock[j].task => i = j
    BY <1>2 DEF Queue
<1>4. Queue(new)
    <2>1. ASSUME NEW i \in 1..(Len(lock) + 1), NEW j \in 1..(Len(lock) + 1),
                 new[i].task = new[j].task
          PROVE  i = j
        BY <1>2, <1>3, <2>1
    <2>2. QED
        BY <1>1, <1>2, <2>1 DEF Queue
<1>5. ASSUME NEW other \in Tasks, Holds(lock, other)
      PROVE  Holds(new, other)
    <2>1. PICK i \in 1..Len(lock) : /\ lock[i].task = other
                                    /\ i = 1 \/ \A j \in 1..i : lock[j].mode = "read"
        BY <1>2, <1>5 DEF Holds
    <2>2. i \in DOMAIN new /\ \A j \in 1..i : new[j] = lock[j]
        BY <1>2
    <2>3. new[i].task = other /\ (i = 1 \/ \A j \in 1..i : new[j].mode = "read")
        BY <2>1, <2>2
    <2>4. QED
        BY <2>2, <2>3 DEF Holds
<1>6. ASSUME NEW other \in Tasks, InQueue(lock, other)
      PROVE  InQueue(new, other) /\ Ahead(new, other) \subseteq Ahead(lock, other)
    <2>1. PICK k \in 1..Len(lock) : lock[k].task = other
        BY <1>2, <1>6 DEF InQueue
    <2>2. k \in DOMAIN new /\ new[k].task = other
        BY <1>2, <2>1
    <2>3. ASSUME NEW i \in DOMAIN new, NEW j \in DOMAIN new, i < j, new[j].task = other
          PROVE  i \in DOMAIN lock /\ j \in DOMAIN lock /\ lock[i] = new[i] /\ lock[j] = new[j]
        BY <1>2, <2>1, <2>3
    <2>4. Ahead(new, other) \subseteq Ahead(lock, other)
        BY <2>3 DEF Ahead
    <2>5. QED
        BY <2>2, <2>4 DEF InQueue
<1>7. QED
    BY <1>4, <1>5, <1>6 DEF new

LEMMA LeftQueue ==
    ASSUME NEW lock, Queue(lock), NEW task \in Tasks
    PROVE  /\ Queue(Release(lock, task)) /\ ~InQueue(Release(lock, task), task)
           /\ \A i \in DOMAIN Release(lock, task) : \E j \in DOMAIN lock :
                 Release(lock, task)[i] = lock[j]
           /\ \A other \in Tasks \ {task} :
                 Holds(lock, other) => Holds(Release(lock, task), other)
           /\ \A other \in Tasks \ {task} : InQueue(lock, other) =>
                 /\ InQueue(Release(lock, task), other)
                 /\ Ahead(Release(lock, task), other) \subseteq Ahead(lock, other)
<1> DEFINE new == Release(lock, task)
<1>1. lock \in Seq(Entries) /\ new \in Seq(Entries)
    BY ReleaseLeaves DEF Queue
<1>2. CASE ~InQueue(lock, task)
    <2>1. new = lock
        BY <1>2, ReleaseLeaves
    <2>2. QED
        BY <1>2, <2>1
<1>3. ASSUME NEW place \in DOMAIN lock, lock[place].task = task
      PROVE  /\ Queue(new) /\ ~InQueue(new, task)
             /\ \A i \in DOMAIN new : \E j \in DOMAIN lock : new[i] = lock[j]
             /\ \A other \in Tasks \ {task} : Holds(lock, other) => Holds(new, other)
             /\ \A other \in Tasks \ {task} : InQueue(lock, other) =>
                   InQueue(new, other) /\ Ahead(new, other) \subseteq Ahead(lock, other)
    <2>1. Left(lock, new, place)
        BY <1>3, ReleaseLeaves
    <2> HIDE DEF new
    <2> DEFINE was(i) == IF i < place THEN i ELSE i + 1
               now(j) == IF j < place THEN j ELSE j - 1
    <2>2. /\ Len(lock) \in Nat /\ DOMAIN lock = 1..Len(lock) /\ place \in 1..Len(lock)
          /\ Len(new) = Len(lock) - 1 /\ DOMAIN new = 1..(Len(lock) - 1)
        BY <1>1, <2>1 DEF Left
    <2>3. \A i \in DOMAIN new : was(i) \in DOMAIN lock \ {place} /\ new[i] = lock[was(i)]
        BY <2>1, <2>2 DEF Left
    <2>4. ASSUME NEW j \in DOMAIN lock \ {place}
          PROVE  now(j) \in DOMAIN new /\ new[now(j)] = lock[j]
        <3>1. CASE j < place
            <4>1. j \in DOMAIN new /\ j \in 1..(place - 1)
                BY <2>2, <3>1
            <4>2. new[j] = lock[j]
                BY <2>1, <4>1 DEF Left
            <4>3. QED
                BY <3>1, <4>1, <4>2
        <3>2. CASE ~(j < place)
            <4>1. j - 1 \in DOMAIN new /\ j - 1 \in place..(Len(lock) - 1) /\ (j - 1) + 1 = j
                BY <2>2, <3>2
            <4>2. new[j - 1] = lock[(j - 1) + 1]
                BY <2>1, <4>1 DEF Left
            <4>3. QED
                BY <3>2, <4>1, <4>2
        <3>3. QED
            BY <3>1, <3>2
    <2>5. \A i, j \in DOMAIN new : (was(i) = was(j) => i = j) /\ (i < j => was(i) < was(j))
        BY <2>2
    <2>6. \A j \in DOMAIN lock : lock[j].task = task => j = place
        BY <1>3 DEF Queue
    <2>7. \A j \in DOMAIN lock \ {place} : \A i \in 1..now(j) : i \in DOMAIN new /\ was(i) \in 1..j
        BY <2>2
    <2>8. \A j \in DOMAIN lock \ {place} : j = 1 => now(j) = 1
        BY <2>2
    <2> HIDE DEF was, now
    <2>9. Queue(new)
        BY <1>1, <2>3, <2>5 DEF Queue
    <2>10. ~InQueue(new, task)
        BY <2>3, <2>6 DEF InQueue
    <2>11. \A i \in DOMAIN new : \E j \in DOMAIN lock : new[i] = lock[j]
        BY <2>3
    <2>12. ASSUME NEW other \in Tasks \ {task}, Holds(lock, other)
           PROVE  Holds(new, other)
        <3>1. PICK j \in DOMAIN lock : /\ lock[j].task = other
                                       /\ j = 1 \/ \A k \in 1..j : lock[k].mode = "read"
            BY <2>12 DEF Holds
        <3>2. j \in DOMAIN lock \ {place}
            BY <1>3, <3>1
        <3>3. now(j) \in DOMAIN new /\ new[now(j)].task = other
            BY <2>4, <3>1, <3>2
        <3>4. ASSUME NEW i \in 1..now(j), j # 1 PROVE new[i].mode = "read"
            BY <2>3, <2>7, <3>1, <3>2, <3>4
        <3>5. QED
            BY <2>8, <3>2, <3>3, <3>4 DEF Holds
    <2>13. ASSUME NEW other \in Tasks \ {task}, InQueue(lock, other)
           PROVE  InQueue(new, other) /\ Ahead(new, other) \subseteq Ahead(lock, other)
        <3>1. InQueue(new, other)
            BY <1>3, <2>4, <2>13 DEF InQueue
        <3>2. Ahead(new, other) \subseteq Ahead(lock, other)
            BY <2>3, <2>5 DEF Ahead
        <3>3. QED
            BY <3>1, <3>2
    <2>14. QED
        BY <2>9, <2>10, <2>11, <2>12, <2>13
<1>4. QED
    BY <1>2, <1>3 DEF InQueue

-----------------------------------------------------------------------------
LEMMA MockInvariant ==
    ASSUME PricesFit
    PROVE  Spec => []IInv
<1>1. Init => IInv
    BY InitIInv
<1>2. IInv /\ [Next]_vars => IInv'
    BY StepIInv
<1>3. QED
    BY <1>1, <1>2, PTL DEF Spec

\* What clients read in the invoices they paid is, to the satoshi, what the
\* wallet lost (challenge.rs:60, backend.rs:57), as long as prices fit into a
\* u64 of millisatoshis.
THEOREM MockWallet ==
    ASSUME PricesFit
    PROVE  Spec => []WalletBalances
<1>1. IInv => WalletBalances
    BY DEF IInv, WalletInv, WalletBalances
<1>2. QED
    BY <1>1, MockInvariant, PTL

\* A request is served exactly with the macaroon and the preimage of a
\* challenge that this server knows and a wallet has paid (server.rs:177).
THEOREM MockServed ==
    ASSUME PricesFit
    PROVE  Spec => []ServedIffPaid
<1>1. Init => ServedIffPaid
    BY DEF Init, NoAnswer, ServedIffPaid
<1>2. IInv /\ ServedIffPaid /\ [Next]_vars => ServedIffPaid'
    BY ServedStep
<1>3. QED
    BY <1>1, <1>2, MockInvariant, PTL DEF Spec

-----------------------------------------------------------------------------
(* Who waits for which lock, and to do what.                               *)

\* The queue of a lock has, once each, the tasks whose step is one of those
\* that write or read behind it, and in the mode of that step.
Waits(lock, step, writers, readers) ==
    /\ Queue(lock)
    /\ \A i \in DOMAIN lock :
          step[lock[i].task] \in (IF lock[i].mode = "write" THEN writers ELSE readers)
    /\ \A task \in Tasks : step[task] \in writers \cup readers => InQueue(lock, task)

RegistryWaits(lock, step) == Waits(lock, step, {"insert"}, {"validate", "find", "deduct"})
WalletWaits(lock, step)   == Waits(lock, step, {"deduct", "set"}, {"get"})

\* A payment that waits for the wallet has the registry locked.
PayersHold(lock, step) ==
    \A task \in Tasks : step[task] = "deduct" => Holds(lock, task)

LocksInv ==
    /\ pc \in [Tasks -> Steps]
    /\ RegistryWaits(challengesLock, pc) /\ WalletWaits(balanceLock, pc)
    /\ PayersHold(challengesLock, pc)

\* A task that changes its step neither to nor from one behind the lock.
LEMMA StayKeeps ==
    ASSUME NEW lock, NEW old \in [Tasks -> Steps], NEW task \in Tasks, NEW step \in Steps,
           NEW writers, NEW readers, Waits(lock, old, writers, readers),
           old[task] \in writers <=> step \in writers,
           old[task] \in readers <=> step \in readers
    PROVE  Waits(lock, [old EXCEPT ![task] = step], writers, readers)
<1> DEFINE new == [old EXCEPT ![task] = step]
<1>1. \A other \in Tasks : /\ new[other] \in writers <=> old[other] \in writers
                           /\ new[other] \in readers <=> old[other] \in readers
    OBVIOUS
<1> HIDE DEF new
<1>2. \A i \in DOMAIN lock : lock[i].task \in Tasks
    BY QueueOfTasks DEF Waits
<1>3. QED
    BY <1>1, <1>2 DEF Waits, new

LEMMA JoinKeeps ==
    ASSUME NEW lock, NEW old \in [Tasks -> Steps], NEW task \in Tasks, NEW step \in Steps,
           NEW writers, NEW readers, Waits(lock, old, writers, readers),
           old[task] \notin writers \cup readers,
           NEW mode \in {"read", "write"},
           step \in (IF mode = "write" THEN writers ELSE readers)
    PROVE  Waits(Acquire(lock, task, mode), [old EXCEPT ![task] = step], writers, readers)
<1> DEFINE new == [old EXCEPT ![task] = step]
           next == Acquire(lock, task, mode)
<1>1. new[task] = step /\ \A other \in Tasks \ {task} : new[other] = old[other]
    OBVIOUS
<1>2. /\ Queue(lock)
      /\ \A i \in DOMAIN lock :
            old[lock[i].task] \in (IF lock[i].mode = "write" THEN writers ELSE readers)
      /\ \A other \in Tasks : old[other] \in writers \cup readers => InQueue(lock, other)
    BY DEF Waits
<1>3. ~InQueue(lock, task)
    BY <1>2 DEF InQueue
<1>4. Queue(next) /\ \A other \in Tasks : InQueue(lock, other) => InQueue(next, other)
    BY <1>2, <1>3, JoinedQueue
<1>5. Joined(lock, next, task, mode) /\ lock \in Seq(Entries) /\ next \in Seq(Entries)
    BY <1>2, AcquireJoins DEF Queue
<1> HIDE DEF new, next
<1>6. /\ Len(lock) \in Nat /\ DOMAIN lock = 1..Len(lock) /\ DOMAIN next = 1..(Len(lock) + 1)
      /\ \A i \in 1..Len(lock) : next[i] = lock[i] /\ lock[i].task \in Tasks \ {task}
      /\ next[Len(lock) + 1] = [task |-> task, mode |-> mode]
    <2>1. \A i \in DOMAIN lock : lock[i].task \in Tasks
        BY <1>2, QueueOfTasks
    <2>2. QED
        BY <1>3, <1>5, <2>1 DEF Joined, InQueue
<1>7. ASSUME NEW i \in DOMAIN next
      PROVE  new[next[i].task] \in (IF next[i].mode = "write" THEN writers ELSE readers)
    <2>1. CASE i \in 1..Len(lock)
        BY <1>1, <1>2, <1>6, <2>1
    <2>2. CASE i = Len(lock) + 1
        BY <1>1, <1>6, <2>2
    <2>3. QED
        BY <1>6, <2>1, <2>2
<1>8. InQueue(next, task)
    BY <1>6 DEF InQueue
<1>9. ASSUME NEW other \in Tasks, new[other] \in writers \cup readers
      PROVE  InQueue(next, other)
    BY <1>1, <1>2, <1>4, <1>8, <1>9
<1>10. QED
    BY <1>4, <1>7, <1>9 DEF Waits, new, next

LEMMA LeaveKeeps ==
    ASSUME NEW lock, NEW old \in [Tasks -> Steps], NEW task \in Tasks, NEW step \in Steps,
           NEW writers, NEW readers, Waits(lock, old, writers, readers),
           step \notin writers \cup readers
    PROVE  Waits(Release(lock, task), [old EXCEPT ![task] = step], writers, readers)
<1> DEFINE new == [old EXCEPT ![task] = step]
           next == Release(lock, task)
<1>1. new[task] = step /\ \A other \in Tasks \ {task} : new[other] = old[other]
    OBVIOUS
<1>2. /\ Queue(lock)
      /\ \A i \in DOMAIN lock :
            old[lock[i].task] \in (IF lock[i].mode = "write" THEN writers ELSE readers)
      /\ \A other \in Tasks : old[other] \in writers \cup readers => InQueue(lock, other)
    BY DEF Waits
<1>3. /\ Queue(next) /\ ~InQueue(next, task)
      /\ \A i \in DOMAIN next : \E j \in DOMAIN lock : next[i] = lock[j]
      /\ \A other \in Tasks \ {task} : InQueue(lock, other) => InQueue(next, other)
    BY <1>2, LeftQueue
<1>4. \A i \in DOMAIN next : next[i].task \in Tasks
    BY <1>3, QueueOfTasks
<1> HIDE DEF new, next
<1>5. ASSUME NEW i \in DOMAIN next
      PROVE  new[next[i].task] \in (IF next[i].mode = "write" THEN writers ELSE readers)
    <2>1. next[i].task \in Tasks \ {task}
        BY <1>3, <1>4 DEF InQueue
    <2>2. PICK j \in DOMAIN lock : next[i] = lock[j]
        BY <1>3
    <2>3. QED
        BY <1>1, <1>2, <2>1, <2>2
<1>6. ASSUME NEW other \in Tasks, new[other] \in writers \cup readers
      PROVE  InQueue(next, other)
    BY <1>1, <1>2, <1>3, <1>6
<1>7. QED
    BY <1>3, <1>5, <1>6 DEF Waits, new, next

-----------------------------------------------------------------------------
(* What tasks do to the locks.                                             *)

LEMMA StartsBehindRegistry ==
    ASSUME LocksInv, NEW task \in Tasks, pc[task] = "idle",
           NEW step \in {"insert", "validate", "find"}, NEW mode \in {"read", "write"},
           mode = "write" <=> step = "insert",
           pc' = [pc EXCEPT ![task] = step],
           challengesLock' = Acquire(challengesLock, task, mode), UNCHANGED balanceLock
    PROVE  LocksInv'
<1>1. step \in Steps
    BY DEF Steps
<1>2. RegistryWaits(challengesLock', pc')
    BY <1>1, JoinKeeps DEF LocksInv, RegistryWaits
<1>3. WalletWaits(balanceLock', pc')
    BY <1>1, StayKeeps DEF LocksInv, WalletWaits
<1>4. ~InQueue(challengesLock, task) /\ Queue(challengesLock)
    BY DEF LocksInv, RegistryWaits, Waits, InQueue
<1>5. ASSUME NEW other \in Tasks, pc'[other] = "deduct"
      PROVE  Holds(challengesLock', other)
    <2>1. pc[other] = "deduct"
        BY <1>5 DEF LocksInv
    <2>2. Holds(challengesLock, other)
        BY <2>1 DEF LocksInv, PayersHold
    <2>3. QED
        BY <1>4, <2>2, JoinedQueue
<1>6. QED
    BY <1>1, <1>2, <1>3, <1>5 DEF LocksInv, PayersHold

LEMMA StartsBehindWallet ==
    ASSUME LocksInv, NEW task \in Tasks, pc[task] = "idle",
           NEW step \in {"set", "get"}, NEW mode \in {"read", "write"},
           mode = "write" <=> step = "set",
           pc' = [pc EXCEPT ![task] = step],
           balanceLock' = Acquire(balanceLock, task, mode), UNCHANGED challengesLock
    PROVE  LocksInv'
<1>1. step \in Steps
    BY DEF Steps
<1>2. RegistryWaits(challengesLock', pc')
    BY <1>1, StayKeeps DEF LocksInv, RegistryWaits
<1>3. WalletWaits(balanceLock', pc')
    BY <1>1, JoinKeeps DEF LocksInv, WalletWaits
<1>4. PayersHold(challengesLock', pc')
    BY DEF LocksInv, PayersHold
<1>5. QED
    BY <1>1, <1>2, <1>3, <1>4 DEF LocksInv

\* A payment that found its challenge.
LEMMA FoundKeeps ==
    ASSUME LocksInv, NEW task \in Tasks, pc[task] = "find", Holds(challengesLock, task),
           pc' = [pc EXCEPT ![task] = "deduct"],
           balanceLock' = Acquire(balanceLock, task, "write"), UNCHANGED challengesLock
    PROVE  LocksInv'
<1>1. "deduct" \in Steps
    BY DEF Steps
<1>2. RegistryWaits(challengesLock', pc')
    BY <1>1, StayKeeps DEF LocksInv, RegistryWaits
<1>3. WalletWaits(balanceLock', pc')
    BY <1>1, JoinKeeps DEF LocksInv, WalletWaits
<1>4. PayersHold(challengesLock', pc')
    BY DEF LocksInv, PayersHold
<1>5. QED
    BY <1>1, <1>2, <1>3, <1>4 DEF LocksInv

\* Of a lock that a task is not behind, there is nothing to release.
LEMMA NothingToRelease ==
    ASSUME LocksInv, NEW task \in Tasks
    PROVE  /\ pc[task] \notin {"insert", "validate", "find", "deduct"}
                 => Release(challengesLock, task) = challengesLock
           /\ pc[task] \notin {"deduct", "set", "get"} => Release(balanceLock, task) = balanceLock
<1>1. Queue(challengesLock) /\ Queue(balanceLock)
    BY DEF LocksInv, RegistryWaits, WalletWaits, Waits
<1>2. pc[task] \notin {"insert", "validate", "find", "deduct"} => ~InQueue(challengesLock, task)
    BY DEF LocksInv, RegistryWaits, Waits, InQueue
<1>3. pc[task] \notin {"deduct", "set", "get"} => ~InQueue(balanceLock, task)
    BY DEF LocksInv, WalletWaits, Waits, InQueue
<1>4. QED
    BY <1>1, <1>2, <1>3, ReleaseLeaves

LEMMA EndsKeeps ==
    ASSUME LocksInv, NEW task \in Tasks,
           pc' = [pc EXCEPT ![task] = "idle"],
           challengesLock' = Release(challengesLock, task),
           balanceLock' = Release(balanceLock, task)
    PROVE  LocksInv'
<1>1. "idle" \in Steps
    BY DEF Steps
<1>2. RegistryWaits(challengesLock', pc')
    BY <1>1, LeaveKeeps DEF LocksInv, RegistryWaits
<1>3. WalletWaits(balanceLock', pc')
    BY <1>1, LeaveKeeps DEF LocksInv, WalletWaits
<1>4. Queue(challengesLock)
    BY DEF LocksInv, RegistryWaits, Waits
<1>5. ASSUME NEW other \in Tasks, pc'[other] = "deduct"
      PROVE  Holds(challengesLock', other)
    <2>1. other # task /\ pc[other] = "deduct"
        BY <1>5 DEF LocksInv
    <2>2. Holds(challengesLock, other)
        BY <2>1 DEF LocksInv, PayersHold
    <2>3. QED
        BY <1>4, <2>1, <2>2, LeftQueue
<1>6. QED
    BY <1>1, <1>2, <1>3, <1>5 DEF LocksInv, PayersHold

\* The four things that a step does to the locks.
Joins(task) ==
    \/ \E step \in {"insert", "validate", "find"}, mode \in {"read", "write"} :
          /\ pc[task] = "idle" /\ (mode = "write" <=> step = "insert")
          /\ pc' = [pc EXCEPT ![task] = step]
          /\ challengesLock' = Acquire(challengesLock, task, mode) /\ UNCHANGED balanceLock
    \/ \E step \in {"set", "get"}, mode \in {"read", "write"} :
          /\ pc[task] = "idle" /\ (mode = "write" <=> step = "set")
          /\ pc' = [pc EXCEPT ![task] = step]
          /\ balanceLock' = Acquire(balanceLock, task, mode) /\ UNCHANGED challengesLock

Found(task) ==
    /\ pc[task] = "find" /\ Holds(challengesLock, task)
    /\ pc' = [pc EXCEPT ![task] = "deduct"]
    /\ balanceLock' = Acquire(balanceLock, task, "write") /\ UNCHANGED challengesLock

Ends(task) ==
    /\ pc' = [pc EXCEPT ![task] = "idle"]
    /\ challengesLock' = Release(challengesLock, task)
    /\ balanceLock' = Release(balanceLock, task)

Empties ==
    pc' = [task \in Tasks |-> "idle"] /\ challengesLock' = <<>> /\ balanceLock' = <<>>

LEMMA ServeJoins ==
    ASSUME NEW task, Serve(task)
    PROVE  Joins(task) \/ UNCHANGED <<pc, locks>>
<1>1. CASE \E path \in Paths : NotFound(task, path)
    BY <1>1 DEF NotFound
<1>2. ASSUME NEW path \in Paths, Unauthorized(task, path)
      PROVE  Joins(task)
    BY <1>2 DEF Unauthorized, Wait, Joins
<1>3. ASSUME NEW path, NEW macaroon, NEW preimage, Authorized(task, path, macaroon, preimage)
      PROVE  Joins(task)
    BY <1>3 DEF Authorized, Wait, Joins
<1>4. QED
    BY <1>1, <1>2, <1>3 DEF Serve

LEMMA CallJoins ==
    ASSUME NEW task, Call(task)
    PROVE  Joins(task)
<1>1. ASSUME NEW challenge, PayInvoice(task, challenge)
      PROVE  Joins(task)
    BY <1>1 DEF PayInvoice, Wait, Joins
<1>2. ASSUME NEW sats, SetBalance(task, sats)
      PROVE  Joins(task)
    BY <1>2 DEF SetBalance, Wait, Joins
<1>3. CASE GetBalance(task)
    BY <1>3 DEF GetBalance, Wait, Joins
<1>4. QED
    BY <1>1, <1>2, <1>3 DEF Call

\* A step of a task ends its call or takes the payment to the wallet.
LEMMA StepEnds ==
    ASSUME LocksInv, NEW task \in Tasks, Step(task)
    PROVE  Found(task) \/ Ends(task)
<1>1. CASE Insert(task) \/ Validate(task)
    BY <1>1, NothingToRelease DEF Insert, Validate, Reply, Finish, Wait, Ends
<1>2. CASE Find(task)
    <2>1. CASE Known(task)
        BY <1>2, <2>1 DEF Find, Wait, Found
    <2>2. CASE ~Known(task)
        BY <1>2, <2>2, NothingToRelease DEF Find, Finish, Wait, Ends
    <2>3. QED
        BY <2>1, <2>2
<1>3. CASE Deduct(task)
    BY <1>3 DEF Deduct, Finish, Wait, Ends
<1>4. CASE Store(task) \/ Load(task)
    BY <1>4, NothingToRelease DEF Store, Load, Finish, Wait, Ends
<1>5. QED
    BY <1>1, <1>2, <1>3, <1>4 DEF Step

\* Every step of the server is one of those.
LEMMA LockSteps ==
    ASSUME LocksInv, [Next]_vars
    PROVE  \/ \E task \in Tasks : Joins(task) \/ Found(task) \/ Ends(task)
           \/ Empties
           \/ UNCHANGED <<pc, locks>>
<1>1. ASSUME NEW task \in Tasks, Cancel(task)
      PROVE  Ends(task)
    BY <1>1 DEF Cancel, Finish, Wait, Ends
<1>2. CASE Restart
    BY <1>2 DEF Restart, Empties
<1>3. CASE UNCHANGED vars
    BY <1>3 DEF vars
<1>4. QED
    BY <1>1, <1>2, <1>3, ServeJoins, CallJoins, StepEnds DEF Next, Tasks

LEMMA InitLocksInv == Init => LocksInv
<1> SUFFICES ASSUME Init PROVE LocksInv
    OBVIOUS
<1>1. pc \in [Tasks -> Steps] /\ \A task \in Tasks : pc[task] = "idle"
    BY DEF Init, Steps
<1>2. Queue(<<>>)
    BY DEF Queue
<1>3. QED
    BY <1>1, <1>2 DEF Init, LocksInv, RegistryWaits, WalletWaits, Waits, PayersHold

LEMMA StepLocksInv ==
    ASSUME LocksInv, [Next]_vars
    PROVE  LocksInv'
<1>1. ASSUME NEW task \in Tasks, Joins(task)
      PROVE  LocksInv'
    BY <1>1, StartsBehindRegistry, StartsBehindWallet DEF Joins
<1>2. ASSUME NEW task \in Tasks, Found(task)
      PROVE  LocksInv'
    BY <1>2, FoundKeeps DEF Found
<1>3. ASSUME NEW task \in Tasks, Ends(task)
      PROVE  LocksInv'
    BY <1>3, EndsKeeps DEF Ends
<1>4. CASE Empties
    <2>1. pc' \in [Tasks -> Steps] /\ \A task \in Tasks : pc'[task] = "idle"
        BY <1>4 DEF Empties, Steps
    <2>2. Queue(<<>>)
        BY DEF Queue
    <2>3. QED
        BY <1>4, <2>1, <2>2
           DEF Empties, LocksInv, RegistryWaits, WalletWaits, Waits, PayersHold
<1>5. CASE UNCHANGED <<pc, locks>>
    BY <1>5 DEF locks, LocksInv
<1>6. QED
    BY <1>1, <1>2, <1>3, <1>4, <1>5, LockSteps

LEMMA LocksInvariant == Spec => []LocksInv
<1>1. Init => LocksInv
    BY InitLocksInv
<1>2. LocksInv /\ [Next]_vars => LocksInv'
    BY StepLocksInv
<1>3. QED
    BY <1>1, <1>2, PTL DEF Spec

-----------------------------------------------------------------------------
(* What this means for calls.  CallsReturn itself needs the fairness of    *)
(* the runtime and is left to TLC; these are the facts it rests on.        *)

\* The guard of Step: a task that has the lock that its step is behind.
CanStep(task) ==
    \/ pc[task] \in {"insert", "validate", "find"} /\ Holds(challengesLock, task)
    \/ pc[task] \in {"deduct", "set", "get"} /\ Holds(balanceLock, task)

\* As long as a call is under way, a task can go on: the front of the wallet's
\* queue, or else that of the registry's.
NoDeadlock ==
    (\E task \in Tasks : pc[task] # "idle") =>
        \E task \in Tasks :
            /\ CanStep(task)
            /\ IF balanceLock # <<>> THEN task = balanceLock[1].task
                                     ELSE task = challengesLock[1].task

\* Nobody shares a lock with one that writes.
WritersAlone ==
    \A writer, other \in Tasks : writer # other =>
        /\ pc[writer] = "insert" /\ Holds(challengesLock, writer)
              => ~Holds(challengesLock, other)
        /\ pc[writer] \in {"deduct", "set"} /\ Holds(balanceLock, writer)
              => ~Holds(balanceLock, other)

\* Nobody who waits for a lock is overtaken, by readers or by anyone.
InTurn(lock, next) ==
    \A task \in Tasks :
        InQueue(lock, task) /\ InQueue(next, task) => Ahead(next, task) \subseteq Ahead(lock, task)

NoOvertaking == InTurn(challengesLock, challengesLock') /\ InTurn(balanceLock, balanceLock')

LEMMA FrontHolds ==
    ASSUME NEW lock, Queue(lock), lock # <<>>
    PROVE  lock[1].task \in Tasks /\ Holds(lock, lock[1].task) /\ 1 \in DOMAIN lock
<1>1. 1 \in DOMAIN lock
    BY DEF Queue
<1>2. QED
    BY <1>1, QueueOfTasks DEF Holds

LEMMA InvNoDeadlock ==
    ASSUME LocksInv
    PROVE  NoDeadlock
<1> SUFFICES ASSUME NEW waiting \in Tasks, pc[waiting] # "idle"
             PROVE  \E task \in Tasks :
                        /\ CanStep(task)
                        /\ IF balanceLock # <<>> THEN task = balanceLock[1].task
                                                 ELSE task = challengesLock[1].task
    BY DEF NoDeadlock
<1>1. Queue(challengesLock) /\ Queue(balanceLock)
    BY DEF LocksInv, RegistryWaits, WalletWaits, Waits
<1>2. CASE balanceLock # <<>>
    <2> DEFINE front == balanceLock[1].task
    <2>1. front \in Tasks /\ Holds(balanceLock, front) /\ 1 \in DOMAIN balanceLock
        BY <1>1, <1>2, FrontHolds
    <2>2. pc[front] \in {"deduct", "set", "get"}
        BY <2>1 DEF LocksInv, WalletWaits, Waits
    <2>3. QED
        BY <1>2, <2>1, <2>2 DEF CanStep
<1>3. CASE balanceLock = <<>>
    <2> DEFINE front == challengesLock[1].task
    <2>1. \A task \in Tasks : pc[task] \notin {"deduct", "set", "get"}
        BY <1>3 DEF LocksInv, WalletWaits, Waits, InQueue
    <2>2. pc[waiting] \in {"insert", "validate", "find"}
        BY <2>1 DEF LocksInv, Steps
    <2>3. challengesLock # <<>>
        BY <2>2 DEF LocksInv, RegistryWaits, Waits, InQueue
    <2>4. front \in Tasks /\ Holds(challengesLock, front) /\ 1 \in DOMAIN challengesLock
        BY <1>1, <2>3, FrontHolds
    <2>5. pc[front] \in {"insert", "validate", "find", "deduct"}
        BY <2>4 DEF LocksInv, RegistryWaits, Waits
    <2>6. pc[front] \in {"insert", "validate", "find"}
        BY <2>1, <2>4, <2>5
    <2>7. QED
        BY <1>3, <2>4, <2>6 DEF CanStep
<1>4. QED
    BY <1>2, <1>3

\* A writer that holds a lock is the front, and the front is in nobody's way
\* that may share it.
LEMMA WriterAlone ==
    ASSUME NEW lock, NEW step, NEW writers, NEW readers, Waits(lock, step, writers, readers),
           writers \cap readers = {},
           NEW writer \in Tasks, NEW other \in Tasks, writer # other,
           step[writer] \in writers, Holds(lock, writer)
    PROVE  ~Holds(lock, other)
<1>1. /\ DOMAIN lock = 1..Len(lock) /\ Len(lock) \in Nat
      /\ \A i \in DOMAIN lock : lock[i].mode \in {"read", "write"}
    <2>1. \A i \in DOMAIN lock : lock[i] \in Entries
        BY DEF Waits, Queue
    <2>2. QED
        BY <2>1 DEF Waits, Queue, Entries
<1>2. PICK i \in DOMAIN lock : /\ lock[i].task = writer
                               /\ i = 1 \/ \A k \in 1..i : lock[k].mode = "read"
    BY DEF Holds
<1>3. lock[i].mode = "write"
    BY <1>1, <1>2 DEF Waits
<1>4. i = 1
    BY <1>1, <1>2, <1>3
<1>5. QED
    BY <1>1, <1>2, <1>3, <1>4 DEF Holds

LEMMA InvWritersAlone ==
    ASSUME LocksInv
    PROVE  WritersAlone
<1>1. RegistryWaits(challengesLock, pc) /\ WalletWaits(balanceLock, pc)
    BY DEF LocksInv
<1>2. QED
    BY <1>1, WriterAlone DEF RegistryWaits, WalletWaits, WritersAlone

LEMMA KeepsTurns ==
    ASSUME NEW lock, Queue(lock), NEW task \in Tasks
    PROVE  /\ InTurn(lock, lock)
           /\ InTurn(lock, Release(lock, task))
           /\ \A mode \in {"read", "write"} :
                 ~InQueue(lock, task) => InTurn(lock, Acquire(lock, task, mode))
<1>1. InTurn(lock, lock)
    BY DEF InTurn
<1>2. InTurn(lock, Release(lock, task))
    BY LeftQueue DEF InTurn
<1>3. QED
    BY <1>1, <1>2, JoinedQueue DEF InTurn

LEMMA StepInTurn ==
    ASSUME LocksInv, [Next]_vars
    PROVE  NoOvertaking
<1>1. Queue(challengesLock) /\ Queue(balanceLock)
    BY DEF LocksInv, RegistryWaits, WalletWaits, Waits
<1>2. ASSUME NEW task \in Tasks
      PROVE  /\ pc[task] = "idle" => ~InQueue(challengesLock, task)
             /\ pc[task] \in {"idle", "find"} => ~InQueue(balanceLock, task)
    BY DEF LocksInv, RegistryWaits, WalletWaits, Waits, InQueue
<1>3. ASSUME NEW task \in Tasks, Joins(task) \/ Found(task) \/ Ends(task)
      PROVE  NoOvertaking
    BY <1>1, <1>2, <1>3, KeepsTurns DEF Joins, Found, Ends, NoOvertaking
<1>4. CASE Empties
    BY <1>4 DEF Empties, NoOvertaking, InTurn, InQueue
<1>5. CASE UNCHANGED <<pc, locks>>
    BY <1>5 DEF locks, NoOvertaking, InTurn
<1>6. QED
    BY <1>3, <1>4, <1>5, LockSteps

\* However many calls wait, and even while a payment holds the registry and
\* waits for the wallet, one of them can go on (backend.rs:46, 57).
THEOREM MockNoDeadlock == Spec => []NoDeadlock
BY InvNoDeadlock, LocksInvariant, PTL

\* Nobody pays, looks a challenge up or reads the balance while another task
\* writes it (server.rs:201, backend.rs:57).
THEOREM MockWritersAlone == Spec => []WritersAlone
BY InvWritersAlone, LocksInvariant, PTL

\* A payment keeps the registry locked while it waits for the wallet, as its
\* guard lives over that await (backend.rs:46): with MockWritersAlone, no
\* challenge is added meanwhile.
THEOREM MockPayersHold == Spec => []PayersHold(challengesLock, pc)
<1>1. LocksInv => PayersHold(challengesLock, pc)
    BY DEF LocksInv
<1>2. QED
    BY <1>1, LocksInvariant, PTL

\* Whoever waits for a lock is never overtaken: each step leaves it with the
\* tasks that were ahead of it, or fewer.
THEOREM MockNoOvertaking == Spec => [][NoOvertaking]_vars
<1>1. LocksInv /\ [Next]_vars => [NoOvertaking]_vars
    BY StepInTurn
<1>2. QED
    BY <1>1, LocksInvariant, PTL DEF Spec
=============================================================================
