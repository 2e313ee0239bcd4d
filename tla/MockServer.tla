----------------------------- MODULE MockServer -----------------------------
(***************************************************************************)
(* The server and the wallet that clients are tested against: a registry of *)
(* issued challenges, which requests and payments share behind a lock, and *)
(* the balance of the wallet behind another.                               *)
(*                                                                         *)
(* Tasks are the futures that run there.  A task takes a step whenever it  *)
(* holds the lock that it waits for; what it does between two awaits is    *)
(* one step.                                                               *)
(***************************************************************************)
EXTENDS Bolt11, SequencesExt

CONSTANTS
    Handlers,        \* futures of the server that handle requests
    Callers,         \* futures that call the wallet
    Paths,           \* what clients ask for
    Price,           \* satoshis, of the paths that are configured
    DefaultBalance,
    Balances,        \* what a test sets the balance to
    MaxChallenges    \* bound on the challenges ever issued

ASSUME MockAssumption ==
    /\ DOMAIN Price \subseteq Paths
    /\ \A path \in DOMAIN Price : Price[path] \in Nat
    /\ DefaultBalance \in Nat /\ Balances \subseteq Nat

\* In nanobitcoins each price fits into a u64: where InvoiceOf multiplies, nothing
\* overflows.
ASSUME PriceAssumption == \A path \in DOMAIN Price : Price[path] * 10 < Modulus

VARIABLES
    pc,              \* of each task: "idle", or the step that it waits for
    arg,             \* what its call was given
    challengesLock, balanceLock,
    challenges,      \* the registry: [id, amount]
    issued,          \* number of challenges generated, by all servers
    offered,         \* challenges that clients were sent
    revealed,        \* those whose preimage a payment returned
    balance,
    funded, spent,   \* the balance that was set, what clients were charged since
    answer           \* what the last step answered

Tasks == Handlers \cup Callers

locks    == <<challengesLock, balanceLock>>
registry == <<challenges, issued, offered>>
wallet   == <<revealed, balance, funded, spent>>
vars     == <<pc, arg, locks, registry, wallet, answer>>

NoArg    == [macaroon |-> 0, preimage |-> 0, amount |-> 0]
NoAnswer == [status |-> 0, macaroon |-> 0, preimage |-> 0]

-----------------------------------------------------------------------------
(* tokio's RwLock is fair: a queue whose front holds the lock, a writer    *)
(* alone or readers together.  Dropping a guard or a waiting future takes  *)
(* its entry out.                                                          *)

(* Mutant: readers pass the writers that wait.                             *)
AcquireReadersFirst(lock, task, mode) ==
    LET waits == {i \in DOMAIN lock : lock[i].mode = "write" /\ i > 1}
    IN  IF mode = "read" /\ waits # {}
        THEN InsertAt(lock, CHOOSE i \in waits : \A j \in waits : i <= j,
                      [task |-> task, mode |-> mode])
        ELSE Append(lock, [task |-> task, mode |-> mode])

Acquire(lock, task, mode) == Append(lock, [task |-> task, mode |-> mode])

Holds(lock, task) ==
    \E i \in DOMAIN lock :
        /\ lock[i].task = task
        /\ i = 1 \/ \A j \in 1..i : lock[j].mode = "read"

Release(lock, task) == RemoveFirstMatch(lock, LAMBDA entry : entry.task = task)

-----------------------------------------------------------------------------
(* PendingChallenge.  Whole microbitcoins are written as such, all else in *)
(* nanobitcoins; a satoshi is ten of those.                                *)

SatsPerMicro == Kilo \div 10

Invoice(units, unit) ==
    [network |-> "lnbc", separator |-> TRUE, unit |-> unit,
     number |-> [kind |-> "integer", units |-> units, scale |-> 1]]

(* Mutant: satoshis are written as nanobitcoins.                           *)
InvoiceOfSatsAsNanos(amount) ==
    IF amount >= SatsPerMicro /\ amount % SatsPerMicro = 0
    THEN Invoice(amount \div SatsPerMicro, "u")
    ELSE Invoice(amount, "n")

InvoiceOf(amount) ==
    IF amount >= SatsPerMicro /\ amount % SatsPerMicro = 0
    THEN Invoice(amount \div SatsPerMicro, "u")
    ELSE Invoice(amount * 10, "n")

(* Preimages have the numbers of their challenges; 0 is any other text.    *)
ValidatePreimage(challenge, preimage) == preimage = challenge.id

(* Mutant: the macaroon alone is looked at.                                *)
ValidateMacaroon(challenge, macaroon, preimage) == macaroon = challenge.id

ValidateAuth(challenge, macaroon, preimage) ==
    macaroon = challenge.id /\ ValidatePreimage(challenge, preimage)

-----------------------------------------------------------------------------
(* MockL402ServerBuilder::build and MockLnBackend::new.                    *)
Init ==
    /\ pc = [task \in Tasks |-> "idle"] /\ arg = [task \in Tasks |-> NoArg]
    /\ challengesLock = <<>> /\ balanceLock = <<>>
    /\ challenges = {} /\ issued = 0 /\ offered = {} /\ revealed = {}
    /\ balance = DefaultBalance /\ funded = DefaultBalance /\ spent = 0
    /\ answer = NoAnswer

(* The process ends and another one begins.  Clients keep what they know.  *)
Restart ==
    /\ pc' = [task \in Tasks |-> "idle"] /\ arg' = [task \in Tasks |-> NoArg]
    /\ challengesLock' = <<>> /\ balanceLock' = <<>>
    /\ challenges' = {}
    /\ balance' = DefaultBalance /\ funded' = DefaultBalance /\ spent' = 0
    /\ answer' = NoAnswer
    /\ UNCHANGED <<issued, offered, revealed>>

Wait(task, step, call) ==
    /\ pc' = [pc EXCEPT ![task] = step]
    /\ arg' = [arg EXCEPT ![task] = call]

Finish(task) == Wait(task, "idle", NoArg)

Reply(task, status) ==
    /\ Finish(task)
    /\ answer' = [status |-> status, macaroon |-> arg[task].macaroon,
                  preimage |-> arg[task].preimage]

(* handle_request, to its first await.  Other methods than GET and POST    *)
(* are refused by the router.                                              *)
NotFound(task, path) ==
    /\ pc[task] = "idle" /\ path \notin DOMAIN Price
    /\ answer' = [NoAnswer EXCEPT !.status = 404]
    /\ UNCHANGED <<pc, arg, locks, registry, wallet>>

(* An Authorization that is no L402 pair counts as none.                   *)
Unauthorized(task, path) ==
    /\ pc[task] = "idle" /\ path \in DOMAIN Price /\ issued < MaxChallenges
    /\ issued' = issued + 1
    /\ Wait(task, "insert", [NoArg EXCEPT !.macaroon = issued', !.amount = Price[path]])
    /\ challengesLock' = Acquire(challengesLock, task, "write")
    /\ answer' = NoAnswer
    /\ UNCHANGED <<balanceLock, challenges, offered, wallet>>

Authorized(task, path, macaroon, preimage) ==
    /\ pc[task] = "idle" /\ path \in DOMAIN Price
    /\ Wait(task, "validate", [NoArg EXCEPT !.macaroon = macaroon, !.preimage = preimage])
    /\ challengesLock' = Acquire(challengesLock, task, "read")
    /\ answer' = NoAnswer
    /\ UNCHANGED <<balanceLock, registry, wallet>>

(* The challenge is stored before it is sent.                              *)
Insert(task) ==
    /\ pc[task] = "insert" /\ Holds(challengesLock, task)
    /\ LET challenge == [id |-> arg[task].macaroon, amount |-> arg[task].amount]
       IN  /\ challenges' = challenges \cup {challenge}
           /\ offered' = offered \cup {challenge}
    /\ challengesLock' = Release(challengesLock, task)
    /\ Reply(task, 402)
    /\ UNCHANGED <<balanceLock, issued, wallet>>

(* validate_l402_auth.                                                     *)
Validate(task) ==
    /\ pc[task] = "validate" /\ Holds(challengesLock, task)
    /\ challengesLock' = Release(challengesLock, task)
    /\ Reply(task, IF \E challenge \in challenges :
                         ValidateAuth(challenge, arg[task].macaroon, arg[task].preimage)
                   THEN 200 ELSE 401)
    /\ UNCHANGED <<balanceLock, registry, wallet>>

-----------------------------------------------------------------------------
(* MockLnBackend.                                                          *)

PayInvoice(task, challenge) ==
    /\ pc[task] = "idle"
    /\ Wait(task, "find", [NoArg EXCEPT !.macaroon = challenge.id, !.amount = challenge.amount])
    /\ challengesLock' = Acquire(challengesLock, task, "read")
    /\ answer' = NoAnswer
    /\ UNCHANGED <<balanceLock, registry, wallet>>

Known(task) == [id |-> arg[task].macaroon, amount |-> arg[task].amount] \in challenges

(* The registry stays locked for reading while the wallet is waited for.   *)
Find(task) ==
    /\ pc[task] = "find" /\ Holds(challengesLock, task)
    /\ IF Known(task)
       THEN /\ Wait(task, "deduct", arg[task])
            /\ balanceLock' = Acquire(balanceLock, task, "write")
            /\ UNCHANGED challengesLock
       ELSE /\ Finish(task)
            /\ challengesLock' = Release(challengesLock, task)
            /\ UNCHANGED balanceLock
    /\ answer' = NoAnswer
    /\ UNCHANGED <<registry, wallet>>

(* The client's budget was charged what it read in the invoice.            *)
Deduct(task) ==
    /\ pc[task] = "deduct" /\ Holds(balanceLock, task)
    /\ LET amount == arg[task].amount
       IN  IF balance < amount
           THEN UNCHANGED wallet
           ELSE /\ balance' = balance - amount
                /\ revealed' = revealed \cup {arg[task].macaroon}
                /\ spent' = spent + Charge(Decode(InvoiceOf(amount)))
                /\ UNCHANGED funded
    /\ challengesLock' = Release(challengesLock, task)
    /\ balanceLock' = Release(balanceLock, task)
    /\ Finish(task) /\ answer' = NoAnswer
    /\ UNCHANGED registry

SetBalance(task, sats) ==
    /\ pc[task] = "idle"
    /\ Wait(task, "set", [NoArg EXCEPT !.amount = sats])
    /\ balanceLock' = Acquire(balanceLock, task, "write")
    /\ answer' = NoAnswer
    /\ UNCHANGED <<challengesLock, registry, wallet>>

Store(task) ==
    /\ pc[task] = "set" /\ Holds(balanceLock, task)
    /\ balance' = arg[task].amount /\ funded' = arg[task].amount /\ spent' = 0
    /\ balanceLock' = Release(balanceLock, task)
    /\ Finish(task) /\ answer' = NoAnswer
    /\ UNCHANGED <<challengesLock, registry, revealed>>

GetBalance(task) ==
    /\ pc[task] = "idle"
    /\ Wait(task, "get", NoArg)
    /\ balanceLock' = Acquire(balanceLock, task, "read")
    /\ answer' = NoAnswer
    /\ UNCHANGED <<challengesLock, registry, wallet>>

Load(task) ==
    /\ pc[task] = "get" /\ Holds(balanceLock, task)
    /\ balanceLock' = Release(balanceLock, task)
    /\ Finish(task) /\ answer' = NoAnswer
    /\ UNCHANGED <<challengesLock, registry, wallet>>

(* A future is dropped where it waits: a client hangs up, a caller gives up. *)
Cancel(task) ==
    /\ pc[task] # "idle"
    /\ challengesLock' = Release(challengesLock, task)
    /\ balanceLock' = Release(balanceLock, task)
    /\ Finish(task) /\ answer' = NoAnswer
    /\ UNCHANGED <<registry, wallet>>

-----------------------------------------------------------------------------
Serve(task) ==
    \/ \E path \in Paths : NotFound(task, path) \/ Unauthorized(task, path)
    \/ \E path \in Paths, challenge \in offered, preimage \in revealed \cup {0} :
            Authorized(task, path, challenge.id, preimage)

Call(task) ==
    \/ \E challenge \in offered : PayInvoice(task, challenge)
    \/ \E sats \in Balances : SetBalance(task, sats)
    \/ GetBalance(task)

Step(task) ==
    Insert(task) \/ Validate(task) \/ Find(task) \/ Deduct(task) \/ Store(task) \/ Load(task)

Next ==
    \/ \E task \in Handlers : Serve(task)
    \/ \E task \in Callers : Call(task)
    \/ \E task \in Tasks : Step(task) \/ Cancel(task)
    \/ Restart

(* The runtime polls a task whose lock is free; nobody has to ask for      *)
(* anything.                                                               *)
Fairness == \A task \in Tasks : WF_vars(Step(task))

Spec == Init /\ [][Next]_vars /\ Fairness

-----------------------------------------------------------------------------
(* A request is served only with the macaroon and the preimage of one      *)
(* challenge, which this server issued and a wallet has paid; and such a   *)
(* pair is never refused, however requests, payments and restarts          *)
(* interleave (server.rs:177).                                             *)
ServedIffPaid ==
    LET paid == /\ answer.macaroon = answer.preimage /\ answer.preimage \in revealed
                /\ \E challenge \in challenges : challenge.id = answer.macaroon
    IN  /\ answer.status = 200 => paid
        /\ answer.status = 401 => ~paid

(* What clients read in the invoices they paid and charged to their budget *)
(* is, to the satoshi, what their payments took from the wallet, whatever  *)
(* unit the invoice was written in; and no two of them overdraw it         *)
(* (challenge.rs:60, backend.rs:57).                                       *)
WalletBalances == balance >= 0 /\ balance + spent = funded

(* No request, payment or look at the balance waits for ever: neither for  *)
(* a payment that holds the registry while it waits for the wallet, nor    *)
(* for readers that keep coming (backend.rs:46, 57).                       *)
CallsReturn == \A task \in Tasks : pc[task] # "idle" ~> pc[task] = "idle"
=============================================================================
