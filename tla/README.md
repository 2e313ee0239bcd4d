# TLA+ models of bolt402

bolt402 is a Rust workspace for L402 clients: an HTTP request that is answered
`402 Payment Required` carries a macaroon and a Lightning invoice; the client checks
a budget, pays, keeps the macaroon and the preimage as a token and sends the request
again.  These modules model the parts of it that decide about money and tokens,
the backends that pay, the server they are tested against and the bindings that carry the
client into other languages; check them with TLC on small instances, and prove their
safety properties with TLAPS for every instance.

Contents: [the system](#the-system) · [plan](#plan) · [modules](#modules) ·
[runs](#runs) · [bounds](#bounds) · [fairness](#fairness) · [proofs](#proofs) ·
[what the code does otherwise than its docs](#divergences) ·
[not modelled](#not-modelled)

## The system

Paths are below `src/crates/` unless they start otherwise.

| Part | State | Operations | Hard behaviour |
|---|---|---|---|
| Client engine (`bolt402-core/src/client.rs`, `receipt.rs`) | receipts behind a lock; the locals of each `request` between its awaits | `get`, `post`, `receipts`, `total_spent` | any number of requests interleave at every await; the caller may drop one at any await; every call to server, store and backend may fail |
| Budget (`bolt402-core/src/budget.rs`) | three `u64` counters: lifetime, per hour, per day, behind one lock | `check_and_record` | windows, pruning under a wall clock that moves both ways, overrides by domain over shared counters, overflow, lock poisoning |
| In-memory token cache (`bolt402-core/src/cache.rs`) | a map and the list of its keys | `put`, `get`, `remove`, `clear` | eviction at capacity, map and list kept in step by hand |
| SQLite token store (`bolt402-sqlite/src/store.rs`, `migration.rs`) | one table, a default TTL, jobs on the blocking pool | the same and `cleanup_expired`, `count` | expiry computed before the job is queued, jobs in any order, jobs whose caller has gone, restarts, `i64` instants |
| Ports and errors (`bolt402-proto/src/port.rs`, `client_error.rs`) | none | `TokenStore`, `LnBackend` traits | what a caller may rely on |
| BOLT11 amounts (`bolt402-proto/src/bolt11.rs`) | none | `decode_bolt11_amount` | 64-bit products, two roundings, five units, what counts as "no amount" |
| Headers (`bolt402-proto/src/challenge.rs`, `token.rs`) | none | parse a challenge, write and read a token | quotes, commas and `=` in values, repeated parameters, two base64 alphabets, an unescaped separator |
| Backends (`bolt402-lnd`, `-cln`, `-swissknife`, `-nwc`) | a connection | `from_env`, `pay_invoice`, `get_balance`, `get_info` | pending payments, a stream that is scanned backward, answers that end early, fee limits converted to narrower numbers, balances below zero |
| Mock server and backend (`bolt402-mock`) | a registry of challenges that server and wallet share, a balance | answer a request, pay, set and get the balance | a payment waits for one lock while it holds another; both queue readers and writers, and futures are dropped where they wait |
| Bindings (`bolt402-ffi`, `-wasm`, `-python`, `src/bindings/bolt402-go`) and packages (`src/packages`) | handles, the last error of each thread | the client's and the backends' | life time of handles, finalizers, goroutines that change threads, calls that block with the lock of the interpreter held |

How they interact.  `L402Client::request` is the only place where the parts meet.
It (1) looks the URL up in the token store, (2) if there is a token tries it and,
when that is answered 402, removes what the store holds for the URL, (3) sends the
request without a token, (4) parses the challenge and decodes the invoice's amount,
(5) calls `check_and_record`, (6) pays, (7) puts the token, (8) sends the request
again and stores a receipt, or removes the token if the answer is 402 once more.
Each of (1)-(3) and (6)-(8) is an await: other requests run in between, and a
dropped future ends there.  (3), (4) and (5) up to the charge have no await between
the answer of the server and the record.  The budget and the in-memory cache guard
their state with one lock per call, so each of their operations is one step.

What makes each part correct:

- *Budget*: no window and no lifetime beyond a limit, in spite of pruning, of clocks
  set back, of overrides and of the width of the counters; a refusal only when a limit
  demands it.
- *Token stores*: a lookup returns the token last put for its URL or nothing; the
  cache stays within its capacity and evicts in order; a token with a TTL is found
  exactly until it has run out; cleaning up is invisible.
- *Client*: the invoices that the node pays are within the budget, and what leaves the node
  is beyond it by routing fees at most; receipts are of settled
  payments; the store holds only tokens that were paid for; what a request reports
  about the money is true; it ends.
- *Headers and amounts*: the parameters of a header are found whatever their values
  contain; the budget is charged what the invoice asks for; a token can be read back.
- *Backends*: success is reported of settled payments only and a complete report of it is
  never lost; failure only where the adapter can know or is known not to; no fee beyond
  the limit; nothing is overstated.
- *Mock server*: it serves exactly what was paid for; wallet and invoices agree on every
  satoshi; nobody waits for ever.
- *Bindings*: no handle is freed twice or used after it was freed, as long as callers close
  none that is in use (with an exception in Go, see [below](#divergences)); calls return; a caller learns how
  its own call ended.

## Plan

Done: the budget and its abstract specification, the token store port and its two
implementations, the client engine; then the
decoder of invoices, the parser of challenges, the six payment adapters and the port they
implement, the mock server with its wallet, and the bindings; and the proofs listed
[below](#proofs).

Left, in this order:

1. `L402Client` over `ChallengeFlow`: the fault `"unreadable"` and the amounts of the
   client model become invoices and their decoded amounts.  Until then `Charge` links the two.
2. Proofs: each safety invariant, action property and refinement of the passing runs is
   stated by a theorem, and so is the part of the liveness properties that needs no fairness;
   what item 1 adds is to be proved with it.
3. A clock before 1970, at which budget and store panic.

## Modules

```
Budget ── SpendingCap ──┬── BudgetTracker ──┬── BudgetRolling ──┬── MCBudgetRolling
                        │                   │                   └── BudgetTrackerProofs
                        │                   └── MCBudgetTracker
                        └── L402Client ──┬── MCL402Client
                             │ INSTANCE  └── L402ClientProofs
TokenStore ──────────────────┤
                             ├── TokenCache ── TokenCacheProofs
                             └── SqliteStore ── SqliteStoreProofs

Bolt11 ──┬── ChallengeFlow ──┬── MCChallengeFlow
         │    │              └── ChallengeFlowProofs
         │   ChallengeParser
         ├── BackendAnswers ── LnBackends ──┬── MCLnBackends
         │                      │ INSTANCE   └── LnBackendsProofs
         │                     PaymentPort
         └── MockServer ──┬── MCMockServer
                          └── MockServerProofs
Bindings ── BindingsProofs
```

`Budget` has the limits and the test of one payment (`Passes`) that tracker and promise
share.  A host without an override, and a URL without a host, have the default limits.

`SpendingCap` is the abstract budget: `now` and a `ledger` that remembers everything in
unbounded numbers.  `Spend` admits a payment when the ledger including it is within
the limits.

`BudgetTracker` is `budget.rs`: `total`, `hourly` and `daily` are the fields of
`BudgetState`; `CheckAndRecord` is a call that returns `Ok`, with the retains that
follow it; a call that returns `BudgetExceeded` changes nothing.  Additions are modulo
`Modulus`; with `OverflowChecks` an addition that overflows is a panic
(`CheckPanics`), which leaves what the record had written so far and poisons the lock.
`ClockStep` is the wall clock.  `ledger` and `latest` are history variables; the first
is what the refinement `ImplementsCap` compares the counters with.

`BudgetRolling` observes the same tracker tick by tick, to compare windows that start
at full hours with windows that start anywhere: its history variable `paidFrom` is what was
admitted in the hour that starts at each tick.

`TokenStore` is the port: `cached` is what a lookup of each URL returns.  A store may
forget, so `StorePut` may evict and `StoreForget` may expire entries.

`TokenCache` is `cache.rs`, with `recency` as a history variable that says what first
in first out means.

`SqliteStore` is `store.rs`: a call hands a job over (`CallPut`, `CallRemove`, ..),
`Run` takes the mutex and executes its statement, `Fail` is a statement that fails,
`Restart` ends the process with its jobs and opens the file again, maybe with another
TTL.  `lives` is a history field: the end of the token's life in unbounded numbers.

`L402Client` is `request`.  `pc[t]` names the step the task takes next; a task holds
its `url` and the challenge or token it works with (`held`).  One action per await:
`Lookup`, `TryCached`, `Discard`, `Request`, `Charge`, `Pay`, `PayReturns`, `Put`,
`Retry`, `DiscardPaid`; `Cancel` is the caller that drops the future.  The budget is
`SpendingCap` (that the code's tracker implements it is the theorem
`BudgetRefinement`) and the store is the port.  A challenge stands for its macaroon, invoice and
preimage, so a token is named by its challenge.  Server and node are the environment:
`Answers`, `Settle`, `FailPayment`, `Revoke`.  A payment costs its invoice, which the budget
was charged, and on top a fee of up to `MaxFee` (the code's `max_fee_sats`), which it was not.
The amount in a receipt is the one the backend reports (`Reported`): anything from 0, as Nostr
Wallet Connect says, to that of the invoice, as `ReportsAreCovered` shows of the adapters
over a node that reports what it paid.
What may go wrong is the constant
`Faults`, so that each run says which faults its properties survive.  `ended` is a
history variable: how the request that got each challenge ended.

`Bolt11` is `decode_bolt11_amount` and the roundings of `InvoiceAmount`, as functions.  An
invoice is its network, whether a separator was found, a number (its digits read as one
number, and the power of ten, `scale`, that the point divides it by) and a unit; `MulWhole`,
`RoundDecimal` and `ParsePico` are the three ways the number is turned into millisatoshis, with the width of a `u64`.

`ChallengeParser` is `from_header` with the one-pass scanner `parse_params`, and the
two directions of `L402Token`.  A text is a sequence of atoms: quote, comma, `=`, colon, blank
and words.  `scanned`, a recursive function over the length of the text that applies `Scan`,
is the loop of the code.

`ChallengeFlow` follows one 402 answer: a server writes a header fragment by fragment
(`Write`), the client parses it (`ExtractChallenge`), charges its invoice (`ChargeInvoice`)
and sends the credentials (`SendCredentials`).  The reference that the scanner is
compared with (`Separators`, `PartAfter`, `FullStarts`) looks at the whole text: it is cut at
the commas with an even number of quotes before them.

`PaymentPort` is what the client may rely on when it pays: success is reported of settled
payments, failure in the states the adapter is *trusted* with.

`BackendAnswers` is the code of the six adapters (LND and Core Lightning over REST and
gRPC, SwissKnife, Nostr Wallet Connect): what each makes of an answer, of balances, of
`from_env` and of a fee limit, one operator per function of the code.  `LnBackends` is one
call through one of them and the node behind it, which goes on when the caller has gone or
the connection broke.  `Trust` says in which states each adapter may report a failure; the
refinement `ImplementsPort` shows that none reports one elsewhere.  This is what the fault
`"pending"` of `L402Client` stands for: adapters that poll answer before the payment is over.

`MockServer` is `bolt402-mock`: requests and wallet calls are tasks over the two locks.
tokio's `RwLock` is a queue (`Acquire`, `Holds`, `Release`); what a task does between
two awaits is one step (`Insert`, `Validate`, `Find`, `Deduct`, `Store`, `Load`);
`Find` keeps the registry locked while it waits for the wallet, as `backend.rs` does.
The invoices it writes are read back by `Bolt11`.

`Bindings` has one state machine for four languages.  `FfiCall` and `Return` are the C
functions on a thread, `LastError` is the second call that Go makes to fetch an error,
maybe on another thread; `PyCall` holds the lock of the interpreter until `PyReturn`;
`WasmCall` is a future.  `CloseHandle` and `Finalize` free handles, and neither looks whether
a call has the handle: `Close` frees the object and `Forget`, later, sets the pointer to nil,
as the Go method does in two statements without a lock.  `misused` is a history variable: the handles that
callers closed while a call or another `Close` had them, or used during a `Close`.  A
finalizer is no caller: where it frees a handle that a call has, the handle is not misused.

`MCBudgetTracker`, `MCBudgetRolling`, `MCL402Client`, `MCChallengeFlow`, `MCLnBackends` and
`MCMockServer` give the instances for TLC.

Operators marked *Mutant* are not part of a specification.  Each is a form of the definition
that follows it with a plausible slip; a property is kept only if some such slip breaks it.

## Runs

Passing:

| Run | Shows |
|---|---|
| `BudgetWindows` | with every limit in play, two overrides, counters of 7 values with overflow checks and a clock that goes back: decisions from pruned maps are those of the full ledger (`DecisionsMatchLedger`), `CapsHold`, `HostCapHolds`, `MapsArePruned`, whatever panics `CountersNeverTorn`, and the tracker implements `SpendingCap` |
| `BudgetRollingTwice` | an hour that starts anywhere sees at most twice the hourly limit |
| `TokenCache` | list and map agree (`OrderListsTheKeys`), `SizeBounded`, `EvictionIsFifo`, and it implements the port |
| `SqliteStore` | a token is found exactly until its TTL has run out (`FoundUntilTtl`), with a clock that goes back and restarts under other TTLs; cleaning up changes no answer; it implements the port, but for the clock set back |
| `ClientConcurrent` | two requests at the same time, two hosts with different limits, routing fees, every fault but 401 and unreadable invoices: receipts, tokens and outcomes are true (`ReceiptsAreSettledPayments`, `CachedTokensArePaid`, `OutcomesAreHonest`), the invoices that are paid are within the limits and what leaves the node exceeds them by fees at most (`MoneyOutWithinLimits`) |
| `ClientSequential` | one request at a time, two URLs, the same faults: it pays only when no cached token would do, and discards only the token that was refused |
| `ClientLive` | over two hours, with pending payments, bad challenges and undecodable invoices: every request ends; a token that the server gave up leaves the store |
| `ChallengeFlow` | headers of up to four fragments, good and bad, and invoices in every unit: the scanner finds the parameters between the outer commas (`ParamsAreTheOuterParts`); what a server quotes arrives, and a header is refused only for a reason (`QuotedValuesArrive`); the charge is the exact amount rounded up (`ChargeIsInvoiceRoundedUp`); what is sent can be taken apart again (`CredentialsReadBack`) |
| `LnBackends` | one payment through each adapter, with streams that end early, garbled and refused answers, broken connections and callers that give up: the port is implemented (`ImplementsPort`), a complete report of success is never lost (`SuccessIsReported`), fees stay within their limit (`FeeWithinLimit`), amounts and balances are not overstated (`ReportsAreCovered`) |
| `MockServer` | requests, payments, balances, restarts and cancellations: served exactly if paid (`ServedIffPaid`), wallet and invoices agree (`WalletBalances`), and no call waits for ever (`CallsReturn`) |
| `Bindings` | two callers in C, Go, Python and JavaScript: a handle that callers do not close while it is in use is not freed twice and, but for Go's finalizer, not used after it was freed (`HandlesOutliveCalls`), and calls return (`BlockedCallsReturn`) unless a thread of the same Python interpreter would have to answer them |

The run that TLC must find violated is described [below](#divergences).

## Bounds

- *Clock*: an hour is one tick and a day two (`BudgetWindows` has three days), so that
  two hours share a day and windows begin and end within the clock; an hour of three ticks
  in `BudgetRolling`, so that a window can start inside an hour.  The maps keep 2 hours
  and 1 day as the code keeps 48 and 2: what matters is that pruning happens
  and that the clock goes back as far as is kept (`BackHours`, `BackDays`).
- *Width*: 2^64 becomes 7 in `BudgetWindows`, above every limit but within reach of the
  host that has no lifetime limit; `LedgerBound` cuts the ledger where the counters are
  full.  A release build, whose additions wrap around, has no run of its own: there
  `BudgetDecisions` and `BudgetRefinement` are proved for `OverflowChecks = FALSE` too.
- *Amounts* 0 to 2 against limits of 2, 3, 4 and 5: each limit is the first to refuse
  in some state.  0 is an invoice without an amount.
- *Hosts*: one on the default limits, one with a tighter override and one whose override
  lifts the lifetime and hourly limits: overrides matter through the counters they share.
- *Cache*: capacity 3 and four endpoints, so that an eviction leaves an order to get wrong.
- *SQLite*: two calls, two endpoints, two tokens: a job overtakes another, a put
  replaces a row; TTLs none, 0 and 2 on a clock of 4 seconds that is
  set back by one: rows expire in every order with jobs that wait, and `now + ttl` overflows.
- *Client*: two tasks are what an interleaving needs, and three challenges let one task
  be paid twice while the other one holds its own.  A fee is 0 or 1 satoshi in
  `ClientConcurrent`, so that two payments can exceed a limit by two; in the other runs, whose properties
  do not look at fees, it is 0.  An hour is one tick; only
  `ClientLive` moves the clock, since what the budget does over time is the business of
  `BudgetWindows`.  Symmetric values are permuted only in runs
  without liveness.
- *Decoder*: neighbouring units differ by 20 instead of 1000 and a `u64` has 40,000 values,
  so that one bitcoin is 16,000 millisatoshis and every boundary is reached: half a
  millisatoshi, a satoshi, a pico amount that is no multiple of ten, products and numbers at
  and beyond the width.  With 20 a satoshi is still ten nanobitcoins and a millisatoshi ten
  picobitcoins, as with 1000.
- *Headers*: four fragments hold both parameters, a repeated or unknown one and stray quotes,
  commas or `=` before, between and behind them.
- *Backends*: a satoshi is 20 millisatoshis; amounts and fees on both sides of a full
  satoshi; limits of 0, 1, 15 (beyond the width in millisatoshis) and 150 (beyond the signed
  width in satoshis).  Three lines hold a report before, at and behind the last success.  Wallets
  have no channel, one or two, whose amount may be negative, missing or junk.  One call,
  since adapters share nothing between calls.
- *Mock server*: one request and two wallet calls wait for the two locks at the same time:
  reader, writer and reader in every order.  Prices fit into a `u64` of nanobitcoins
  (`PriceAssumption`), as what a node has in its channels does into one of millisatoshis
  (`FundsAssumption`).  Two challenges, of 2 satoshis (written in
  micro) and 3 (written in nano), against a balance of 4: the second payment cannot be met.
- *Bindings*: two callers share threads, a server, a client and a backend: the client
  outlives the server, is closed or finalized while a call has it, or is closed twice at once.

## Fairness

Three runs assume any.

`ClientLive`: a task that can move does, since the executor polls it
(`WF(TaskStep)`): that the server answers each request is part of this assumption, as
the code sets no time limit on its HTTP client.  The node resolves each payment
(`WF(Settle \/ FailPayment)`): backends wait for that or return earlier.
`StaleTokensLeave` is about tokens that are looked up, so it also assumes that callers
keep requesting each URL (`Keeps`).  No fairness is assumed of `Start`,
`Cancel`, the clock or of the server's revoking otherwise.  The faults of that run are
those that end a request without the server: with a store or a server that fails each
time the stale token may stay, as it does in the code.

`MockServer`: the runtime polls a future whose lock has become free (`WF(Step(task))`).
Nobody has to request, pay, cancel or restart.  That a waiting call gets the lock
follows from the queue of the lock, not from fairness: with readers that pass waiting
writers the run fails.

`Bindings`: servers answer or fail and threads run (`WF(Step(c))`); a C call that blocks
returns when its request does.  Neither `Close` nor the garbage collector has to run.

## Proofs

All are checked by TLAPS for every value of the constants that meets the named
assumptions of the modules.

`BudgetTrackerProofs`.  The inductive invariant `IInv` is the type invariant, that the
clock is within the kept windows (`ClockInv`), that the parts of the ledger are no larger
than the whole (`LedgerInv`) and that the counters agree with the ledger on every window in
which the clock can stand again (`MatchInv`).  The last one is needed because after pruning
the maps disagree with the ledger elsewhere.  It gives `BudgetTypeCorrect`,
`BudgetDecisions`, `BudgetCounters`, and, with the ledger's own argument, `BudgetCaps`,
`BudgetHostCap` and the refinement `BudgetRefinement`.  `BudgetMapsPruned` also needs that no
map has a window later than the latest the clock has shown (`PruneInv`).
`BudgetRollingCap`: an hour that starts at any tick meets two full hours (`HourMeetsTwo`), so
that what it holds is at most their sum (`RollInv`), whatever the length of an hour.
Assumptions: amounts are bounded by `MaxAmount` below the width of the counters, and the clock
is not set back further than the maps are kept.  The refinement takes either overflow checks
or a lifetime limit in every budget: without both, the counters may wrap.

`TokenCacheProofs`.  The invariant says that the list names the keys of the map, each once, and
in the order of `recency`.  It rests on what `retain` does to a list (`WithoutKeeps`: the names
but one, in the same order); the model writes it as a recursive function, `Without`.  It gives
`CacheTypeCorrect`, `CacheOrder`, `CacheSize`, `CacheFifo` and the refinement of the port,
`CacheRefinement`, in which an eviction is a token the store forgets, for every capacity.

`SqliteStoreProofs`.  `SqliteExpiry`: in every job and every row the stored expiry is the
one its history calls for, with checks or with TTLs that stay within the timestamps.
`SqliteTypeCorrect` holds for every TTL: an expiry that wraps around is still a timestamp.
`SqliteCleanup`, and `SqliteRefinement`: each job is the operation of the port that its call
asked for, and a restart changes no answer.

`L402ClientProofs`.  The properties of receipts, tokens and outcomes are not inductive by
themselves: that a step of one task does not spoil what another one has reported needs to
know that no two tasks work with the same challenge (`DistinctInv`), what a task may
rely on at each of its steps (`TaskOK`: at `pay` its challenge is not paid yet, at `put`
it is settled, ..), and that a challenge is paid for only after it was issued (`ChallengeInv`).
One lemma per action shows that it preserves the invariant.  `ClientTypeCorrect`,
`ClientTokens`, `ClientReceipts` and `ClientOutcomes` follow, for any
number of tasks, any limits and any set of faults.  `ClientMoney` is about sums over sets of
payments: the invoices that are under way, settled, or charged and not sent yet (`Charged`) ask
for no more than the ledger has (`MoneyInv`), since a task charges its challenge once and before
it pays; and the fees of a set of payments are at most `MaxFee` for each (`SumIsBounded`,
`FeesOnTop`).  `ClientReceipts` says of which payment each receipt is and, by the same ledger,
that the amounts in all receipts add up to no more than it has (`ReceiptsCovered`), where the
client can decode the invoices: each is at most that of its invoice, and no two receipts are of one payment.
`ClientPaysOnce` and `ClientRemovesOnlyRejected` are about requests that follow one another,
so they assume that there is one task, as the run `ClientSequential` does; then nobody else
changes what the store holds for its URL between its awaits (`AloneInv`).
The client is also composed with what it drives, step by step: its requests together are one
spender of `SpendingCap` (`ClientKeepsCap`), so that the limits of each hour, of each day and
of the lifetime hold for what they charge (`ClientCaps`), and what they do to the store is what
`TokenStore` offers (`ClientDrivesStore`).  The first two assume that 0 is among the amounts, as
an invoice that cannot be read counts as 0.  `ClientGoesOn` ranks the steps of a request
(`Left`): each step descends, so that there are ten at most and one payment; `ClientWaits`: where
it waits for the node, a payment of its own is under way.

`LnBackendsProofs`.  The invariant says that what the node reported is true of the payment
and stays true (`TruthOf`), that without faults reports are whole (`WholeOf`), that an adapter
that waits for the end of a payment gets it unless the answer ends early (`CompleteInv`), and
what the call returned was computed from the answer (`ResultInv`).  Every end of an answer
then leads to a report that the port allows (`AnswersAreAllowed`), which stays allowed while the
payment goes on without the caller.  The backward scan needs that a set of positions has a last
one (`LastExists`), from the library's well-founded order on the natural numbers.  It gives
`BackendsImplementPort`, the refinement of `PaymentPort`, and `BackendsReportSuccess`, for
streams of any length.  `BackendsKeepFeeLimit` and `BackendsReportTruth` also need that the node
knows the limit before it pays and that each success it reports is of this payment (`FeeInv`),
and that what a query returned is of one wallet (`QueryInv`); the sum over its channels is one
of numbers that may be negative, missing or junk.

`ChallengeFlowProofs`.  `FlowCharge`: each of the three ways to read a number is exact up to its
rounding (`PicoDecoded`, `WholeDecoded`, `DecimalDecoded`), and so is the rounding up to
satoshis (`SatoshisBounds`); for every ratio of the units, width and scale, either with overflow
checks or when no product wraps around.  `FlowTypeCorrect` adds that each charge fits, and
`FlowFree` says which invoices pass the budget as nothing: exactly those in which the decoder finds
no amount, as `AsksForMoney` spells out (`DecodeReads`).
`FlowCredentials`: what `from_header` accepts as a macaroon is base64, hence without the colon
that separates it (`ReadBack`).  The other two are about the scanner, for texts of any length.
`FlowQuoted`: inside quotes everything up to the next quote is copied (`CopiedInside`), so that
one pair more is one parameter more (`OneMorePair`, `PairsInv`), which is split at its first `=`
and stripped of its quotes.  `FlowOuterParts`: after each atom the scanner's flag is the parity
of the quotes so far, the open part is the text since the last separator, and the parts it has
closed are those the reference finds, by rank (`ScannedTo`).  Assumptions: fragments are texts,
and one with a key is written as that key, `=` and a quoted value (`FragmentsAssumption`).

`MockServerProofs`.  `PriceReadBack`: whichever of the two units the server writes a price in,
the decoder reads the price, as long as prices fit into a `u64` of millisatoshis (`PricesFit`),
with overflow checks or without.  The invariant says that tasks carry prices and paid
preimages from one await to the next (`CallOK`).  It gives `MockWallet` and `MockServed`.
The two fair locks have an invariant of their own (`LocksInv`): a task is in a queue at most once,
and exactly while its step needs the lock; a payment that has found its challenge holds the
registry and stands in the queue of the wallet; nobody who holds the wallet waits for the
registry.  Hence some task can always go on (`MockNoDeadlock`: the first of the wallet's queue,
or else the first of the registry's), writers are alone (`MockWritersAlone`), and nobody who
waits is overtaken (`MockNoOvertaking`).  That a queue stays one when tasks join and leave it
(`JoinedQueue`, `LeftQueue`) is proved for queues of any length.

`BindingsProofs`.  A handle that was not misused has a live object while its pointer is set
(`PointerInv`), and a call works on one unless Go's finalizer has run (`CallsInv`): `HandlesLive`,
whatever is made of the handles that were misused.  `ErrorsReachCallers`: outside Go a caller stays on its thread,
and nobody else is on it, between its call and the fetch of the error (`ErrorInv`); with the run
`BindingsErrors` this makes moving threads the one cause of a lost error.  `BindingsCallsGoOn`:
each call under way finds what its step needs, in particular a free thread, of which there are
as many as callers (`BindingsAssumption`: callers and clients are finitely many), unless a
Python caller waits for a server of its own interpreter; `BindingsPythonStuck` shows that such
a call never ends and keeps the interpreter.

Only model-checked: liveness, since TLAPS proves none under fairness: `RequestsEnd`,
`StaleTokensLeave`, `CallsReturn` and `BlockedCallsReturn`.  What they rest on besides fairness is
proved for all but `StaleTokensLeave`: that a rank descends and that waiting has one cause
(`ClientGoesOn`, `ClientWaits`), that there is no deadlock and no overtaking (`MockNoDeadlock`,
`MockNoOvertaking`), that no call waits for another (`BindingsCallsGoOn`).  And
`ErrorReachesCaller`, which does not hold in Go (see below).

Several of these results are inductions over data: the scanner's state along a text, the
`retain` of a list, a sum over a set of payments or channels.  The provers cannot use an
induction theorem that takes a predicate, so each such proof takes the set of natural numbers
(lengths, sizes) at which the claim fails, its least element, and shows that the claim
holds there because it holds one below.

## Divergences

One run checks a statement of the docs that the code does not keep.
`BindingsErrors`: `docs/design/042-go-bindings.md:70` calls the error of each thread "Safe for
concurrent CGo calls from different goroutines".  `bolt402.go:246` fetches the error
in a second C call; between the two the goroutine may move to another thread.  TLC finds a
caller (`ErrorReachesCaller`) that gets no message, or the one of another goroutine's call.
Nothing pins the goroutine (`runtime.LockOSThread`) for the pair of calls.

Noticed while modelling, and without a run of their own.  The client:

- `docs/architecture.md:155` has a "Rolling hourly cap"; `budget.rs:116` counts by full
  hours, so that an hour that starts anywhere sees up to twice the limit
  (`RollingTwiceHourlyCap`).
- `docs/architecture.md:172` says "Every payment is recorded as a `Receipt`"; after a payment
  whose retry fails (`client.rs:307`) there is none.
- `docs/design/005-integration-tests.md:28` says "Manually corrupted cached token triggers
  re-payment"; `client.rs:246` takes only a 402 for a rejection, and a server that answers
  401, as the mock server does (`server.rs:150`), leaves the client with its token.
- `client.rs:255` says "Token was rejected — remove it from cache"; `client.rs:257` removes
  whatever the store holds for the URL by then.
- `client.rs:323` takes a server error after payment for a sign of an invalid token;
  only a second 402 is treated so, a 5xx is a paid response with a receipt.
- `client.rs:409` calls `total_spent` what was spent across all payments; the amount is
  recorded before the payment (`client.rs:289`) and stays when the payment fails.  Routing fees,
  up to `max_fee_sats` for each payment (`client.rs:295`), are in no counter and under no limit:
  what leaves the node may exceed a limit by them (`MoneyOutWithinLimits`).
- The amount of a receipt is the one the backend reports (`client.rs:313`), which may be less
  than what was charged: Nostr Wallet Connect reports 0, others round down to satoshis.
- `client.rs:299` puts the token before the header is built of it (`client.rs:372`).  A
  preimage that fits in no header ends the request as an error of the backend, and so it does
  every later one that finds the token.
- `docs/design/009-bolt11-amount-decoding.md:83` returns the error of an invoice that
  does not decode; `client.rs:285` counts it as 0 satoshis and pays.
- `port.rs:76`: stores exist to avoid paying again; requests of one URL that overlap
  each look into the store before the other one has put its token, and each pays.

Stores and headers:

- `cache.rs:1` calls the cache LRU; a lookup leaves the order alone, so it is first in
  first out, as `cache.rs:12` says.
- `cache.rs:9` speaks of a maximum capacity; with capacity 0 the cache holds one entry
  (`SizeBounded` says so).
- `store.rs:161`: `now + ttl` wraps around for a TTL near `i64::MAX` in a release
  build, so that the token is expired at once.
- An empty macaroon is base64, so a challenge with one is accepted; its token cannot be read
  back (`CredentialsReadBack` names the exception).
- An invoice in upper case is refused by the challenge (`challenge.rs:58`), while the decoder
  reads it.

Backends and bindings:

- `port.rs:60` says "Returns PaymentFailed if the payment cannot be completed"; adapters that
  poll return it for payments that are pending and may settle
  (`bolt402-cln/src/grpc.rs:196`, `bolt402-swissknife/src/backend.rs:198`), and LND's for a
  stream that ended early.  `Trust` lists these states.
- SwissKnife and Nostr Wallet Connect do not pass the fee limit on (`FeeWithinLimit` names
  the exception).  Nostr Wallet Connect reports an amount of 0 and counts methods as channels.
- An API key that is no header value makes SwissKnife's adapter panic
  (`bolt402-swissknife/src/backend.rs:143`), where the others return an error.
- `pay_invoice` of a Python backend labels every error as a failed payment.
- WebAssembly reports a paid response whose body cannot be read as an error with no hint of
  the payment; the others return an empty body.
- The mock server takes a token that was paid for one path on every other path, and its
  wallet pays one invoice as often as it is asked.
- `docs/design/042-go-bindings.md:47` calls server and client "finalizer-protected".  A method
  hands the C pointer over (`bolt402.go:154`) and nothing keeps the wrapper alive while C runs
  (`runtime.KeepAlive`), so that the finalizer may free a client under its last call;
  `HandlesOutliveCalls` names this exception.  `Close` takes no lock (`bolt402.go:217`):
  two at once may both free the client.
- A closed Go client has spent 0 and a closed server's URL is empty, without an error
  (`bolt402.go:189`).
- The comment of the C function for the last error says not to free its result; the string is
  leaked to the caller, and the Go package frees it.

## Not modelled

- The builder, headers, bodies and latencies of the client, and the fee in a receipt: they decide nothing the
  properties tell apart.  `max_retries` is a field that nothing reads.
- A system clock before 1970, at which budget and store panic.
- A put of the SQLite store that ends after its caller has gone: `SqliteStore` has it,
  the client model lets a store operation that was begun end before the request is
  dropped.
- SQLite itself: a statement is atomic and durable.  Two processes that migrate one file
  run an idempotent script under SQLite's own locks.
- Doubles: `RoundDecimal` rounds the exact product.  A decimal that a double cannot hold may be
  rounded the other way next to half a millisatoshi.
- Texts of a length that no base64 has, and the `address` of a challenge, which nothing reads.
- Preimages against hashes: `proof` says whether they match; that SHA-256 tells them apart is
  assumed.  Relay and wallet of Nostr Wallet Connect and its `shutdown`.
- What a program does after it has used a freed handle: that is undefined, and the model goes on
  as if the call had worked on a copy.  `HandlesOutliveCalls` is about the steps up to there.
- JavaScript's `free()` on a client in use, which is part of generated glue.
- A price whose nanobitcoins leave 64 bits (`bolt402-mock/src/challenge.rs:60`), and funds
  whose sum in millisatoshis does (`bolt402-cln/src/grpc.rs:221`, `rest.rs:298`): both are
  excluded by an assumption of their module.
- AI SDK and LangChain packages: schemas and text over the bindings, with no state beyond the
  client they hold.  Demos, examples and regression tests use the library and add nothing to it.
