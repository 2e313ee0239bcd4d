------------------------------ MODULE SqliteStore ------------------------------
(***************************************************************************)
(* The persistent token store of bolt402-sqlite (store.rs): a table with   *)
(* one row per endpoint.  A call hands a job to the blocking thread pool   *)
(* and returns when the job is done; the job takes the mutex and executes  *)
(* one statement.  So a call and its effect are two steps, jobs of         *)
(* different calls run in any order, and a job runs even if its caller has *)
(* gone.  The table survives a crash of the process, the jobs do not.      *)
(*                                                                         *)
(* lives is a history field of jobs and rows: the last instant at which a  *)
(* token put by the call is to be found, in unbounded integers.            *)
(***************************************************************************)
EXTENDS Integers

CONSTANTS
    Endpoints, Tokens, NoToken,
    Calls,           \* the calls that can be under way at the same time
    NoTtl,           \* no TTL (Option::None)
    Ttls,            \* the TTLs, in seconds, a store may be opened with
    MaxInt,          \* i64::MAX: timestamps are i64
    OverflowChecks,  \* TRUE: an addition that overflows panics (dev profile);
                     \* FALSE: it wraps around (release profile)
    Steps,           \* by how much the wall clock may move on at once
    BackSteps,       \* and by how much it may be set back
    MaxNow           \* the last second the clock shows

ASSUME SqliteAssumption ==
    /\ NoToken \notin Tokens
    /\ NoTtl \notin Int
    /\ Ttls \subseteq (0 .. MaxInt) \cup {NoTtl}
    /\ Steps \subseteq Nat /\ BackSteps \subseteq Nat
    /\ MaxNow \in Nat /\ MaxInt \in Nat /\ MaxNow <= MaxInt
    /\ OverflowChecks \in BOOLEAN

VARIABLES
    now,    \* what the wall clock shows, in seconds
    ttl,    \* SqliteTokenStore.ttl
    rows,   \* the table l402_tokens: a function from the stored endpoints
    jobs    \* the job of each call, or none

sqliteVars == <<now, ttl, rows, jobs>>

Clock  == 0 .. MaxNow
Never  == NoTtl    \* expires_at IS NULL
Idle   == [op |-> "none"]
Stored == DOMAIN rows

-----------------------------------------------------------------------------

\* i64 addition of two non-negative numbers
Wrapped(x) == IF x <= MaxInt THEN x ELSE x - 2 * (MaxInt + 1)

\* Mutant: the time to live is taken for a point in time.
ExpiresAtTtl == ttl

\* expires_at: now + ttl
ExpiresAt == IF ttl = NoTtl THEN Never ELSE Wrapped(now + ttl)
ExpiresAtPanics == OverflowChecks /\ ttl # NoTtl /\ now + ttl > MaxInt

\* expires_at IS NULL OR expires_at > now
Live(row) == row.expires_at = Never \/ row.expires_at > now

Visible == {e \in Stored : Live(rows[e])}

\* What a lookup returns.
Get(e) == IF e \in Visible THEN rows[e].token ELSE NoToken

-----------------------------------------------------------------------------

Init ==
    /\ now \in Clock
    /\ ttl \in Ttls
    /\ rows = << >>
    /\ jobs = [c \in Calls |-> Idle]

Submit(c, job) ==
    /\ jobs[c] = Idle
    /\ jobs' = [jobs EXCEPT ![c] = job]
    /\ UNCHANGED <<now, ttl, rows>>

\* put reads the clock before it hands its job over.
CallPut(c, e, t) ==
    /\ ~ExpiresAtPanics
    /\ Submit(c, [op |-> "put", endpoint |-> e, token |-> t, expires_at |-> ExpiresAt,
                  lives |-> IF ttl = NoTtl THEN Never ELSE now + ttl])

CallRemove(c, e) == Submit(c, [op |-> "remove", endpoint |-> e])
CallClear(c)     == Submit(c, [op |-> "clear"])
CallCleanup(c)   == Submit(c, [op |-> "cleanup_expired"])

\* Mutant: a conflict updates the token and keeps the old expiry.
UpsertKeepsExpiry(c) ==
    /\ jobs[c].op = "put"
    /\ rows' = [e \in Stored \cup {jobs[c].endpoint} |->
                    IF e # jobs[c].endpoint THEN rows[e]
                    ELSE [token |-> jobs[c].token, lives |-> jobs[c].lives,
                          expires_at |-> IF e \in Stored THEN rows[e].expires_at
                                         ELSE jobs[c].expires_at]]

\* INSERT .. ON CONFLICT(endpoint) DO UPDATE
Upsert(c) ==
    /\ jobs[c].op = "put"
    /\ rows' = [e \in Stored \cup {jobs[c].endpoint} |->
                    IF e # jobs[c].endpoint THEN rows[e]
                    ELSE [token |-> jobs[c].token, lives |-> jobs[c].lives,
                          expires_at |-> jobs[c].expires_at]]

\* Mutant: the row stays, without its token.
DeleteBlanks(c) ==
    /\ jobs[c].op = "remove"
    /\ rows' = [e \in Stored |-> IF e = jobs[c].endpoint
                                 THEN [rows[e] EXCEPT !.token = NoToken]
                                 ELSE rows[e]]

\* DELETE .. WHERE endpoint = ?1
Delete(c) ==
    /\ jobs[c].op = "remove"
    /\ rows' = [e \in Stored \ {jobs[c].endpoint} |-> rows[e]]

\* DELETE FROM l402_tokens
DeleteAll(c) == jobs[c].op = "clear" /\ rows' = << >>

\* Mutant: what expires next second is deleted too.
DeleteEarly(c) ==
    /\ jobs[c].op = "cleanup_expired"
    /\ rows' = [e \in {x \in Stored : rows[x].expires_at = Never
                                        \/ rows[x].expires_at > now + 1} |-> rows[e]]

\* DELETE .. WHERE expires_at IS NOT NULL AND expires_at <= now
DeleteExpired(c) ==
    /\ jobs[c].op = "cleanup_expired"
    /\ rows' = [e \in {x \in Stored : ~(rows[x].expires_at # Never
                                        /\ rows[x].expires_at <= now)} |-> rows[e]]

\* A job takes the mutex and executes its statement.
Run(c) ==
    /\ Upsert(c) \/ Delete(c) \/ DeleteAll(c) \/ DeleteExpired(c)
    /\ jobs' = [jobs EXCEPT ![c] = Idle]
    /\ UNCHANGED <<now, ttl>>

\* The statement fails (the database is busy or the disk is full): the call
\* returns an error and the table is as before.
Fail(c) ==
    /\ jobs[c] # Idle
    /\ jobs' = [jobs EXCEPT ![c] = Idle]
    /\ UNCHANGED <<now, ttl, rows>>

\* The process ends; the next one opens the file, maybe with another TTL.
Restart(next_ttl) ==
    /\ ttl' = next_ttl
    /\ jobs' = [c \in Calls |-> Idle]
    /\ UNCHANGED <<now, rows>>

Tick(d) ==
    /\ now + d \in Clock
    /\ now' = now + d
    /\ UNCHANGED <<ttl, rows, jobs>>

Next ==
    \/ \E c \in Calls, e \in Endpoints, t \in Tokens : CallPut(c, e, t)
    \/ \E c \in Calls, e \in Endpoints : CallRemove(c, e)
    \/ \E c \in Calls : CallClear(c) \/ CallCleanup(c) \/ Run(c) \/ Fail(c)
    \/ \E x \in Ttls : Restart(x)
    \/ \E d \in Steps : Tick(d)
    \/ \E d \in BackSteps : Tick(-d)

Spec == Init /\ [][Next]_sqliteVars

-----------------------------------------------------------------------------

Instants == -MaxInt - 1 .. MaxInt
Lives    == 0 .. MaxNow + MaxInt

Jobs == [op : {"put"}, endpoint : Endpoints, token : Tokens,
         expires_at : Instants \cup {Never}, lives : Lives \cup {Never}]
            \cup [op : {"remove"}, endpoint : Endpoints]
            \cup [op : {"clear", "cleanup_expired", "none"}]

TypeOK ==
    /\ now \in Clock
    /\ ttl \in Ttls
    /\ Stored \subseteq Endpoints
    /\ \A e \in Stored : rows[e] \in [token : Tokens, expires_at : Instants \cup {Never},
                                      lives : Lives \cup {Never}]
    /\ \A c \in Calls : jobs[c] \in Jobs

(* A token is found exactly until the TTL of the call that put it has run   *)
(* out (store.rs:102), however long the job waited, whatever row it         *)
(* replaced, across restarts with another TTL and with a clock that steps   *)
(* back.                                                                    *)
FoundUntilTtl ==
    \A e \in Stored : e \in Visible <=> rows[e].lives = Never \/ rows[e].lives > now

(* cleanup_expired deletes only what no lookup would find: it changes the   *)
(* answer of none (store.rs:111).                                           *)
CleanupIsInvisible ==
    [][ \A c \in Calls : Run(c) /\ jobs[c].op = "cleanup_expired" =>
            \A e \in Endpoints : Get(e)' = Get(e) ]_sqliteVars

Lookups == [e \in Endpoints |-> Get(e)]

Store == INSTANCE TokenStore WITH cached <- Lookups

SetBack == \E d \in BackSteps : Tick(-d)

(* The store implements the port, but for a clock that is set back, which   *)
(* may bring an expired token back to life.  A job takes effect at once,    *)
(* and that of a put whose token is still alive is a put of the port; a     *)
(* restart loses nothing (store.rs:18).                                     *)
ImplementsStore ==
    /\ Store!StoreInit
    /\ [][Store!StoreNext \/ SetBack]_Lookups
    /\ [][ \A c \in Calls : Run(c) =>
            LET job == jobs[c] IN
            /\ job.op = "put" /\ Live(job) => Store!StorePut(job.endpoint, job.token)
            /\ job.op = "remove" => Store!StoreRemove(job.endpoint)
            /\ job.op = "clear" => Store!StoreClear ]_sqliteVars
    /\ [][ \A x \in Ttls : Restart(x) => UNCHANGED Lookups ]_sqliteVars
=============================================================================
