--------------------------- MODULE SqliteStoreProofs ---------------------------
(***************************************************************************)
(* The expiry of the tokens in the persistent store, and that the store    *)
(* implements the port, for every TTL, every width of the timestamps and   *)
(* every clock, one that steps back included.                              *)
(***************************************************************************)
EXTENDS SqliteStore, TLAPS

\* The expiry that a job or a row carries is the one its history calls for.
JobsInv == \A c \in Calls : jobs[c].op = "put" => jobs[c].expires_at = jobs[c].lives

RowsInv == \A e \in Stored : rows[e].expires_at = rows[e].lives

\* Without silent overflow a token expires at the end of its TTL, from the call
\* that computes the expiry to the row that holds it.
IInv ==
    /\ now \in Clock /\ ttl \in Ttls
    /\ JobsInv
    /\ RowsInv

LEMMA ClockIsNat == Clock \subseteq Nat
    BY SqliteAssumption DEF Clock

LEMMA InitIInv == Init => IInv
<1> SUFFICES ASSUME Init PROVE IInv
    OBVIOUS
<1>1. JobsInv
    BY DEF Init, JobsInv, Idle
<1>2. RowsInv
    BY DEF Init, RowsInv, Stored
<1>3. QED
    BY <1>1, <1>2 DEF Init, IInv

\* No TTL leads beyond the last timestamp.
NoWrap == \A x \in Ttls : x = NoTtl \/ MaxNow + x <= MaxInt

LEMMA StepIInv ==
    ASSUME OverflowChecks \/ NoWrap, IInv, [Next]_sqliteVars
    PROVE  IInv'
<1> USE DEF IInv
<1>1. ASSUME NEW c \in Calls, NEW job, Submit(c, job),
             job.op = "put" => job.expires_at = job.lives
      PROVE  IInv'
    <2>1. /\ \A d \in Calls : jobs'[d] = job \/ jobs'[d] = jobs[d]
          /\ UNCHANGED <<now, ttl, rows>>
        BY <1>1 DEF Submit
    <2>2. JobsInv'
        BY <1>1, <2>1 DEF JobsInv
    <2>3. RowsInv'
        BY <2>1 DEF RowsInv, Stored
    <2>4. QED
        BY <2>1, <2>2, <2>3
<1>2. ASSUME NEW c \in Calls, NEW e \in Endpoints, NEW t \in Tokens, CallPut(c, e, t)
      PROVE  IInv'
    <2> DEFINE job == [op |-> "put", endpoint |-> e, token |-> t, expires_at |-> ExpiresAt,
                       lives |-> IF ttl = NoTtl THEN Never ELSE now + ttl]
    <2>1. ExpiresAt = job.lives
        <3>1. CASE ttl = NoTtl
            BY <3>1 DEF ExpiresAt
        <3>2. CASE ttl # NoTtl
            <4>1. now \in Nat /\ ttl \in Nat /\ MaxInt \in Nat
                BY <3>2, ClockIsNat, SqliteAssumption
            <4>2. now + ttl <= MaxInt
                BY <1>2, <3>2, <4>1, SqliteAssumption
                   DEF CallPut, ExpiresAtPanics, NoWrap, Clock
            <4>3. QED
                BY <3>2, <4>2 DEF ExpiresAt, Wrapped
        <3>3. QED
            BY <3>1, <3>2
    <2>2. Submit(c, job)
        BY <1>2 DEF CallPut
    <2>3. job.op = "put" => job.expires_at = job.lives
        BY <2>1
    <2> HIDE DEF job
    <2>4. QED
        BY <1>1, <2>2, <2>3
<1>3. ASSUME NEW c \in Calls, NEW e \in Endpoints, CallRemove(c, e) PROVE IInv'
    BY <1>1, <1>3 DEF CallRemove
<1>4. ASSUME NEW c \in Calls, CallClear(c) \/ CallCleanup(c) PROVE IInv'
    BY <1>1, <1>4 DEF CallClear, CallCleanup
<1>5. ASSUME NEW c \in Calls, Run(c) PROVE IInv'
    <2>1. UNCHANGED <<now, ttl>> /\ JobsInv'
        BY <1>5 DEF Run, JobsInv, Idle
    <2>2. RowsInv'
        <3>1. CASE Upsert(c)
            BY <3>1 DEF Upsert, RowsInv, JobsInv, Stored
        <3>2. CASE Delete(c)
            BY <3>2 DEF Delete, RowsInv, Stored
        <3>3. CASE DeleteAll(c)
            BY <3>3 DEF DeleteAll, RowsInv, Stored
        <3>4. CASE DeleteExpired(c)
            BY <3>4 DEF DeleteExpired, RowsInv, Stored
        <3>5. QED
            BY <1>5, <3>1, <3>2, <3>3, <3>4 DEF Run
    <2>3. QED
        BY <2>1, <2>2
<1>6. ASSUME NEW c \in Calls, Fail(c) PROVE IInv'
    BY <1>6 DEF Fail, JobsInv, RowsInv, Stored, Idle
<1>7. ASSUME NEW x \in Ttls, Restart(x) PROVE IInv'
    BY <1>7 DEF Restart, JobsInv, RowsInv, Stored, Idle
<1>8. ASSUME NEW d, Tick(d) PROVE IInv'
    BY <1>8 DEF Tick, JobsInv, RowsInv, Stored
<1>9. CASE UNCHANGED sqliteVars
    BY <1>9 DEF sqliteVars, JobsInv, RowsInv, Stored
<1>10. QED
    BY <1>2, <1>3, <1>4, <1>5, <1>6, <1>7, <1>8, <1>9 DEF Next

(* A token is found exactly until the TTL of the call that put it has run   *)
(* out (store.rs:102): in a build with overflow checks, and in one without  *)
(* when no TTL leads beyond the last timestamp.                             *)
THEOREM SqliteExpiry ==
    ASSUME OverflowChecks \/ NoWrap
    PROVE  Spec => []FoundUntilTtl
<1>1. IInv => FoundUntilTtl
    BY DEF IInv, RowsInv, FoundUntilTtl, Visible, Live
<1>2. IInv /\ [Next]_sqliteVars => IInv'
    BY StepIInv
<1>3. QED
    BY <1>1, <1>2, InitIInv, PTL DEF Spec

-----------------------------------------------------------------------------

\* TypeOK, and that each call has its job.
TypeInv == TypeOK /\ DOMAIN jobs = Calls

LEMMA InitTypeInv == Init => TypeInv
    BY DEF Init, TypeInv, TypeOK, Stored, Jobs, Idle

\* The job of a put is well typed, whether or not its expiry wrapped around.
LEMMA PutJobType ==
    ASSUME TypeInv, NEW e \in Endpoints, NEW t \in Tokens
    PROVE  [op |-> "put", endpoint |-> e, token |-> t, expires_at |-> ExpiresAt,
            lives |-> IF ttl = NoTtl THEN Never ELSE now + ttl] \in Jobs
<1>1. /\ ExpiresAt \in Instants \cup {Never}
      /\ (IF ttl = NoTtl THEN Never ELSE now + ttl) \in Lives \cup {Never}
    <2>1. CASE ttl = NoTtl
        BY <2>1 DEF ExpiresAt
    <2>2. CASE ttl # NoTtl
        <3>1. /\ now \in Nat /\ MaxNow \in Nat /\ MaxInt \in Nat /\ ttl \in Nat
              /\ now <= MaxNow /\ MaxNow <= MaxInt /\ ttl <= MaxInt
            BY <2>2, SqliteAssumption DEF TypeInv, TypeOK, Clock
        <3>2. Wrapped(now + ttl) \in Instants /\ now + ttl \in Lives
            BY <3>1 DEF Wrapped, Instants, Lives
        <3>3. QED
            BY <2>2, <3>2 DEF ExpiresAt
    <2>3. QED
        BY <2>1, <2>2
<1>2. QED
    BY <1>1 DEF Jobs

LEMMA SubmitTypeInv ==
    ASSUME TypeInv, NEW c \in Calls, NEW job \in Jobs, Submit(c, job)
    PROVE  TypeInv'
    BY DEF TypeInv, TypeOK, Submit, Stored

LEMMA RunTypeInv ==
    ASSUME TypeInv, NEW c \in Calls, Run(c)
    PROVE  TypeInv'
<1> USE DEF TypeInv, TypeOK, Stored
<1>1. DOMAIN jobs' = Calls /\ \A d \in Calls : jobs'[d] \in Jobs
    BY DEF Run, Idle, Jobs
<1>2. CASE Upsert(c)
    <2>1. jobs[c] \in [op : {"put"}, endpoint : Endpoints, token : Tokens,
                       expires_at : Instants \cup {Never}, lives : Lives \cup {Never}]
        BY <1>2 DEF Upsert, Jobs
    <2>2. QED
        BY <1>1, <1>2, <2>1 DEF Upsert, Run
<1>3. CASE Delete(c)
    BY <1>1, <1>3 DEF Delete, Run
<1>4. CASE DeleteAll(c)
    BY <1>1, <1>4 DEF DeleteAll, Run
<1>5. CASE DeleteExpired(c)
    BY <1>1, <1>5 DEF DeleteExpired, Run
<1>6. QED
    BY <1>2, <1>3, <1>4, <1>5 DEF Run

LEMMA StepTypeInv ==
    ASSUME TypeInv, [Next]_sqliteVars
    PROVE  TypeInv'
<1>1. ASSUME NEW c \in Calls, NEW e \in Endpoints, NEW t \in Tokens, CallPut(c, e, t)
      PROVE  TypeInv'
    BY <1>1, PutJobType, SubmitTypeInv DEF CallPut
<1>2. ASSUME NEW c \in Calls, NEW e \in Endpoints, CallRemove(c, e) PROVE TypeInv'
    <2>1. [op |-> "remove", endpoint |-> e] \in Jobs
        BY DEF Jobs
    <2>2. QED
        BY <1>2, <2>1, SubmitTypeInv DEF CallRemove
<1>3. ASSUME NEW c \in Calls, CallClear(c) \/ CallCleanup(c) PROVE TypeInv'
    <2>1. [op |-> "clear"] \in Jobs /\ [op |-> "cleanup_expired"] \in Jobs
        BY DEF Jobs
    <2>2. QED
        BY <1>3, <2>1, SubmitTypeInv DEF CallClear, CallCleanup
<1>4. ASSUME NEW c \in Calls, Run(c) PROVE TypeInv'
    BY <1>4, RunTypeInv
<1>5. ASSUME NEW c \in Calls, Fail(c) PROVE TypeInv'
    BY <1>5 DEF Fail, TypeInv, TypeOK, Stored, Idle, Jobs
<1>6. ASSUME NEW x \in Ttls, Restart(x) PROVE TypeInv'
    BY <1>6 DEF Restart, TypeInv, TypeOK, Stored, Idle, Jobs
<1>7. ASSUME NEW d, Tick(d) PROVE TypeInv'
    BY <1>7 DEF Tick, TypeInv, TypeOK, Stored
<1>8. CASE UNCHANGED sqliteVars
    BY <1>8 DEF sqliteVars, TypeInv, TypeOK, Stored
<1>9. QED
    BY <1>1, <1>2, <1>3, <1>4, <1>5, <1>6, <1>7, <1>8 DEF Next

(* The clock, the TTL, the rows and the jobs keep their types: an expiry    *)
(* that wraps around stays within the timestamps, whatever the TTL.         *)
THEOREM SqliteTypeCorrect == Spec => []TypeOK
<1>1. TypeInv => TypeOK
    BY DEF TypeInv
<1>2. QED
    BY <1>1, InitTypeInv, StepTypeInv, PTL DEF Spec

-----------------------------------------------------------------------------

\* The expiry of a row can be compared with the clock.
LEMMA ExpiryIsInt ==
    ASSUME TypeInv, NEW e \in Stored
    PROVE  now \in Int /\ rows[e].expires_at \in Int \cup {Never}
    BY SqliteAssumption DEF TypeInv, TypeOK, Clock, Instants

\* Deleting what has expired changes the answer of no lookup.
LEMMA DeleteExpiredIsInvisible ==
    ASSUME TypeInv, NEW c \in Calls, DeleteExpired(c), now' = now, NEW e \in Endpoints
    PROVE  Get(e)' = Get(e)
<1>1. /\ Stored' = {x \in Stored : ~(rows[x].expires_at # Never
                                     /\ rows[x].expires_at <= now)}
      /\ \A x \in Stored' : rows'[x] = rows[x]
    BY DEF DeleteExpired, Stored
<1>2. \A x \in Stored : Live(rows[x]) <=> x \in Stored'
    BY <1>1, ExpiryIsInt, SqliteAssumption DEF Live
<1>3. \A x \in Stored' : x \in Stored /\ (Live(rows[x])' <=> Live(rows[x]))
    BY <1>1 DEF Live
<1>4. e \in Visible' <=> e \in Visible
    BY <1>2, <1>3 DEF Visible
<1>5. CASE e \in Visible
    BY <1>1, <1>4, <1>5 DEF Get, Visible
<1>6. QED
    BY <1>4, <1>5 DEF Get

\* The statement that runs is the one of the job.
LEMMA RunOfJob ==
    ASSUME NEW c \in Calls, Run(c)
    PROVE  /\ jobs[c].op = "put" => Upsert(c)
           /\ jobs[c].op = "remove" => Delete(c)
           /\ jobs[c].op = "clear" => DeleteAll(c)
           /\ jobs[c].op = "cleanup_expired" => DeleteExpired(c)
           /\ now' = now
    BY DEF Run, Upsert, Delete, DeleteAll, DeleteExpired

(* cleanup_expired deletes only what no lookup would find: it changes the   *)
(* answer of none (store.rs:111), with every clock and every overflow.      *)
THEOREM SqliteCleanup == Spec => CleanupIsInvisible
<1>1. TypeInv /\ [Next]_sqliteVars =>
        \A c \in Calls : Run(c) /\ jobs[c].op = "cleanup_expired" =>
            \A e \in Endpoints : Get(e)' = Get(e)
    BY RunOfJob, DeleteExpiredIsInvisible
<1>2. QED
    BY <1>1, InitTypeInv, StepTypeInv, PTL DEF Spec, CleanupIsInvisible


-----------------------------------------------------------------------------

\* A put whose token is still alive is a put of the port that evicts nothing.
LEMMA UpsertIsPut ==
    ASSUME TypeInv, NEW c \in Calls, Upsert(c), now' = now, Live(jobs[c])
    PROVE  Store!StorePut(jobs[c].endpoint, jobs[c].token)
<1>0. PICK put : put = jobs[c].endpoint
    OBVIOUS
<1>1. /\ Stored' = Stored \cup {put}
      /\ \A x \in Stored' : x # put => rows'[x] = rows[x]
      /\ rows'[put].token = jobs[c].token /\ rows'[put].expires_at = jobs[c].expires_at
    BY <1>0 DEF Upsert, Stored
<1>2. put \in Visible' /\ Get(put)' = jobs[c].token
    BY <1>1 DEF Visible, Live, Get
<1>3. \A x \in Endpoints : x # put => Get(x)' = Get(x)
    BY <1>1 DEF Get, Visible, Live
<1>4. Lookups' = [x \in Endpoints |-> IF x = put THEN jobs[c].token
                                      ELSE IF x \in {} THEN NoToken ELSE Lookups[x]]
    BY <1>2, <1>3 DEF Lookups
<1>5. {} \in SUBSET (Endpoints \ {put})
    OBVIOUS
<1>6. QED
    BY <1>0, <1>4, <1>5 DEF Store!StorePut

\* One whose token has expired before its job runs makes the port forget.
LEMMA LateUpsertForgets ==
    ASSUME TypeInv, NEW c \in Calls, Upsert(c), now' = now, ~Live(jobs[c])
    PROVE  Store!StoreNext
<1>0. PICK put : put = jobs[c].endpoint
    OBVIOUS
<1>1. /\ Stored' = Stored \cup {put}
      /\ \A x \in Stored' : x # put => rows'[x] = rows[x]
      /\ rows'[put].expires_at = jobs[c].expires_at
    BY <1>0 DEF Upsert, Stored
<1>2. put \notin Visible'
    BY <1>1 DEF Visible, Live
<1>3. Get(put)' = NoToken
    BY <1>2 DEF Get
<1>4. \A x \in Endpoints : x # put => Get(x)' = Get(x)
    BY <1>1 DEF Get, Visible, Live
<1>5. put \in Endpoints
    BY <1>0 DEF TypeInv, TypeOK, Jobs, Upsert
<1>6. Lookups' = [x \in Endpoints |-> IF x \in {put} THEN NoToken ELSE Lookups[x]]
    BY <1>3, <1>4 DEF Lookups
<1>7. {put} \in SUBSET Endpoints
    BY <1>5
<1>8. QED
    BY <1>6, <1>7 DEF Store!StoreForget, Store!StoreNext

LEMMA DeleteIsRemove ==
    ASSUME NEW c \in Calls, Delete(c), now' = now
    PROVE  Store!StoreRemove(jobs[c].endpoint)
<1>0. PICK removed : removed = jobs[c].endpoint
    OBVIOUS
<1>1. /\ Stored' = Stored \ {removed}
      /\ \A x \in Stored' : rows'[x] = rows[x]
    BY <1>0 DEF Delete, Stored
<1>2. Get(removed)' = NoToken
    BY <1>1 DEF Get, Visible
<1>3. \A x \in Endpoints : x # removed => Get(x)' = Get(x)
    BY <1>1 DEF Get, Visible, Live
<1>4. Lookups' = [Lookups EXCEPT ![removed] = NoToken]
    BY <1>2, <1>3 DEF Lookups
<1>5. QED
    BY <1>0, <1>4 DEF Store!StoreRemove

LEMMA DeleteAllIsClear ==
    ASSUME NEW c \in Calls, DeleteAll(c)
    PROVE  Store!StoreClear
<1>1. Stored' = {}
    BY DEF DeleteAll, Stored
<1>2. QED
    BY <1>1 DEF Store!StoreClear, Lookups, Get, Visible

\* What leaves rows and clock alone leaves the answers alone.
LEMMA SameAnswers ==
    ASSUME UNCHANGED <<now, rows>>
    PROVE  UNCHANGED Lookups
    BY DEF Lookups, Get, Visible, Live, Stored

LEMMA CleanupKeepsAnswers ==
    ASSUME TypeInv, NEW c \in Calls, DeleteExpired(c), now' = now
    PROVE  UNCHANGED Lookups
    BY DeleteExpiredIsInvisible DEF Lookups

\* The clock that moves on takes tokens away, and only that.
LEMMA TickForgets ==
    ASSUME TypeInv, NEW d \in Nat, Tick(d)
    PROVE  Store!StoreNext
<1> DEFINE gone == Endpoints \ Visible'
<1>1. /\ rows' = rows /\ Stored' = Stored
      /\ now \in Int /\ now' = now + d
    BY SqliteAssumption DEF Tick, TypeInv, TypeOK, Clock, Stored
<1>2. \A x \in Stored : Live(rows[x])' => Live(rows[x])
    BY <1>1, ExpiryIsInt DEF Live
<1>3. Visible' \subseteq Visible
    BY <1>1, <1>2 DEF Visible
<1>4. \A x \in Endpoints : Get(x)' = IF x \in gone THEN NoToken ELSE Get(x)
    BY <1>1, <1>3 DEF Get
<1>5. gone \in SUBSET Endpoints
    OBVIOUS
<1> HIDE DEF gone
<1>6. Lookups' = [x \in Endpoints |-> IF x \in gone THEN NoToken ELSE Lookups[x]]
    BY <1>4 DEF Lookups
<1>7. QED
    BY <1>5, <1>6 DEF Store!StoreForget, Store!StoreNext

LEMMA StepImplementsStore ==
    ASSUME TypeInv, [Next]_sqliteVars
    PROVE  Store!StoreNext \/ SetBack \/ UNCHANGED Lookups
<1>1. ASSUME NEW c \in Calls, NEW job, Submit(c, job) PROVE UNCHANGED Lookups
    BY <1>1, SameAnswers DEF Submit
<1>2. ASSUME NEW c \in Calls, Run(c) PROVE Store!StoreNext \/ UNCHANGED Lookups
    <2>1. now' = now
        BY <1>2 DEF Run
    <2>2. CASE Upsert(c)
        <3>1. CASE Live(jobs[c])
            <4>1. jobs[c].endpoint \in Endpoints /\ jobs[c].token \in Tokens
                BY <2>2 DEF TypeInv, TypeOK, Jobs, Upsert
            <4>2. QED
                BY <2>1, <2>2, <3>1, <4>1, UpsertIsPut DEF Store!StoreNext
        <3>2. QED
            BY <2>1, <2>2, <3>1, LateUpsertForgets
    <2>3. CASE Delete(c)
        <3>1. jobs[c].endpoint \in Endpoints
            BY <2>3 DEF TypeInv, TypeOK, Jobs, Delete
        <3>2. QED
            BY <2>1, <2>3, <3>1, DeleteIsRemove DEF Store!StoreNext
    <2>4. CASE DeleteAll(c)
        BY <2>4, DeleteAllIsClear DEF Store!StoreNext
    <2>5. CASE DeleteExpired(c)
        BY <2>1, <2>5, CleanupKeepsAnswers
    <2>6. QED
        BY <1>2, <2>2, <2>3, <2>4, <2>5 DEF Run
<1>3. ASSUME NEW c \in Calls, Fail(c) PROVE UNCHANGED Lookups
    BY <1>3, SameAnswers DEF Fail
<1>4. ASSUME NEW x \in Ttls, Restart(x) PROVE UNCHANGED Lookups
    BY <1>4, SameAnswers DEF Restart
<1>5. ASSUME NEW d \in Steps, Tick(d) PROVE Store!StoreNext
    BY <1>5, TickForgets, SqliteAssumption
<1>6. CASE UNCHANGED sqliteVars
    BY <1>6, SameAnswers DEF sqliteVars
<1>7. QED
    BY <1>1, <1>2, <1>3, <1>4, <1>5, <1>6
       DEF Next, CallPut, CallRemove, CallClear, CallCleanup, SetBack

\* The port's action that the job of a call stands for.
LEMMA RunIsTheOperation ==
    ASSUME TypeInv, NEW c \in Calls, Run(c)
    PROVE  LET job == jobs[c] IN
           /\ job.op = "put" /\ Live(job) => Store!StorePut(job.endpoint, job.token)
           /\ job.op = "remove" => Store!StoreRemove(job.endpoint)
           /\ job.op = "clear" => Store!StoreClear
    BY RunOfJob, UpsertIsPut, DeleteIsRemove, DeleteAllIsClear

LEMMA InitImplementsStore == Init => Store!StoreInit
    BY DEF Init, Store!StoreInit, Lookups, Get, Visible, Stored

(* The persistent store implements the port, but for a clock that is set    *)
(* back; each job is the operation of the port its call asked for; and a    *)
(* restart, with whatever TTL, leaves every answer as it was (store.rs:18). *)
THEOREM SqliteRefinement == Spec => ImplementsStore
<1>1. TypeInv /\ [Next]_sqliteVars =>
        [Store!StoreNext \/ SetBack]_Lookups
    BY StepImplementsStore
<1>2. TypeInv /\ [Next]_sqliteVars =>
        \A c \in Calls : Run(c) =>
            LET job == jobs[c] IN
            /\ job.op = "put" /\ Live(job) => Store!StorePut(job.endpoint, job.token)
            /\ job.op = "remove" => Store!StoreRemove(job.endpoint)
            /\ job.op = "clear" => Store!StoreClear
    BY RunIsTheOperation
<1>3. \A x \in Ttls : Restart(x) => UNCHANGED Lookups
    BY SameAnswers DEF Restart
<1>4. QED
    BY <1>1, <1>2, <1>3, InitImplementsStore, InitTypeInv, StepTypeInv, PTL
       DEF Spec, ImplementsStore

=============================================================================
