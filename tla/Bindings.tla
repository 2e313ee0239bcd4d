------------------------------ MODULE Bindings ------------------------------
(***************************************************************************)
(* The bindings of the client: the C functions, the Go package built on    *)
(* them, the Python module and the WebAssembly one.  Callers are C threads, *)
(* goroutines, Python threads or asynchronous functions of JavaScript.  All *)
(* but the last block: a call into Rust occupies an operating system       *)
(* thread; C and Python callers have one each, a goroutine runs on another *)
(* one whenever the scheduler likes.                                       *)
(***************************************************************************)
EXTENDS Naturals, FiniteSets

CONSTANTS
    Callers,          \* and their threads, which have the same names
    Servers, Clients, Backends, \* handles, each made and freed at most once
    None, Stale       \* no error, and one of a call that is over

ASSUME BindingsAssumption ==
    /\ IsFiniteSet(Callers) /\ IsFiniteSet(Clients)
    /\ None \notin Callers /\ Stale \notin Callers
    /\ Clients \cap (Servers \cup Backends) = {}

Handles == Servers \cup Clients \cup Backends
Threads == Callers

Languages == {"c", "go", "python", "wasm"}

VARIABLES
    language,
    insideServer,  \* TRUE if requests are answered by Python or JavaScript of this process
    thread,        \* that each caller runs on, or ran on last
    lastError,     \* LAST_ERROR of each thread: the caller whose call failed
    interpreter,   \* the caller that holds the lock of Python's interpreter
    call,          \* of each caller: [op, handle, step, failed]
    outcome,       \* what its last call returned
    object,        \* behind each handle: "none", "live", "freed", "freed_twice"
    pointer,       \* in the caller's hands: "none", "set", "closing", "nil", "dropped"
    misused        \* history: the handles closed while a call, or another
                   \* close, had them, or used while they were being closed

vars == <<language, insideServer, thread, lastError, interpreter, call, outcome,
          object, pointer, misused>>

ClientOps  == {"get", "post", "receipts", "total_spent"}
BackendOps == {"pay_invoice", "get_balance", "get_info"}
Idle       == [op |-> "get", handle |-> None, step |-> "idle", failed |-> FALSE]

UsedBy(h) == {c \in Callers : call[c].step # "idle" /\ call[c].handle = h}

-----------------------------------------------------------------------------
Init ==
    /\ language \in Languages
    /\ insideServer \in (IF language \in {"python", "wasm"} THEN BOOLEAN ELSE {FALSE})
    /\ thread = [c \in Callers |-> c]
    /\ lastError = [t \in Threads |-> None]
    /\ interpreter = None
    /\ call = [c \in Callers |-> Idle]
    /\ outcome = [c \in Callers |-> "none"]
    /\ object = [h \in Handles |-> "none"]
    /\ pointer = [h \in Handles |-> "none"]
    /\ misused = {}

(* A thread runs one call at a time.                                       *)
Free(t, c) == \A d \in Callers \ {c} : call[d].step # "inside" \/ thread[d] # t
ThreadsFor(c) == IF language = "go" THEN {t \in Threads : Free(t, c)} ELSE {c}

ClearError(t) == lastError' = [lastError EXCEPT ![t] = None]
SetError(t, c) == lastError' = [lastError EXCEPT ![t] = c]

Inside(c, op, h, t) ==
    /\ call' = [call EXCEPT ![c] = [op |-> op, handle |-> h, step |-> "inside", failed |-> FALSE]]
    /\ thread' = [thread EXCEPT ![c] = t]
    /\ outcome' = [outcome EXCEPT ![c] = "none"]

(* Go answers what it can tell without a call.                             *)
Refuse(c, failed) ==
    /\ call[c].step = "idle" /\ language = "go"
    /\ call' = [call EXCEPT ![c].failed = failed]
    /\ outcome' = [outcome EXCEPT ![c] = IF failed THEN "own" ELSE "ok"]
    /\ UNCHANGED <<language, insideServer, thread, lastError, interpreter, object, pointer,
                   misused>>

Misuse(h, how) == misused' = IF how THEN misused \cup {h} ELSE misused

(* Neither the C functions nor Go's methods can tell a pointer whose object *)
(* another caller has just freed: Close frees it and then sets it to nil.  *)
Uses(h) == pointer[h] \in {"set", "closing"} /\ Misuse(h, pointer[h] = "closing")

-----------------------------------------------------------------------------
(* The C functions, to the point where they block.                         *)

ServerNew(c, h, t) ==
    /\ object[h] = "none" /\ UsedBy(h) = {}
    /\ Inside(c, "server_new", h, t) /\ ClearError(t) /\ UNCHANGED misused

(* The call works on the server; the client it makes has its own share of  *)
(* the registry.  The bound on clients leaves one to each call under way.  *)
ClientNew(c, s, t) ==
    /\ Uses(s)
    /\ Cardinality({h \in Clients : object[h] = "none"})
         > Cardinality({d \in Callers : call[d].op = "client_new"})
    /\ Inside(c, "client_new", s, t) /\ ClearError(t)

ClientGet(c, h, t)  == Inside(c, "get", h, t) /\ ClearError(t)
ClientPost(c, h, t) == Inside(c, "post", h, t) /\ ClearError(t)
Receipts(c, h, t)   == Inside(c, "receipts", h, t) /\ ClearError(t)
TotalSpent(c, h, t) == Inside(c, "total_spent", h, t) /\ UNCHANGED lastError

FfiCall(c) ==
    /\ language \in {"c", "go"} /\ call[c].step = "idle"
    /\ \E t \in ThreadsFor(c) :
        \/ \E h \in Servers : ServerNew(c, h, t) \/ ClientNew(c, h, t)
        \/ \E h \in Clients :
            /\ Uses(h)
            /\ ClientGet(c, h, t) \/ ClientPost(c, h, t) \/ Receipts(c, h, t)
                 \/ TotalSpent(c, h, t)
    /\ UNCHANGED <<language, insideServer, interpreter, object, pointer>>

(* Go's methods with a client or a server that is closed: most are an      *)
(* error, but a closed client has spent 0 and a closed server's URL is "".  *)
GoClosed(c) ==
    \E h \in Servers \cup Clients, failed \in BOOLEAN :
        pointer[h] = "nil" /\ Refuse(c, failed)

-----------------------------------------------------------------------------
(* Where they come back.                                                   *)

Back(c, failed) ==
    call' = [call EXCEPT ![c].step = IF language \in {"c", "go"} THEN "returned" ELSE "leaving",
                         ![c].failed = failed]

Make(h) == object' = [object EXCEPT ![h] = "live"] /\ pointer' = [pointer EXCEPT ![h] = "set"]

(* Each path that returns null has set the error of its thread.  In Python *)
(* and JavaScript an error is an exception.                                *)
Fail(c) ==
    /\ Back(c, TRUE)
    /\ IF language \in {"c", "go"} THEN SetError(thread[c], c) ELSE UNCHANGED lastError

ServerBuilt(c) ==
    /\ call[c].op = "server_new"
    /\ \/ Back(c, FALSE) /\ Make(call[c].handle) /\ UNCHANGED lastError
       \/ Fail(c) /\ UNCHANGED <<object, pointer>>

ClientBuilt(c) ==
    /\ call[c].op = "client_new"
    /\ \/ /\ \E h \in Clients : object[h] = "none" /\ Make(h)
          /\ Back(c, FALSE) /\ UNCHANGED lastError
       \/ Fail(c) /\ UNCHANGED <<object, pointer>>

(* Mutant: the runtime takes the lock of the interpreter to answer.        *)
AnswerableUnlocked(c) == interpreter = None

(* An answer from outside does not wait for the interpreter.               *)
Answerable(c) == ~insideServer \/ interpreter = None

(* convert_response.  A body that cannot be read is an empty one, but for  *)
(* WebAssembly an error, even of a request that was paid.                  *)
Responded(c) ==
    /\ call[c].op \in {"get", "post"} \cup BackendOps /\ Answerable(c)
    /\ (Back(c, FALSE) /\ UNCHANGED lastError) \/ Fail(c)
    /\ UNCHANGED <<object, pointer>>

Read(c) ==
    /\ call[c].op \in {"receipts", "total_spent"}
    /\ Back(c, FALSE)
    /\ UNCHANGED <<lastError, object, pointer>>

Return(c) ==
    /\ call[c].step = "inside"
    /\ ServerBuilt(c) \/ ClientBuilt(c) \/ Responded(c) \/ Read(c)
    /\ UNCHANGED <<language, insideServer, thread, interpreter, outcome, misused>>

-----------------------------------------------------------------------------
Leave(c, got) ==
    /\ call' = [call EXCEPT ![c] = [Idle EXCEPT !.failed = call[c].failed]]
    /\ outcome' = [outcome EXCEPT ![c] = got]

(* bolt402_last_error_message, which in Go may run on another thread, or on *)
(* the same one after another goroutine.  Go has a fallback for no message. *)
LastError(c) ==
    /\ call[c].step = "returned" /\ call[c].failed
    /\ \E t \in ThreadsFor(c) :
        /\ thread' = [thread EXCEPT ![c] = t]
        /\ Leave(c, IF lastError[t] = c THEN "own"
                    ELSE IF lastError[t] = None THEN "unexplained" ELSE "other")
    /\ lastError' = [t \in Threads |-> IF lastError[t] = c THEN Stale ELSE lastError[t]]
    /\ UNCHANGED <<language, insideServer, interpreter, object, pointer, misused>>

(* The parts of a response are copied before it is freed.                  *)
ExtractResponse(c) ==
    /\ call[c].step = "returned" /\ ~call[c].failed
    /\ Leave(c, "ok")
    /\ UNCHANGED <<language, insideServer, thread, lastError, interpreter, object, pointer,
                   misused>>

-----------------------------------------------------------------------------
(* The methods of the Python and the WebAssembly module.                   *)

MethodCall(c) ==
    \/ \E h \in Clients, op \in ClientOps   : pointer[h] = "set" /\ Inside(c, op, h, c)
    \/ \E h \in Backends, op \in BackendOps : pointer[h] = "set" /\ Inside(c, op, h, c)

(* A Python method holds the interpreter until it returns.                 *)
PyCall(c) ==
    /\ language = "python" /\ call[c].step = "idle" /\ interpreter = None
    /\ interpreter' = c
    /\ MethodCall(c)
    /\ UNCHANGED <<language, insideServer, lastError, object, pointer, misused>>

(* A method of JavaScript is a future: others run wherever it waits.       *)
WasmCall(c) ==
    /\ language = "wasm" /\ call[c].step = "idle"
    /\ MethodCall(c)
    /\ UNCHANGED <<language, insideServer, lastError, interpreter, object, pointer, misused>>

(* Constructors, which make no request: a client or a backend is made, or  *)
(* an exception says why not.                                              *)
New(c, handles) ==
    /\ call[c].step = "idle" /\ interpreter = None
    /\ \/ \E h \in handles : object[h] = "none" /\ Make(h)
          /\ outcome' = [outcome EXCEPT ![c] = "ok"]
          /\ call' = [call EXCEPT ![c].failed = FALSE]
       \/ /\ outcome' = [outcome EXCEPT ![c] = "own"]
          /\ call' = [call EXCEPT ![c].failed = TRUE]
          /\ UNCHANGED <<object, pointer>>
    /\ UNCHANGED <<language, insideServer, thread, lastError, interpreter, misused>>

PyNewClient(c)    == language = "python" /\ New(c, Clients)
PyNewBackend(c)   == language = "python" /\ New(c, Backends)
WasmNewClient(c)  == language = "wasm" /\ New(c, Clients)
WasmNewBackend(c) == language = "wasm" /\ New(c, Backends)

PyReturn(c) ==
    /\ language = "python" /\ call[c].step = "leaving"
    /\ interpreter' = None
    /\ Leave(c, IF call[c].failed THEN "own" ELSE "ok")
    /\ UNCHANGED <<language, insideServer, thread, lastError, object, pointer, misused>>

WasmReturn(c) ==
    /\ language = "wasm" /\ call[c].step = "leaving"
    /\ Leave(c, IF call[c].failed THEN "own" ELSE "ok")
    /\ UNCHANGED <<language, insideServer, thread, lastError, interpreter, object, pointer,
                   misused>>

-----------------------------------------------------------------------------
(* Handles.                                                                *)

Drop(h) == object' = [object EXCEPT ![h] = IF @ = "live" THEN "freed" ELSE "freed_twice"]

(* Mutant: the pointer stays.                                              *)
CloseKeepingPointer(h) == Drop(h) /\ UNCHANGED pointer

(* Close frees the object.  Until Forget its pointer is still there.       *)
Close(h) == Drop(h) /\ pointer' = [pointer EXCEPT ![h] = "closing"]

Others == <<language, insideServer, thread, lastError, interpreter, call, outcome>>

(* Close takes no lock and checks for no call under way, and neither do the *)
(* C functions: that is left to the callers.                               *)
CloseHandle(h) ==
    /\ language \in {"c", "go"} /\ pointer[h] \in {"set", "closing"}
    /\ Close(h)
    /\ Misuse(h, pointer[h] = "closing" \/ UsedBy(h) # {})
    /\ UNCHANGED Others

(* The end of Close: another one does nothing.                             *)
Forget(h) ==
    /\ pointer[h] = "closing"
    /\ pointer' = [pointer EXCEPT ![h] = "nil"]
    /\ UNCHANGED <<object, misused, Others>>

(* The garbage collector runs the finalizer, which is Close, of a wrapper  *)
(* that nobody holds; those of Python and JavaScript drop the object.  A   *)
(* call of those holds the object; Go's methods hold nothing but the C     *)
(* pointer while C runs, so that the last call of a client may lose it.    *)
Finalize(h) ==
    /\ language # "c" /\ pointer[h] \in {"set", "nil"}
    /\ language # "go" => UsedBy(h) = {}
    /\ IF pointer[h] = "set" THEN Drop(h) ELSE UNCHANGED object
    /\ pointer' = [pointer EXCEPT ![h] = "dropped"]
    /\ UNCHANGED <<misused, Others>>

Step(c) ==
    Return(c) \/ LastError(c) \/ ExtractResponse(c) \/ PyReturn(c) \/ WasmReturn(c)

Next ==
    \/ \E c \in Callers :
        \/ FfiCall(c) \/ GoClosed(c) \/ PyCall(c) \/ WasmCall(c) \/ Step(c)
        \/ PyNewClient(c) \/ PyNewBackend(c) \/ WasmNewClient(c) \/ WasmNewBackend(c)
    \/ \E h \in Handles : CloseHandle(h) \/ Forget(h) \/ Finalize(h)

(* Servers answer or fail, and threads run.                                *)
Fairness == \A c \in Callers : WF_vars(Step(c))

Spec == Init /\ [][Next]_vars /\ Fairness

-----------------------------------------------------------------------------
(* A caller learns how its call ended: success is success, and a failure   *)
(* comes with the error of that very call, never with one that another     *)
(* call left or with none (docs/design/042-go-bindings.md:70).             *)
ErrorReachesCaller ==
    \A c \in Callers :
        /\ outcome[c] = "ok" => ~call[c].failed
        /\ outcome[c] \notin {"other", "unexplained"}

Works(c) == call[c].step = "inside" /\ call[c].op # "server_new"

(* A handle that its callers do not close while a call or another close has *)
(* it is freed once, by Close or the finalizer, before or after the client  *)
(* made from it (bolt402.go:217, lib.rs:207); and no call works on a freed  *)
(* object but for one case: Go's finalizer frees it under the last call of  *)
(* a wrapper that nobody holds any more (bolt402.go:154, no KeepAlive).     *)
HandlesOutliveCalls ==
    \A h \in Handles \ misused :
        /\ object[h] # "freed_twice"
        /\ \A c \in UsedBy(h) : Works(c) =>
                object[h] = "live" \/ (language = "go" /\ pointer[h] = "dropped")

(* Every call returns, unless a thread of the same Python interpreter would *)
(* have to answer it: nobody waits for anybody's call (python lib.rs:705). *)
(* In JavaScript a server of the same process is no exception.             *)
BlockedCallsReturn ==
    \/ insideServer /\ language = "python"
    \/ \A c \in Callers : call[c].step # "idle" ~> call[c].step = "idle"
=============================================================================
