---------------------------- MODULE BindingsProofs ----------------------------
(***************************************************************************)
(* The life time of handles, for any number of callers and handles in each *)
(* of the languages.                                                       *)
(***************************************************************************)
EXTENDS Bindings, FiniteSetTheorems, TLAPS

Ops   == {"server_new", "client_new"} \cup ClientOps \cup BackendOps
Calls == [op : Ops, handle : Handles \cup {None},
          step : {"idle", "inside", "returned", "leaving"}, failed : BOOLEAN]

TypeInv ==
    /\ call \in [Callers -> Calls]
    /\ object \in [Handles -> {"none", "live", "freed", "freed_twice"}]
    /\ pointer \in [Handles -> {"none", "set", "closing", "nil", "dropped"}]

\* Who holds a pointer holds a live object, unless Close is about to forget it;
\* only an object whose callers closed it carelessly is freed twice.
PointerInv == \A h \in Handles :
    /\ pointer[h] = "set" => object[h] = "live"
    /\ pointer[h] = "closing" => object[h] # "none"
    /\ h \notin misused => object[h] # "freed_twice"

\* A call works on a live object, unless Go's finalizer has freed it or its
\* callers have.
Holds(h) ==
    object[h] = "live" \/ h \in misused \/ (language = "go" /\ pointer[h] = "dropped")
CallsInv == \A c \in Callers : Works(c) => Holds(call[c].handle)

IInv == TypeInv /\ PointerInv /\ CallsInv

LEMMA InitIInv == Init => IInv
    BY DEF Init, IInv, TypeInv, PointerInv, CallsInv, Works, Calls, Ops, ClientOps, Idle

-----------------------------------------------------------------------------
\* A call that begins or ends leaves the handles alone.
LEMMA CallChanges ==
    ASSUME IInv, NEW c \in Callers, NEW new \in Calls, call' = [call EXCEPT ![c] = new],
           new.step = "inside" /\ new.op # "server_new" => Holds(new.handle)',
           UNCHANGED <<object, pointer, language>>, misused \subseteq misused'
    PROVE  IInv'
<1> USE DEF IInv
<1>1. TypeInv' /\ PointerInv'
    BY DEF TypeInv, PointerInv
<1>2. ASSUME NEW d \in Callers, Works(d)'
      PROVE  Holds(call[d].handle)'
    <2>1. CASE d = c
        BY <1>2, <2>1 DEF Works, TypeInv
    <2>2. CASE d # c
        BY <1>2, <2>2 DEF Works, TypeInv, CallsInv, Holds
    <2>3. QED
        BY <2>1, <2>2
<1>3. CallsInv'
    BY <1>2 DEF CallsInv
<1>4. QED
    BY <1>1, <1>3

\* An object that is made is live.
LEMMA MakeKeeps ==
    ASSUME IInv, NEW h \in Handles, Make(h), call' \in [Callers -> Calls],
           UNCHANGED <<language, misused>>,
           \A c \in Callers : Works(c)' => Works(c) /\ call'[c].handle = call[c].handle
    PROVE  IInv'
<1> USE DEF IInv
<1>1. TypeInv'
    BY DEF TypeInv, Make
<1>2. PointerInv'
    BY DEF TypeInv, PointerInv, Make
<1>3. ASSUME NEW c \in Callers, Works(c)'
      PROVE  Holds(call[c].handle)'
    BY <1>3 DEF TypeInv, CallsInv, Make, Holds
<1>4. QED
    BY <1>1, <1>2, <1>3 DEF CallsInv

\* A call that is entered.
LEMMA InsideStep ==
    ASSUME IInv, NEW c \in Callers, NEW op \in Ops, NEW h \in Handles, NEW t,
           Inside(c, op, h, t), op # "server_new" => pointer[h] = "set" \/ h \in misused',
           UNCHANGED <<object, pointer, language>>, misused \subseteq misused'
    PROVE  IInv'
<1> DEFINE new == [op |-> op, handle |-> h, step |-> "inside", failed |-> FALSE]
<1>1. new \in Calls /\ call' = [call EXCEPT ![c] = new]
    BY DEF Calls, Inside
<1>2. op # "server_new" => Holds(h)'
    BY DEF IInv, PointerInv, Holds
<1>3. new.op = op /\ new.handle = h
    OBVIOUS
<1> HIDE DEF new
<1>4. QED
    BY <1>1, <1>2, <1>3, CallChanges

LEMMA EnterSteps ==
    ASSUME IInv, NEW c \in Callers, FfiCall(c) \/ PyCall(c) \/ WasmCall(c)
    PROVE  IInv'
<1>1. UNCHANGED <<object, pointer, language>>
    BY DEF FfiCall, PyCall, WasmCall
<1>2. /\ misused \subseteq misused'
      /\ \E op \in Ops, h \in Handles, t \in Threads :
            Inside(c, op, h, t) /\ (op # "server_new" => pointer[h] = "set" \/ h \in misused')
    <2>1. ClientOps \cup BackendOps \subseteq Ops
        BY DEF Ops
    <2>2. {"server_new", "client_new", "get", "post", "receipts", "total_spent"} \subseteq Ops
        BY DEF Ops, ClientOps
    <2>3. Servers \subseteq Handles /\ Clients \subseteq Handles /\ Backends \subseteq Handles
        BY DEF Handles
    <2>4. ASSUME FfiCall(c)
          PROVE  /\ misused \subseteq misused'
                 /\ \E op \in Ops, h \in Handles, t \in Threads :
                        /\ Inside(c, op, h, t)
                        /\ op # "server_new" => pointer[h] = "set" \/ h \in misused'
        <3>1. PICK t \in ThreadsFor(c) :
                \/ \E h \in Servers : ServerNew(c, h, t) \/ ClientNew(c, h, t)
                \/ \E h \in Clients :
                    /\ Uses(h)
                    /\ ClientGet(c, h, t) \/ ClientPost(c, h, t) \/ Receipts(c, h, t)
                         \/ TotalSpent(c, h, t)
            BY <2>4 DEF FfiCall
        <3>2. t \in Threads
            BY DEF ThreadsFor, Threads
        <3>3. ASSUME NEW h, Uses(h)
              PROVE  misused \subseteq misused' /\ (pointer[h] = "set" \/ h \in misused')
            BY <3>3 DEF Uses, Misuse
        <3> HIDE DEF Uses
        <3>4. QED
            BY <2>2, <2>3, <3>1, <3>2, <3>3
               DEF ServerNew, ClientNew, ClientGet, ClientPost, Receipts, TotalSpent
    <2>5. ASSUME MethodCall(c)
          PROVE  \E op \in Ops, h \in Handles, t \in Threads :
                     Inside(c, op, h, t) /\ (op # "server_new" => pointer[h] = "set")
        BY <2>1, <2>3, <2>5 DEF MethodCall, Threads
    <2>6. QED
        BY <2>4, <2>5 DEF PyCall, WasmCall
<1>3. QED
    BY <1>1, <1>2, InsideStep

\* A call whose step or result changes works no more.
LEMMA BackStep ==
    ASSUME TypeInv, NEW c \in Callers, NEW failed \in BOOLEAN, Back(c, failed)
    PROVE  /\ call' \in [Callers -> Calls]
           /\ \A d \in Callers : Works(d)' => Works(d) /\ call'[d].handle = call[d].handle
<1> DEFINE step == IF language \in {"c", "go"} THEN "returned" ELSE "leaving"
           new  == [call[c] EXCEPT !.step = step, !.failed = failed]
<1>1. step \in {"returned", "leaving"}
    OBVIOUS
<1>2. call' = [call EXCEPT ![c] = new]
    BY DEF Back, TypeInv
<1> HIDE DEF step
<1>3. new \in Calls /\ new.step # "inside"
    BY <1>1 DEF TypeInv, Calls
<1> HIDE DEF new
<1>4. call' \in [Callers -> Calls]
    BY <1>2, <1>3 DEF TypeInv
<1>5. ASSUME NEW d \in Callers, Works(d)'
      PROVE  call'[d] = call[d]
    BY <1>2, <1>3, <1>5 DEF Works, TypeInv
<1>6. QED
    BY <1>4, <1>5 DEF Works

LEMMA StillKeeps ==
    ASSUME IInv, call' \in [Callers -> Calls], UNCHANGED <<object, pointer, language, misused>>,
           \A c \in Callers : Works(c)' => Works(c) /\ call'[c].handle = call[c].handle
    PROVE  IInv'
    BY DEF IInv, TypeInv, PointerInv, CallsInv, Holds

LEMMA ReturnStep ==
    ASSUME IInv, NEW c \in Callers, Return(c)
    PROVE  IInv'
<1>1. PICK failed \in BOOLEAN : Back(c, failed)
    BY DEF Return, ServerBuilt, ClientBuilt, Responded, Read, Fail
<1>2. /\ call' \in [Callers -> Calls]
      /\ \A d \in Callers : Works(d)' => Works(d) /\ call'[d].handle = call[d].handle
    BY <1>1, BackStep DEF IInv
<1> UNCHANGED <<language, misused>>
    BY DEF Return
<1>3. CASE UNCHANGED <<object, pointer>>
    BY <1>2, <1>3, StillKeeps
<1>4. ASSUME NEW h \in Handles, Make(h)
      PROVE  IInv'
    BY <1>2, <1>4, MakeKeeps
<1>5. UNCHANGED <<object, pointer>> \/ \E h \in Handles : Make(h)
    <2>1. CASE ServerBuilt(c)
        <3>1. (\E h \in Handles : Make(h)) \/ Make(call[c].handle) \/ UNCHANGED <<object, pointer>>
            BY <2>1 DEF ServerBuilt
        <3>2. ASSUME Make(call[c].handle), call[c].handle \notin Handles
              PROVE  UNCHANGED <<object, pointer>>
            BY <3>2 DEF IInv, TypeInv, Make
        <3>3. QED
            BY <3>1, <3>2
    <2>2. CASE ClientBuilt(c)
        BY <2>2 DEF ClientBuilt, Handles
    <2>3. CASE Responded(c) \/ Read(c)
        BY <2>3 DEF Responded, Read
    <2>4. QED
        BY <2>1, <2>2, <2>3 DEF Return
<1>6. QED
    BY <1>3, <1>4, <1>5

\* A call that is left.
LEMMA LeaveStep ==
    ASSUME IInv, NEW c \in Callers,
           LastError(c) \/ ExtractResponse(c) \/ PyReturn(c) \/ WasmReturn(c)
    PROVE  IInv'
<1> DEFINE new == [Idle EXCEPT !.failed = call[c].failed]
<1>1. call' = [call EXCEPT ![c] = new] /\ UNCHANGED <<object, pointer, language, misused>>
    BY DEF LastError, ExtractResponse, PyReturn, WasmReturn, Leave
<1>2. new \in Calls /\ new.step = "idle"
    BY DEF IInv, TypeInv, Calls, Idle, Ops, ClientOps
<1> HIDE DEF new
<1>3. QED
    BY <1>1, <1>2, CallChanges

\* A constructor.
LEMMA NewStep ==
    ASSUME IInv, NEW c \in Callers, NEW handles, handles \subseteq Handles, New(c, handles)
    PROVE  IInv'
<1> USE DEF IInv
<1>1. PICK failed \in BOOLEAN : call' = [call EXCEPT ![c].failed = failed]
    BY DEF New
<1>2. (\E h \in Handles : Make(h)) \/ UNCHANGED <<object, pointer>>
    BY DEF New
<1>3. call' \in [Callers -> Calls]
    BY <1>1 DEF TypeInv, Calls
<1>4. ASSUME NEW d \in Callers, Works(d)'
      PROVE  Works(d) /\ call'[d].handle = call[d].handle
    BY <1>1, <1>4 DEF TypeInv, Calls, Works
<1>5. UNCHANGED <<language, misused>>
    BY DEF New
<1>6. QED
    BY <1>2, <1>3, <1>4, <1>5, MakeKeeps, StillKeeps

\* What Go answers without a call.
LEMMA RefuseStep ==
    ASSUME IInv, NEW c \in Callers, GoClosed(c)
    PROVE  IInv'
<1>1. PICK failed \in BOOLEAN : call' = [call EXCEPT ![c].failed = failed]
    BY DEF GoClosed, Refuse
<1>2. call' \in [Callers -> Calls]
    BY <1>1 DEF IInv, TypeInv, Calls
<1>3. ASSUME NEW d \in Callers, Works(d)'
      PROVE  Works(d) /\ call'[d].handle = call[d].handle
    BY <1>1, <1>3 DEF IInv, TypeInv, Calls, Works
<1>4. UNCHANGED <<object, pointer, language, misused>>
    BY DEF GoClosed, Refuse
<1>5. QED
    BY <1>2, <1>3, <1>4, StillKeeps

\* A handle whose pointer is set is live when it is freed; one that is freed under
\* a call is closed by careless callers or taken by Go's finalizer.
LEMMA CloseStep ==
    ASSUME IInv, NEW h \in Handles, CloseHandle(h)
    PROVE  IInv'
<1> USE DEF IInv
<1>1. /\ UNCHANGED <<call, language>> /\ pointer[h] \in {"set", "closing"}
      /\ misused \subseteq misused'
      /\ pointer[h] = "closing" \/ UsedBy(h) # {} => h \in misused'
    BY DEF CloseHandle, Misuse, Others
<1>2. /\ object' = [object EXCEPT ![h] = IF @ = "live" THEN "freed" ELSE "freed_twice"]
      /\ pointer' = [pointer EXCEPT ![h] = "closing"]
    BY DEF CloseHandle, Close, Drop
<1>3. TypeInv'
    BY <1>1, <1>2 DEF TypeInv
<1>4. PointerInv'
    <2>1. object'[h] # "none" /\ (object'[h] = "freed_twice" => h \in misused')
        BY <1>1, <1>2 DEF PointerInv, TypeInv
    <2>2. QED
        BY <1>1, <1>2, <2>1 DEF PointerInv, TypeInv
<1>5. ASSUME NEW c \in Callers, Works(c)'
      PROVE  Holds(call[c].handle)'
    <2>1. Works(c)
        BY <1>1, <1>5 DEF Works
    <2>2. CASE call[c].handle = h
        BY <1>1, <2>1, <2>2 DEF Works, UsedBy, Holds
    <2>3. CASE call[c].handle # h
        BY <1>1, <1>2, <2>1, <2>3 DEF TypeInv, CallsInv, Holds
    <2>4. QED
        BY <2>2, <2>3
<1>6. QED
    BY <1>1, <1>3, <1>4, <1>5 DEF CallsInv

LEMMA ForgetStep ==
    ASSUME IInv, NEW h \in Handles, Forget(h)
    PROVE  IInv'
<1> USE DEF IInv
<1>1. UNCHANGED <<call, language, object, misused>> /\ pointer[h] = "closing"
      /\ pointer' = [pointer EXCEPT ![h] = "nil"]
    BY DEF Forget, Others
<1>2. TypeInv' /\ PointerInv'
    BY <1>1 DEF TypeInv, PointerInv
<1>3. ASSUME NEW c \in Callers, Works(c)'
      PROVE  Holds(call[c].handle)'
    BY <1>1, <1>3 DEF TypeInv, CallsInv, Works, Holds
<1>4. QED
    BY <1>1, <1>2, <1>3 DEF CallsInv

LEMMA FinalizeStep ==
    ASSUME IInv, NEW h \in Handles, Finalize(h)
    PROVE  IInv'
<1> USE DEF IInv
<1>1. UNCHANGED <<call, language, misused>> /\ (language # "go" => UsedBy(h) = {})
    BY DEF Finalize, Others
<1>2. /\ object' = [object EXCEPT ![h] = IF pointer[h] = "set" THEN "freed" ELSE object[h]]
      /\ pointer' = [pointer EXCEPT ![h] = "dropped"]
    <2>1. pointer[h] = "set" => object[h] = "live"
        BY DEF PointerInv
    <2>2. QED
        BY <2>1 DEF Finalize, Drop, TypeInv
<1>3. TypeInv' /\ PointerInv'
    BY <1>1, <1>2 DEF TypeInv, PointerInv
<1>4. ASSUME NEW c \in Callers, Works(c)'
      PROVE  Holds(call[c].handle)'
    <2>1. Works(c)
        BY <1>1, <1>4 DEF Works
    <2>2. CASE call[c].handle = h
        <3>1. language = "go"
            BY <1>1, <2>1, <2>2 DEF Works, UsedBy
        <3>2. QED
            BY <1>1, <1>2, <2>2, <3>1 DEF TypeInv, Holds
    <2>3. CASE call[c].handle # h
        BY <1>1, <1>2, <2>1, <2>3 DEF TypeInv, CallsInv, Holds
    <2>4. QED
        BY <2>2, <2>3
<1>5. QED
    BY <1>1, <1>3, <1>4 DEF CallsInv

LEMMA StepIInv ==
    ASSUME IInv, [Next]_vars
    PROVE  IInv'
<1>1. CASE UNCHANGED vars
    BY <1>1 DEF vars, IInv, TypeInv, PointerInv, CallsInv, Works, Holds
<1>2. ASSUME NEW c \in Callers, FfiCall(c) \/ PyCall(c) \/ WasmCall(c)
      PROVE  IInv'
    BY <1>2, EnterSteps
<1>3. ASSUME NEW c \in Callers, GoClosed(c)
      PROVE  IInv'
    BY <1>3, RefuseStep
<1>4. ASSUME NEW c \in Callers, Step(c)
      PROVE  IInv'
    BY <1>4, ReturnStep, LeaveStep DEF Step
<1>5. ASSUME NEW c \in Callers, \/ PyNewClient(c) \/ PyNewBackend(c)
                                \/ WasmNewClient(c) \/ WasmNewBackend(c)
      PROVE  IInv'
    <2>1. Clients \subseteq Handles /\ Backends \subseteq Handles
        BY DEF Handles
    <2>2. New(c, Clients) \/ New(c, Backends)
        BY <1>5 DEF PyNewClient, PyNewBackend, WasmNewClient, WasmNewBackend
    <2>3. QED
        BY <2>1, <2>2, NewStep
<1>6. ASSUME NEW h \in Handles, CloseHandle(h) \/ Forget(h) \/ Finalize(h)
      PROVE  IInv'
    BY <1>6, CloseStep, ForgetStep, FinalizeStep
<1>7. QED
    BY <1>1, <1>2, <1>3, <1>4, <1>5, <1>6 DEF Next

(* A handle that its callers do not close while a call or another close has *)
(* it is freed once, by whichever of Close and the finalizer comes first    *)
(* (bolt402.go:217, bolt402-ffi/src/lib.rs:207), and no call works on a     *)
(* freed object, except in Go the last call of a wrapper that nobody holds  *)
(* (bolt402.go:154).                                                        *)
THEOREM HandlesLive == Spec => []HandlesOutliveCalls
<1>1. Init => IInv
    BY InitIInv
<1>2. IInv /\ [Next]_vars => IInv'
    BY StepIInv
<1>3. IInv => HandlesOutliveCalls
    BY DEF IInv, PointerInv, CallsInv, Holds, HandlesOutliveCalls, UsedBy
<1>4. QED
    BY <1>1, <1>2, <1>3, PTL DEF Spec

-----------------------------------------------------------------------------
(* Errors.                                                                 *)

Outcomes == {"none", "ok", "own", "unexplained", "other"}

ErrorTypes ==
    /\ language \in Languages
    /\ thread \in [Callers -> Threads]
    /\ lastError \in [Threads -> Callers \cup {None, Stale}]
    /\ outcome \in [Callers -> Outcomes]

\* What is known of a call: while it is under way nothing has come of it yet;
\* where every caller has a thread of its own, the error of a call that failed
\* is there until its caller has read it.
CallerOK(c) ==
    /\ call[c].step = "returned" => language \in {"c", "go"}
    /\ call[c].step = "leaving" => language \in {"python", "wasm"}
    /\ call[c].step # "idle" => outcome[c] = "none"
    /\ outcome[c] = "ok" => ~call[c].failed
    /\ language # "go" =>
        /\ thread[c] = c
        /\ call[c].step = "returned" /\ call[c].failed => lastError[c] = c
        /\ outcome[c] \notin {"other", "unexplained"}

ErrorInv == ErrorTypes /\ \A c \in Callers : CallerOK(c)

\* What the step of one caller leaves as it is for the others.
Apart(c) ==
    /\ language' = language
    /\ \A d \in Callers \ {c} :
        /\ call'[d] = call[d] /\ outcome'[d] = outcome[d] /\ thread'[d] = thread[d]
        /\ language # "go" /\ lastError[d] = d => lastError'[d] = d

LEMMA ApartKeeps ==
    ASSUME IInv, ErrorInv, NEW c \in Callers, Apart(c), ErrorTypes', CallerOK(c)'
    PROVE  ErrorInv'
<1>1. ASSUME NEW d \in Callers \ {c} PROVE CallerOK(d)'
    BY DEF ErrorInv, CallerOK, Apart
<1>2. QED
    BY <1>1 DEF ErrorInv

LEMMA InsideErrors ==
    ASSUME IInv, ErrorInv, NEW c \in Callers, NEW op, NEW h, NEW t \in ThreadsFor(c),
           Inside(c, op, h, t), ClearError(t) \/ UNCHANGED lastError, UNCHANGED language
    PROVE  ErrorInv'
<1> USE DEF IInv, TypeInv, ErrorInv
<1>1. t \in Threads /\ (language # "go" => t = c)
    BY DEF ThreadsFor, Threads
<1>2. ErrorTypes'
    BY <1>1 DEF ErrorTypes, Inside, ClearError, Outcomes
<1>3. Apart(c)
    BY <1>1 DEF Apart, Inside, ClearError, ErrorTypes, Threads
<1>4. call'[c].step = "inside" /\ outcome'[c] = "none" /\ thread'[c] = t
    BY DEF Inside, ErrorTypes
<1>5. CallerOK(c)'
    BY <1>1, <1>4 DEF CallerOK
<1>6. QED
    BY <1>2, <1>3, <1>5, ApartKeeps

LEMMA EnterErrors ==
    ASSUME IInv, ErrorInv, NEW c \in Callers, FfiCall(c) \/ PyCall(c) \/ WasmCall(c)
    PROVE  ErrorInv'
<1>1. CASE FfiCall(c)
    <2>1. PICK t \in ThreadsFor(c) :
            \/ \E h \in Servers : ServerNew(c, h, t) \/ ClientNew(c, h, t)
            \/ \E h \in Clients :
                /\ Uses(h)
                /\ ClientGet(c, h, t) \/ ClientPost(c, h, t) \/ Receipts(c, h, t)
                     \/ TotalSpent(c, h, t)
        BY <1>1 DEF FfiCall
    <2>2. \E op, h : Inside(c, op, h, t) /\ (ClearError(t) \/ UNCHANGED lastError)
        BY <2>1 DEF ServerNew, ClientNew, ClientGet, ClientPost, Receipts, TotalSpent
    <2>3. UNCHANGED language
        BY <1>1 DEF FfiCall
    <2>4. QED
        BY <2>2, <2>3, InsideErrors
<1>2. CASE PyCall(c) \/ WasmCall(c)
    <2>1. c \in ThreadsFor(c) /\ UNCHANGED <<language, lastError>>
        BY <1>2 DEF PyCall, WasmCall, ThreadsFor
    <2>2. \E op, h : Inside(c, op, h, c)
        BY <1>2 DEF PyCall, WasmCall, MethodCall
    <2>3. QED
        BY <2>1, <2>2, InsideErrors
<1>3. QED
    BY <1>1, <1>2

LEMMA ReturnErrors ==
    ASSUME IInv, ErrorInv, NEW c \in Callers, Return(c)
    PROVE  ErrorInv'
<1> USE DEF IInv, TypeInv, ErrorInv
<1>1. PICK failed \in BOOLEAN :
        /\ Back(c, failed)
        /\ IF failed /\ language \in {"c", "go"} THEN SetError(thread[c], c)
                                                 ELSE UNCHANGED lastError
    <2>1. CASE ServerBuilt(c)
        BY <2>1 DEF ServerBuilt, Fail
    <2>2. CASE ClientBuilt(c)
        BY <2>2 DEF ClientBuilt, Fail
    <2>3. CASE Responded(c)
        BY <2>3 DEF Responded, Fail
    <2>4. CASE Read(c)
        BY <2>4 DEF Read
    <2>5. QED
        BY <2>1, <2>2, <2>3, <2>4 DEF Return
<1>2. UNCHANGED <<language, thread, outcome>> /\ call[c].step = "inside"
    BY DEF Return
<1>3. outcome[c] = "none" /\ thread[c] \in Threads
    BY <1>2 DEF CallerOK, ErrorTypes
<1>4. language # "go" => thread[c] = c
    BY DEF CallerOK
<1>5. /\ call'[c].step = IF language \in {"c", "go"} THEN "returned" ELSE "leaving"
      /\ call'[c].failed = failed
      /\ \A d \in Callers \ {c} : call'[d] = call[d]
    BY <1>1 DEF Back, Calls
<1>6. ErrorTypes'
    BY <1>1, <1>2, <1>3 DEF ErrorTypes, SetError
<1>7. Apart(c)
    BY <1>1, <1>2, <1>4, <1>5 DEF Apart, SetError, ErrorTypes, Threads
<1>8. language \in {"c"} /\ failed => lastError'[c] = c
    BY <1>1, <1>4 DEF SetError, ErrorTypes, Threads
<1>9. CallerOK(c)'
    BY <1>2, <1>3, <1>4, <1>5, <1>8 DEF CallerOK, ErrorTypes, Languages
<1>10. QED
    BY <1>6, <1>7, <1>9, ApartKeeps

LEMMA LeaveErrors ==
    ASSUME IInv, ErrorInv, NEW c \in Callers,
           LastError(c) \/ ExtractResponse(c) \/ PyReturn(c) \/ WasmReturn(c)
    PROVE  ErrorInv'
<1> USE DEF IInv, TypeInv, ErrorInv
<1>1. PICK got \in Outcomes : Leave(c, got)
    BY DEF LastError, ExtractResponse, PyReturn, WasmReturn, Outcomes
<1>2. /\ call'[c].step = "idle" /\ call'[c].failed = call[c].failed /\ outcome'[c] = got
      /\ \A d \in Callers \ {c} : call'[d] = call[d] /\ outcome'[d] = outcome[d]
    BY <1>1 DEF Leave, Idle, ErrorTypes
<1>3. /\ UNCHANGED language
      /\ got = "ok" => ~call[c].failed
      /\ language # "go" => got \notin {"other", "unexplained"} /\ UNCHANGED thread
      /\ thread' \in [Callers -> Threads] /\ \A d \in Callers \ {c} : thread'[d] = thread[d]
      /\ \A d \in Callers \ {c} : lastError[d] = d => lastError'[d] = d
      /\ lastError' \in [Threads -> Callers \cup {None, Stale}]
    <2>1. CASE LastError(c)
        <3>1. PICK t \in ThreadsFor(c) :
                /\ thread' = [thread EXCEPT ![c] = t]
                /\ Leave(c, IF lastError[t] = c THEN "own"
                            ELSE IF lastError[t] = None THEN "unexplained" ELSE "other")
            BY <2>1 DEF LastError
        <3>2. t \in Threads /\ (language # "go" => t = c)
            BY DEF ThreadsFor, Threads
        <3>3. got = IF lastError[t] = c THEN "own"
                    ELSE IF lastError[t] = None THEN "unexplained" ELSE "other"
            BY <1>1, <3>1 DEF Leave, ErrorTypes
        <3>4. language # "go" => lastError[c] = c /\ thread[c] = c
            BY <2>1 DEF LastError, CallerOK
        <3>5. lastError' = [x \in Threads |-> IF lastError[x] = c THEN Stale ELSE lastError[x]]
              /\ UNCHANGED language
            BY <2>1 DEF LastError
        <3>6. language # "go" => got = "own" /\ UNCHANGED thread
            BY <3>1, <3>2, <3>3, <3>4 DEF ErrorTypes
        <3>7. \A d \in Callers \ {c} : lastError[d] = d => lastError'[d] = d
            BY <3>5 DEF Threads
        <3>8. lastError' \in [Threads -> Callers \cup {None, Stale}]
            BY <3>5 DEF ErrorTypes
        <3>9. got # "ok"
            BY <3>3
        <3>10. thread' \in [Callers -> Threads] /\ \A d \in Callers \ {c} : thread'[d] = thread[d]
            BY <3>1, <3>2 DEF ErrorTypes
        <3>11. QED
            BY <3>5, <3>6, <3>7, <3>8, <3>9, <3>10
    <2>2. CASE ExtractResponse(c)
        BY <1>1, <2>2 DEF ExtractResponse, Leave, ErrorTypes
    <2>3. CASE PyReturn(c) \/ WasmReturn(c)
        BY <1>1, <2>3 DEF PyReturn, WasmReturn, Leave, ErrorTypes
    <2>4. QED
        BY <2>1, <2>2, <2>3
<1>4. ErrorTypes'
    BY <1>1, <1>3 DEF ErrorTypes, Leave
<1>5. Apart(c)
    BY <1>2, <1>3 DEF Apart
<1>6. CallerOK(c)'
    BY <1>2, <1>3 DEF CallerOK
<1>7. QED
    BY <1>4, <1>5, <1>6, ApartKeeps

\* Constructors, and what Go refuses by itself.
LEMMA NewErrors ==
    ASSUME IInv, ErrorInv, NEW c \in Callers,
           (\E handles : New(c, handles)) \/ GoClosed(c)
    PROVE  ErrorInv'
<1> USE DEF IInv, TypeInv, ErrorInv
<1>1. /\ UNCHANGED <<language, thread, lastError>> /\ call[c].step = "idle"
      /\ \E failed \in BOOLEAN, got \in {"ok", "own"} :
            /\ call' = [call EXCEPT ![c].failed = failed]
            /\ outcome' = [outcome EXCEPT ![c] = got]
            /\ got = "ok" => ~failed
    <2>1. CASE \E handles : New(c, handles)
        BY <2>1 DEF New
    <2>2. CASE GoClosed(c)
        <3>1. PICK failed \in BOOLEAN : Refuse(c, failed)
            BY <2>2 DEF GoClosed
        <3>2. QED
            BY <3>1 DEF Refuse
    <2>3. QED
        BY <2>1, <2>2
<1>2. ErrorTypes'
    BY <1>1 DEF ErrorTypes, Outcomes
<1>3. Apart(c)
    BY <1>1 DEF Apart, ErrorTypes
<1>4. CallerOK(c)'
    BY <1>1 DEF CallerOK, ErrorTypes, Calls
<1>5. QED
    BY <1>2, <1>3, <1>4, ApartKeeps

LEMMA StepErrors ==
    ASSUME IInv, ErrorInv, [Next]_vars
    PROVE  ErrorInv'
<1>1. CASE UNCHANGED vars
    BY <1>1 DEF vars, ErrorInv, ErrorTypes, CallerOK
<1>2. ASSUME NEW h \in Handles, CloseHandle(h) \/ Forget(h) \/ Finalize(h)
      PROVE  ErrorInv'
    BY <1>2 DEF CloseHandle, Forget, Finalize, Others, ErrorInv, ErrorTypes, CallerOK
<1>3. ASSUME NEW c \in Callers, Step(c)
      PROVE  ErrorInv'
    BY <1>3, ReturnErrors, LeaveErrors DEF Step
<1>4. ASSUME NEW c \in Callers, \/ PyNewClient(c) \/ PyNewBackend(c)
                                \/ WasmNewClient(c) \/ WasmNewBackend(c)
      PROVE  \E handles : New(c, handles)
    BY <1>4 DEF PyNewClient, PyNewBackend, WasmNewClient, WasmNewBackend
<1>5. QED
    BY <1>1, <1>2, <1>3, <1>4, EnterErrors, NewErrors DEF Next

LEMMA InitErrors == Init => ErrorInv
    BY DEF Init, ErrorInv, ErrorTypes, CallerOK, Outcomes, Idle, Threads

LEMMA BindingsInvariant == Spec => [](IInv /\ ErrorInv)
<1>1. Init => IInv /\ ErrorInv
    BY InitIInv, InitErrors
<1>2. IInv /\ ErrorInv /\ [Next]_vars => IInv' /\ ErrorInv'
    BY StepIInv, StepErrors
<1>3. QED
    BY <1>1, <1>2, PTL DEF Spec

\* In C, Python and JavaScript the error of a failed call, and no other, reaches
\* its caller, for any number of threads: it is Go alone, which may ask for the
\* error on another thread than that of the call, that loses or mixes them up
\* (bolt402-ffi/src/lib.rs, LAST_ERROR).
THEOREM ErrorsReachCallers == Spec => [](language # "go" => ErrorReachesCaller)
<1>1. ErrorInv => (language # "go" => ErrorReachesCaller)
    BY DEF ErrorInv, CallerOK, ErrorReachesCaller
<1>2. QED
    BY <1>1, BindingsInvariant, PTL

-----------------------------------------------------------------------------
(* Who waits for what.  BlockedCallsReturn needs fairness and stays with   *)
(* TLC; that every call can go on does not.                                *)

Requests == {"get", "post"} \cup BackendOps

\* The interpreter is held by the one Python call that is under way.
InterpreterInv ==
    /\ interpreter # None => language = "python"
    /\ language = "python" => \A c \in Callers : call[c].step # "idle" => interpreter = c

\* Only callers of C functions make servers and clients inside a call.
Making == {c \in Callers : call[c].op = "client_new" /\ call[c].step = "inside"}
Unmade == {h \in Clients : object[h] = "none"}

MakersInv ==
    /\ \A c \in Callers : call[c].op \in {"client_new", "server_new"} => language \in {"c", "go"}
    /\ \A c \in Callers : call[c].op = "server_new" => call[c].handle \in Servers
    /\ Cardinality(Making) <= Cardinality(Unmade)

WaitInv == InterpreterInv /\ MakersInv

LEMMA FiniteSets ==
    /\ IsFiniteSet(Making) /\ Cardinality(Making) \in Nat
    /\ IsFiniteSet(Unmade) /\ Cardinality(Unmade) \in Nat
<1>1. Making \in SUBSET Callers /\ Unmade \in SUBSET Clients
    BY DEF Making, Unmade
<1>2. IsFiniteSet(Making) /\ IsFiniteSet(Unmade)
    BY <1>1, BindingsAssumption, FS_Subset
<1>3. QED
    BY <1>2, FS_CardinalityType

\* Fewer calls that make a client, or more clients to be made, do no harm.
LEMMA EnoughLeft ==
    ASSUME Cardinality(Making) <= Cardinality(Unmade), Making' \subseteq Making,
           Unmade \subseteq Unmade'
    PROVE  Cardinality(Making') <= Cardinality(Unmade')
<1>1. IsFiniteSet(Unmade')
    <2>1. Unmade' \in SUBSET Clients
        BY DEF Unmade
    <2>2. QED
        BY <2>1, BindingsAssumption, FS_Subset
<1>2. Cardinality(Making') <= Cardinality(Making) /\ IsFiniteSet(Making')
    BY FiniteSets, FS_Subset
<1>3. Cardinality(Unmade) <= Cardinality(Unmade')
    BY <1>1, FS_Subset
<1>4. Cardinality(Making') \in Nat /\ Cardinality(Unmade') \in Nat
    BY <1>1, <1>2, FS_CardinalityType
<1>5. QED
    BY <1>2, <1>3, <1>4, FiniteSets

\* A step that is none of a call: constructors and handles.
LEMMA NoCallWaits ==
    ASSUME IInv, WaitInv, UNCHANGED <<language, interpreter>>,
           \A c \in Callers : /\ call'[c].op = call[c].op /\ call'[c].handle = call[c].handle
                              /\ call'[c].step = call[c].step,
           Making # {} => Unmade \subseteq Unmade'
    PROVE  WaitInv'
<1>1. InterpreterInv'
    BY DEF WaitInv, InterpreterInv
<1>2. Making' = Making
    BY DEF Making
<1>3. Cardinality(Making') <= Cardinality(Unmade')
    <2>1. CASE Making = {}
        <3>1. Unmade' \in SUBSET Clients
            BY DEF Unmade
        <3>2. Cardinality(Unmade') \in Nat
            BY <3>1, BindingsAssumption, FS_Subset, FS_CardinalityType
        <3>3. Cardinality(Making') = 0
            BY <1>2, <2>1, FS_EmptySet
        <3>4. QED
            BY <3>2, <3>3
    <2>2. CASE Making # {}
        BY <1>2, <2>2, EnoughLeft DEF WaitInv, MakersInv
    <2>3. QED
        BY <2>1, <2>2
<1>4. QED
    BY <1>1, <1>3 DEF WaitInv, MakersInv

LEMMA EnterWaits ==
    ASSUME IInv, WaitInv, NEW c \in Callers, FfiCall(c) \/ PyCall(c) \/ WasmCall(c)
    PROVE  WaitInv'
<1> USE DEF IInv, TypeInv
<1>1. UNCHANGED <<object, language>> /\ Unmade' = Unmade
    BY DEF FfiCall, PyCall, WasmCall, Unmade
<1>2. CASE FfiCall(c)
    <2>1. PICK t \in ThreadsFor(c) :
            \/ \E h \in Servers : ServerNew(c, h, t) \/ ClientNew(c, h, t)
            \/ \E h \in Clients :
                /\ Uses(h)
                /\ ClientGet(c, h, t) \/ ClientPost(c, h, t) \/ Receipts(c, h, t)
                     \/ TotalSpent(c, h, t)
        BY <1>2 DEF FfiCall
    <2>2. PICK op \in {"server_new", "client_new", "get", "post", "receipts", "total_spent"},
               h \in Servers \cup Clients :
            /\ Inside(c, op, h, t)
            /\ op = "server_new" => h \in Servers
            /\ op = "client_new" => Cardinality(Unmade) > Cardinality({d \in Callers : call[d].op = "client_new"})
        BY <2>1 DEF ServerNew, ClientNew, ClientGet, ClientPost, Receipts, TotalSpent, Unmade
    <2>3. /\ call'[c].op = op /\ call'[c].handle = h
          /\ \A d \in Callers \ {c} : call'[d] = call[d]
        BY <2>2 DEF Inside
    <2>4. language \in {"c", "go"} /\ UNCHANGED interpreter
        BY <1>2 DEF FfiCall
    <2>5. Cardinality(Making') <= Cardinality(Unmade')
        <3>1. CASE op # "client_new"
            <4>1. Making' \subseteq Making
                BY <2>3, <3>1 DEF Making
            <4>2. QED
                BY <1>1, <4>1, EnoughLeft DEF WaitInv, MakersInv
        <3>2. CASE op = "client_new"
            <4> DEFINE all == {d \in Callers : call[d].op = "client_new"}
            <4>1. IsFiniteSet(all) /\ Cardinality(all) \in Nat
                BY BindingsAssumption, FS_Subset, FS_CardinalityType
            <4>2. Making' \in SUBSET (all \cup {c})
                BY <2>3 DEF Making
            <4> HIDE DEF all
            <4>3. /\ IsFiniteSet(all \cup {c}) /\ Cardinality(all \cup {c}) <= Cardinality(all) + 1
                  /\ Cardinality(all \cup {c}) \in Nat
                <5>1. /\ IsFiniteSet(all \cup {c})
                      /\ \/ Cardinality(all \cup {c}) = Cardinality(all)
                         \/ Cardinality(all \cup {c}) = Cardinality(all) + 1
                    BY <4>1, FS_AddElement, Zenon
                <5>2. QED
                    BY <4>1, <5>1
            <4>4. IsFiniteSet(Making') /\ Cardinality(Making') <= Cardinality(all \cup {c})
                BY <4>2, <4>3, FS_Subset
            <4>5. Cardinality(Making') \in Nat
                BY <4>4, FS_CardinalityType
            <4>6. Cardinality(Unmade) > Cardinality(all)
                BY <2>2, <3>2 DEF all
            <4>7. QED
                BY <1>1, <4>1, <4>3, <4>4, <4>5, <4>6, FiniteSets
        <3>3. QED
            BY <3>1, <3>2
    <2>6. \A d \in Callers : call'[d].op = "server_new" => call'[d].handle \in Servers
        BY <2>2, <2>3 DEF WaitInv, MakersInv
    <2>7. InterpreterInv'
        BY <1>1, <2>4 DEF WaitInv, InterpreterInv
    <2>8. QED
        BY <1>1, <2>4, <2>5, <2>6, <2>7 DEF WaitInv, MakersInv
<1>3. CASE PyCall(c) \/ WasmCall(c)
    <2>1. PICK op \in ClientOps \cup BackendOps : \E h : Inside(c, op, h, c)
        BY <1>3 DEF PyCall, WasmCall, MethodCall
    <2>2. op \notin {"server_new", "client_new"}
        BY DEF ClientOps, BackendOps
    <2>3. call'[c].op = op /\ \A d \in Callers \ {c} : call'[d] = call[d]
        BY <2>1 DEF Inside
    <2>4. Making' \subseteq Making
        BY <2>2, <2>3 DEF Making
    <2>5. Cardinality(Making') <= Cardinality(Unmade')
        BY <1>1, <2>4, EnoughLeft DEF WaitInv, MakersInv
    <2>6. InterpreterInv'
        <3>1. CASE PyCall(c)
            <4>1. language = "python" /\ interpreter = None /\ interpreter' = c
                BY <3>1 DEF PyCall
            <4>2. \A d \in Callers : call[d].step = "idle"
                BY <4>1, BindingsAssumption DEF WaitInv, InterpreterInv
            <4>3. QED
                BY <1>1, <2>3, <4>1, <4>2 DEF InterpreterInv
        <3>2. CASE WasmCall(c)
            BY <1>1, <3>2 DEF WasmCall, WaitInv, InterpreterInv
        <3>3. QED
            BY <1>3, <3>1, <3>2
    <2>7. QED
        BY <1>1, <2>2, <2>3, <2>5, <2>6 DEF WaitInv, MakersInv
<1>4. QED
    BY <1>2, <1>3

LEMMA ReturnWaits ==
    ASSUME IInv, WaitInv, NEW c \in Callers, Return(c)
    PROVE  WaitInv'
<1> USE DEF IInv, TypeInv
<1>1. PICK failed \in BOOLEAN : Back(c, failed)
    BY DEF Return, ServerBuilt, ClientBuilt, Responded, Read, Fail
<1>2. UNCHANGED <<language, interpreter>> /\ call[c].step = "inside"
    BY DEF Return
<1>3. /\ \A d \in Callers : call'[d].op = call[d].op /\ call'[d].handle = call[d].handle
      /\ \A d \in Callers \ {c} : call'[d] = call[d]
      /\ call'[c].step \in {"returned", "leaving"}
    BY <1>1 DEF Back, Calls
<1>4. InterpreterInv'
    BY <1>2, <1>3 DEF WaitInv, InterpreterInv
<1>5. Making' = Making \ {c}
    BY <1>3 DEF Making
<1>6. Cardinality(Making') <= Cardinality(Unmade')
    <2>1. CASE ClientBuilt(c)
        <3> SUFFICES ASSUME NEW h \in Clients, object[h] = "none", Make(h)
                     PROVE  Cardinality(Making') <= Cardinality(Unmade')
            <4>1. CASE UNCHANGED object
                <5>1. Unmade' = Unmade
                    BY <4>1 DEF Unmade
                <5>2. QED
                    BY <1>5, <5>1, EnoughLeft DEF WaitInv, MakersInv
            <4>2. QED
                BY <2>1, <4>1 DEF ClientBuilt
        <3>2. Unmade' = Unmade \ {h} /\ h \in Unmade
            BY DEF Make, Unmade, Handles
        <3>3. c \in Making
            BY <1>2, <2>1 DEF ClientBuilt, Making
        <3>4. Cardinality(Making') = Cardinality(Making) - 1
            BY <1>5, <3>3, FiniteSets, FS_RemoveElement
        <3>5. Cardinality(Unmade') = Cardinality(Unmade) - 1
            BY <3>2, FiniteSets, FS_RemoveElement
        <3>6. QED
            BY <3>4, <3>5, FiniteSets DEF WaitInv, MakersInv
    <2>2. CASE ServerBuilt(c)
        <3>1. call[c].handle \in Servers
            BY <2>2 DEF ServerBuilt, WaitInv, MakersInv
        <3>2. \A h \in Clients : object'[h] = object[h]
            <4>1. UNCHANGED object \/ object' = [object EXCEPT ![call[c].handle] = "live"]
                BY <2>2 DEF ServerBuilt, Make
            <4>2. \A h \in Clients : h # call[c].handle
                BY <3>1, BindingsAssumption
            <4>3. QED
                BY <4>1, <4>2 DEF Handles
        <3>3. Unmade' = Unmade
            BY <3>2 DEF Unmade
        <3>4. QED
            BY <1>5, <3>3, EnoughLeft DEF WaitInv, MakersInv
    <2>3. CASE Responded(c) \/ Read(c)
        <3>1. Unmade' = Unmade
            BY <2>3 DEF Responded, Read, Unmade
        <3>2. QED
            BY <1>5, <3>1, EnoughLeft DEF WaitInv, MakersInv
    <2>4. QED
        BY <2>1, <2>2, <2>3 DEF Return
<1>7. QED
    BY <1>2, <1>3, <1>4, <1>6 DEF WaitInv, MakersInv

LEMMA LeaveWaits ==
    ASSUME IInv, WaitInv, NEW c \in Callers,
           LastError(c) \/ ExtractResponse(c) \/ PyReturn(c) \/ WasmReturn(c)
    PROVE  WaitInv'
<1> USE DEF IInv, TypeInv
<1>1. /\ call' = [call EXCEPT ![c] = [Idle EXCEPT !.failed = call[c].failed]]
      /\ UNCHANGED <<language, object>> /\ call[c].step # "idle"
    BY DEF LastError, ExtractResponse, PyReturn, WasmReturn, Leave
<1>2. /\ call'[c].op = "get" /\ call'[c].step = "idle"
      /\ \A d \in Callers \ {c} : call'[d] = call[d]
    BY <1>1 DEF Idle
<1>3. InterpreterInv'
    <2>1. CASE UNCHANGED interpreter
        BY <1>1, <1>2, <2>1 DEF WaitInv, InterpreterInv
    <2>2. CASE PyReturn(c)
        BY <1>1, <1>2, <2>2 DEF PyReturn, WaitInv, InterpreterInv
    <2>3. QED
        BY <2>1, <2>2 DEF LastError, ExtractResponse, WasmReturn
<1>4. Making' \subseteq Making /\ Unmade' = Unmade
    BY <1>1, <1>2 DEF Making, Unmade
<1>5. Cardinality(Making') <= Cardinality(Unmade')
    BY <1>4, EnoughLeft DEF WaitInv, MakersInv
<1>6. QED
    BY <1>1, <1>2, <1>3, <1>5 DEF WaitInv, MakersInv

LEMMA StepWaits ==
    ASSUME IInv, WaitInv, [Next]_vars
    PROVE  WaitInv'
<1> USE DEF IInv, TypeInv
<1>1. CASE UNCHANGED vars
    BY <1>1 DEF vars, WaitInv, InterpreterInv, MakersInv, Making, Unmade
<1>2. ASSUME NEW h \in Handles, CloseHandle(h) \/ Forget(h) \/ Finalize(h)
      PROVE  WaitInv'
    <2>1. UNCHANGED <<language, interpreter, call>>
        BY <1>2 DEF CloseHandle, Forget, Finalize, Others
    <2>2. \A g \in Handles : object[g] = "none" => object'[g] = "none"
        <3>1. pointer[h] \in {"set", "closing"} => object[h] # "none"
            BY DEF PointerInv
        <3>2. QED
            BY <1>2, <3>1 DEF CloseHandle, Forget, Finalize, Close, Drop
    <2>3. Unmade \subseteq Unmade'
        BY <2>2 DEF Unmade, Handles
    <2>4. QED
        BY <2>1, <2>3, NoCallWaits
<1>3. ASSUME NEW c \in Callers, GoClosed(c)
      PROVE  WaitInv'
    BY <1>3, NoCallWaits DEF GoClosed, Refuse, Unmade
<1>4. ASSUME NEW c \in Callers, \/ PyNewClient(c) \/ PyNewBackend(c)
                                \/ WasmNewClient(c) \/ WasmNewBackend(c)
      PROVE  WaitInv'
    <2>1. language \in {"python", "wasm"} /\ \E handles : New(c, handles)
        BY <1>4 DEF PyNewClient, PyNewBackend, WasmNewClient, WasmNewBackend
    <2>2. Making = {}
        BY <2>1 DEF Making, WaitInv, MakersInv
    <2>3. /\ UNCHANGED <<language, interpreter>>
          /\ \E failed \in BOOLEAN : call' = [call EXCEPT ![c].failed = failed]
        BY <2>1 DEF New
    <2>4. \A d \in Callers : /\ call'[d].op = call[d].op /\ call'[d].handle = call[d].handle
                             /\ call'[d].step = call[d].step
        BY <2>3 DEF Calls
    <2>5. QED
        BY <2>2, <2>3, <2>4, NoCallWaits
<1>5. ASSUME NEW c \in Callers, Step(c)
      PROVE  WaitInv'
    BY <1>5, ReturnWaits, LeaveWaits DEF Step
<1>6. QED
    BY <1>1, <1>2, <1>3, <1>4, <1>5, EnterWaits DEF Next

LEMMA InitWaits == Init => WaitInv
<1> SUFFICES ASSUME Init PROVE WaitInv
    OBVIOUS
<1>1. Making = {} /\ \A c \in Callers : call[c].op = "get"
    BY DEF Init, Making, Idle
<1>2. Cardinality(Making) = 0
    BY <1>1, FS_EmptySet
<1>3. QED
    BY <1>1, <1>2, FiniteSets DEF Init, WaitInv, InterpreterInv, MakersInv, Idle

\* The guards of Step.
CanStep(c) ==
    \/ /\ call[c].step = "inside"
       /\ call[c].op \in Requests => Answerable(c)
       /\ call[c].op = "client_new" => \E h \in Clients : object[h] = "none"
    \/ call[c].step = "returned" /\ ThreadsFor(c) # {}
    \/ call[c].step = "leaving" /\ language \in {"python", "wasm"}

\* Each caller but one occupies one thread at most.
LEMMA AThreadIsFree ==
    ASSUME ErrorTypes, NEW c \in Callers
    PROVE  ThreadsFor(c) # {}
<1>1. SUFFICES ASSUME language = "go", \A t \in Threads : ~Free(t, c) PROVE FALSE
    BY DEF ThreadsFor
<1> DEFINE others == Callers \ {c}
           on == [d \in others |-> thread[d]]
<1>2. on \in [others -> Threads]
    BY DEF ErrorTypes
<1>3. \A t \in Threads : \E d \in others : on[d] = t
    BY <1>1 DEF Free
<1>4. on \in Surjection(others, Threads)
    BY <1>2, <1>3 DEF Surjection
<1>5. /\ IsFiniteSet(others) /\ Cardinality(others) = Cardinality(Callers) - 1
      /\ Cardinality(Callers) \in Nat
    BY BindingsAssumption, FS_RemoveElement, FS_CardinalityType
<1>6. Cardinality(Threads) <= Cardinality(others)
    BY <1>4, <1>5, FS_Surjection
<1>7. QED
    BY <1>5, <1>6 DEF Threads

\* Each call under way, in whatever step it is, finds what that step needs: the
\* interpreter, a free thread to go on with, a client that is still to be made.
CallsGoOn ==
    ~(insideServer /\ language = "python") =>
        \A c \in Callers : call[c].step # "idle" => CanStep(c)

LEMMA InvCallsGoOn ==
    ASSUME IInv, ErrorInv, WaitInv
    PROVE  CallsGoOn
<1> SUFFICES ASSUME ~(insideServer /\ language = "python"), NEW c \in Callers,
                    call[c].step # "idle"
             PROVE  CanStep(c)
    BY DEF CallsGoOn
<1>1. call[c].step \in {"inside", "returned", "leaving"}
    BY DEF IInv, TypeInv, Calls
<1>2. CASE call[c].step = "inside"
    <2>1. Answerable(c)
        BY DEF Answerable, WaitInv, InterpreterInv
    <2>2. ASSUME call[c].op = "client_new"
          PROVE  \E h \in Clients : object[h] = "none"
        <3>1. c \in Making
            BY <1>2, <2>2 DEF Making
        <3>2. Cardinality(Making) # 0
            BY <3>1, FiniteSets, FS_EmptySet
        <3>3. Cardinality(Unmade) # 0
            BY <3>2, FiniteSets DEF WaitInv, MakersInv
        <3>4. Unmade # {}
            BY <3>3, FS_EmptySet
        <3>5. QED
            BY <3>4 DEF Unmade
    <2>3. QED
        BY <1>2, <2>1, <2>2 DEF CanStep
<1>3. CASE call[c].step = "returned"
    BY <1>3, AThreadIsFree DEF CanStep, ErrorInv
<1>4. CASE call[c].step = "leaving"
    BY <1>4 DEF CanStep, ErrorInv, CallerOK
<1>5. QED
    BY <1>1, <1>2, <1>3, <1>4

LEMMA WaitInvariant == Spec => [](IInv /\ ErrorInv /\ WaitInv)
<1>1. Init => WaitInv
    BY InitWaits
<1>2. IInv /\ WaitInv /\ [Next]_vars => WaitInv'
    BY StepWaits
<1>3. QED
    BY <1>1, <1>2, BindingsInvariant, PTL DEF Spec

\* No call waits for another one: each that is under way can go on by itself,
\* in every language and however many there are, unless a server that needs the
\* interpreter would have to answer it (bolt402-python/src/lib.rs:705).
THEOREM BindingsCallsGoOn == Spec => []CallsGoOn
BY InvCallsGoOn, WaitInvariant, PTL

\* A request to a server of the same Python process holds the interpreter that
\* the server needs.
StuckForGood ==
    \A c \in Callers :
        insideServer /\ language = "python" /\ call[c].step = "inside" /\ call[c].op \in Requests =>
            call'[c] = call[c] /\ interpreter' = c

LEMMA StepStuck ==
    ASSUME IInv, WaitInv, [Next]_vars
    PROVE  StuckForGood
<1> SUFFICES ASSUME NEW c \in Callers, insideServer, language = "python",
                    call[c].step = "inside", call[c].op \in Requests
             PROVE  call'[c] = call[c] /\ interpreter' = c
    BY DEF StuckForGood
<1> USE DEF IInv, TypeInv
<1>1. interpreter = c /\ \A d \in Callers : call[d].step # "idle" => d = c
    BY DEF WaitInv, InterpreterInv
<1>2. interpreter # None
    BY <1>1, BindingsAssumption
<1>3. call[c].op \notin {"server_new", "client_new", "receipts", "total_spent"}
    BY DEF Requests, BackendOps
<1>4. ASSUME NEW d \in Callers, Step(d)
      PROVE  FALSE
    <2>1. call[d].step # "idle"
        BY <1>4 DEF Step, Return, LastError, ExtractResponse, PyReturn, WasmReturn
    <2>2. d = c
        BY <1>1, <2>1
    <2>3. Return(c)
        BY <1>4, <2>2 DEF Step, LastError, ExtractResponse, PyReturn, WasmReturn
    <2>4. Responded(c)
        BY <1>3, <2>3 DEF Return, ServerBuilt, ClientBuilt, Read
    <2>5. QED
        BY <1>2, <2>4 DEF Responded, Answerable
<1>5. ASSUME NEW d \in Callers, \/ FfiCall(d) \/ GoClosed(d) \/ PyCall(d) \/ WasmCall(d)
                                \/ PyNewClient(d) \/ PyNewBackend(d)
                                \/ WasmNewClient(d) \/ WasmNewBackend(d)
      PROVE  FALSE
    BY <1>2, <1>5 DEF FfiCall, GoClosed, Refuse, PyCall, WasmCall, PyNewClient, PyNewBackend,
                      WasmNewClient, WasmNewBackend, New
<1>6. UNCHANGED <<call, interpreter>>
    BY <1>4, <1>5 DEF Next, CloseHandle, Forget, Finalize, Others, vars
<1>7. QED
    BY <1>1, <1>6

\* The exception is a real one: such a request never ends, and no other thread of
\* Python gets the interpreter again (bolt402-python/src/lib.rs:705).
THEOREM BindingsPythonStuck == Spec => [][StuckForGood]_vars
<1>1. IInv /\ WaitInv /\ [Next]_vars => [StuckForGood]_vars
    BY StepStuck
<1>2. QED
    BY <1>1, WaitInvariant, PTL DEF Spec
=============================================================================
