--------------------------- MODULE LnBackendsProofs ---------------------------
(***************************************************************************)
(* The adapters implement the port, for streams of any length, any amounts *)
(* and fees, and every way an answer may end.                              *)
(***************************************************************************)
EXTENDS LnBackends, FiniteSetTheorems, WellFoundedInduction, TLAPS

Messages == [parses : BOOLEAN, status : {"IN_FLIGHT", "SUCCEEDED", "FAILED", "absent"},
             proof : Proofs, msat : Fields, sat : Fields, fee : Fields, feeSat : Fields,
             sent : Fields]

Results == [tag : {"none", "ok", "payment_failed", "backend"}, amount : Int, fee : Int]

-----------------------------------------------------------------------------
(* The backward scan.                                                      *)

\* A set of positions has a last one.
LEMMA LastExists ==
    ASSUME NEW n \in Nat, NEW S, S \subseteq 1..n, S # {}
    PROVE  \E x \in S : \A y \in S : x >= y
<1> DEFINE T == {n - x : x \in S}
<1>1. T \subseteq Nat
    OBVIOUS
<1>2. T # {}
    OBVIOUS
<1>3. PICK low \in T : \A t \in T : ~ (<<t, low>> \in OpToRel(<, Nat))
    <2> HIDE DEF T
    <2>1. QED
        BY <1>1, <1>2, NatLessThanWellFounded, WFMin, Zenon
<1>4. ASSUME NEW t \in T PROVE low <= t
    <2> HIDE DEF T
    <2>1. ~ (t < low)
        BY <1>1, <1>3, Zenon DEF OpToRel
    <2>2. QED
        BY <1>1, <2>1
<1>5. PICK x \in S : low = n - x
    OBVIOUS
<1>6. ASSUME NEW y \in S PROVE x >= y
    <2>1. n - y \in T
        OBVIOUS
    <2>2. low <= n - y
        BY <1>4, <2>1
    <2>3. QED
        BY <1>5, <2>2
<1>7. QED
    BY <1>6

\* The scan stops at the last line that succeeded, if there is one.
LEMMA ScanFindsLast ==
    ASSUME NEW lines, Len(lines) \in Nat
    PROVE  \/ /\ LastSucceeded(lines) = 0
              /\ \A i \in 1..Len(lines) : ~IsSucceeded(lines[i])
           \/ /\ LastSucceeded(lines) \in 1..Len(lines)
              /\ IsSucceeded(lines[LastSucceeded(lines)])
<1> DEFINE S == {i \in 1..Len(lines) : IsSucceeded(lines[i])}
<1>1. LastSucceeded(lines) = IF S # {} THEN Max(S) ELSE 0
    BY DEF LastSucceeded, SelectLastInSeq
<1>2. CASE S = {}
    BY <1>1, <1>2
<1>3. CASE S # {}
    <2>1. \E x \in S : \A y \in S : x >= y
        BY <1>3, LastExists
    <2>2. Max(S) \in S
        BY <2>1, Zenon DEF Max
    <2>3. QED
        BY <1>1, <1>3, <2>2
<1>4. QED
    BY <1>2, <1>3

-----------------------------------------------------------------------------
(* The invariant.                                                          *)

TypeInv ==
    /\ kind \in Kinds /\ faults \subseteq FaultKinds /\ asked \in Nat
    /\ call \in {"new", "ready", "unusable", "sent", "returned", "dropped", "panicked"}
    /\ closed \in {"open", "complete", "cut", "refused"}
    /\ payment \in {"none", "in_flight", "settled", "failed"} /\ feePaid \in Nat
    /\ updates \in Seq(Messages)
    /\ kind \notin Streaming => Len(updates) <= 1

\* What the node has said is true and stays true.
TruthOf(update) ==
    /\ update.status = "SUCCEEDED" => payment = "settled"
    /\ update.status = "FAILED" => payment = "failed"

\* Only where an answer breaks off, or after its end, is there a line that does
\* not parse; only wrappers leave out what belongs to a success.
WholeOf(update) ==
    /\ "early_end" \notin faults \/ closed = "open" => update.parses
    /\ "garbled" \notin faults /\ IsSucceeded(update) =>
            update.proof = "given" /\ update.msat.form = "number" /\ update.fee.form = "number"
    /\ kind = "lnd_grpc" => IsFinal(update)

UpdatesInv == \A i \in 1..Len(updates) : TruthOf(updates[i]) /\ WholeOf(updates[i])

\* Where an adapter waits for the end of the payment it gets it, unless the
\* answer ends early.
CompleteInv ==
    /\ closed = "complete" =>
        /\ payment # "none"
        /\ kind \notin Waiting => updates # <<>>
        /\ kind \in Waiting /\ "early_end" \notin faults => HasFinal
    /\ updates # <<>> => payment # "none"

ResultInv ==
    /\ call # "returned" => result = NoResult
    /\ call = "returned" /\ closed = "open" => result = Error("transport")
    /\ call = "returned" /\ closed # "open" =>
            result = ResultOf(kind, updates, closed, credential = "rejected")
    /\ call \in {"new", "ready", "unusable", "panicked"} => closed = "open" /\ payment = "none"

IInv == TypeInv /\ UpdatesInv /\ CompleteInv /\ ResultInv

LEMMA InitIInv == Init => IInv
<1> SUFFICES ASSUME Init PROVE IInv
    OBVIOUS
<1>1. TypeInv
    BY BackendAssumption DEF Init, TypeInv
<1>2. UpdatesInv
    BY DEF Init, UpdatesInv
<1>3. CompleteInv /\ ResultInv
    BY DEF Init, CompleteInv, ResultInv
<1>4. QED
    BY <1>1, <1>2, <1>3 DEF IInv

-----------------------------------------------------------------------------
(* What an adapter makes of a whole answer.                                *)

LEMMA HeadIsFirst ==
    ASSUME TypeInv, updates # <<>>
    PROVE  Head(updates) = updates[1] /\ 1 \in 1..Len(updates)
    BY DEF TypeInv

\* LND's stream.
LEMMA LndRestAnswers ==
    ASSUME TypeInv, UpdatesInv, CompleteInv, closed = "complete", kind = "lnd_rest"
    PROVE  /\ LndRest(updates).tag = "ok" => payment = "settled"
           /\ LndRest(updates).tag = "payment_failed" => payment \in Trust
           /\ LndRest(updates).tag \in {"ok", "payment_failed", "backend"}
<1> DEFINE last == LastSucceeded(updates)
           r    == LndRest(updates)
<1>1. Len(updates) \in Nat /\ (updates = <<>> <=> Len(updates) = 0)
    BY DEF TypeInv
<1>2. \/ last = 0 /\ \A i \in 1..Len(updates) : ~IsSucceeded(updates[i])
      \/ last \in 1..Len(updates) /\ IsSucceeded(updates[last])
    BY <1>1, ScanFindsLast, Zenon
<1> HIDE DEF last
<1>3. r.tag \in {"ok", "payment_failed", "backend"}
    BY DEF LndRest, Ok, Error, ClientErrorOf
<1>4. r.tag = "ok" => last # 0
    BY DEF LndRest, Error, ClientErrorOf, last
<1>5. last # 0 => payment = "settled"
    BY <1>2 DEF UpdatesInv, TruthOf, IsSucceeded
<1>6. CASE "early_end" \in faults
    BY <1>3, <1>4, <1>5, <1>6 DEF CompleteInv, TypeInv, Trust, Waiting
<1>7. CASE "early_end" \notin faults
    <2>1. PICK i \in 1..Len(updates) : IsFinal(updates[i])
        <3>1. HasFinal
            BY <1>7 DEF CompleteInv, Waiting
        <3>2. DOMAIN updates = 1..Len(updates)
            BY DEF TypeInv
        <3>3. QED
            BY <3>1, <3>2 DEF HasFinal
    <2>2. CASE updates[i].status = "FAILED"
        <3>1. payment = "failed"
            BY <2>2 DEF UpdatesInv, TruthOf
        <3>2. QED
            BY <1>3, <1>4, <1>5, <3>1 DEF Trust
    <2>3. CASE updates[i].status = "SUCCEEDED"
        <3>1. \A j \in 1..Len(updates) : updates[j].parses
            BY <1>7 DEF UpdatesInv, WholeOf
        <3>2. IsSucceeded(updates[i]) /\ payment = "settled"
            BY <2>3, <3>1 DEF UpdatesInv, TruthOf, IsSucceeded
        <3>3. CASE "garbled" \in faults
            BY <1>3, <3>2, <3>3 DEF Trust, Rest
        <3>4. CASE "garbled" \notin faults
            <4>1. last # 0 /\ updates[last].proof = "given" /\ updates # <<>>
                BY <1>1, <1>2, <3>2, <3>4 DEF UpdatesInv, WholeOf
            <4>2. ~ScanFails(updates)
                <5>1. last \in 1..Len(updates)
                    BY <1>2, <4>1
                <5>2. (last + 1)..Len(updates) \subseteq 1..Len(updates)
                    BY <1>1, <5>1
                <5>3. QED
                    BY <3>1, <5>2 DEF ScanFails, last
            <4>3. r.tag = "ok"
                BY <4>1, <4>2 DEF LndRest, Ok, BytesFieldFails, VerifyPreimage, last
            <4>4. QED
                BY <1>3, <3>2, <4>3
        <3>5. QED
            BY <3>3, <3>4
    <2>4. QED
        BY <2>1, <2>2, <2>3 DEF IsFinal
<1>8. QED
    BY <1>6, <1>7

\* LND's single message, which is final.
LEMMA LndGrpcAnswers ==
    ASSUME TypeInv, UpdatesInv, CompleteInv, closed = "complete", kind = "lnd_grpc"
    PROVE  /\ LndGrpc(updates).tag = "ok" => payment = "settled"
           /\ LndGrpc(updates).tag = "payment_failed" => payment \in Trust
           /\ LndGrpc(updates).tag \in {"ok", "payment_failed", "backend"}
<1> DEFINE r == LndGrpc(updates)
<1>1. r.tag \in {"ok", "payment_failed", "backend"}
    BY DEF LndGrpc, Ok, Error, ClientErrorOf
<1>2. r.tag = "ok" <=> updates # <<>> /\ IsSucceeded(Head(updates))
    BY DEF LndGrpc, Ok, Error, ClientErrorOf
<1>3. r.tag = "ok" => payment = "settled"
    BY <1>2, HeadIsFirst DEF UpdatesInv, TruthOf, IsSucceeded
<1>4. CASE "early_end" \in faults
    BY <1>1, <1>3, <1>4 DEF CompleteInv, TypeInv, Trust, Waiting
<1>5. CASE "early_end" \notin faults
    <2>1. HasFinal
        BY <1>5 DEF CompleteInv, Waiting
    <2>2. updates # <<>>
        BY <2>1 DEF HasFinal
    <2>3. IsFinal(Head(updates)) /\ Head(updates).parses
        BY <1>5, <2>2, HeadIsFirst DEF UpdatesInv, WholeOf
    <2>4. ~IsSucceeded(Head(updates)) => payment = "failed"
        BY <2>2, <2>3, HeadIsFirst DEF UpdatesInv, TruthOf, IsSucceeded, IsFinal
    <2>5. QED
        BY <1>1, <1>2, <1>3, <2>2, <2>4 DEF Trust
<1>6. QED
    BY <1>1, <1>3, <1>4, <1>5

\* The adapters that poll, and Nostr Wallet Connect, which reports no failure.
LEMMA MessageAnswers ==
    ASSUME TypeInv, UpdatesInv, CompleteInv, closed = "complete",
           kind \in {"cln_rest", "cln_grpc", "swissknife", "nwc"},
           NEW r, r = ResultOf(kind, updates, "complete", FALSE)
    PROVE  /\ r.tag = "ok" => payment = "settled"
           /\ r.tag = "payment_failed" => payment \in Trust
           /\ r.tag \in {"ok", "payment_failed", "backend"}
<1>1. payment # "none" /\ updates # <<>>
    BY DEF CompleteInv, Waiting
<1>2. IsSucceeded(Head(updates)) => payment = "settled"
    BY <1>1, HeadIsFirst DEF UpdatesInv, TruthOf, IsSucceeded
<1>3. /\ r.tag = "ok" => IsSucceeded(Head(updates))
      /\ r.tag \in {"ok", "payment_failed", "backend"}
      /\ kind = "nwc" => r.tag # "payment_failed"
    <2>1. CASE kind = "cln_rest"
        BY <2>1 DEF ResultOf, ClnRest, Ok, Error, ClientErrorOf
    <2>2. CASE kind = "cln_grpc"
        BY <2>2 DEF ResultOf, ClnGrpc, Ok, Error, ClientErrorOf
    <2>3. CASE kind = "swissknife"
        BY <2>3 DEF ResultOf, SwissKnife, Ok, Error, ClientErrorOf
    <2>4. CASE kind = "nwc"
        BY <2>4 DEF ResultOf, Nwc, Ok, Error, ClientErrorOf
    <2>5. QED
        BY <2>1, <2>2, <2>3, <2>4
<1>4. kind # "nwc" => payment \in Trust
    BY <1>1 DEF TypeInv, Trust, Polling
<1>5. QED
    BY <1>2, <1>3, <1>4

\* Whatever end an answer has, the adapter reports what the port allows.
LEMMA AnswersAreAllowed ==
    ASSUME IInv, closed # "open", NEW rejected \in BOOLEAN,
           NEW r, r = ResultOf(kind, updates, closed, rejected)
    PROVE  /\ r.tag = "ok" => payment = "settled"
           /\ r.tag = "payment_failed" => payment \in Trust
           /\ r.tag \in {"ok", "payment_failed", "backend"}
<1> USE DEF IInv
<1>1. CASE closed = "complete"
    <2>1. CASE kind = "lnd_rest"
        <3>1. r = LndRest(updates)
            BY <1>1, <2>1 DEF ResultOf
        <3>2. QED
            BY <1>1, <2>1, <3>1, LndRestAnswers
    <2>2. CASE kind = "lnd_grpc"
        <3>1. r = LndGrpc(updates)
            BY <1>1, <2>2 DEF ResultOf
        <3>2. QED
            BY <1>1, <2>2, <3>1, LndGrpcAnswers
    <2>3. CASE kind \in {"cln_rest", "cln_grpc", "swissknife", "nwc"}
        <3>1. r = ResultOf(kind, updates, "complete", FALSE)
            BY <1>1, <2>3 DEF ResultOf
        <3>2. QED
            BY <1>1, <2>3, <3>1, MessageAnswers
    <2>4. QED
        BY <2>1, <2>2, <2>3 DEF TypeInv, Kinds
<1>2. CASE closed = "cut"
    BY <1>2 DEF ResultOf, Error, ClientErrorOf, TypeInv, Kinds
<1>3. CASE closed = "refused"
    BY <1>3 DEF ResultOf, SwissKnifeRefusal, Error, ClientErrorOf, TypeInv, Kinds
<1>4. QED
    BY <1>1, <1>2, <1>3 DEF TypeInv

-----------------------------------------------------------------------------
(* Updates.                                                                *)

\* What was said before stays as it was when nothing contradicts it.
LEMMA UpdatesStay ==
    ASSUME TypeInv, UpdatesInv, UNCHANGED <<kind, faults, updates>>,
           payment' = payment \/ payment \in {"none", "in_flight"},
           closed' = "open" => closed = "open"
    PROVE  UpdatesInv'
<1> SUFFICES ASSUME NEW i \in 1..Len(updates)
             PROVE  TruthOf(updates[i])' /\ WholeOf(updates[i])'
    BY DEF UpdatesInv
<1>1. TruthOf(updates[i]) /\ WholeOf(updates[i])
    BY DEF UpdatesInv
<1>2. TruthOf(updates[i])'
    BY <1>1 DEF TruthOf
<1>3. WholeOf(updates[i])'
    BY <1>1 DEF WholeOf
<1>4. QED
    BY <1>2, <1>3

LEMMA UpdateAdded ==
    ASSUME TypeInv, UpdatesInv, UNCHANGED <<kind, faults, payment>>,
           closed' = "open" => closed = "open",
           NEW update \in Messages, updates' = Append(updates, update),
           TruthOf(update), WholeOf(update)'
    PROVE  UpdatesInv' /\ updates' \in Seq(Messages) /\ updates' # <<>>
<1>1. /\ Len(updates') = Len(updates) + 1 /\ updates'[Len(updates) + 1] = update
      /\ \A i \in 1..Len(updates) : updates'[i] = updates[i]
      /\ updates' \in Seq(Messages) /\ updates' # <<>> /\ Len(updates) \in Nat
    BY DEF TypeInv
<1>2. ASSUME NEW i \in 1..Len(updates')
      PROVE  TruthOf(updates[i])' /\ WholeOf(updates[i])'
    <2>1. CASE i \in 1..Len(updates)
        <3>1. TruthOf(updates[i]) /\ WholeOf(updates[i])
            BY <2>1 DEF UpdatesInv
        <3>2. updates'[i] = updates[i]
            BY <1>1, <2>1
        <3>3. TruthOf(updates[i])'
            BY <3>1, <3>2 DEF TruthOf
        <3>4. WholeOf(updates[i])'
            BY <3>1, <3>2 DEF WholeOf
        <3>5. QED
            BY <3>3, <3>4
    <2>2. CASE i = Len(updates) + 1
        <3>1. updates'[i] = update
            BY <1>1, <2>2
        <3>2. TruthOf(updates[i])'
            BY <3>1 DEF TruthOf
        <3>3. QED
            BY <3>1, <3>2
    <2>3. QED
        BY <1>1, <2>1, <2>2
<1>3. UpdatesInv'
    BY <1>2 DEF UpdatesInv
<1>4. QED
    BY <1>1, <1>3

LEMMA FloorIsInt ==
    ASSUME NEW msat \in Nat
    PROVE  SatoshisFloor(msat) \in Int
<1>1. MsatPerSat \in Nat \ {0}
    BY Bolt11Assumption, SMT DEF MsatPerSat, MsatPerNano, PicosPerMsat
<1>2. QED
    BY <1>1, SMT DEF SatoshisFloor

\* What the node reports is a message.
LEMMA ReportsAreMessages ==
    ASSUME TypeInv, payment # "none", NEW u \in {FullUpdate} \cup Garbled
    PROVE  u \in Messages /\ u.parses /\ u.status = StatusOf[payment]
<1>1. /\ Number(asked) \in Fields /\ Number(SatoshisFloor(asked)) \in Fields
      /\ Number(feePaid) \in Fields /\ Number(SatoshisFloor(feePaid)) \in Fields
      /\ Number(asked + feePaid) \in Fields /\ Absent \in Fields /\ Junk \in Fields
    BY FloorIsInt DEF TypeInv, Number, Fields, Absent, Junk
<1>2. StatusOf[payment] \in {"IN_FLIGHT", "SUCCEEDED", "FAILED"}
    BY DEF TypeInv, StatusOf
<1>3. FullUpdate \in Messages /\ FullUpdate.parses /\ FullUpdate.status = StatusOf[payment]
    BY <1>1, <1>2 DEF FullUpdate, Update, Messages, Proofs
<1> DEFINE full == FullUpdate
<1> HIDE DEF full
<1>4. full \in Messages /\ full.parses /\ full.status = StatusOf[payment]
    BY <1>3 DEF full
<1>5. ASSUME NEW proof \in Proofs
      PROVE  LET v == [full EXCEPT !.proof = proof]
             IN  v \in Messages /\ v.parses /\ v.status = StatusOf[payment]
    BY <1>4 DEF Messages
<1>6. ASSUME NEW field \in {Absent, Junk}
      PROVE  LET v == [full EXCEPT !.msat = field]
             IN  v \in Messages /\ v.parses /\ v.status = StatusOf[payment]
    BY <1>1, <1>4 DEF Messages
<1>7. ASSUME NEW field \in {Absent, Junk}
      PROVE  LET v == [full EXCEPT !.fee = field, !.sent = field]
             IN  v \in Messages /\ v.parses /\ v.status = StatusOf[payment]
    BY <1>1, <1>4 DEF Messages
<1>8. u \in {full} \cup {[full EXCEPT !.proof = proof] : proof \in Proofs}
          \cup {[full EXCEPT !.msat = field] : field \in {Absent, Junk}}
          \cup {[full EXCEPT !.fee = field, !.sent = field] : field \in {Absent, Junk}}
    BY DEF Garbled, full
<1>9. QED
    BY <1>4, <1>5, <1>6, <1>7, <1>8

-----------------------------------------------------------------------------
(* One lemma per group of actions.                                         *)

\* The call and its end; the node and its answer stay as they are.
LEMMA CallSteps ==
    ASSUME IInv, \/ \E env \in Environments : Connect(env)
                 \/ Send \/ Return \/ Cancel
                 \/ \E wallet \in Wallets : Query(wallet)
    PROVE  IInv'
<1> USE DEF IInv
<1>1. UNCHANGED <<chosen, payment, feePaid, updates, closed>>
    BY DEF Connect, Send, Return, Cancel, Query
<1>2. call' \in {"new", "ready", "unusable", "sent", "returned", "dropped", "panicked"}
    BY DEF Connect, Send, Return, Cancel, Query, TypeInv
<1>3. TypeInv'
    BY <1>1, <1>2 DEF TypeInv, chosen
<1>4. UpdatesInv'
    BY <1>1, UpdatesStay DEF chosen
<1>5. CompleteInv'
    BY <1>1 DEF CompleteInv, HasFinal, chosen
<1>6. ResultInv'
    <2>1. ASSUME NEW env \in Environments, Connect(env)
          PROVE  ResultInv'
        BY <1>1, <2>1 DEF Connect, ResultInv
    <2>2. CASE Send
        BY <1>1, <2>2 DEF Send, ResultInv
    <2>3. CASE Return
        BY <1>1, <2>3 DEF Return, ResultInv, chosen
    <2>4. CASE Cancel
        BY <1>1, <2>4 DEF Cancel, ResultInv
    <2>5. ASSUME NEW wallet \in Wallets, Query(wallet)
          PROVE  ResultInv'
        BY <1>1, <2>5 DEF Query, ResultInv, chosen
    <2>6. QED
        BY <2>1, <2>2, <2>3, <2>4, <2>5
<1>7. QED
    BY <1>3, <1>4, <1>5, <1>6

\* The payment at the node.
LEMMA NodeSteps ==
    ASSUME IInv, Attempt \/ GiveUp \/ \E fee \in Fees : Settle(fee)
    PROVE  IInv'
<1> USE DEF IInv
<1>1. /\ UNCHANGED <<chosen, credential, call, updates, closed, result>>
      /\ payment \in {"none", "in_flight"}
      /\ payment' \in {"in_flight", "settled", "failed"}
      /\ feePaid' \in Nat
    <2>1. ASSUME Attempt PROVE feePaid' = feePaid
        BY <2>1 DEF Attempt
    <2>2. ASSUME GiveUp PROVE feePaid' = feePaid
        BY <2>2 DEF GiveUp
    <2>3. ASSUME NEW fee \in Fees, Settle(fee) PROVE feePaid' \in Nat
        BY <2>3, BackendAssumption DEF Settle
    <2>4. feePaid' \in Nat
        BY <2>1, <2>2, <2>3 DEF TypeInv
    <2>5. QED
        BY <2>4 DEF Attempt, GiveUp, Settle
<1>2. TypeInv'
    BY <1>1 DEF TypeInv, chosen
<1>3. UpdatesInv'
    BY <1>1, UpdatesStay DEF chosen
<1>4. CompleteInv'
    BY <1>1 DEF CompleteInv, HasFinal, chosen
<1>5. call \notin {"new", "ready", "unusable", "panicked"}
    BY DEF Attempt, GiveUp, Settle, ResultInv
<1>6. ResultInv'
    BY <1>1, <1>5 DEF ResultInv, chosen
<1>7. QED
    BY <1>2, <1>3, <1>4, <1>6

\* The answer grows.
LEMMA ReportStep ==
    ASSUME IInv, Report
    PROVE  IInv'
<1> USE DEF IInv
<1>1. PICK update \in {FullUpdate} \cup Garbled :
          /\ updates' = Append(updates, update)
          /\ "garbled" \notin faults => update = FullUpdate \/ payment # "settled"
    BY DEF Report
<1>2. /\ UNCHANGED <<chosen, credential, call, payment, feePaid, closed, result>>
      /\ call \in {"sent", "dropped"} /\ closed = "open" /\ payment # "none"
      /\ kind \in Streaming \/ updates = <<>>
      /\ payment = "in_flight" => kind \in Streaming \cup Polling
    BY DEF Report, UnderWay
<1>3. update \in Messages /\ update.parses /\ update.status = StatusOf[payment]
    BY <1>1, <1>2, ReportsAreMessages
<1>4. TruthOf(update)
    BY <1>2, <1>3 DEF TruthOf, StatusOf, TypeInv
<1>5. WholeOf(update)'
    <2>1. "garbled" \notin faults /\ IsSucceeded(update) =>
              update.proof = "given" /\ update.msat.form = "number" /\ update.fee.form = "number"
        <3> SUFFICES ASSUME "garbled" \notin faults, IsSucceeded(update)
                     PROVE  /\ update.proof = "given" /\ update.msat.form = "number"
                            /\ update.fee.form = "number"
            OBVIOUS
        <3>1. payment = "settled"
            BY <1>4 DEF TruthOf, IsSucceeded
        <3>2. update = FullUpdate
            BY <1>1, <3>1
        <3>3. QED
            BY <3>2 DEF FullUpdate, Update, Number
    <2>2. kind = "lnd_grpc" => IsFinal(update)
        BY <1>2, <1>3 DEF IsFinal, StatusOf, Streaming, Polling, TypeInv
    <2>3. QED
        BY <1>2, <1>3, <2>1, <2>2 DEF WholeOf, chosen
<1>6. UpdatesInv' /\ updates' \in Seq(Messages) /\ updates' # <<>>
    BY <1>1, <1>2, <1>3, <1>4, <1>5, UpdateAdded DEF chosen
<1>7. TypeInv'
    <2>1. kind \notin Streaming => Len(updates') <= 1
        BY <1>1, <1>2
    <2>2. QED
        BY <1>2, <1>6, <2>1 DEF TypeInv, chosen
<1>8. CompleteInv' /\ ResultInv'
    BY <1>2 DEF CompleteInv, ResultInv
<1>9. QED
    BY <1>6, <1>7, <1>8

LEMMA TrailerStep ==
    ASSUME IInv, Trailer
    PROVE  IInv'
<1> USE DEF IInv
<1> DEFINE update == Bare("absent")
<1>1. /\ UNCHANGED <<chosen, credential, call, payment, feePaid, closed, result>>
      /\ call \in {"sent", "dropped"} /\ closed = "open"
      /\ kind \in Streaming /\ updates' = Append(updates, update) /\ HasFinal
    BY DEF Trailer, UnderWay
<1>2. update \in Messages /\ update.parses /\ update.status = "absent"
    BY DEF Bare, Update, Messages, Fields, Absent, Proofs
<1> HIDE DEF update
<1>3. TruthOf(update) /\ WholeOf(update)'
    BY <1>1, <1>2 DEF TruthOf, WholeOf, IsSucceeded, Streaming, chosen
<1>4. UpdatesInv' /\ updates' \in Seq(Messages) /\ updates' # <<>>
    BY <1>1, <1>2, <1>3, UpdateAdded DEF chosen
<1>5. TypeInv'
    BY <1>1, <1>4 DEF TypeInv, chosen
<1>6. payment # "none"
    BY <1>1 DEF HasFinal, CompleteInv
<1>7. CompleteInv' /\ ResultInv'
    BY <1>1, <1>6 DEF CompleteInv, ResultInv
<1>8. QED
    BY <1>4, <1>5, <1>7

\* The answer ends where it is.
LEMMA EndSteps ==
    ASSUME IInv, Refuse \/ Complete \/ EndEarly \/ Cut
    PROVE  IInv'
<1> USE DEF IInv
<1>1. /\ UNCHANGED <<chosen, credential, call, payment, feePaid, updates, result>>
      /\ call \in {"sent", "dropped"} /\ closed' \in {"complete", "cut", "refused"}
    BY DEF Refuse, Complete, EndEarly, Cut, UnderWay
<1>2. TypeInv'
    BY <1>1 DEF TypeInv, chosen
<1>3. UpdatesInv'
    BY <1>1, UpdatesStay DEF chosen
<1>4. ResultInv'
    BY <1>1 DEF ResultInv
<1>5. CompleteInv'
    <2>1. ASSUME closed' = "complete", kind \in Waiting, "early_end" \notin faults
          PROVE  HasFinal
        <3>1. Complete
            BY <2>1 DEF Refuse, EndEarly, Cut
        <3>2. CASE kind = "lnd_rest"
            BY <3>1, <3>2 DEF Complete, Streaming
        <3>3. CASE kind = "lnd_grpc"
            <4>1. updates # <<>>
                BY <3>1 DEF Complete
            <4>2. 1 \in 1..Len(updates) /\ DOMAIN updates = 1..Len(updates)
                BY <4>1 DEF TypeInv
            <4>3. IsFinal(updates[1])
                BY <3>3, <4>2 DEF UpdatesInv, WholeOf
            <4>4. QED
                BY <4>2, <4>3 DEF HasFinal
        <3>4. QED
            BY <2>1, <3>2, <3>3 DEF Waiting
    <2>2. ASSUME closed' = "complete"
          PROVE  payment # "none" /\ (kind \notin Waiting => updates # <<>>)
        BY <2>2 DEF Refuse, Complete, EndEarly, Cut
    <2>3. QED
        BY <1>1, <2>1, <2>2 DEF CompleteInv, HasFinal, chosen
<1>6. QED
    BY <1>2, <1>3, <1>4, <1>5

\* What is left of a line is a message that does not parse.
LEMMA UnparsableIsMessage ==
    Unparsable \in Messages /\ ~Unparsable.parses /\ Unparsable.status = "absent"
<1> DEFINE bare == Bare("absent")
<1>1. bare \in Messages /\ bare.status = "absent"
    BY DEF Bare, Update, Messages, Fields, Absent, Proofs
<1>2. Unparsable = [bare EXCEPT !.parses = FALSE]
    BY DEF Unparsable
<1> HIDE DEF bare
<1>3. QED
    BY <1>1, <1>2 DEF Messages

\* The answer ends within a line.
LEMMA EndWithinLineStep ==
    ASSUME IInv, EndWithinLine
    PROVE  IInv'
<1> USE DEF IInv
<1>1. /\ UNCHANGED <<chosen, credential, call, payment, feePaid, result>>
      /\ call \in {"sent", "dropped"} /\ closed' = "complete"
      /\ payment # "none" /\ kind \in Rest /\ "early_end" \in faults
      /\ kind \in Streaming \/ updates = <<>>
      /\ updates' = Append(updates, Unparsable)
    BY DEF EndWithinLine, UnderWay
<1>2. Unparsable \in Messages /\ ~Unparsable.parses /\ Unparsable.status = "absent"
    BY UnparsableIsMessage
<1>3. TruthOf(Unparsable) /\ WholeOf(Unparsable)'
    BY <1>1, <1>2 DEF TruthOf, WholeOf, IsSucceeded, Rest, chosen
<1>4. UpdatesInv' /\ updates' \in Seq(Messages) /\ updates' # <<>>
    BY <1>1, <1>2, <1>3, UpdateAdded DEF chosen
<1>5. TypeInv'
    <2>1. kind \notin Streaming => Len(updates') <= 1
        BY <1>1
    <2>2. QED
        BY <1>1, <1>4, <2>1 DEF TypeInv, chosen
<1>6. CompleteInv' /\ ResultInv'
    BY <1>1, <1>4 DEF CompleteInv, ResultInv, chosen
<1>7. QED
    BY <1>4, <1>5, <1>6

LEMMA StepIInv ==
    ASSUME IInv, [Next]_vars
    PROVE  IInv'
<1>1. CASE UNCHANGED vars
    <2>1. UpdatesInv'
        BY <1>1, UpdatesStay DEF vars, chosen, IInv
    <2>2. TypeInv' /\ CompleteInv' /\ ResultInv'
        BY <1>1 DEF vars, chosen, IInv, TypeInv, CompleteInv, ResultInv, HasFinal
    <2>3. QED
        BY <2>1, <2>2 DEF IInv
<1>2. CASE Next
    BY <1>2, CallSteps, NodeSteps, ReportStep, TrailerStep, EndSteps, EndWithinLineStep DEF Next
<1>3. QED
    BY <1>1, <1>2

LEMMA BackendInvariant == Spec => []IInv
<1>1. Init => IInv
    BY InitIInv
<1>2. IInv /\ [Next]_vars => IInv'
    BY StepIInv
<1>3. QED
    BY <1>1, <1>2, PTL DEF Spec

-----------------------------------------------------------------------------
(* The port.                                                               *)

\* Nothing is answered before the node's answer is over or the request failed.
LEMMA OpenAnswer ==
    ASSUME IInv, closed = "open"
    PROVE  Answer = IF call = "returned" THEN "backend" ELSE "none"
    BY DEF IInv, ResultInv, Answer, Decided, NoResult, Error, ClientErrorOf

\* What is answered at the end is allowed by the port.
LEMMA ClosedAnswer ==
    ASSUME IInv, closed # "open"
    PROVE  /\ Answer \in {"ok", "failed", "backend"}
           /\ Answer = "ok" => payment = "settled"
           /\ Answer = "failed" => payment \in Trust
<1> DEFINE r == ResultOf(kind, updates, closed, credential = "rejected")
<1>1. /\ r.tag = "ok" => payment = "settled"
      /\ r.tag = "payment_failed" => payment \in Trust
      /\ r.tag \in {"ok", "payment_failed", "backend"}
    BY AnswersAreAllowed
<1>2. Decided = r.tag
    BY DEF Decided
<1> HIDE DEF r
<1>3. QED
    BY <1>1, <1>2 DEF Answer

LEMMA PortStep ==
    ASSUME IInv, IInv', [Next]_vars
    PROVE  [Port!PortNext]_<<Trust, payment, Answer>>
<1> USE DEF IInv
<1>1. UNCHANGED Trust
    BY DEF Next, vars, Connect, Send, Attempt, Settle, GiveUp, Report, Trailer, Refuse,
           Complete, EndEarly, EndWithinLine, Cut, Return, Cancel, Query, chosen, Trust
\* The node moves while what is answered stays as it is.
<1>2. CASE Attempt \/ GiveUp \/ \E fee \in Fees : Settle(fee)
    <2>1. UNCHANGED <<kind, credential, updates, closed, result>>
        BY <1>2 DEF Attempt, GiveUp, Settle, chosen
    <2>2. Answer' = Answer
        BY <2>1 DEF Answer, Decided
    <2>3. CASE Attempt
        BY <1>1, <2>2, <2>3 DEF Attempt, Port!PortNext, Port!PortSend
    <2>4. CASE GiveUp \/ \E fee \in Fees : Settle(fee)
        <3>1. payment = "in_flight" /\ payment' \in {"settled", "failed"}
            BY <2>4 DEF GiveUp, Settle
        <3>2. QED
            BY <1>1, <2>2, <3>1 DEF Port!PortNext, Port!PortResolve
    <2>5. QED
        BY <1>2, <2>3, <2>4
\* The answer ends.
<1>3. CASE Refuse \/ Complete \/ EndEarly \/ EndWithinLine \/ Cut
    <2>1. closed = "open" /\ closed' # "open" /\ call \in {"sent", "dropped"} /\ payment' = payment
        BY <1>3 DEF Refuse, Complete, EndEarly, EndWithinLine, Cut, UnderWay
    <2>2. Answer = "none"
        BY <2>1, OpenAnswer
    <2>3. /\ Answer' \in {"ok", "failed", "backend"}
          /\ Answer' = "ok" => payment = "settled"
          /\ Answer' = "failed" => payment \in Trust
        <3>1. (/\ Answer \in {"ok", "failed", "backend"}
               /\ Answer = "ok" => payment = "settled"
               /\ Answer = "failed" => payment \in Trust)'
            <4>1. (closed # "open")'
                BY <2>1
            <4>2. QED
                BY <4>1, ClosedAnswer, PTL
        <3>2. QED
            BY <1>1, <2>1, <3>1
    <2>4. QED
        BY <1>1, <2>1, <2>2, <2>3 DEF Port!PortNext, Port!PortReturn
\* The request fails before it is sent.
<1>4. CASE Send
    <2>1. UNCHANGED <<payment, closed>> /\ call = "ready" /\ closed = "open"
        BY <1>4 DEF Send, ResultInv
    <2>2. Answer = "none"
        BY <2>1, OpenAnswer
    <2>3. Answer' \in {"none", "backend"}
        <3>1. (closed = "open")'
            BY <2>1
        <3>2. (Answer = IF call = "returned" THEN "backend" ELSE "none")'
            BY <3>1, OpenAnswer, PTL
        <3>3. QED
            BY <3>2
    <2>4. QED
        BY <1>1, <2>1, <2>2, <2>3 DEF Port!PortNext, Port!PortReturn
<1>5. CASE \/ \E env \in Environments : Connect(env)
           \/ \E wallet \in Wallets : Query(wallet)
           \/ Report \/ Trailer \/ Cancel
    <2>1. UNCHANGED <<kind, payment, closed, result>> /\ (closed # "open" => UNCHANGED <<updates, credential>>)
        BY <1>5 DEF Connect, Query, Report, Trailer, Cancel, chosen, UnderWay, ResultInv
    <2>2. Answer' = Answer
        BY <2>1 DEF Answer, Decided
    <2>3. QED
        BY <1>1, <2>1, <2>2
\* The call returns what was decided.
<1>6. CASE Return
    <2>1. UNCHANGED <<kind, credential, payment, closed, updates>> /\ closed # "open"
        BY <1>6 DEF Return, chosen
    <2>2. Answer' = Answer
        BY <2>1 DEF Answer, Decided
    <2>3. QED
        BY <1>1, <2>1, <2>2
<1>7. CASE UNCHANGED vars
    BY <1>1, <1>7 DEF vars, chosen, Answer, Decided
<1>8. QED
    BY <1>2, <1>3, <1>4, <1>5, <1>6, <1>7 DEF Next

\* Each of the six adapters implements what the client relies on: success is
\* reported only of settled payments, failure only where it can be trusted, for
\* streams of any length and any end of the answer (port.rs:44).
THEOREM BackendsImplementPort == Spec => ImplementsPort
<1>1. Init => Port!PortInit
    <2> SUFFICES ASSUME Init PROVE Port!PortInit
        OBVIOUS
    <2>1. Trust \in SUBSET {"none", "in_flight", "settled", "failed"}
        BY DEF Trust
    <2>2. payment = "none" /\ Answer = "none"
        BY DEF Init, Answer, Decided, NoResult
    <2>3. QED
        BY <2>1, <2>2 DEF Port!PortInit, Port!PaymentStates
<1>2. IInv /\ IInv' /\ [Next]_vars => [Port!PortNext]_<<Trust, payment, Answer>>
    BY PortStep
<1>3. QED
    BY <1>1, <1>2, BackendInvariant, PTL DEF Spec, ImplementsPort, Port!PortSpec

-----------------------------------------------------------------------------
(* A success that was reported in full.                                    *)

LEMMA SuccessArrives ==
    ASSUME IInv
    PROVE  SuccessIsReported
<1> USE DEF IInv
<1> SUFFICES ASSUME call = "returned", closed = "complete",
                    NEW i \in 1..Len(updates), IsSucceeded(updates[i]), "garbled" \notin faults,
                    \A j \in 1..Len(updates) : updates[j].parses
             PROVE  result.tag = "ok"
    BY DEF SuccessIsReported, TypeInv
<1> DEFINE r == ResultOf(kind, updates, "complete", credential = "rejected")
<1>1. result = r
    BY DEF ResultInv
<1> HIDE DEF r
<1>2. Len(updates) \in Nat /\ updates # <<>>
    BY DEF TypeInv
<1>3. CASE kind = "lnd_rest"
    <2> DEFINE last == LastSucceeded(updates)
    <2>1. last \in 1..Len(updates) /\ IsSucceeded(updates[last])
        BY <1>2, ScanFindsLast
    <2> HIDE DEF last
    <2>2. updates[last].proof = "given"
        BY <2>1 DEF UpdatesInv, WholeOf
    <2>3. ~ScanFails(updates)
        <3>1. (last + 1)..Len(updates) \subseteq 1..Len(updates)
            BY <1>2, <2>1
        <3>2. QED
            BY <3>1 DEF ScanFails, last
    <2>4. LndRest(updates).tag = "ok"
        BY <1>2, <2>1, <2>2, <2>3 DEF LndRest, Ok, BytesFieldFails, VerifyPreimage, last
    <2>5. r = LndRest(updates)
        BY <1>3 DEF r, ResultOf
    <2>6. QED
        BY <1>1, <2>4, <2>5
<1>4. CASE kind # "lnd_rest"
    <2>1. i = 1 /\ Head(updates) = updates[1]
        BY <1>2, <1>4 DEF TypeInv, Streaming
    <2>2. /\ IsSucceeded(Head(updates)) /\ Head(updates).proof = "given"
          /\ Head(updates).msat.form = "number" /\ Head(updates).fee.form = "number"
        BY <2>1 DEF UpdatesInv, WholeOf
    <2>3. CASE kind = "lnd_grpc"
        BY <1>1, <1>2, <2>2, <2>3 DEF r, ResultOf, LndGrpc, Ok
    <2>4. CASE kind = "cln_grpc"
        BY <1>1, <2>2, <2>4 DEF r, ResultOf, ClnGrpc, Ok
    <2>5. CASE kind = "cln_rest"
        BY <1>1, <2>2, <2>5 DEF r, ResultOf, ClnRest, Ok, IsSucceeded
    <2>6. CASE kind = "swissknife"
        BY <1>1, <2>2, <2>6 DEF r, ResultOf, SwissKnife, SwissKnifeParses, Ok, IsSucceeded
    <2>7. CASE kind = "nwc"
        BY <1>1, <2>2, <2>7 DEF r, ResultOf, Nwc, Ok
    <2>8. QED
        BY <1>4, <2>3, <2>4, <2>5, <2>6, <2>7 DEF TypeInv, Kinds
<1>5. QED
    BY <1>3, <1>4

\* A payment that the node reported as settled in an answer that came to its end
\* is returned with its proof, wherever in the answer that report stands
\* (lnd rest.rs:330).
THEOREM BackendsReportSuccess == Spec => []SuccessIsReported
<1>1. IInv => SuccessIsReported
    BY SuccessArrives
<1>2. QED
    BY <1>1, BackendInvariant, PTL

-----------------------------------------------------------------------------
(* Satoshis.                                                               *)

LEMMA PerSat == MsatPerSat \in Nat /\ MsatPerSat >= 10
<1>1. Kilo \in Nat /\ Kilo >= 10 /\ PicosPerMsat = 10
    BY Bolt11Assumption DEF PicosPerMsat
<1>2. Kilo \div 10 \in Nat /\ Kilo \div 10 >= 1
    BY <1>1
<1>3. QED
    BY <1>1, <1>2 DEF MsatPerSat, MsatPerNano

LEMMA FloorBounds ==
    ASSUME NEW msat \in Nat
    PROVE  /\ SatoshisFloor(msat) \in Nat
           /\ SatoshisFloor(msat) * MsatPerSat <= msat
           /\ msat < (SatoshisFloor(msat) + 1) * MsatPerSat
    BY PerSat DEF SatoshisFloor

\* Rounding up and down are less than two satoshis apart.
LEMMA CeilingBounds ==
    ASSUME NEW msat \in Nat
    PROVE  /\ Satoshis(msat) \in Nat
           /\ SatoshisFloor(msat) <= Satoshis(msat)
           /\ Satoshis(msat) <= SatoshisFloor(msat) + 1
    BY PerSat DEF SatoshisFloor, Satoshis

LEMMA FloorWithin ==
    ASSUME NEW msat \in Nat, NEW sats \in Nat, msat <= sats * MsatPerSat
    PROVE  SatoshisFloor(msat) <= sats
    BY PerSat DEF SatoshisFloor

LEMMA TimesMonotonic ==
    ASSUME NEW m \in Nat, NEW a \in Int, NEW b \in Int, a <= b
    PROVE  m * a <= m * b
    OBVIOUS

\* No adapter gives its node more than the caller's limit, whatever it does with
\* one that does not fit.
LEMMA LimitsAreKept ==
    ASSUME NEW sats \in Nat, NEW k \in Kinds \ {"swissknife", "nwc"}
    PROVE  /\ FeeLimit(k, sats) \in Int /\ FeeLimit(k, sats) # NoLimit
           /\ FeeLimit(k, sats) <= sats * MsatPerSat
<1> DEFINE largest == (Modulus \div 2) - 1
           given   == IF sats > largest THEN largest ELSE sats
<1>1. /\ largest \in Int /\ largest >= -1 /\ Modulus \in Nat /\ Modulus >= 1
      /\ given \in Int /\ given >= -1 /\ given <= sats
    BY Bolt11Assumption
<1> HIDE DEF largest
<1>2. MsatPerSat * given <= MsatPerSat * sats /\ MsatPerSat * sats \in Nat
    BY <1>1, PerSat, TimesMonotonic
<1>3. CASE k = "lnd_rest"
    BY <1>3, <1>2, PerSat DEF FeeLimit, NoLimit
<1>4. CASE k = "lnd_grpc"
    <2>1. FeeLimit(k, sats) = MsatPerSat * given
        BY <1>4 DEF FeeLimit, LndGrpcFeeLimit, largest
    <2>2. given = -1 \/ MsatPerSat * given >= 0
        BY <1>1, PerSat
    <2>3. QED
        BY <1>1, <1>2, <2>1, <2>2, PerSat DEF NoLimit
<1>5. CASE k \in {"cln_rest", "cln_grpc"}
    <2>1. FeeLimit(k, sats) = IF MsatPerSat * sats < Modulus THEN MsatPerSat * sats ELSE Modulus - 1
        BY <1>5 DEF FeeLimit, ClnFeeLimit
    <2>2. QED
        BY <1>1, <1>2, <2>1, PerSat DEF NoLimit
<1>6. QED
    BY <1>3, <1>4, <1>5 DEF Kinds

-----------------------------------------------------------------------------
(* What is paid and what is said of it.                                    *)

\* What the node says of a payment that succeeded.
Said == IF "garbled" \in faults THEN Garbled ELSE {FullUpdate}

\* The node knows the limit before it pays, and every success it reports is of
\* this payment.
FeeInv ==
    /\ maxFee \in Nat
    /\ call \in {"sent", "dropped"} \/ payment # "none" => limit = FeeLimit(kind, maxFee)
    /\ feePaid = 0 \/ payment = "settled"
    /\ feePaid # 0 => limit = NoLimit \/ feePaid <= limit
    /\ \A i \in 1..Len(updates) : IsSucceeded(updates[i]) => updates[i] \in Said

LEMMA InitFeeInv == Init => FeeInv
    BY BackendAssumption DEF Init, FeeInv

\* A payment that has settled stays as it is.
LEMMA SaidStays ==
    ASSUME IInv, FeeInv, UNCHANGED <<kind, faults, asked, maxFee>>,
           payment = "settled" => UNCHANGED <<payment, feePaid>>,
           NEW i \in 1..Len(updates), IsSucceeded(updates[i])
    PROVE  updates[i] \in Said'
<1>1. payment = "settled"
    BY DEF IInv, UpdatesInv, TruthOf, IsSucceeded
<1>2. FullUpdate' = FullUpdate
    BY <1>1 DEF FullUpdate
<1>3. Garbled' = Garbled
    BY <1>2 DEF Garbled
<1>4. QED
    BY <1>2, <1>3 DEF FeeInv, Said

LEMMA SucceededStay ==
    ASSUME IInv, FeeInv, UNCHANGED <<kind, faults, asked, maxFee>>,
           payment = "settled" => UNCHANGED <<payment, feePaid>>,
           \/ updates' = updates
           \/ \E update \in Messages : /\ updates' = Append(updates, update)
                                       /\ IsSucceeded(update) => update \in Said'
    PROVE  \A i \in 1..Len(updates') : IsSucceeded(updates'[i]) => updates'[i] \in Said'
<1>1. CASE updates' = updates
    BY <1>1, SaidStays
<1>2. CASE updates' # updates
    <2>1. PICK update \in Messages : /\ updates' = Append(updates, update)
                                     /\ IsSucceeded(update) => update \in Said'
        BY <1>2
    <2>2. /\ Len(updates') = Len(updates) + 1 /\ updates'[Len(updates) + 1] = update
          /\ \A i \in 1..Len(updates) : updates'[i] = updates[i]
          /\ Len(updates) \in Nat
        BY <2>1 DEF IInv, TypeInv
    <2>3. QED
        BY <2>1, <2>2, SaidStays
<1>3. QED
    BY <1>1, <1>2


\* What may be appended: what the node says, or what is no success.
LEMMA AppendedUpdates ==
    ASSUME IInv, FeeInv,
           Report \/ Trailer \/ EndWithinLine
    PROVE  \E update \in Messages : /\ updates' = Append(updates, update)
                                    /\ IsSucceeded(update) => update \in Said'
<1>1. UNCHANGED <<kind, faults, asked, payment, feePaid>>
    BY DEF Report, Trailer, EndWithinLine, chosen
<1>2. Said' = Said
    <2>1. FullUpdate' = FullUpdate
        BY <1>1 DEF FullUpdate
    <2>2. Garbled' = Garbled
        BY <2>1 DEF Garbled
    <2>3. QED
        BY <1>1, <2>1, <2>2 DEF Said
<1>3. CASE Report
    <2>1. PICK update \in (IF "garbled" \in faults /\ payment = "settled"
                           THEN Garbled ELSE {FullUpdate}) :
                updates' = Append(updates, update)
        BY <1>3 DEF Report
    <2>2. update \in Messages /\ update.status = StatusOf[payment]
        BY <1>3, <2>1, ReportsAreMessages DEF Report, IInv
    <2>3. payment = "settled" => update \in Said
        BY <2>1 DEF Said
    <2>4. IsSucceeded(update) => payment = "settled"
        BY <1>3, <2>2 DEF IsSucceeded, StatusOf, Report, IInv, TypeInv
    <2>5. QED
        BY <1>2, <2>1, <2>2, <2>3, <2>4
<1>4. CASE Trailer
    <2>1. Bare("absent") \in Messages /\ ~IsSucceeded(Bare("absent"))
        BY DEF Bare, Update, Messages, Proofs, Fields, Absent, IsSucceeded
    <2>2. QED
        BY <1>4, <2>1 DEF Trailer
<1>5. CASE EndWithinLine
    <2>1. Unparsable \in Messages /\ ~IsSucceeded(Unparsable)
        BY UnparsableIsMessage DEF IsSucceeded
    <2>2. QED
        BY <1>5, <2>1 DEF EndWithinLine
<1>6. QED
    BY <1>3, <1>4, <1>5

LEMMA StepFeeInv == IInv /\ FeeInv /\ [Next]_vars => FeeInv'
<1> SUFFICES ASSUME IInv, FeeInv, [Next]_vars PROVE FeeInv'
    OBVIOUS
<1>1. UNCHANGED <<kind, faults, asked, maxFee>>
    BY DEF Next, Connect, Send, Attempt, GiveUp, Report, Trailer, Refuse, Complete, EndEarly,
           EndWithinLine, Cut, Return, Cancel, Settle, Query, chosen, vars
<1>2. payment = "settled" => UNCHANGED <<payment, feePaid>>
    BY DEF Next, Connect, Send, Attempt, GiveUp, Report, Trailer, Refuse, Complete, EndEarly,
           EndWithinLine, Cut, Return, Cancel, Settle, Query, chosen, vars
<1>3. Report \/ Trailer \/ EndWithinLine \/ updates' = updates
    BY DEF Next, Connect, Send, Attempt, GiveUp, Refuse, Complete, EndEarly,
           Cut, Return, Cancel, Settle, Query, chosen, vars
<1>4. \A i \in 1..Len(updates') : IsSucceeded(updates'[i]) => updates'[i] \in Said'
    <2>1. CASE updates' = updates
        BY <1>1, <1>2, <2>1, SucceededStay
    <2>2. CASE Report \/ Trailer \/ EndWithinLine
        BY <1>1, <1>2, <2>2, AppendedUpdates, SucceededStay
    <2>3. QED
        BY <1>3, <2>1, <2>2
<1>5. /\ maxFee' \in Nat
      /\ feePaid' = 0 \/ payment' = "settled"
    BY <1>1 DEF FeeInv, Next, Connect, Send, Attempt, GiveUp, Report, Trailer, Refuse, Complete,
                EndEarly, EndWithinLine, Cut, Return, Cancel, Settle, Query, vars
<1>6. /\ call' \in {"sent", "dropped"} \/ payment' # "none" => limit' = FeeLimit(kind, maxFee)
      /\ feePaid' # 0 => limit' = NoLimit \/ feePaid' <= limit'
    <2>1. CASE Send
        BY <2>1 DEF Send, FeeInv, IInv, ResultInv
    <2>2. CASE \E env \in Environments : Connect(env)
        BY <2>2 DEF Connect, FeeInv
    <2>3. CASE Attempt \/ GiveUp \/ \E fee \in Fees : Settle(fee)
        BY <2>3 DEF Attempt, GiveUp, Settle, FeeInv
    <2>4. CASE ~Send /\ ~(\E env \in Environments : Connect(env))
               /\ ~(Attempt \/ GiveUp \/ \E fee \in Fees : Settle(fee))
        <3>1. UNCHANGED <<limit, payment, feePaid>>
              /\ (call' \in {"sent", "dropped"} => call \in {"sent", "dropped"})
            BY <2>4 DEF Next, Report, Trailer, Refuse, Complete, EndEarly, EndWithinLine, Cut,
                        Return, Cancel, Query, vars
        <3>2. QED
            BY <3>1 DEF FeeInv
    <2>5. QED
        BY <2>1, <2>2, <2>3, <2>4
<1>7. QED
    BY <1>1, <1>4, <1>5, <1>6 DEF FeeInv

LEMMA FeeInvariant == Spec => [](IInv /\ FeeInv)
    BY BackendInvariant, InitFeeInv, StepFeeInv, PTL DEF Spec

\* The numbers in what the node says.
LEMMA SaidTells ==
    ASSUME TypeInv, payment = "settled", NEW u \in Said
    PROVE  /\ u.msat \in {Number(asked), Absent, Junk}
           /\ u.sat = Number(SatoshisFloor(asked))
           /\ "garbled" \notin faults =>
                /\ u.msat = Number(asked) /\ u.fee = Number(feePaid)
                /\ u.sent = Number(asked + feePaid)
<1> DEFINE full == FullUpdate
<1>1. /\ full.msat = Number(asked) /\ full.sat = Number(SatoshisFloor(asked))
      /\ full.fee = Number(feePaid) /\ full.sent = Number(asked + feePaid)
    BY DEF FullUpdate, Update
<1> HIDE DEF full
<1>2. full \in Messages
    BY ReportsAreMessages DEF full
<1>3. ASSUME NEW x PROVE LET v == [full EXCEPT !.proof = x]
                         IN  v.msat = Number(asked) /\ v.sat = Number(SatoshisFloor(asked))
    BY <1>1, <1>2 DEF Messages
<1>4. ASSUME NEW x PROVE LET v == [full EXCEPT !.msat = x]
                         IN  v.msat = x /\ v.sat = Number(SatoshisFloor(asked))
    BY <1>1, <1>2 DEF Messages
<1>5. ASSUME NEW x PROVE LET v == [full EXCEPT !.fee = x, !.sent = x]
                         IN  v.msat = Number(asked) /\ v.sat = Number(SatoshisFloor(asked))
    BY <1>1, <1>2 DEF Messages
<1>6. IF "garbled" \in faults
      THEN u \in {[full EXCEPT !.proof = proof] : proof \in Proofs}
                 \cup {[full EXCEPT !.msat = field] : field \in {Absent, Junk}}
                 \cup {[full EXCEPT !.fee = field, !.sent = field] : field \in {Absent, Junk}}
      ELSE u = full
    BY DEF Said, Garbled, full
<1>7. CASE "garbled" \notin faults
    BY <1>1, <1>6, <1>7
<1>8. CASE "garbled" \in faults
    <2>1. \/ \E x : u = [full EXCEPT !.proof = x]
          \/ \E x \in {Absent, Junk} : u = [full EXCEPT !.msat = x]
          \/ \E x : u = [full EXCEPT !.fee = x, !.sent = x]
        BY <1>6, <1>8, Zenon
    <2>2. u.msat \in {Number(asked), Absent, Junk} /\ u.sat = Number(SatoshisFloor(asked))
        BY ONLY <1>3, <1>4, <1>5, <2>1
    <2>3. QED
        BY <1>8, <2>2
<1>9. QED
    BY <1>7, <1>8


\* What each adapter makes of one success that it reads.
LEMMA ReceiptOfSuccess ==
    ASSUME IInv, payment = "settled", NEW u \in Said
    PROVE  /\ AmountSats(u) \in {0, SatoshisFloor(asked)}
           /\ MessageAmount(u) \in {0, SatoshisFloor(asked)}
           /\ "garbled" \notin faults =>
                /\ AmountSats(u) = SatoshisFloor(asked) /\ MessageAmount(u) = SatoshisFloor(asked)
                /\ FeeSats(u) = SatoshisFloor(feePaid) /\ MessageFee(u) = SatoshisFloor(feePaid)
                /\ ClnFee(u) = SatoshisFloor(feePaid)
<1>1. asked \in Nat /\ feePaid \in Nat
    BY DEF IInv, TypeInv
<1>2. /\ u.msat \in {Number(asked), Absent, Junk}
      /\ u.sat = Number(SatoshisFloor(asked))
      /\ "garbled" \notin faults =>
            /\ u.msat = Number(asked) /\ u.fee = Number(feePaid)
            /\ u.sent = Number(asked + feePaid)
    BY SaidTells DEF IInv
<1>3. SatoshisFloor(0) = 0
    BY PerSat DEF SatoshisFloor
<1>4. OrZero(u.msat) \in {0, asked} /\ OrZero(u.sat) = SatoshisFloor(asked)
    BY <1>2 DEF OrZero, Number, Absent, Junk
<1>5. AmountSats(u) \in {0, SatoshisFloor(asked)} /\ MessageAmount(u) \in {0, SatoshisFloor(asked)}
    BY <1>3, <1>4 DEF AmountSats, MessageAmount
<1>6. ASSUME "garbled" \notin faults
      PROVE  /\ AmountSats(u) = SatoshisFloor(asked) /\ MessageAmount(u) = SatoshisFloor(asked)
             /\ FeeSats(u) = SatoshisFloor(feePaid) /\ MessageFee(u) = SatoshisFloor(feePaid)
             /\ ClnFee(u) = SatoshisFloor(feePaid)
    <2>1. /\ OrZero(u.msat) = asked /\ OrZero(u.fee) = feePaid /\ OrZero(u.sent) = asked + feePaid
          /\ u.msat.form = "number" /\ u.fee.form = "number"
        BY <1>2, <1>6 DEF OrZero, Number
    <2>2. (IF OrZero(u.sent) > OrZero(u.msat) THEN OrZero(u.sent) - OrZero(u.msat) ELSE 0) = feePaid
        BY <1>1, <2>1
    <2>3. ClnFee(u) = SatoshisFloor(feePaid)
        BY <2>2, Zenon DEF ClnFee
    <2>4. QED
        BY <2>1, <2>3 DEF AmountSats, FeeSats, MessageAmount, MessageFee
<1>7. QED
    BY <1>5, <1>6

\* What a receipt says is what the invoice asked for and what the node paid,
\* rounded down, but for the wallet that names no amount.
LEMMA ReceiptTells ==
    ASSUME IInv, FeeInv, result.tag = "ok"
    PROVE  /\ payment = "settled"
           /\ result.amount \in {0, SatoshisFloor(asked)}
           /\ "garbled" \notin faults =>
                /\ kind # "nwc" => result.amount = SatoshisFloor(asked)
                /\ result.fee = SatoshisFloor(feePaid)
<1>1. call = "returned" /\ closed # "open"
    BY DEF IInv, ResultInv, NoResult, Error, ClientErrorOf
<1>2. PICK rejected \in BOOLEAN : result = ResultOf(kind, updates, closed, rejected)
    <2>1. (credential = "rejected") \in BOOLEAN
        OBVIOUS
    <2>2. QED
        BY <1>1, <2>1 DEF IInv, ResultInv
<1>3. payment = "settled"
    BY <1>1, <1>2, AnswersAreAllowed
<1>4. closed = "complete"
    BY <1>1, <1>2 DEF ResultOf, SwissKnifeRefusal, Error, ClientErrorOf, IInv, TypeInv, Kinds
<1>5. Len(updates) \in Nat /\ (updates # <<>> => Head(updates) = updates[1] /\ 1 \in 1..Len(updates))
    BY DEF IInv, TypeInv
<1>6. kind \notin Waiting => updates # <<>>
    BY <1>4 DEF IInv, CompleteInv
<1>7. ASSUME updates # <<>>, IsSucceeded(Head(updates)) PROVE Head(updates) \in Said
    BY <1>5, <1>7 DEF FeeInv
<1>8. CASE kind = "lnd_rest"
    <2> DEFINE last == LastSucceeded(updates)
               paid == updates[last]
    <2>1. result = LndRest(updates)
        BY <1>2, <1>4, <1>8 DEF ResultOf
    <2>2. last # 0 /\ result = Ok(AmountSats(paid), FeeSats(paid))
        BY <2>1 DEF LndRest, Error, ClientErrorOf
    <2>3. last \in 1..Len(updates) /\ IsSucceeded(paid)
        BY <1>5, <2>2, ScanFindsLast
    <2>4. paid \in Said
        BY <2>3 DEF FeeInv
    <2> HIDE DEF paid
    <2>5. QED
        BY <1>3, <2>2, <2>4, ReceiptOfSuccess DEF Ok
<1>9. CASE kind = "lnd_grpc"
    <2>1. result = LndGrpc(updates)
        BY <1>2, <1>4, <1>9 DEF ResultOf
    <2>2. /\ updates # <<>> /\ IsSucceeded(Head(updates))
          /\ result = Ok(MessageAmount(Head(updates)), MessageFee(Head(updates)))
        BY <2>1 DEF LndGrpc, Error, ClientErrorOf
    <2>3. QED
        BY <1>3, <1>7, <2>2, ReceiptOfSuccess DEF Ok
<1>10. CASE kind \in {"cln_rest", "cln_grpc"}
    <2>1. result = IF kind = "cln_rest" THEN ClnRest(Head(updates)) ELSE ClnGrpc(Head(updates))
        BY <1>2, <1>4, <1>10 DEF ResultOf
    <2>2. /\ IsSucceeded(Head(updates))
          /\ result = Ok(MessageAmount(Head(updates)), ClnFee(Head(updates)))
        BY <2>1 DEF ClnRest, ClnGrpc, Error, ClientErrorOf
    <2>3. QED
        BY <1>3, <1>6, <1>7, <1>10, <2>2, ReceiptOfSuccess DEF Ok, Waiting
<1>11. CASE kind = "swissknife"
    <2>1. result = SwissKnife(Head(updates))
        BY <1>2, <1>4, <1>11 DEF ResultOf
    <2>2. /\ IsSucceeded(Head(updates))
          /\ result = Ok(MessageAmount(Head(updates)), MessageFee(Head(updates)))
        BY <2>1 DEF SwissKnife, Error, ClientErrorOf
    <2>3. QED
        BY <1>3, <1>6, <1>7, <1>11, <2>2, ReceiptOfSuccess DEF Ok, Waiting
<1>12. CASE kind = "nwc"
    <2>1. result = Nwc(Head(updates))
        BY <1>2, <1>4, <1>12 DEF ResultOf
    <2>2. /\ IsSucceeded(Head(updates))
          /\ result = Ok(0, MessageFee(Head(updates)))
        BY <2>1 DEF Nwc, Error, ClientErrorOf
    <2>3. QED
        BY <1>3, <1>6, <1>7, <1>12, <2>2, ReceiptOfSuccess DEF Ok, Waiting
<1>13. QED
    BY <1>8, <1>9, <1>10, <1>11, <1>12 DEF IInv, TypeInv, Kinds

(* No routing fee beyond the caller's limit is paid or reported, for every  *)
(* width of the numbers that carry the limit, by every adapter that tells   *)
(* its node of it (swissknife/backend.rs:221, nwc/backend.rs:124).          *)
THEOREM BackendsKeepFeeLimit == Spec => []FeeWithinLimit
<1>1. ASSUME IInv, FeeInv PROVE FeeWithinLimit
    <2> SUFFICES ASSUME kind \notin {"swissknife", "nwc"}
                 PROVE  /\ feePaid <= maxFee * MsatPerSat
                        /\ result.tag = "ok" /\ "garbled" \notin faults => result.fee <= maxFee
        BY DEF FeeWithinLimit
    <2>1. maxFee \in Nat /\ feePaid \in Nat /\ kind \in Kinds \ {"swissknife", "nwc"}
        BY <1>1 DEF FeeInv, IInv, TypeInv
    <2>2. feePaid <= maxFee * MsatPerSat
        <3>1. CASE feePaid = 0
            <4>1. maxFee * MsatPerSat \in Nat
                BY <2>1, PerSat
            <4>2. QED
                BY <3>1, <4>1
        <3>2. CASE feePaid # 0
            <4>1. limit = FeeLimit(kind, maxFee) /\ (limit = NoLimit \/ feePaid <= limit)
                BY <1>1, <3>2 DEF FeeInv
            <4>2. /\ limit \in Int /\ limit # NoLimit /\ limit <= maxFee * MsatPerSat
                  /\ maxFee * MsatPerSat \in Nat
                BY <2>1, <4>1, LimitsAreKept, PerSat
            <4>3. QED
                BY <2>1, <4>1, <4>2
        <3>3. QED
            BY <3>1, <3>2
    <2>3. SatoshisFloor(feePaid) <= maxFee
        BY <2>1, <2>2, FloorWithin
    <2>4. QED
        BY <1>1, <2>2, <2>3, ReceiptTells
<1>2. QED
    BY <1>1, FeeInvariant, PTL


-----------------------------------------------------------------------------
(* The sum over channels.                                                  *)

LEMMA SmallestNat ==
    ASSUME NEW T, T \subseteq Nat, T # {}
    PROVE  \E low \in T : \A t \in T : low <= t
<1>1. PICK low \in T : \A t \in T : ~ (<<t, low>> \in OpToRel(<, Nat))
    BY NatLessThanWellFounded, WFMin, Zenon
<1>2. \A t \in T : ~ (t < low)
    BY <1>1, Zenon DEF OpToRel
<1>3. QED
    BY <1>2

\* The last of some channels.
LEMMA LastIn ==
    ASSUME NEW n \in Nat, NEW s, s \subseteq 1..n, s # {}
    PROVE  Max(s) \in s
<1>1. \E x \in s : \A y \in s : x >= y
    BY LastExists
<1>2. QED
    BY <1>1, Zenon DEF Max

\* g is what the fold of the library defines by recursion over sets of positions.
IsChannelSum(channels, g) ==
    g = [s \in SUBSET DOMAIN channels |->
            IF s = {} THEN 0 ELSE g[s \ {Max(s)}] + OrZero(channels[Max(s)])]

LEMMA ClnSumIsChannelSum ==
    ASSUME NEW channels
    PROVE  ClnSum(channels) = (CHOOSE g : IsChannelSum(channels, g))[DOMAIN channels]
    BY DEF ClnSum, FoldLeft, MapThenFoldSet, IsChannelSum

LEMMA PositionSets ==
    ASSUME NEW n \in Nat
    PROVE  /\ Cardinality(1..n) \in Nat
           /\ \A s \in SUBSET (1..n) :
                /\ IsFiniteSet(s) /\ Cardinality(s) \in Nat /\ Cardinality(s) <= Cardinality(1..n)
                /\ Cardinality(s) = 0 <=> s = {}
<1>1. IsFiniteSet(1..n)
    BY FS_Interval
<1>2. ASSUME NEW s \in SUBSET (1..n)
      PROVE  /\ IsFiniteSet(s) /\ Cardinality(s) \in Nat /\ Cardinality(s) <= Cardinality(1..n)
             /\ Cardinality(s) = 0 <=> s = {}
    <2>1. IsFiniteSet(s) /\ Cardinality(s) <= Cardinality(1..n)
        BY <1>1, FS_Subset
    <2>2. QED
        BY <2>1, FS_CardinalityType, FS_EmptySet
<1>3. QED
    BY <1>1, <1>2, FS_CardinalityType

\* The recursion has a solution: it is extended from the sets of k positions to
\* those of k + 1.
LEMMA ChannelSumExists ==
    ASSUME NEW channels, NEW n \in Nat, DOMAIN channels = 1..n
    PROVE  \E g : IsChannelSum(channels, g)
<1> DEFINE S          == 1..n
           Body(g, s) == IF s = {} THEN 0 ELSE g[s \ {Max(s)}] + OrZero(channels[Max(s)])
           Good(k)    == \E g : \A s \in SUBSET S : Cardinality(s) <= k => g[s] = Body(g, s)
           Bad        == {k \in Nat : ~Good(k)}
<1>1. ASSUME NEW s \in SUBSET S
      PROVE  IsFiniteSet(s) /\ Cardinality(s) \in Nat /\ (Cardinality(s) = 0 <=> s = {})
    BY PositionSets
<1>2. ASSUME NEW k \in Bad, \A m \in Bad : k <= m PROVE FALSE
    <2>1. CASE k = 0
        <3> DEFINE g == [s \in SUBSET S |-> 0]
        <3>1. \A s \in SUBSET S : Cardinality(s) <= 0 => g[s] = Body(g, s)
            BY <1>1
        <3>2. Good(0)
            BY <3>1
        <3>3. QED
            BY <2>1, <3>2
    <2>2. CASE k # 0
        <3>1. k - 1 \in Nat /\ k - 1 \notin Bad
            <4>1. k \in Nat
                OBVIOUS
            <4> HIDE DEF Bad
            <4>2. QED
                BY <1>2, <2>2, <4>1
        <3>2. PICK g : \A s \in SUBSET S : Cardinality(s) <= k - 1 => g[s] = Body(g, s)
            BY <3>1
        <3> DEFINE h == [s \in SUBSET S |-> Body(g, s)]
        <3>3. ASSUME NEW s \in SUBSET S, Cardinality(s) <= k
              PROVE  h[s] = Body(h, s)
            <4>1. CASE s = {}
                BY <4>1
            <4>2. CASE s # {}
                <5> DEFINE r == s \ {Max(s)}
                <5>1. Max(s) \in s
                    BY <4>2, LastIn
                <5>2. r \in SUBSET S /\ Cardinality(r) = Cardinality(s) - 1
                    BY <1>1, <5>1, FS_RemoveElement
                <5>3. Cardinality(r) <= k - 1
                    BY <1>1, <3>1, <3>3, <5>2
                <5>4. g[r] = Body(g, r)
                    BY <3>2, <5>2, <5>3
                <5>5. h[r] = Body(g, r)
                    BY <5>2
                <5>6. h[s] = Body(g, s)
                    OBVIOUS
                <5>7. QED
                    BY <4>2, <5>4, <5>5, <5>6
            <4>3. QED
                BY <4>1, <4>2
        <3>4. Good(k)
            BY <3>3
        <3>5. QED
            BY <3>4
    <2>3. QED
        BY <2>1, <2>2
<1>3. Bad = {}
    <2> HIDE DEF Bad
    <2>1. Bad \subseteq Nat
        BY DEF Bad
    <2>2. QED
        BY <1>2, <2>1, SmallestNat
<1>4. Good(Cardinality(S))
    BY <1>1, <1>3
<1>5. PICK g : \A s \in SUBSET S : Cardinality(s) <= Cardinality(S) => g[s] = Body(g, s)
    BY <1>4
<1>6. \A s \in SUBSET S : g[s] = Body(g, s)
    BY <1>5, PositionSets
<1> DEFINE h == [s \in SUBSET S |-> g[s]]
<1>7. h = [s \in SUBSET S |-> Body(h, s)]
    <2>1. ASSUME NEW s \in SUBSET S PROVE h[s] = Body(h, s)
        <3>1. CASE s = {}
            BY <1>6, <3>1
        <3>2. CASE s # {}
            BY <1>6, <3>2, LastIn
        <3>3. QED
            BY <3>1, <3>2
    <2>2. QED
        BY <2>1
<1>8. QED
    BY <1>7 DEF IsChannelSum

\* A channel sum, step by step.
LEMMA ChannelSumSteps ==
    ASSUME NEW channels, NEW n \in Nat, DOMAIN channels = 1..n, NEW g, IsChannelSum(channels, g)
    PROVE  /\ g[{}] = 0
           /\ \A s \in SUBSET (1..n) : s # {} =>
                /\ Max(s) \in s
                /\ g[s] = g[s \ {Max(s)}] + OrZero(channels[Max(s)])
    BY LastIn DEF IsChannelSum

\* Unsigned amounts have an unsigned sum.
LEMMA ClnSumIsNat ==
    ASSUME NEW channels \in Seq(Fields),
           \A i \in DOMAIN channels : OrZero(channels[i]) >= 0
    PROVE  ClnSum(channels) \in Nat
<1>1. PICK n \in Nat : DOMAIN channels = 1..n
    OBVIOUS
<1>2. ASSUME NEW i \in 1..n PROVE OrZero(channels[i]) \in Nat
    <2>1. channels[i] \in Fields /\ OrZero(channels[i]) >= 0
        BY <1>1
    <2>2. channels[i].n \in Int
        BY <2>1 DEF Fields
    <2>3. OrZero(channels[i]) \in Int
        BY <2>2 DEF OrZero
    <2>4. QED
        BY <2>1, <2>3
<1>3. PICK g : IsChannelSum(channels, g) /\ ClnSum(channels) = g[1..n]
    BY <1>1, ClnSumIsChannelSum, ChannelSumExists
<1> DEFINE Bad == {s \in SUBSET (1..n) : g[s] \notin Nat}
           Sizes == {Cardinality(s) : s \in Bad}
<1>4. SUFFICES ASSUME Bad # {} PROVE FALSE
    BY <1>3
<1>5. PICK s \in Bad : \A t \in Bad : Cardinality(s) <= Cardinality(t)
    <2>1. Sizes \subseteq Nat /\ Sizes # {}
        <3>1. \A s \in Bad : Cardinality(s) \in Nat
            BY PositionSets
        <3>2. QED
            BY <1>4, <3>1
    <2>2. PICK low \in Sizes : \A size \in Sizes : low <= size
        <3> HIDE DEF Sizes
        <3>1. QED
            BY <2>1, SmallestNat
    <2>3. QED
        BY <2>2
<1>6. s # {} /\ s \in SUBSET (1..n) /\ g[s] \notin Nat
    <2>1. g[{}] = 0
        BY <1>1, <1>3, ChannelSumSteps
    <2>2. s \in SUBSET (1..n) /\ g[s] \notin Nat
        BY <1>5
    <2>3. s = {} => g[s] = g[{}]
        OBVIOUS
    <2>4. QED
        BY <2>1, <2>2, <2>3
<1>7. /\ Max(s) \in s
      /\ g[s] = g[s \ {Max(s)}] + OrZero(channels[Max(s)])
    <2>1. \A t \in SUBSET (1..n) : t # {} =>
            /\ Max(t) \in t
            /\ g[t] = g[t \ {Max(t)}] + OrZero(channels[Max(t)])
        BY <1>1, <1>3, ChannelSumSteps, Z3
    <2>2. QED
        BY <1>6, <2>1, Zenon
<1>8. /\ s \ {Max(s)} \in SUBSET (1..n)
      /\ Cardinality(s \ {Max(s)}) = Cardinality(s) - 1 /\ Cardinality(s) \in Nat
    BY <1>6, <1>7, PositionSets, FS_RemoveElement
<1>9. s \ {Max(s)} \notin Bad
    <2> HIDE DEF Bad
    <2>1. QED
        BY <1>5, <1>8
<1>10. g[s \ {Max(s)}] \in Nat /\ OrZero(channels[Max(s)]) \in Nat
    BY <1>2, <1>6, <1>7, <1>8, <1>9
<1>11. QED
    BY <1>6, <1>7, <1>10

\* One account is its own sum.
LEMMA ClnSumOfOne ==
    ASSUME NEW channels \in Seq(Fields), Len(channels) = 1
    PROVE  ClnSum(channels) = OrZero(channels[1])
<1>1. PICK n \in Nat : n = 1 /\ DOMAIN channels = 1..n /\ 1..n = {1}
    OBVIOUS
<1>2. PICK g : IsChannelSum(channels, g) /\ ClnSum(channels) = g[{1}]
    BY <1>1, ClnSumIsChannelSum, ChannelSumExists
<1>3. /\ g[{}] = 0 /\ Max({1}) \in {1}
      /\ g[{1}] = g[{1} \ {Max({1})}] + OrZero(channels[Max({1})])
    <2>1. {1} \in SUBSET (1..n) /\ {1} # {}
        BY <1>1
    <2>2. IsChannelSum(channels, g) /\ DOMAIN channels = 1..n
        BY <1>1, <1>2
    <2>3. g[{}] = 0
        BY <2>2, ChannelSumSteps
    <2>4. ASSUME NEW s \in SUBSET (1..n), s # {}
          PROVE  /\ Max(s) \in s
                 /\ g[s] = g[s \ {Max(s)}] + OrZero(channels[Max(s)])
        BY <2>2, <2>4, ChannelSumSteps
    <2>5. QED
        BY <2>1, <2>3, <2>4
<1>4. Max({1}) = 1 /\ {1} \ {1} = {}
    BY <1>3
<1>5. g[{1}] = 0 + OrZero(channels[1])
    BY <1>3, <1>4
<1>6. channels[1] \in Fields
    BY <1>1
<1>7. OrZero(channels[1]) \in Int
    BY <1>6 DEF OrZero, Fields
<1>8. QED
    BY <1>2, <1>5, <1>7


-----------------------------------------------------------------------------
(* What is reported of funds and payments.                                 *)

\* What a query returned is of a wallet that the node of this kind can have.
QueryInv ==
    queried # NotQueried =>
        \E wallet \in Wallets :
            /\ Len(wallet.channels) # 1 => kind \in {"cln_rest", "cln_grpc"}
            /\ kind # "swissknife" =>
                    \A i \in DOMAIN wallet.channels : OrZero(wallet.channels[i]) >= 0
            /\ queried = [wallet |-> wallet, sats |-> BalanceOf(kind, wallet.channels),
                          channels |-> ChannelsOf(kind, wallet.info)]

LEMMA StepQueryInv == QueryInv /\ [Next]_vars => QueryInv'
<1> SUFFICES ASSUME QueryInv, [Next]_vars PROVE QueryInv'
    OBVIOUS
<1>1. CASE \E wallet \in Wallets : Query(wallet)
    <2>1. PICK wallet \in Wallets : Query(wallet)
        BY <1>1
    <2>2. kind' = kind
        BY <2>1 DEF Query, chosen
    <2>3. QED
        BY <2>1, <2>2 DEF Query, QueryInv
<1>2. CASE ~ \E wallet \in Wallets : Query(wallet)
    <2>1. UNCHANGED <<kind, queried>>
        BY <1>2 DEF Next, Connect, Send, Attempt, GiveUp, Report, Trailer, Refuse, Complete,
               EndEarly, EndWithinLine, Cut, Return, Cancel, Settle, chosen, vars
    <2>2. QED
        BY <2>1 DEF QueryInv, NotQueried
<1>3. QED
    BY <1>1, <1>2

\* A balance is what the funds are in whole satoshis, and that of a debt is 0.
LEMMA BalanceTells ==
    ASSUME IInv, NEW channels \in Seq(Fields),
           Len(channels) # 1 => kind \in {"cln_rest", "cln_grpc"},
           kind # "swissknife" => \A i \in DOMAIN channels : OrZero(channels[i]) >= 0,
           NEW sats, sats = BalanceOf(kind, channels)
    PROVE  \/ ClnSum(channels) \in Nat /\ sats = SatoshisFloor(ClnSum(channels))
           \/ ClnSum(channels) \in Int /\ ClnSum(channels) < 0 /\ sats = 0
<1>1. CASE kind \in {"cln_rest", "cln_grpc"}
    <2>1. ClnSum(channels) \in Nat
        BY <1>1, ClnSumIsNat
    <2>2. sats = SatoshisFloor(ClnSum(channels))
        BY <1>1 DEF BalanceOf, ClnRestBalance, ClnGrpcBalance
    <2>3. QED
        BY <2>1, <2>2
<1>2. CASE kind \notin {"cln_rest", "cln_grpc"}
    <2>1. Len(channels) = 1 /\ 1 \in DOMAIN channels /\ channels[1] \in Fields
        BY <1>2
    <2>2. ClnSum(channels) = OrZero(channels[1]) /\ OrZero(channels[1]) \in Int
        BY <2>1, ClnSumOfOne DEF OrZero, Fields
    <2>3. CASE kind = "swissknife"
        BY <2>2, <2>3 DEF BalanceOf, SwissKnifeBalance
    <2>4. CASE kind # "swissknife"
        <3>1. sats = SatoshisFloor(OrZero(channels[1]))
            BY <1>2, <2>4 DEF BalanceOf, LndRestBalance, LndGrpcBalance, NwcBalance, IInv,
                              TypeInv, Kinds
        <3>2. QED
            BY <2>1, <2>2, <2>4, <3>1
    <2>5. QED
        BY <2>3, <2>4
<1>3. QED
    BY <1>1, <1>2

(* What is reported is never more than what is true (port.rs): a receipt's  *)
(* amount is at most the charge of its invoice and less than a satoshi      *)
(* below it unless the wallet does not tell, and a balance is at most the   *)
(* funds, over any number of channels.                                      *)
THEOREM BackendsReportTruth == Spec => []ReportsAreCovered
<1>1. ASSUME IInv, FeeInv, QueryInv PROVE ReportsAreCovered
    <2>1. ASSUME result.tag = "ok"
          PROVE  /\ result.amount <= Satoshis(asked)
                 /\ kind # "nwc" /\ "garbled" \notin faults =>
                        result.amount + 1 >= Satoshis(asked)
        <3>1. /\ SatoshisFloor(asked) \in Nat /\ Satoshis(asked) \in Nat
              /\ SatoshisFloor(asked) <= Satoshis(asked)
              /\ Satoshis(asked) <= SatoshisFloor(asked) + 1
            BY <1>1, FloorBounds, CeilingBounds DEF IInv, TypeInv
        <3>2. QED
            BY <1>1, <2>1, <3>1, ReceiptTells
    <2>2. ASSUME queried # NotQueried
          PROVE  LET funds == ClnSum(queried.wallet.channels)
                 IN  /\ queried.sats >= 0
                     /\ queried.sats * MsatPerSat <= (IF funds > 0 THEN funds ELSE 0)
                     /\ (queried.sats + 1) * MsatPerSat > funds
        <3>1. PICK wallet \in Wallets :
                /\ Len(wallet.channels) # 1 => kind \in {"cln_rest", "cln_grpc"}
                /\ kind # "swissknife" =>
                        \A i \in DOMAIN wallet.channels : OrZero(wallet.channels[i]) >= 0
                /\ queried = [wallet |-> wallet, sats |-> BalanceOf(kind, wallet.channels),
                              channels |-> ChannelsOf(kind, wallet.info)]
            BY <1>1, <2>2 DEF QueryInv
        <3>2. PICK funds, sats :
                /\ funds = ClnSum(wallet.channels) /\ sats = BalanceOf(kind, wallet.channels)
            OBVIOUS
        <3>3. queried.sats = sats /\ ClnSum(queried.wallet.channels) = funds
            BY <3>1, <3>2
        <3>4. wallet.channels \in Seq(Fields)
            BY BackendAssumption
        <3>5. \/ funds \in Nat /\ sats = SatoshisFloor(funds)
              \/ funds \in Int /\ funds < 0 /\ sats = 0
            BY <1>1, <3>1, <3>2, <3>4, BalanceTells
        <3>6. /\ sats >= 0
              /\ sats * MsatPerSat <= (IF funds > 0 THEN funds ELSE 0)
              /\ (sats + 1) * MsatPerSat > funds
            <4>1. CASE funds \in Nat /\ sats = SatoshisFloor(funds)
                <5>1. /\ sats \in Nat /\ sats * MsatPerSat <= funds
                      /\ funds < (sats + 1) * MsatPerSat
                    BY <4>1, FloorBounds
                <5>2. sats * MsatPerSat \in Nat /\ (sats + 1) * MsatPerSat \in Nat
                    BY <5>1, PerSat
                <5>3. QED
                    BY <4>1, <5>1, <5>2
            <4>2. CASE funds \in Int /\ funds < 0 /\ sats = 0
                <5>1. sats * MsatPerSat = 0 /\ (sats + 1) * MsatPerSat = MsatPerSat
                    BY <4>2, PerSat
                <5>2. QED
                    BY <4>2, <5>1, PerSat
            <4>3. QED
                BY <3>5, <4>1, <4>2
        <3>7. QED
            BY <3>3, <3>6
    <2>3. QED
        BY <2>1, <2>2 DEF ReportsAreCovered
<1>2. Init => QueryInv
    BY DEF Init, QueryInv
<1>3. QED
    BY <1>1, <1>2, FeeInvariant, StepQueryInv, PTL DEF Spec

=============================================================================
