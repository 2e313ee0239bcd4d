--------------------------- MODULE BackendAnswers ---------------------------
(***************************************************************************)
(* What the adapters behind LnBackend make of what their nodes answer: LND *)
(* and Core Lightning over REST and gRPC, SwissKnife, Nostr Wallet Connect. *)
(*                                                                         *)
(* The answer to a payment is a sequence of updates: the lines of a stream *)
(* from LND's REST endpoint, at most one message everywhere else.          *)
(***************************************************************************)
EXTENDS Bolt11, SequencesExt

Kinds == {"lnd_rest", "lnd_grpc", "cln_rest", "cln_grpc", "swissknife", "nwc"}
Rest  == {"lnd_rest", "cln_rest", "swissknife"}

\* Mutant: whatever goes wrong is a failed payment.
ClientErrorOfAny(error) == "payment_failed"

\* From<LndError> for ClientError, and those of the other crates.
ClientErrorOf(error) == IF error = "payment" THEN "payment_failed" ELSE "backend"

Ok(amount, fee)  == [tag |-> "ok", amount |-> amount, fee |-> fee]
Error(error)     == [tag |-> ClientErrorOf(error), amount |-> 0, fee |-> 0]
NoResult         == [tag |-> "none", amount |-> 0, fee |-> 0]

-----------------------------------------------------------------------------
(* Numbers in answers.  A number that does not parse counts as 0.          *)

Number(n) == [form |-> "number", n |-> n]
Absent    == [form |-> "absent", n |-> 0]
Junk      == [form |-> "junk", n |-> 0]

Fields == [form : {"number", "absent", "junk"}, n : Int]

OrZero(field) == IF field.form = "number" THEN field.n ELSE 0

(* A proof is what an answer says of preimage or hash.                     *)
Proofs == {"given",      \* both, and they match
           "mismatch",   \* both, and they do not
           "garbled",    \* neither hex nor base64, or empty
           "absent"}

\* Amounts and fees in millisatoshis, of LND in satoshis too; of Core Lightning
\* what was sent in place of the fee.
Update(status, proof, msat, sat, fee, feeSat, sent) ==
    [parses |-> TRUE, status |-> status, proof |-> proof, msat |-> msat, sat |-> sat,
     fee |-> fee, feeSat |-> feeSat, sent |-> sent]
Bare(status) == Update(status, "absent", Absent, Absent, Absent, Absent, Absent)
Unparsable   == [Bare("absent") EXCEPT !.parses = FALSE]

IsSucceeded(update) == update.parses /\ update.status = "SUCCEEDED"

\* Of a message with one number for each.
MessageAmount(message) == SatoshisFloor(OrZero(message.msat))
MessageFee(message)    == SatoshisFloor(OrZero(message.fee))

-----------------------------------------------------------------------------
(* LND over REST.                                                          *)

\* Millisatoshis if there are any, satoshis otherwise.
AmountSats(update) ==
    IF update.msat.form # "absent" THEN SatoshisFloor(OrZero(update.msat)) ELSE OrZero(update.sat)
FeeSats(update) ==
    IF update.fee.form # "absent" THEN SatoshisFloor(OrZero(update.fee)) ELSE OrZero(update.feeSat)

BytesFieldFails(update) == update.proof = "garbled"
VerifyPreimage(update)  == update.proof = "given"

\* The lines are scanned backward to the last that succeeded; one on the way
\* that does not parse ends the scan.
LastSucceeded(lines) == SelectLastInSeq(lines, IsSucceeded)
ScanFails(lines) == \E i \in (LastSucceeded(lines) + 1)..Len(lines) : ~lines[i].parses

\* Mutant: only the last line is looked at.
LndRestLastLine(lines) ==
    IF lines = <<>> THEN Error("payment")
    ELSE IF ~Last(lines).parses THEN Error("deserialize")
    ELSE IF ~IsSucceeded(Last(lines)) \/ Last(lines).proof = "absent" THEN Error("payment")
    ELSE Ok(AmountSats(Last(lines)), FeeSats(Last(lines)))

LndRest(lines) ==
    LET paid == lines[LastSucceeded(lines)]
    IN  IF lines = <<>> THEN Error("payment")
        ELSE IF ScanFails(lines) THEN Error("deserialize")
        ELSE IF LastSucceeded(lines) = 0 \/ paid.proof = "absent" THEN Error("payment")
        ELSE IF BytesFieldFails(paid) THEN Error("deserialize")
        ELSE IF ~VerifyPreimage(paid) THEN Error("payment")
        ELSE Ok(AmountSats(paid), FeeSats(paid))

\* A number of satoshis, which the node has rounded down, as text; what is
\* absent or no number counts as 0.
LndRestBalance(channels)  == SatoshisFloor(OrZero(channels[1]))
LndRestChannels(info)     == OrZero(info.channels)

\* An inline macaroon goes before a file.
LndRestFromEnv(env) ==
    IF env.inline THEN "ok" ELSE IF ~env.path THEN "payment" ELSE IF env.file THEN "ok" ELSE "io"

-----------------------------------------------------------------------------
(* LND over gRPC: one message, when the payment is over.                   *)

LndGrpc(messages) ==
    IF messages = <<>> \/ ~IsSucceeded(Head(messages)) THEN Error("payment")
    ELSE Ok(MessageAmount(Head(messages)), MessageFee(Head(messages)))

LndGrpcBalance(channels) == SatoshisFloor(OrZero(channels[1]))
LndGrpcChannels(info)    == OrZero(info.channels)

\* Where a gRPC client connects to; an address that is none is reported like
\* a failed payment.
ConnectTo(address) == CASE address = "invalid"     -> "payment"
                       [] address = "unreachable" -> "transport"
                       [] address = "reachable"   -> "ok"

\* All files have default paths; the connection is made at once.
LndGrpcFromEnv(env) == IF env.file THEN ConnectTo(env.address) ELSE "io"

-----------------------------------------------------------------------------
(* Core Lightning.  The fee is what was sent beyond the amount.            *)

ClnFee(message) ==
    LET amount == OrZero(message.msat)
        sent   == OrZero(message.sent)
    IN  SatoshisFloor(IF sent > amount THEN sent - amount ELSE 0)

ClnGrpc(message) ==
    IF IsSucceeded(message) THEN Ok(MessageAmount(message), ClnFee(message))
    ELSE Error("payment")

ClnRest(message) ==
    IF ~message.parses THEN Error("deserialize")
    ELSE IF ~IsSucceeded(message) \/ message.proof = "absent" THEN Error("payment")
    ELSE Ok(MessageAmount(message), ClnFee(message))

\* A sum over channels; one without a readable amount counts for nothing.
ClnSum(channels) == FoldLeft(LAMBDA sum, msat : sum + OrZero(msat), 0, channels)
ClnGrpcBalance(channels) == SatoshisFloor(ClnSum(channels))
ClnRestBalance(channels) == SatoshisFloor(ClnSum(channels))
ClnGrpcChannels(info)    == OrZero(info.channels)
ClnRestChannels(info)    == OrZero(info.channels)

ClnRestFromEnv(env) == IF env.inline THEN "ok" ELSE "payment"
ClnGrpcFromEnv(env) == IF env.file THEN ConnectTo(env.address) ELSE "io"

-----------------------------------------------------------------------------
(* SwissKnife, a custodial wallet.  The balance may be negative.           *)

\* The amount is required and the fee is not, and neither may be text.
SwissKnifeParses(message) ==
    message.parses /\ message.msat.form = "number" /\ message.fee.form # "junk"

SwissKnife(message) ==
    IF ~SwissKnifeParses(message) THEN Error("http")
    ELSE IF ~IsSucceeded(message) \/ message.proof = "absent" THEN Error("payment")
    ELSE Ok(MessageAmount(message), MessageFee(message))

\* Mutant: a debt is read as an unsigned number.
SwissKnifeBalanceUnsigned(channels) == SatoshisFloor(OrZero(channels[1]) % Modulus)

SwissKnifeBalance(channels) == LET msat == OrZero(channels[1])
                               IN  IF msat < 0 THEN 0 ELSE SatoshisFloor(msat)
SwissKnifeChannels(info)    == 0
SwissKnifeFromEnv(env)      == IF env.inline THEN "ok" ELSE "config"

\* parse_error: 401 and 403 are a matter of the key.
SwissKnifeRefusal(rejected) == Error(IF rejected THEN "auth" ELSE "api")

-----------------------------------------------------------------------------
(* Nostr Wallet Connect: the wallet names neither amount nor hash, and     *)
(* whatever goes wrong is an error of the connection.                      *)

Nwc(message) == IF IsSucceeded(message) THEN Ok(0, MessageFee(message)) ELSE Error("nwc")

NwcBalance(channels) == SatoshisFloor(OrZero(channels[1]))
NwcChannels(info)    == info.methods
NwcFromEnv(env)      == IF env.inline THEN "ok" ELSE "invalid_uri"

-----------------------------------------------------------------------------
(* The adapter of each kind.                                               *)

\* A refused or a broken answer is an error of the backend, whatever it held.
ResultOf(kind, answer, end, rejected) ==
    CASE end = "refused" /\ kind = "swissknife" -> SwissKnifeRefusal(rejected)
      [] end = "refused" /\ kind # "swissknife" -> Error(IF kind = "nwc" THEN "nwc" ELSE "api")
      [] end = "cut"                -> Error(IF kind = "nwc" THEN "nwc" ELSE "transport")
      [] end = "complete" /\ kind = "lnd_rest"   -> LndRest(answer)
      [] end = "complete" /\ kind = "lnd_grpc"   -> LndGrpc(answer)
      [] end = "complete" /\ kind = "cln_grpc"   -> ClnGrpc(Head(answer))
      [] end = "complete" /\ kind = "cln_rest"   -> ClnRest(Head(answer))
      [] end = "complete" /\ kind = "swissknife" -> SwissKnife(Head(answer))
      [] end = "complete" /\ kind = "nwc"        -> Nwc(Head(answer))

BalanceOf(kind, channels) ==
    CASE kind = "lnd_rest"   -> LndRestBalance(channels)
      [] kind = "lnd_grpc"   -> LndGrpcBalance(channels)
      [] kind = "cln_grpc"   -> ClnGrpcBalance(channels)
      [] kind = "cln_rest"   -> ClnRestBalance(channels)
      [] kind = "swissknife" -> SwissKnifeBalance(channels)
      [] kind = "nwc"        -> NwcBalance(channels)

ChannelsOf(kind, info) ==
    CASE kind = "lnd_rest"   -> LndRestChannels(info)
      [] kind = "lnd_grpc"   -> LndGrpcChannels(info)
      [] kind = "cln_grpc"   -> ClnGrpcChannels(info)
      [] kind = "cln_rest"   -> ClnRestChannels(info)
      [] kind = "swissknife" -> SwissKnifeChannels(info)
      [] kind = "nwc"        -> NwcChannels(info)

FromEnv(kind, env) ==
    CASE kind = "lnd_rest"   -> LndRestFromEnv(env)
      [] kind = "lnd_grpc"   -> LndGrpcFromEnv(env)
      [] kind = "cln_grpc"   -> ClnGrpcFromEnv(env)
      [] kind = "cln_rest"   -> ClnRestFromEnv(env)
      [] kind = "swissknife" -> SwissKnifeFromEnv(env)
      [] kind = "nwc"        -> NwcFromEnv(env)

-----------------------------------------------------------------------------
(* Fee limits, in millisatoshis.                                           *)

NoLimit == -1

\* LND is given satoshis, over gRPC in a signed number, and Core Lightning
\* millisatoshis; what does not fit becomes the largest that does.
LndGrpcFeeLimit(sats) ==
    LET largest == (Modulus \div 2) - 1
    IN  MsatPerSat * (IF sats > largest THEN largest ELSE sats)
ClnFeeLimit(sats) ==
    IF MsatPerSat * sats < Modulus THEN MsatPerSat * sats ELSE Modulus - 1

\* Mutant: LND is not told of the limit.
FeeLimitForCln(kind, sats) ==
    IF kind \in {"cln_rest", "cln_grpc"} THEN ClnFeeLimit(sats) ELSE NoLimit

\* SwissKnife and Nostr Wallet Connect take no limit.
FeeLimit(kind, sats) ==
    CASE kind = "lnd_rest"                -> MsatPerSat * sats
      [] kind = "lnd_grpc"                -> LndGrpcFeeLimit(sats)
      [] kind \in {"cln_rest", "cln_grpc"} -> ClnFeeLimit(sats)
      [] kind \in {"swissknife", "nwc"}    -> NoLimit
=============================================================================
