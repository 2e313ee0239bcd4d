--------------------------- MODULE ChallengeFlow ---------------------------
(***************************************************************************)
(* What becomes of a 402 answer: the server writes a WWW-Authenticate      *)
(* header, the client parses it, charges the amount of its invoice and,    *)
(* once that is paid, sends macaroon and preimage as credentials.          *)
(***************************************************************************)
EXTENDS Bolt11, ChallengeParser

CONSTANTS
    Fragments,     \* what the server writes next: [text, key, value]
    MaxFragments,
    Amounts        \* invoices the server may have asked with

\* A pair with a key is written as that key, an = and the value in quotes.
IsQuoted(fragment) ==
    LET written == Head(fragment.text)
    IN  /\ fragment.text = <<written, "=", "\"">> \o fragment.value \o <<"\"">>
        /\ written \notin {",", "=", "\"", " "} /\ LowerKey(<<written>>) = <<fragment.key>>
        /\ fragment.value \in Seq(STRING \ {"\""})

\* The server writes texts.
ASSUME FragmentsAssumption ==
    \A fragment \in Fragments :
        fragment.text \in Seq(STRING) /\ (fragment.key # "" => IsQuoted(fragment))
ASSUME AmountsAssumption == Amounts \subseteq Invoices
ASSUME BoundAssumption == MaxFragments \in Nat

VARIABLES
    stage,         \* "writing", "parsed", "charged", "panicked", "refused"
    text,          \* the header so far, without its scheme
    pairs,         \* what a server that quotes its values meant by it
    loose,         \* TRUE once the server wrote anything but such pairs
    challenge,     \* the result of from_header
    invoice, charge,
    credentials

vars == <<stage, text, pairs, loose, challenge, invoice, charge, credentials>>

NoInvoice == [network |-> "other", separator |-> FALSE,
              number |-> [kind |-> "none", units |-> 0, scale |-> 1], unit |-> "btc"]

Preimage == <<"hex">>

-----------------------------------------------------------------------------
Init ==
    /\ stage = "writing" /\ text = <<>> /\ pairs = <<>> /\ loose = FALSE
    /\ challenge = Refused("") /\ invoice = NoInvoice /\ charge = 0
    /\ credentials = <<>>

(* The server writes a parameter with a comma before it, or stray atoms.   *)
Write(fragment) ==
    /\ stage = "writing" /\ Len(pairs) < MaxFragments
    /\ pairs' = Append(pairs, fragment)
    /\ text' = (IF text # <<>> /\ fragment.key # "" THEN text \o <<",", " ">> ELSE text)
               \o fragment.text
    /\ loose' = (loose \/ fragment.key = "")
    /\ UNCHANGED <<stage, challenge, invoice, charge, credentials>>

(* L402Client::extract_challenge.                                          *)
ExtractChallenge(scheme) ==
    /\ stage = "writing"
    /\ challenge' = FromHeader(scheme, text)
    /\ stage' = IF challenge'.error = "" THEN "parsed" ELSE "refused"
    /\ text' = <<>> /\ pairs' = <<>> /\ loose' = FALSE
    /\ UNCHANGED <<invoice, charge, credentials>>

(* decode_bolt11_amount on the invoice, whichever one the server put there. *)
ChargeInvoice(asked) ==
    /\ stage = "parsed"
    /\ invoice' = asked
    /\ charge' = Charge(Decode(asked))
    /\ stage' = IF Decode(asked) = Panic THEN "panicked" ELSE "charged"
    /\ UNCHANGED <<text, pairs, loose, challenge, credentials>>

(* The token as it is sent once the invoice is paid.                       *)
SendCredentials ==
    /\ stage = "charged" /\ credentials = <<>>
    /\ credentials' = ToCredentials([macaroon |-> challenge.macaroon, preimage |-> Preimage])
    /\ UNCHANGED <<stage, text, pairs, loose, challenge, invoice, charge>>

Next ==
    \/ \E fragment \in Fragments : Write(fragment)
    \/ \E scheme \in Schemes : ExtractChallenge(scheme)
    \/ \E asked \in Amounts : ChargeInvoice(asked)
    \/ SendCredentials

Spec == Init /\ [][Next]_vars

-----------------------------------------------------------------------------
(* Type correctness of the flow from header to credentials.                *)
TypeOK ==
    /\ stage \in {"writing", "parsed", "charged", "panicked", "refused"}
    /\ Len(pairs) <= MaxFragments /\ loose \in BOOLEAN
    /\ invoice \in Amounts \cup {NoInvoice} /\ charge \in 0..(Modulus - 1)

(* A comma separates parameters when an even number of quotes stands       *)
(* before it.  The parameters are what is left between such commas.        *)
Separators ==
    {i \in DOMAIN text : /\ text[i] = ","
                         /\ Cardinality({j \in 1..(i - 1) : text[j] = "\""}) % 2 = 0}
PartAfter(i) ==
    LET ends == {j \in Separators : j > i}
    IN  Trim(SubSeq(text, i + 1, IF ends = {} THEN Len(text)
                                 ELSE (CHOOSE j \in ends : \A k \in ends : j <= k) - 1))
FullStarts == {i \in {0} \cup Separators : PartAfter(i) # <<>>}

(* For every text, quoted well or not, the scanner of parse_params finds   *)
(* the parameters between the commas outside quotes, in order, and no empty *)
(* ones: behind the n-th start of a part that is not empty, the n-th.      *)
ParamsAreTheOuterParts ==
    /\ Len(Params(text)) = Cardinality(FullStarts)
    /\ \A i \in FullStarts :
            Params(text)[Cardinality({j \in FullStarts : j <= i})] = PartAfter(i)

LastOf(key) ==
    pairs[CHOOSE i \in DOMAIN pairs : /\ pairs[i].key = key
                                      /\ \A j \in DOMAIN pairs : j > i => pairs[j].key # key]
Meant(key) == \E i \in DOMAIN pairs : pairs[i].key = key

(* From a server that quotes its values, from_header gets the macaroon and  *)
(* the invoice that were meant, whatever commas and = they contain, in     *)
(* whatever order and among whatever other parameters they come; of        *)
(* repeated ones the last.  It refuses a header only if one of them is     *)
(* missing, is no base64 or is no invoice of a network it knows.           *)
QuotedValuesArrive ==
    ~loose => LET got == FromParams(Params(text))
                  good == /\ Meant("macaroon") /\ IsBase64(LastOf("macaroon").value)
                          /\ Meant("invoice") /\ LastOf("invoice").value # <<>>
                          /\ Head(LastOf("invoice").value) \in Mainnet
              IN  /\ (got.error = "") <=> good
                  /\ good => /\ got.macaroon = LastOf("macaroon").value
                             /\ got.invoice = LastOf("invoice").value

(* The exact value of an invoice, in millisatoshis times its scale; of a  *)
(* decimal beyond the width of a u64, what is left of it.                  *)
ScaleOf(asked) == IF asked.unit = "p" THEN PicosPerMsat ELSE asked.number.scale
Exact(asked) ==
    LET value == asked.number.units * (IF asked.unit = "p" THEN 1 ELSE MsatPer[asked.unit])
        width == (Modulus - 1) * ScaleOf(asked)
    IN  IF asked.number.kind = "decimal" /\ value > width THEN width ELSE value

(* What the budget is charged for an invoice that is read is its exact     *)
(* value in whole satoshis, rounded up: never less than is asked, but for  *)
(* the half millisatoshi that decimals are rounded by, and less than a     *)
(* satoshi more.  A product beyond the width of a u64 is no charge at all. *)
ChargeIsInvoiceRoundedUp ==
    stage = "charged" /\ Decode(invoice).tag = "some" =>
        LET paid  == 2 * ScaleOf(invoice) * charge * MsatPerSat
            sat   == 2 * ScaleOf(invoice) * MsatPerSat
            slack == IF invoice.number.kind = "decimal" THEN ScaleOf(invoice) ELSE 0
        IN  /\ paid + slack >= 2 * Exact(invoice)
            /\ paid < 2 * Exact(invoice) + sat + slack

(* Whoever reads the credentials of a token finds its macaroon and its     *)
(* preimage in them: what separates them is in no macaroon that from_header *)
(* accepts.  The exception is an empty macaroon, which is base64 too.      *)
CredentialsReadBack ==
    credentials # <<>> =>
        FromCredentials(credentials) =
            IF challenge.macaroon = <<>> THEN NoToken
            ELSE [macaroon |-> challenge.macaroon, preimage |-> Preimage]
=============================================================================
