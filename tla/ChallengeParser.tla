-------------------------- MODULE ChallengeParser --------------------------
(***************************************************************************)
(* L402Challenge::from_header and L402Token over texts.  A text is a       *)
(* sequence of atoms: the four characters the code looks for, blanks, and  *)
(* words, which stand for runs of characters that it copies.               *)
(***************************************************************************)
EXTENDS Integers, SequencesExt

CONSTANTS
    InvoiceWords,   \* words that are invoices
    Mainnet         \* those that begin with lnbc or lntb, in lower case

ASSUME ParserAssumption == Mainnet \subseteq InvoiceWords

Schemes == {"L402 ", "LSAT ", "Bearer "}

(* Alphabets of base64: "b64" is in both, "std" stands for + and /, "url"  *)
(* for - and _.  Lengths no base64 text has are left out.                  *)
Standard == {"b64", "std", "="}
UrlSafe  == {"b64", "url", "="}

(* str::trim and trim_matches: atoms of a set are stripped at both ends.   *)
Strip(text, atoms) ==
    LET kept == {i \in DOMAIN text : text[i] \notin atoms}
    IN  IF kept = {} THEN <<>>
        ELSE SubSeq(text, CHOOSE i \in kept : \A j \in kept : i <= j,
                          CHOOSE i \in kept : \A j \in kept : j <= i)
Trim(text) == Strip(text, {" "})

(* str::split_once: 0 when there is no such atom.                          *)
FirstOf(text, atom) ==
    IF Contains(text, atom)
    THEN CHOOSE i \in DOMAIN text : text[i] = atom /\ \A j \in 1..(i - 1) : text[j] # atom
    ELSE 0
Before(text, i) == SubSeq(text, 1, i - 1)
After(text, i)  == SubSeq(text, i + 1, Len(text))

-----------------------------------------------------------------------------
(* parse_params: one pass that remembers whether it is inside quotes.      *)

Keep(parts, current) ==
    IF Trim(current) = <<>> THEN parts ELSE Append(parts, Trim(current))

(* Mutant: the quotes are not looked at.                                   *)
ScanUnquoted(scan, atom) ==
    CASE atom = ","  -> [scan EXCEPT !.parts = Keep(@, scan.current), !.current = <<>>]
      [] OTHER       -> [scan EXCEPT !.current = Append(@, atom)]

Scan(scan, atom) ==
    CASE atom = "\"" -> [scan EXCEPT !.quoted = ~@, !.current = Append(@, atom)]
      [] atom = "," /\ ~scan.quoted ->
                        [scan EXCEPT !.parts = Keep(@, scan.current), !.current = <<>>]
      [] OTHER       -> [scan EXCEPT !.current = Append(@, atom)]

Params(text) ==
    LET scanned[i \in 0 .. Len(text)] ==
            IF i = 0 THEN [parts |-> <<>>, current |-> <<>>, quoted |-> FALSE]
            ELSE Scan(scanned[i - 1], text[i])
        end == scanned[Len(text)]
    IN  Keep(end.parts, end.current)

(* parse_kv: split at the first =, quotes stripped from the value, the key *)
(* in lower case.                                                          *)
LowerKey(text) == IF text = <<"MACAROON">> THEN <<"macaroon">> ELSE text
Value(param)   == Strip(Trim(After(param, FirstOf(param, "="))), {"\""})
Key(param)     == LowerKey(Trim(Before(param, FirstOf(param, "="))))

-----------------------------------------------------------------------------
Refused(reason) == [error |-> reason, macaroon |-> <<>>, invoice |-> <<>>]

HasKey(params, key) == \E i \in DOMAIN params : Key(params[i]) = <<key>>

(* Mutant: of repeated parameters the first one counts.                    *)
ValueOfFirst(params, key) ==
    Value(params[CHOOSE i \in DOMAIN params :
        /\ Key(params[i]) = <<key>>
        /\ \A j \in DOMAIN params : j < i => Key(params[j]) # <<key>>])

(* Each key has the value of its last parameter.                           *)
ValueOf(params, key) ==
    Value(params[CHOOSE i \in DOMAIN params :
        /\ Key(params[i]) = <<key>>
        /\ \A j \in DOMAIN params : j > i => Key(params[j]) # <<key>>])

IsBase64(text) == ToSet(text) \subseteq Standard \/ ToSet(text) \subseteq UrlSafe

(* Mutant: the macaroon is taken as it is.                                 *)
FromParamsUnchecked(params) ==
    IF \E i \in DOMAIN params : FirstOf(params[i], "=") = 0 THEN Refused("pair")
    ELSE IF ~HasKey(params, "macaroon") THEN Refused("no macaroon")
    ELSE IF ~HasKey(params, "invoice") THEN Refused("no invoice")
    ELSE [error |-> "", macaroon |-> ValueOf(params, "macaroon"),
          invoice |-> ValueOf(params, "invoice")]

(* A parameter that is no pair refuses the header, known or not.           *)
FromParams(params) ==
    IF \E i \in DOMAIN params : FirstOf(params[i], "=") = 0 THEN Refused("pair")
    ELSE IF ~HasKey(params, "macaroon") THEN Refused("no macaroon")
    ELSE IF ~HasKey(params, "invoice") THEN Refused("no invoice")
    ELSE IF ~IsBase64(ValueOf(params, "macaroon")) THEN Refused("base64")
    ELSE IF \/ ValueOf(params, "invoice") = <<>>
            \/ Head(ValueOf(params, "invoice")) \notin Mainnet
         THEN Refused("prefix")
    ELSE [error |-> "", macaroon |-> ValueOf(params, "macaroon"),
          invoice |-> ValueOf(params, "invoice")]

FromHeader(scheme, text) ==
    IF scheme \notin {"L402 ", "LSAT "} THEN Refused("scheme") ELSE FromParams(Params(text))

-----------------------------------------------------------------------------
(* L402Token::to_header_value and from_header, without the scheme.         *)

ToCredentials(token) == token.macaroon \o <<":">> \o token.preimage

NoToken == [macaroon |-> <<>>, preimage |-> <<>>]

FromCredentials(text) ==
    LET colon == FirstOf(text, ":")
    IN  IF colon \in {0, 1, Len(text)} THEN NoToken
        ELSE [macaroon |-> Before(text, colon), preimage |-> After(text, colon)]
=============================================================================
