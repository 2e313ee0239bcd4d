------------------------------- MODULE Bolt11 -------------------------------
(***************************************************************************)
(* The amount of a BOLT11 invoice as decode_bolt11_amount reads it.  The   *)
(* text is abstracted to what the decoder tells apart: the network, whether*)
(* a separator 1 was found, the number and the letter behind it.  A number *)
(* is worth its digits, `units`, divided by `scale`: in the code a power   *)
(* of ten, one for each place behind the point.                            *)
(*                                                                         *)
(* Doubles are modelled as exact: a decimal that a double cannot hold may  *)
(* be rounded the other way when it lies next to half a millisatoshi.      *)
(***************************************************************************)
EXTENDS Integers

CONSTANTS
    Kilo,            \* the ratio of neighbouring units: 1000 in the code
    Modulus,         \* the number of values of a u64: 2^64 in the code
    OverflowChecks   \* TRUE for a build that panics on overflow

ASSUME Bolt11Assumption ==
    /\ Kilo \in Nat \ {0} /\ Kilo % 10 = 0
    /\ Modulus \in Nat \ {0}
    /\ OverflowChecks \in BOOLEAN

Networks == {"lnbc", "lntb", "lnbcrt", "lntbs", "other"}
Units    == {"m", "u", "n", "p", "btc", "unknown"}

Numbers == [kind : {"none", "junk"}, units : {0}, scale : {1}]
           \cup [kind : {"integer"}, units : Nat, scale : {1}]
           \cup [kind : {"decimal"}, units : Nat, scale : Nat \ {0}]

Invoices == [network : Networks, separator : BOOLEAN, number : Numbers, unit : Units]

-----------------------------------------------------------------------------
(* Units in millisatoshis: a nanobitcoin is a tenth of a satoshi, a        *)
(* picobitcoin a tenth of a millisatoshi.                                  *)

PicosPerMsat == 10
MsatPerNano  == Kilo \div PicosPerMsat
MsatPerSat   == 10 * MsatPerNano

MsatPer == [n |-> MsatPerNano, u |-> Kilo * MsatPerNano,
            m |-> Kilo * Kilo * MsatPerNano,
            btc |-> Kilo * Kilo * Kilo * MsatPerNano]

(* InvoiceAmount::satoshis and satoshis_floor.                             *)
SatoshisFloor(msat) == msat \div MsatPerSat
Satoshis(msat)      == (msat + MsatPerSat - 1) \div MsatPerSat

-----------------------------------------------------------------------------
NoAmount   == [tag |-> "none", msat |-> 0]
Some(msat) == [tag |-> "some", msat |-> msat]
Invalid    == [tag |-> "error", msat |-> 0]
Panic      == [tag |-> "panic", msat |-> 0]

(* An amount of zero is refused, whatever it was written as.               *)
Positive(msat) == IF msat = 0 THEN Invalid ELSE Some(msat)

(* (value * factor).round() as u64: half goes up, what is too large        *)
(* becomes the largest u64.                                                *)
RoundDecimal(number, factor) ==
    LET rounded == (2 * number.units * factor + number.scale) \div (2 * number.scale)
    IN  IF rounded < Modulus THEN rounded ELSE Modulus - 1

(* number_str.parse::<u64>() fails from 2^64 on; the product is unchecked. *)
MulWhole(number, factor) ==
    LET product == number.units * factor
    IN  IF number.units >= Modulus THEN Invalid
        ELSE IF product < Modulus THEN Positive(product)
        ELSE IF OverflowChecks THEN Panic
        ELSE Positive(product % Modulus)

(* A pico amount has no decimals and is a whole number of millisatoshis.   *)
ParsePico(number) ==
    IF \/ number.kind # "integer" \/ number.units >= Modulus
       \/ number.units % PicosPerMsat # 0
    THEN Invalid
    ELSE Positive(number.units \div PicosPerMsat)

ParseAmount(number, unit) ==
    IF unit = "p" THEN ParsePico(number)
    ELSE IF number.kind = "decimal" THEN Positive(RoundDecimal(number, MsatPer[unit]))
    ELSE MulWhole(number, MsatPer[unit])

(* Guards in the order of the code: prefix, separator, no amount at all,   *)
(* unknown letter, letter without a number.  Case makes no difference.     *)
Decode(invoice) ==
    LET number == invoice.number
    IN  IF invoice.network = "other" \/ ~invoice.separator THEN Invalid
        ELSE IF number.kind = "none" /\ invoice.unit = "btc" THEN NoAmount
        ELSE IF invoice.unit = "unknown" \/ number.kind \in {"none", "junk"} THEN Invalid
        ELSE ParseAmount(number, invoice.unit)

(* L402Client::request counts an invoice it cannot read as 0 satoshis.     *)
Charge(amount) == IF amount.tag = "some" THEN Satoshis(amount.msat) ELSE 0
=============================================================================
