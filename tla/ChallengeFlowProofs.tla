------------------------- MODULE ChallengeFlowProofs -------------------------
(***************************************************************************)
(* From the invoice to the charge, and from the header to the credentials, *)
(* for every ratio of the units, every width of the integers, every        *)
(* invoice and every text a server writes.                                 *)
(***************************************************************************)
EXTENDS ChallengeFlow, FiniteSetTheorems, SequenceTheorems, WellFoundedInduction, TLAPS

(* The charge of an invoice.                                               *)

\* div_ceil: the least number of satoshis that is enough.
LEMMA SatoshisBounds ==
    ASSUME NEW msat \in Nat
    PROVE  /\ Satoshis(msat) \in Nat
           /\ msat <= MsatPerSat * Satoshis(msat)
           /\ MsatPerSat * Satoshis(msat) < msat + MsatPerSat
<1>1. MsatPerSat \in Nat \ {0}
    BY Bolt11Assumption DEF MsatPerSat, MsatPerNano, PicosPerMsat
<1>2. ASSUME NEW n \in Nat \ {0}
      PROVE  LET q == (msat + n - 1) \div n
             IN  q \in Nat /\ msat <= n * q /\ n * q < msat + n
    <2>1. PICK q \in Nat : /\ q = (msat + n - 1) \div n
                           /\ n * q <= msat + n - 1 /\ msat + n - 1 < n * q + n
        OBVIOUS
    <2>2. n * q \in Nat
        OBVIOUS
    <2>3. msat <= n * q /\ n * q < msat + n
        BY <2>1, <2>2
    <2>4. QED
        BY <2>1, <2>3
<1>3. QED
    BY <1>1, <1>2 DEF Satoshis

\* round: half goes up, so the error is at most half a unit.
LEMMA RoundBounds ==
    ASSUME NEW value \in Nat, NEW scale \in Nat \ {0}
    PROVE  LET r == (2 * value + scale) \div (2 * scale)
           IN  /\ r \in Nat
               /\ 2 * scale * r <= 2 * value + scale
               /\ 2 * value < 2 * scale * r + scale
<1> DEFINE n == 2 * scale
<1>1. n \in Nat \ {0}
    OBVIOUS
<1> HIDE DEF n
<1>2. PICK r \in Nat : /\ r = (2 * value + scale) \div n
                       /\ n * r <= 2 * value + scale /\ 2 * value + scale < n * r + n
    BY <1>1
<1>3. n * r \in Nat
    BY <1>1
<1>4. n * r <= 2 * value + scale /\ 2 * value < n * r + scale
    <2>1. n = scale + scale
        BY DEF n
    <2>2. QED
        BY <1>1, <1>2, <1>3, <2>1
<1>5. QED
    BY <1>2, <1>4 DEF n

\* A millisatoshi amount that is off by at most slack is charged within a
\* satoshi of what is exact.
LEMMA ChargeBounds ==
    ASSUME NEW scale \in Nat \ {0}, NEW exact \in Nat, NEW slack \in Nat, NEW msat \in Nat,
           2 * scale * msat + slack >= 2 * exact,
           2 * scale * msat <= 2 * exact + slack
    PROVE  /\ 2 * scale * Satoshis(msat) * MsatPerSat + slack >= 2 * exact
           /\ 2 * scale * Satoshis(msat) * MsatPerSat
                < 2 * exact + 2 * scale * MsatPerSat + slack
<1>1. PICK paid \in Nat : paid = MsatPerSat * Satoshis(msat)
    BY SatoshisBounds, Bolt11Assumption DEF MsatPerSat, MsatPerNano, PicosPerMsat
<1>2. PICK sat \in Nat : sat = MsatPerSat
    BY Bolt11Assumption DEF MsatPerSat, MsatPerNano, PicosPerMsat
<1>3. msat <= paid /\ paid < msat + sat
    BY <1>1, <1>2, SatoshisBounds
<1> DEFINE n == 2 * scale
<1>4. n \in Nat \ {0}
    OBVIOUS
<1> HIDE DEF n
<1>5. n * msat <= n * paid /\ n * paid < n * msat + n * sat
    <2>1. n * paid <= n * (msat + sat - 1)
        BY <1>3, <1>4
    <2>2. n * (msat + sat - 1) = n * msat + n * sat - n
        BY <1>4
    <2>3. n * msat <= n * paid
        BY <1>3, <1>4
    <2>4. n * paid \in Int /\ n * msat \in Int /\ n * sat \in Int
        BY <1>4
    <2>5. QED
        BY <1>4, <2>1, <2>2, <2>3, <2>4
<1>6. n * msat + slack >= 2 * exact /\ n * msat <= 2 * exact + slack
    BY DEF n
<1>7. n * paid + slack >= 2 * exact /\ n * paid < 2 * exact + n * sat + slack
    <2>1. n * paid \in Int /\ n * msat \in Int /\ n * sat \in Int
        BY <1>4
    <2>2. QED
        BY <1>5, <1>6, <2>1
<1>8. n * paid = 2 * scale * Satoshis(msat) * MsatPerSat
    <2>1. Satoshis(msat) \in Nat /\ MsatPerSat \in Nat
        BY <1>2, SatoshisBounds
    <2>2. QED
        BY <1>1, <2>1 DEF n
<1>9. n * sat = 2 * scale * MsatPerSat
    BY <1>2 DEF n
<1>10. QED
    BY <1>7, <1>8, <1>9

\* The product of an invoice does not leave the width of a u64.
Fits(asked) ==
    asked.unit \in DOMAIN MsatPer => asked.number.units * MsatPer[asked.unit] < Modulus

Slack(asked) == IF asked.number.kind = "decimal" THEN ScaleOf(asked) ELSE 0

LEMMA MsatPerIsNat ==
    ASSUME NEW unit \in DOMAIN MsatPer
    PROVE  MsatPer[unit] \in Nat
<1>1. Kilo \in Nat /\ MsatPerNano \in Nat
    BY Bolt11Assumption DEF MsatPerNano, PicosPerMsat
<1>2. /\ Kilo * MsatPerNano \in Nat
      /\ Kilo * Kilo * MsatPerNano \in Nat
      /\ Kilo * Kilo * Kilo * MsatPerNano \in Nat
    BY <1>1
<1>3. QED
    BY <1>1, <1>2 DEF MsatPer

\* A whole number of picobitcoins: exactly a tenth as many millisatoshis.
LEMMA PicoDecoded ==
    ASSUME NEW number \in Numbers, ParsePico(number).tag = "some"
    PROVE  LET msat == ParsePico(number).msat
           IN  /\ number.kind = "integer" /\ number.units \in Nat
               /\ msat \in Nat /\ PicosPerMsat * msat = number.units
<1>1. /\ number.kind = "integer" /\ number.units % PicosPerMsat = 0
      /\ ParsePico(number) = Positive(number.units \div PicosPerMsat)
    BY DEF ParsePico, Invalid
<1>2. number.units \in Nat
    BY DEF Numbers
<1>3. /\ number.units \div 10 \in Nat
      /\ number.units = 10 * (number.units \div 10) + (number.units % 10)
    <2>1. ASSUME NEW x \in Nat PROVE x \div 10 \in Nat /\ x = 10 * (x \div 10) + (x % 10)
        OBVIOUS
    <2>2. QED
        BY <1>2, <2>1
<1>4. ParsePico(number).msat = number.units \div PicosPerMsat
    BY <1>1 DEF Positive, Some, Invalid
<1>5. QED
    BY <1>1, <1>2, <1>3, <1>4 DEF PicosPerMsat

\* A whole number of another unit: exactly as many millisatoshis.
LEMMA WholeDecoded ==
    ASSUME NEW number \in Numbers, number.kind = "integer", NEW factor \in Nat,
           OverflowChecks \/ number.units * factor < Modulus,
           MulWhole(number, factor).tag = "some"
    PROVE  /\ number.units \in Nat
           /\ MulWhole(number, factor).msat = number.units * factor
           /\ number.units * factor \in Nat
<1>1. number.units \in Nat
    BY DEF Numbers
<1>2. number.units * factor \in Nat
    BY <1>1
<1>3. number.units * factor < Modulus
    <2>1. CASE OverflowChecks
        <3>1. MulWhole(number, factor) # Panic /\ MulWhole(number, factor) # Invalid
            BY DEF Panic, Invalid
        <3>2. QED
            BY <2>1, <3>1 DEF MulWhole
    <2>2. QED
        BY <2>1
<1>4. MulWhole(number, factor) = Positive(number.units * factor)
    BY <1>3 DEF MulWhole, Invalid
<1>5. QED
    BY <1>1, <1>2, <1>4 DEF Positive, Some, Invalid

\* A decimal: what it is worth, or all that a u64 holds, but for the rounding.
LEMMA DecimalDecoded ==
    ASSUME NEW number \in Numbers, number.kind = "decimal", NEW factor \in Nat
    PROVE  LET msat  == RoundDecimal(number, factor)
               value == number.units * factor
               width == (Modulus - 1) * number.scale
               exact == IF value > width THEN width ELSE value
           IN  /\ number.scale \in Nat \ {0}
               /\ msat \in Nat /\ exact \in Nat
               /\ 2 * number.scale * msat + number.scale >= 2 * exact
               /\ 2 * number.scale * msat <= 2 * exact + number.scale
<1>1. number.units \in Nat /\ number.scale \in Nat \ {0}
    BY DEF Numbers
<1>2. PICK scale \in Nat \ {0} : scale = number.scale
    BY <1>1
<1>3. PICK value \in Nat : value = number.units * factor
    BY <1>1
<1>4. PICK top \in Nat : top = Modulus - 1
    BY Bolt11Assumption
<1>5. PICK width \in Nat : width = scale * top
    OBVIOUS
<1>6. width = (Modulus - 1) * number.scale
    BY <1>2, <1>4, <1>5
<1> DEFINE exact == IF value > width THEN width ELSE value
<1>7. PICK r \in Nat : /\ r = (2 * value + scale) \div (2 * scale)
                       /\ 2 * scale * r <= 2 * value + scale
                       /\ 2 * value < 2 * scale * r + scale
    BY RoundBounds
<1>8. RoundDecimal(number, factor) = IF r <= top THEN r ELSE top
    <2>1. 2 * number.units * factor = 2 * value
        BY <1>1, <1>3
    <2>2. r < Modulus <=> r <= top
        BY <1>4, Bolt11Assumption
    <2>3. QED
        BY <1>2, <1>4, <1>7, <2>1, <2>2 DEF RoundDecimal
<1>9. PICK low \in Nat : low = scale * r
    OBVIOUS
<1>10. 2 * low <= 2 * value + scale /\ 2 * value < 2 * low + scale
    <2>1. 2 * scale * r = 2 * low
        BY <1>9
    <2>2. QED
        BY <1>7, <2>1
<1>11. CASE r <= top
    <2>1. low <= width
        BY <1>5, <1>9, <1>11
    <2>2. 2 * low + scale >= 2 * exact /\ 2 * low <= 2 * exact + scale
        BY <1>10, <2>1
    <2>3. 2 * scale * RoundDecimal(number, factor) = 2 * low
        BY <1>8, <1>9, <1>11
    <2>4. RoundDecimal(number, factor) \in Nat
        BY <1>8, <1>11
    <2>5. QED
        BY <1>1, <1>2, <1>3, <1>6, <2>2, <2>3, <2>4
<1>12. CASE r > top
    <2>1. low >= width + scale
        <3>1. scale * r >= scale * (top + 1)
            BY <1>12
        <3>2. scale * (top + 1) = scale * top + scale
            OBVIOUS
        <3>3. QED
            BY <1>5, <1>9, <3>1, <3>2
    <2>2. value > width
        BY <1>10, <2>1
    <2>3. 2 * scale * RoundDecimal(number, factor) = 2 * width
        BY <1>5, <1>8, <1>12
    <2>4. RoundDecimal(number, factor) \in Nat
        BY <1>8, <1>12
    <2>5. QED
        BY <1>1, <1>2, <1>3, <1>6, <2>2, <2>3, <2>4
<1>13. QED
    BY <1>11, <1>12

LEMMA DecodeIsExact ==
    ASSUME NEW asked \in Invoices, Decode(asked).tag = "some", OverflowChecks \/ Fits(asked)
    PROVE  /\ ScaleOf(asked) \in Nat \ {0} /\ Exact(asked) \in Nat /\ Slack(asked) \in Nat
           /\ Decode(asked).msat \in Nat
           /\ 2 * ScaleOf(asked) * Decode(asked).msat + Slack(asked) >= 2 * Exact(asked)
           /\ 2 * ScaleOf(asked) * Decode(asked).msat <= 2 * Exact(asked) + Slack(asked)
<1> DEFINE number == asked.number
           unit   == asked.unit
<1>1. /\ number \in Numbers /\ unit \in Units
      /\ number.kind \in {"integer", "decimal"} /\ unit # "unknown"
      /\ Decode(asked) = ParseAmount(number, unit)
    BY DEF Invoices, Decode, Invalid, NoAmount, Numbers
<1>2. CASE unit = "p"
    <2>1. Decode(asked) = ParsePico(number)
        BY <1>1, <1>2 DEF ParseAmount
    <2>2. /\ number.kind = "integer" /\ number.units \in Nat /\ Decode(asked).msat \in Nat
          /\ PicosPerMsat * Decode(asked).msat = number.units
        BY <1>1, <2>1, PicoDecoded
    <2>3. /\ ScaleOf(asked) = 10 /\ Slack(asked) = 0
          /\ Exact(asked) = number.units
        BY <1>2, <2>2 DEF ScaleOf, Exact, Slack, PicosPerMsat
    <2>4. QED
        BY <2>2, <2>3 DEF PicosPerMsat
<1>3. CASE unit # "p"
    <2>1. unit \in DOMAIN MsatPer /\ MsatPer[unit] \in Nat
        <3>1. unit \in DOMAIN MsatPer
            BY <1>1, <1>3 DEF Units, MsatPer
        <3>2. QED
            BY <3>1, MsatPerIsNat
    <2>2. CASE number.kind = "integer"
        <3>1. Decode(asked) = MulWhole(number, MsatPer[unit])
            BY <1>1, <1>3, <2>2 DEF ParseAmount
        <3>2. /\ Decode(asked).msat = number.units * MsatPer[unit]
              /\ number.units * MsatPer[unit] \in Nat
            BY <1>1, <2>1, <2>2, <3>1, WholeDecoded DEF Fits
        <3>3. ScaleOf(asked) = 1 /\ Slack(asked) = 0
            BY <1>1, <1>3, <2>2 DEF ScaleOf, Slack, Numbers
        <3>4. Exact(asked) = number.units * MsatPer[unit]
            BY <1>3, <2>2 DEF Exact
        <3>5. QED
            BY <3>2, <3>3, <3>4
    <2>3. CASE number.kind = "decimal"
        <3>1. Decode(asked) = Positive(RoundDecimal(number, MsatPer[unit]))
            BY <1>1, <1>3, <2>3 DEF ParseAmount
        <3>2. Decode(asked).msat = RoundDecimal(number, MsatPer[unit])
            BY <3>1 DEF Positive, Some, Invalid
        <3>3. ScaleOf(asked) = number.scale /\ Slack(asked) = number.scale
            BY <1>3, <2>3 DEF ScaleOf, Slack
        <3>4. Exact(asked) = LET value == number.units * MsatPer[unit]
                                 width == (Modulus - 1) * number.scale
                             IN  IF value > width THEN width ELSE value
            BY <1>3, <2>3, <3>3 DEF Exact
        <3>5. QED
            BY <1>1, <2>1, <2>3, <3>2, <3>3, <3>4, DecimalDecoded
    <2>4. QED
        BY <1>1, <2>2, <2>3
<1>4. QED
    BY <1>2, <1>3

\* What was charged is the charge of the invoice.
ChargeInv ==
    stage = "charged" =>
        invoice \in Amounts /\ invoice \in Invoices /\ charge = Charge(Decode(invoice))

LEMMA ChargeInvariant == Spec => []ChargeInv
<1>1. Init => ChargeInv
    BY DEF Init, ChargeInv
<1>2. ChargeInv /\ [Next]_vars => ChargeInv'
    <2> SUFFICES ASSUME ChargeInv, [Next]_vars PROVE ChargeInv'
        OBVIOUS
    <2>1. ASSUME NEW asked \in Amounts, ChargeInvoice(asked) PROVE ChargeInv'
        <3>1. asked \in Invoices
            BY AmountsAssumption
        <3>2. QED
            BY <2>1, <3>1 DEF ChargeInvoice, ChargeInv
    <2>2. ASSUME NEW fragment \in Fragments, Write(fragment) PROVE ChargeInv'
        BY <2>2 DEF Write, ChargeInv
    <2>3. ASSUME NEW scheme \in Schemes, ExtractChallenge(scheme) PROVE ChargeInv'
        BY <2>3 DEF ExtractChallenge, ChargeInv
    <2>4. CASE SendCredentials
        BY <2>4 DEF SendCredentials, ChargeInv
    <2>5. CASE UNCHANGED vars
        BY <2>5 DEF vars, ChargeInv
    <2>6. QED
        BY <2>1, <2>2, <2>3, <2>4, <2>5 DEF Next
<1>3. QED
    BY <1>1, <1>2, PTL DEF Spec

(* The budget is charged the exact value of an invoice, rounded up to whole *)
(* satoshis (bolt11.rs, client.rs:281): in a build that panics on overflow, *)
(* and in one that wraps around as long as no product leaves its width.     *)
THEOREM FlowCharge ==
    ASSUME OverflowChecks \/ \A asked \in Amounts : Fits(asked)
    PROVE  Spec => []ChargeIsInvoiceRoundedUp
<1>1. ChargeInv => ChargeIsInvoiceRoundedUp
    <2> DEFINE paid == 2 * ScaleOf(invoice) * charge * MsatPerSat
               sat  == 2 * ScaleOf(invoice) * MsatPerSat
    <2> SUFFICES ASSUME ChargeInv, stage = "charged", Decode(invoice).tag = "some"
                 PROVE  /\ paid + Slack(invoice) >= 2 * Exact(invoice)
                        /\ paid < 2 * Exact(invoice) + sat + Slack(invoice)
        BY DEF ChargeIsInvoiceRoundedUp, Slack
    <2>1. /\ ScaleOf(invoice) \in Nat \ {0} /\ Exact(invoice) \in Nat
          /\ Slack(invoice) \in Nat /\ Decode(invoice).msat \in Nat
          /\ 2 * ScaleOf(invoice) * Decode(invoice).msat + Slack(invoice) >= 2 * Exact(invoice)
          /\ 2 * ScaleOf(invoice) * Decode(invoice).msat <= 2 * Exact(invoice) + Slack(invoice)
        BY DecodeIsExact DEF ChargeInv
    <2>2. charge = Satoshis(Decode(invoice).msat)
        BY DEF ChargeInv, Charge
    <2>3. QED
        BY <2>1, <2>2, ChargeBounds
<1>2. QED
    BY <1>1, ChargeInvariant, PTL

\* A decimal is worth nothing exactly when it is less than half a millisatoshi.
LEMMA DecimalIsRead ==
    ASSUME NEW number \in Numbers, number.kind = "decimal", NEW factor \in Nat
    PROVE  LET value == number.units * factor
               width == (Modulus - 1) * number.scale
               exact == IF value > width THEN width ELSE value
           IN  RoundDecimal(number, factor) # 0 <=> 2 * exact >= number.scale
<1>1. number.units \in Nat /\ number.scale \in Nat \ {0}
    BY DEF Numbers
<1>2. PICK scale \in Nat \ {0} : scale = number.scale
    BY <1>1
<1>3. PICK value \in Nat : value = number.units * factor
    BY <1>1
<1>4. PICK top \in Nat : top = Modulus - 1
    BY Bolt11Assumption
<1>5. PICK width \in Nat : width = top * scale
    OBVIOUS
<1> DEFINE exact == IF value > width THEN width ELSE value
<1>6. PICK r \in Nat : /\ r = (2 * value + scale) \div (2 * scale)
                       /\ 2 * scale * r <= 2 * value + scale
                       /\ 2 * value < 2 * scale * r + scale
    BY RoundBounds
<1>7. RoundDecimal(number, factor) = IF r <= top THEN r ELSE top
    <2>1. 2 * number.units * factor = 2 * value
        BY <1>1, <1>3
    <2>2. r < Modulus <=> r <= top
        BY <1>4, Bolt11Assumption
    <2>3. QED
        BY <1>2, <1>4, <1>6, <2>1, <2>2 DEF RoundDecimal
<1>8. r = 0 <=> 2 * value < scale
    <2>1. CASE r = 0
        BY <1>6, <2>1
    <2>2. CASE r >= 1
        <3>1. 2 * scale * r >= 2 * scale
            BY <2>2
        <3>2. QED
            BY <1>6, <2>2, <3>1
    <2>3. QED
        BY <2>1, <2>2
<1>9. top = 0 => width = 0
    BY <1>5
<1>10. top >= 1 => width >= scale
    BY <1>5
<1>11. RoundDecimal(number, factor) # 0 <=> 2 * exact >= scale
    <2>1. CASE top = 0
        BY <1>7, <1>9, <2>1
    <2>2. CASE top >= 1
        BY <1>7, <1>8, <1>10, <2>2
    <2>3. QED
        BY <2>1, <2>2
<1>12. QED
    BY <1>2, <1>3, <1>4, <1>5, <1>11

\* What the decoder takes for an amount: a network it knows, a unit it knows
\* and a number that fits and is not rounded to nothing; picobitcoins only in
\* whole millisatoshis.
AsksForMoney(asked) ==
    /\ asked.network # "other" /\ asked.separator /\ asked.unit # "unknown"
    /\ \/ /\ asked.number.kind = "integer" /\ asked.number.units < Modulus
          /\ Exact(asked) > 0
          /\ asked.unit = "p" => asked.number.units % PicosPerMsat = 0
       \/ /\ asked.number.kind = "decimal" /\ asked.unit # "p"
          /\ 2 * Exact(asked) >= ScaleOf(asked)

LEMMA DecodeReads ==
    ASSUME NEW asked \in Invoices, Decode(asked) # Panic, OverflowChecks \/ Fits(asked)
    PROVE  Decode(asked).tag = "some" <=> AsksForMoney(asked)
<1> DEFINE number == asked.number
           unit   == asked.unit
           known  == asked.network # "other" /\ asked.separator /\ unit # "unknown"
                     /\ number.kind \in {"integer", "decimal"}
<1>1. number \in Numbers /\ unit \in Units
    BY DEF Invoices
<1>2. CASE ~known
    <2>1. Decode(asked).tag # "some"
        BY <1>1, <1>2 DEF Decode, Invalid, NoAmount, Numbers
    <2>2. ~AsksForMoney(asked)
        BY <1>2 DEF AsksForMoney
    <2>3. QED
        BY <2>1, <2>2
<1>3. CASE known
    <2>1. Decode(asked) = ParseAmount(number, unit)
        BY <1>3 DEF Decode
    <2>2. number.units \in Nat
        BY <1>1 DEF Numbers
    <2>3. CASE unit = "p"
        <3>1. Decode(asked) = ParsePico(number)
            BY <2>1, <2>3 DEF ParseAmount
        <3>2. number.kind = "integer" => Exact(asked) = number.units
            BY <2>2, <2>3 DEF Exact
        <3>3. ASSUME number.kind = "integer", number.units < Modulus,
                     number.units % PicosPerMsat = 0
              PROVE  Decode(asked).tag = "some" <=> number.units > 0
            <4>1. Decode(asked) = Positive(number.units \div PicosPerMsat)
                BY <2>2, <3>1, <3>3, Bolt11Assumption DEF ParsePico
            <4>2. ASSUME NEW x \in Nat, x % 10 = 0 PROVE x \div 10 = 0 <=> x = 0
                <5>1. x = 10 * (x \div 10) + (x % 10)
                    OBVIOUS
                <5>2. x \div 10 \in Nat
                    OBVIOUS
                <5>3. QED
                    BY <4>2, <5>1, <5>2
            <4>3. number.units \div PicosPerMsat = 0 <=> number.units = 0
                BY <2>2, <3>3, <4>2 DEF PicosPerMsat
            <4>4. QED
                BY <2>2, <4>1, <4>3 DEF Positive, Some, Invalid
        <3>4. ASSUME \/ number.kind # "integer" \/ ~(number.units < Modulus)
                     \/ number.units % PicosPerMsat # 0
              PROVE  Decode(asked).tag # "some"
            BY <2>2, <3>1, <3>4, Bolt11Assumption DEF ParsePico, Invalid
        <3>5. QED
            BY <1>3, <2>3, <3>2, <3>3, <3>4 DEF AsksForMoney
    <2>4. CASE unit # "p"
        <3>1. unit \in DOMAIN MsatPer /\ MsatPer[unit] \in Nat
            <4>1. unit \in DOMAIN MsatPer
                BY <1>1, <1>3, <2>4 DEF Units, MsatPer
            <4>2. QED
                BY <4>1, MsatPerIsNat
        <3>2. CASE number.kind = "decimal"
            <4>1. Decode(asked) = Positive(RoundDecimal(number, MsatPer[unit]))
                BY <2>1, <2>4, <3>2 DEF ParseAmount
            <4>2. Decode(asked).tag = "some" <=> RoundDecimal(number, MsatPer[unit]) # 0
                BY <4>1 DEF Positive, Some, Invalid
            <4>3. ScaleOf(asked) = number.scale
                BY <2>4 DEF ScaleOf
            <4>4. Exact(asked) = LET value == number.units * MsatPer[unit]
                                     width == (Modulus - 1) * number.scale
                                 IN  IF value > width THEN width ELSE value
                BY <2>4, <3>2, <4>3 DEF Exact
            <4>5. Decode(asked).tag = "some" <=> 2 * Exact(asked) >= ScaleOf(asked)
                BY <1>1, <3>1, <3>2, <4>2, <4>3, <4>4, DecimalIsRead
            <4>6. QED
                BY <1>3, <2>4, <3>2, <4>5 DEF AsksForMoney
        <3>3. CASE number.kind = "integer"
            <4>1. Decode(asked) = MulWhole(number, MsatPer[unit])
                BY <2>1, <2>4, <3>3 DEF ParseAmount
            <4>2. PICK product \in Nat : product = number.units * MsatPer[unit]
                BY <2>2, <3>1
            <4>3. Exact(asked) = product
                BY <2>4, <3>3, <4>2 DEF Exact
            <4>4. ASSUME number.units < Modulus
                  PROVE  Decode(asked).tag = "some" <=> product > 0
                <5>1. product < Modulus
                    BY <2>2, <3>1, <4>1, <4>2, <4>4, Bolt11Assumption DEF MulWhole, Fits
                <5>2. Decode(asked) = Positive(product)
                    BY <2>2, <4>1, <4>2, <4>4, <5>1, Bolt11Assumption DEF MulWhole
                <5>3. QED
                    BY <4>2, <5>2 DEF Positive, Some, Invalid
            <4>5. ASSUME ~(number.units < Modulus)
                  PROVE  Decode(asked).tag # "some"
                BY <2>2, <4>1, <4>5, Bolt11Assumption DEF MulWhole, Invalid
            <4>6. QED
                BY <1>3, <2>4, <3>3, <4>3, <4>4, <4>5 DEF AsksForMoney
        <3>4. QED
            BY <1>3, <3>2, <3>3
    <2>5. QED
        BY <2>3, <2>4
<1>4. QED
    BY <1>2, <1>3

\* No amount that is read is zero.
LEMMA SomeIsPositive ==
    ASSUME NEW asked \in Invoices, Decode(asked).tag = "some", OverflowChecks \/ Fits(asked)
    PROVE  Decode(asked).msat \in Nat \ {0}
<1>1. Decode(asked).msat \in Nat
    BY DecodeIsExact
<1>2. Decode(asked) = ParseAmount(asked.number, asked.unit)
    BY DEF Decode, Invalid, NoAmount
<1>3. ASSUME NEW x, Positive(x).tag = "some" PROVE Positive(x).msat # 0
    BY <1>3 DEF Positive, Some, Invalid
<1>4. \E x : Decode(asked) = Positive(x)
    BY <1>2 DEF ParseAmount, ParsePico, MulWhole, Invalid, Panic
<1>5. QED
    BY <1>1, <1>3, <1>4

\* The engine that panics does not go on to pay.
NoPanicInv == stage = "charged" => Decode(invoice) # Panic

\* The invoices that pass the budget as nothing are those that ask for nothing
\* the decoder can read.
FreeIsUnreadable == stage = "charged" => (charge = 0 <=> ~AsksForMoney(invoice))

(* An invoice is charged as nothing exactly when it asks for nothing the    *)
(* decoder reads: no amount, a network, unit or number it does not know,   *)
(* zero, or less than half a millisatoshi (bolt11.rs, client.rs:281).  With *)
(* FlowCharge, an invoice that asks for money is charged what it asks for. *)
THEOREM FlowFree ==
    ASSUME OverflowChecks \/ \A asked \in Amounts : Fits(asked)
    PROVE  Spec => []FreeIsUnreadable
<1>1. Init => NoPanicInv
    BY DEF Init, NoPanicInv
<1>2. NoPanicInv /\ [Next]_vars => NoPanicInv'
    <2> SUFFICES ASSUME NoPanicInv, [Next]_vars PROVE NoPanicInv'
        OBVIOUS
    <2>1. ASSUME NEW asked \in Amounts, ChargeInvoice(asked) PROVE NoPanicInv'
        BY <2>1 DEF ChargeInvoice, NoPanicInv
    <2>2. ASSUME NEW fragment \in Fragments, Write(fragment) PROVE NoPanicInv'
        BY <2>2 DEF Write, NoPanicInv
    <2>3. ASSUME NEW scheme \in Schemes, ExtractChallenge(scheme) PROVE NoPanicInv'
        BY <2>3 DEF ExtractChallenge, NoPanicInv
    <2>4. CASE SendCredentials
        BY <2>4 DEF SendCredentials, NoPanicInv
    <2>5. CASE UNCHANGED vars
        BY <2>5 DEF vars, NoPanicInv
    <2>6. QED
        BY <2>1, <2>2, <2>3, <2>4, <2>5 DEF Next
<1>3. ChargeInv /\ NoPanicInv => FreeIsUnreadable
    <2> SUFFICES ASSUME ChargeInv, NoPanicInv, stage = "charged"
                 PROVE  charge = 0 <=> ~AsksForMoney(invoice)
        BY DEF FreeIsUnreadable
    <2>1. /\ invoice \in Amounts /\ invoice \in Invoices /\ Decode(invoice) # Panic
          /\ charge = Charge(Decode(invoice))
        BY DEF ChargeInv, NoPanicInv
    <2>2. Decode(invoice).tag = "some" <=> AsksForMoney(invoice)
        BY <2>1, DecodeReads
    <2>3. CASE Decode(invoice).tag # "some"
        BY <2>1, <2>2, <2>3 DEF Charge
    <2>4. CASE Decode(invoice).tag = "some"
        <3>1. Decode(invoice).msat \in Nat \ {0}
            BY <2>1, <2>4, SomeIsPositive
        <3>2. PICK msat \in Nat \ {0} : msat = Decode(invoice).msat
            BY <3>1
        <3>3. charge = Satoshis(msat)
            BY <2>1, <2>4, <3>2 DEF Charge
        <3>4. Satoshis(msat) \in Nat /\ msat <= MsatPerSat * Satoshis(msat)
            BY SatoshisBounds
        <3>5. Satoshis(msat) # 0
            <4>1. MsatPerSat \in Nat
                BY Bolt11Assumption DEF MsatPerSat, MsatPerNano, PicosPerMsat
            <4>2. Satoshis(msat) = 0 => MsatPerSat * Satoshis(msat) = 0
                BY <4>1
            <4>3. QED
                BY <3>4, <4>2
        <3>6. QED
            BY <2>2, <2>4, <3>3, <3>5
    <2>5. QED
        BY <2>3, <2>4
<1>4. QED
    BY <1>1, <1>2, <1>3, ChargeInvariant, PTL DEF Spec

\* An amount that is read fits a u64, and so does its charge.
LEMMA ChargeFits ==
    ASSUME NEW asked \in Invoices
    PROVE  Charge(Decode(asked)) \in 0 .. Modulus - 1
<1> DEFINE number == asked.number
           unit   == asked.unit
<1>1. CASE Decode(asked).tag = "some"
    <2>1. /\ number \in Numbers /\ unit \in Units
          /\ number.kind \in {"integer", "decimal"} /\ unit # "unknown"
          /\ Decode(asked) = ParseAmount(number, unit)
        BY <1>1 DEF Invoices, Decode, Invalid, NoAmount, Numbers
    <2>2. PICK msat \in 0 .. Modulus - 1 : Decode(asked).msat = msat
        <3>1. CASE unit = "p"
            <4>1. Decode(asked) = ParsePico(number)
                BY <2>1, <3>1 DEF ParseAmount
            <4>2. /\ Decode(asked).msat \in Nat /\ number.units \in Nat
                  /\ 10 * Decode(asked).msat = number.units
                BY <1>1, <2>1, <4>1, PicoDecoded DEF PicosPerMsat
            <4>3. number.units < Modulus
                BY <1>1, <4>1, <4>2, Bolt11Assumption DEF ParsePico, Invalid
            <4>4. QED
                BY <4>2, <4>3, Bolt11Assumption
        <3>2. CASE unit # "p" /\ number.kind = "decimal"
            <4>1. /\ unit \in DOMAIN MsatPer
                  /\ Decode(asked).msat = RoundDecimal(number, MsatPer[unit])
                BY <2>1, <3>2, <1>1 DEF ParseAmount, Positive, Some, Invalid, Units, MsatPer
            <4>2. RoundDecimal(number, MsatPer[unit]) \in Nat
                BY <2>1, <3>2, <4>1, MsatPerIsNat, DecimalDecoded
            <4>3. RoundDecimal(number, MsatPer[unit]) < Modulus
                BY Bolt11Assumption DEF RoundDecimal
            <4>4. QED
                BY <4>1, <4>2, <4>3, Bolt11Assumption
        <3>3. CASE unit # "p" /\ number.kind = "integer"
            <4>1. unit \in DOMAIN MsatPer /\ Decode(asked) = MulWhole(number, MsatPer[unit])
                BY <2>1, <3>3 DEF ParseAmount, Units, MsatPer
            <4>2. PICK product \in Nat : product = number.units * MsatPer[unit]
                BY <2>1, <3>3, <4>1, MsatPerIsNat DEF Numbers
            <4>3. \/ product < Modulus /\ Decode(asked) = Positive(product)
                  \/ Decode(asked) = Positive(product % Modulus)
                BY <1>1, <4>1, <4>2 DEF MulWhole, Invalid, Panic
            <4>4. product % Modulus \in 0 .. Modulus - 1
                BY Bolt11Assumption
            <4>5. QED
                BY <1>1, <4>3, <4>4, Bolt11Assumption DEF Positive, Some, Invalid
        <3>4. QED
            BY <2>1, <3>1, <3>2, <3>3
    <2>3. /\ msat \in Nat /\ Charge(Decode(asked)) = Satoshis(msat)
          /\ Satoshis(msat) \in Nat /\ MsatPerSat * Satoshis(msat) < msat + MsatPerSat
        BY <1>1, <2>2, SatoshisBounds, Bolt11Assumption DEF Charge
    <2>4. Satoshis(msat) <= msat
        <3>1. PICK sat \in Nat \ {0} : sat = MsatPerSat
            BY Bolt11Assumption DEF MsatPerSat, MsatPerNano, PicosPerMsat
        <3>2. PICK q \in Nat : q = Satoshis(msat)
            BY <2>3
        <3>3. SUFFICES ASSUME q >= msat + 1 PROVE FALSE
            BY <2>3, <3>2
        <3>4. sat * q >= sat * (msat + 1)
            BY <2>3, <3>1, <3>3
        <3>5. sat * (msat + 1) = sat * msat + sat /\ sat * msat >= msat
            BY <2>3, <3>1
        <3>6. QED
            BY <2>3, <3>1, <3>2, <3>4, <3>5
    <2>5. QED
        BY <2>2, <2>3, <2>4, Bolt11Assumption
<1>2. CASE Decode(asked).tag # "some"
    BY <1>2, Bolt11Assumption DEF Charge
<1>3. QED
    BY <1>1, <1>2

(* Type correctness of the flow; the charge always fits a u64.              *)
THEOREM FlowTypeCorrect == Spec => []TypeOK
<1> DEFINE TInv == TypeOK /\ pairs \in Seq(Fragments)
<1>1. Init => TInv
    <2> SUFFICES ASSUME Init PROVE TInv
        OBVIOUS
    <2>1. /\ stage = "writing" /\ pairs = <<>> /\ loose = FALSE
          /\ invoice = NoInvoice /\ charge = 0
        BY DEF Init
    <2>2. pairs \in Seq(Fragments) /\ Len(pairs) = 0
        BY <2>1, EmptySeq
    <2>3. loose \in BOOLEAN
        BY <2>1, Zenon
    <2>4. QED
        BY <2>1, <2>2, <2>3, Bolt11Assumption, BoundAssumption DEF TypeOK
<1>2. TInv /\ [Next]_vars => TInv'
    <2> SUFFICES ASSUME TInv, [Next]_vars PROVE TInv'
        OBVIOUS
    <2>1. ASSUME NEW fragment \in Fragments, Write(fragment) PROVE TInv'
        <3>1. /\ pairs' = Append(pairs, fragment) /\ Len(pairs) < MaxFragments
              /\ UNCHANGED <<stage, invoice, charge>>
            BY <2>1 DEF Write
        <3>2. pairs' \in Seq(Fragments) /\ Len(pairs') <= MaxFragments
            BY <3>1, BoundAssumption
        <3>3. loose' \in BOOLEAN
            BY <2>1, Zenon DEF Write
        <3>4. QED
            BY <3>1, <3>2, <3>3 DEF TypeOK
    <2>2. ASSUME NEW scheme \in Schemes, ExtractChallenge(scheme) PROVE TInv'
        <3>1. /\ stage' \in {"parsed", "refused"} /\ pairs' = <<>> /\ loose' = FALSE
              /\ UNCHANGED <<invoice, charge>>
            BY <2>2 DEF ExtractChallenge
        <3>2. pairs' \in Seq(Fragments) /\ Len(pairs') <= MaxFragments
            BY <3>1, EmptySeq, BoundAssumption
        <3>3. loose' \in BOOLEAN
            BY <3>1, Zenon
        <3>4. QED
            BY <3>1, <3>2, <3>3 DEF TypeOK
    <2>3. ASSUME NEW asked \in Amounts, ChargeInvoice(asked) PROVE TInv'
        <3>1. /\ invoice' = asked /\ charge' = Charge(Decode(asked))
              /\ stage' \in {"panicked", "charged"} /\ UNCHANGED <<pairs, loose>>
            BY <2>3 DEF ChargeInvoice
        <3>2. charge' \in 0 .. Modulus - 1
            BY <3>1, ChargeFits, AmountsAssumption
        <3>3. QED
            BY <3>1, <3>2 DEF TypeOK
    <2>4. CASE SendCredentials
        BY <2>4 DEF SendCredentials, TypeOK
    <2>5. CASE UNCHANGED vars
        BY <2>5 DEF vars, TypeOK
    <2>6. QED
        BY <2>1, <2>2, <2>3, <2>4, <2>5 DEF Next
<1>3. QED
    BY <1>1, <1>2, PTL DEF Spec

-----------------------------------------------------------------------------
(* Texts.  A is any set of atoms.                                          *)

LEMMA SmallestNat ==
    ASSUME NEW T, T \subseteq Nat, T # {}
    PROVE  \E low \in T : \A t \in T : low <= t
<1>1. PICK low \in T : \A t \in T : ~ (<<t, low>> \in OpToRel(<, Nat))
    BY NatLessThanWellFounded, WFMin, Zenon
<1>2. \A t \in T : ~ (t < low)
    BY <1>1, Zenon DEF OpToRel
<1>3. QED
    BY <1>2

\* Of some positions in a text there is a last one.
LEMMA LargestPosition ==
    ASSUME NEW n \in Nat, NEW T, T \subseteq 1 .. n, T # {}
    PROVE  \E high \in T : \A t \in T : t <= high
<1> DEFINE U == {n - t : t \in T}
<1>1. U \subseteq Nat /\ U # {}
    <2>1. \A t \in T : n - t \in Nat
        OBVIOUS
    <2>2. PICK t \in T : TRUE
        OBVIOUS
    <2>3. n - t \in U
        OBVIOUS
    <2>4. QED
        BY <2>1, <2>3
<1>2. PICK low \in U : \A u \in U : low <= u
    <2> HIDE DEF U
    <2>1. QED
        BY <1>1, SmallestNat
<1>3. PICK high \in T : low = n - high
    OBVIOUS
<1>4. \A t \in T : n - t \in U
    OBVIOUS
<1>5. \A t \in T : t \in Nat
    OBVIOUS
<1> HIDE DEF U
<1>6. \A t \in T : t <= high
    BY <1>2, <1>3, <1>4, <1>5
<1>7. QED
    BY <1>6

LEMMA PartOfText ==
    ASSUME NEW A, NEW s \in Seq(A), NEW m \in 1 .. Len(s) + 1, NEW n \in 0 .. Len(s)
    PROVE  SubSeq(s, m, n) \in Seq(A)
    OBVIOUS

LEMMA StripIsText ==
    ASSUME NEW A, NEW s \in Seq(A), NEW atoms
    PROVE  Strip(s, atoms) \in Seq(A)
<1> DEFINE kept  == {i \in DOMAIN s : s[i] \notin atoms}
           first == CHOOSE i \in kept : \A j \in kept : i <= j
           last  == CHOOSE i \in kept : \A j \in kept : j <= i
<1>1. CASE kept = {}
    BY <1>1 DEF Strip
<1>2. CASE kept # {}
    <2>1. kept \subseteq 1 .. Len(s) /\ kept \subseteq Nat /\ Len(s) \in Nat
        OBVIOUS
    <2>2. first \in kept /\ last \in kept
        <3> HIDE DEF kept
        <3>1. \E i \in kept : \A j \in kept : i <= j
            BY <1>2, <2>1, SmallestNat
        <3>2. \E i \in kept : \A j \in kept : j <= i
            BY <1>2, <2>1, LargestPosition
        <3>3. QED
            BY <3>1, <3>2
    <2>3. Strip(s, atoms) = SubSeq(s, first, last)
        BY <1>2 DEF Strip
    <2> HIDE DEF kept, first, last
    <2>4. QED
        BY <2>1, <2>2, <2>3, PartOfText
<1>3. QED
    BY <1>1, <1>2

\* split_once finds the first occurrence, and none only where there is none.
LEMMA FirstOfText ==
    ASSUME NEW A, NEW s \in Seq(A), NEW atom
    PROVE  /\ FirstOf(s, atom) \in 0 .. Len(s)
           /\ FirstOf(s, atom) = 0 => \A i \in 1 .. Len(s) : s[i] # atom
           /\ FirstOf(s, atom) # 0 =>
                /\ s[FirstOf(s, atom)] = atom
                /\ \A j \in 1 .. FirstOf(s, atom) - 1 : s[j] # atom
<1> DEFINE found == {i \in 1 .. Len(s) : s[i] = atom}
<1>1. Contains(s, atom) <=> found # {}
    BY DEF Contains
<1>2. CASE found = {}
    BY <1>1, <1>2 DEF FirstOf
<1>3. CASE found # {}
    <2>1. PICK i \in found : \A j \in found : i <= j
        <3>1. found \subseteq Nat
            OBVIOUS
        <3> HIDE DEF found
        <3>2. QED
            BY <1>3, <3>1, SmallestNat
    <2>2. i \in DOMAIN s /\ s[i] = atom /\ \A j \in 1 .. i - 1 : s[j] # atom
        BY <2>1
    <2>3. FirstOf(s, atom) = CHOOSE k \in DOMAIN s : s[k] = atom /\ \A j \in 1 .. k - 1 : s[j] # atom
        BY <1>1, <1>3 DEF FirstOf
    <2>4. PICK k \in DOMAIN s : k = FirstOf(s, atom) /\ s[k] = atom /\ \A j \in 1 .. k - 1 : s[j] # atom
        BY <2>2, <2>3
    <2>5. QED
        BY <2>4
<1>4. QED
    BY <1>2, <1>3

LEMMA ValueIsText ==
    ASSUME NEW A, NEW param \in Seq(A)
    PROVE  Value(param) \in Seq(A)
<1>1. After(param, FirstOf(param, "=")) \in Seq(A)
    <2>1. FirstOf(param, "=") \in 0 .. Len(param)
        BY FirstOfText
    <2>2. QED
        BY <2>1, PartOfText DEF After
<1>2. QED
    BY <1>1, StripIsText DEF Value, Trim

-----------------------------------------------------------------------------
(* The scanner.                                                            *)

ScanStart == [parts |-> <<>>, current |-> <<>>, quoted |-> FALSE]

ScanState(A) == [parts : Seq(Seq(A)), current : Seq(A), quoted : BOOLEAN]

\* scanned[i] is where the scanner stands behind the first i atoms.
IsScan(s, scanned) ==
    scanned = [i \in 0 .. Len(s) |-> IF i = 0 THEN ScanStart ELSE Scan(scanned[i - 1], s[i])]

LEMMA ParamsIsScan ==
    ASSUME NEW s
    PROVE  LET end == (CHOOSE scanned : IsScan(s, scanned))[Len(s)]
           IN  Params(s) = Keep(end.parts, end.current)
    BY DEF Params, IsScan, ScanStart

LEMMA KeepIsText ==
    ASSUME NEW A, NEW parts \in Seq(Seq(A)), NEW current \in Seq(A)
    PROVE  Keep(parts, current) \in Seq(Seq(A))
<1>1. Trim(current) \in Seq(A)
    BY StripIsText DEF Trim
<1>2. QED
    BY <1>1 DEF Keep

LEMMA ScanStep ==
    ASSUME NEW A, NEW state \in ScanState(A), NEW atom \in A
    PROVE  Scan(state, atom) \in ScanState(A)
<1>1. /\ state.parts \in Seq(Seq(A)) /\ state.current \in Seq(A) /\ state.quoted \in BOOLEAN
      /\ state = [parts |-> state.parts, current |-> state.current, quoted |-> state.quoted]
    BY DEF ScanState
<1>2. /\ Append(state.current, atom) \in Seq(A) /\ << >> \in Seq(A)
      /\ Keep(state.parts, state.current) \in Seq(Seq(A))
    BY <1>1, KeepIsText
<1>3. CASE atom = "\""
    <2>1. Scan(state, atom)
            = [state EXCEPT !.quoted = ~@, !.current = Append(@, atom)]
        BY <1>3 DEF Scan
    <2>2. QED
        BY <1>1, <1>2, <2>1 DEF ScanState
<1>4. CASE atom # "\"" /\ atom = "," /\ ~state.quoted
    <2>1. Scan(state, atom)
            = [state EXCEPT !.parts = Keep(@, state.current), !.current = <<>>]
        BY <1>4 DEF Scan
    <2>2. QED
        BY <1>1, <1>2, <2>1 DEF ScanState
<1>5. CASE atom # "\"" /\ ~ (atom = "," /\ ~state.quoted)
    <2>1. Scan(state, atom) = [state EXCEPT !.current = Append(@, atom)]
        BY <1>5 DEF Scan
    <2>2. QED
        BY <1>1, <1>2, <2>1 DEF ScanState
<1>6. QED
    BY <1>3, <1>4, <1>5

\* The recursion has a solution: it is extended from i atoms to i + 1.
LEMMA ScanExists ==
    ASSUME NEW s, Len(s) \in Nat
    PROVE  \E scanned : IsScan(s, scanned)
<1> DEFINE Next1(r, i) == IF i = 0 THEN ScanStart ELSE Scan(r[i - 1], s[i])
           Good(n)     == \E r : \A i \in 0 .. Len(s) : i <= n => r[i] = Next1(r, i)
           Bad         == {n \in Nat : ~Good(n)}
<1>1. ASSUME NEW n \in Bad, \A m \in Bad : n <= m PROVE FALSE
    <2>1. CASE n = 0
        <3> DEFINE r == [i \in 0 .. Len(s) |-> ScanStart]
        <3>1. \A i \in 0 .. Len(s) : i <= 0 => r[i] = Next1(r, i)
            OBVIOUS
        <3>2. Good(0)
            BY <3>1
        <3>3. QED
            BY <2>1, <3>2
    <2>2. CASE n # 0
        <3>1. n - 1 \in Nat /\ n - 1 \notin Bad /\ n \in Nat
            <4>1. n \in Nat
                OBVIOUS
            <4> HIDE DEF Bad
            <4>2. QED
                BY <1>1, <2>2, <4>1
        <3>2. PICK r : \A i \in 0 .. Len(s) : i <= n - 1 => r[i] = Next1(r, i)
            BY <3>1
        <3> DEFINE more == [i \in 0 .. Len(s) |-> Next1(r, i)]
        <3>3. ASSUME NEW i \in 0 .. Len(s), i <= n
              PROVE  more[i] = Next1(more, i)
            <4>1. CASE i = 0
                BY <4>1
            <4>2. CASE i # 0
                <5>1. i - 1 \in 0 .. Len(s) /\ i - 1 <= n - 1
                    BY <3>1, <3>3, <4>2
                <5>2. r[i - 1] = Next1(r, i - 1)
                    BY <3>2, <5>1
                <5>3. more[i - 1] = Next1(r, i - 1)
                    BY <5>1
                <5>4. more[i] = Next1(r, i)
                    OBVIOUS
                <5>5. QED
                    BY <4>2, <5>2, <5>3, <5>4
            <4>3. QED
                BY <4>1, <4>2
        <3>4. Good(n)
            BY <3>3
        <3>5. QED
            BY <3>4
    <2>3. QED
        BY <2>1, <2>2
<1>2. Bad = {}
    <2> HIDE DEF Bad
    <2>1. Bad \subseteq Nat
        BY DEF Bad
    <2>2. QED
        BY <1>1, <2>1, SmallestNat
<1>3. Good(Len(s))
    BY <1>2
<1>4. PICK r : \A i \in 0 .. Len(s) : i <= Len(s) => r[i] = Next1(r, i)
    BY <1>3
<1> DEFINE scanned == [i \in 0 .. Len(s) |-> r[i]]
<1>5. scanned = [i \in 0 .. Len(s) |-> Next1(scanned, i)]
    <2>1. ASSUME NEW i \in 0 .. Len(s) PROVE scanned[i] = Next1(scanned, i)
        <3>1. r[i] = Next1(r, i)
            BY <1>4
        <3>2. i # 0 => i - 1 \in 0 .. Len(s)
            OBVIOUS
        <3>3. QED
            BY <3>1, <3>2
    <2>2. QED
        BY <2>1
<1>6. QED
    BY <1>5 DEF IsScan

\* The scanner copies atoms of the text and nothing else.
LEMMA ScanIsText ==
    ASSUME NEW A, NEW s \in Seq(A), NEW scanned, IsScan(s, scanned)
    PROVE  \A i \in 0 .. Len(s) : scanned[i] \in ScanState(A)
<1> DEFINE Bad == {i \in 0 .. Len(s) : scanned[i] \notin ScanState(A)}
<1>1. \A i \in 0 .. Len(s) :
        scanned[i] = IF i = 0 THEN ScanStart ELSE Scan(scanned[i - 1], s[i])
    BY DEF IsScan
<1>2. ASSUME NEW i \in Bad, \A m \in Bad : i <= m PROVE FALSE
    <2>1. i \in 0 .. Len(s) /\ scanned[i] \notin ScanState(A)
        OBVIOUS
    <2>2. CASE i = 0
        <3>1. scanned[i] = ScanStart
            BY <1>1, <2>1, <2>2
        <3>2. ScanStart \in ScanState(A)
            BY DEF ScanStart, ScanState
        <3>3. QED
            BY <2>1, <3>1, <3>2
    <2>3. CASE i # 0
        <3>1. i - 1 \in 0 .. Len(s) /\ i \in 1 .. Len(s) /\ ~ (i <= i - 1)
            BY <2>1, <2>3
        <3>2. scanned[i - 1] \in ScanState(A)
            BY <1>2, <3>1
        <3>3. scanned[i] = Scan(scanned[i - 1], s[i]) /\ s[i] \in A
            BY <1>1, <2>1, <2>3, <3>1
        <3>4. QED
            BY <2>1, <3>2, <3>3, ScanStep
    <2>4. QED
        BY <2>2, <2>3
<1>3. Bad \subseteq Nat
    OBVIOUS
<1>4. Bad = {}
    <2> HIDE DEF Bad
    <2>1. QED
        BY <1>2, <1>3, SmallestNat
<1>5. QED
    BY <1>4

LEMMA ParamsAreTexts ==
    ASSUME NEW A, NEW s \in Seq(A)
    PROVE  Params(s) \in Seq(Seq(A))
<1>1. PICK scanned : IsScan(s, scanned) /\ scanned = CHOOSE r : IsScan(s, r)
    BY ScanExists
<1>2. scanned[Len(s)] \in ScanState(A)
    BY <1>1, ScanIsText
<1>3. Params(s) = Keep(scanned[Len(s)].parts, scanned[Len(s)].current)
    BY <1>1, ParamsIsScan
<1>4. QED
    BY <1>2, <1>3, KeepIsText DEF ScanState

\* Of repeated parameters the last one counts, and it is a text.
LEMMA ValueOfIsText ==
    ASSUME NEW A, NEW params \in Seq(Seq(A)), NEW key, HasKey(params, key)
    PROVE  ValueOf(params, key) \in Seq(A)
<1> DEFINE named == {i \in 1 .. Len(params) : Key(params[i]) = <<key>>}
           IsLast(i) == /\ Key(params[i]) = <<key>>
                        /\ \A j \in DOMAIN params : j > i => Key(params[j]) # <<key>>
<1>1. PICK last \in named : \A i \in named : i <= last
    <2>1. Len(params) \in Nat /\ DOMAIN params = 1 .. Len(params)
        OBVIOUS
    <2>2. PICK i \in DOMAIN params : Key(params[i]) = <<key>>
        BY DEF HasKey
    <2>3. i \in named
        BY <2>1, <2>2
    <2>4. named \subseteq 1 .. Len(params)
        OBVIOUS
    <2> HIDE DEF named
    <2>5. QED
        BY <2>1, <2>3, <2>4, LargestPosition
<1>2. last \in DOMAIN params /\ IsLast(last)
    <2>1. last \in 1 .. Len(params) /\ DOMAIN params = 1 .. Len(params)
        OBVIOUS
    <2>2. Key(params[last]) = <<key>>
        OBVIOUS
    <2>3. ASSUME NEW j \in DOMAIN params, j > last, Key(params[j]) = <<key>> PROVE FALSE
        <3>1. j \in named
            BY <2>1, <2>3
        <3>2. j <= last /\ j \in Int /\ last \in Int
            BY <1>1, <2>1, <3>1
        <3>3. QED
            BY <2>3, <3>2
    <2>4. QED
        BY <2>1, <2>2, <2>3
<1>3. PICK i \in DOMAIN params : i = CHOOSE k \in DOMAIN params : IsLast(k)
    BY <1>2
<1>4. ValueOf(params, key) = Value(params[i])
    BY <1>3 DEF ValueOf
<1>5. params[i] \in Seq(A)
    OBVIOUS
<1>6. QED
    BY <1>4, <1>5, ValueIsText

\* A macaroon that from_header accepts is base64.
LEMMA AcceptedIsBase64 ==
    ASSUME NEW A, NEW params \in Seq(Seq(A)), FromParams(params).error = ""
    PROVE  /\ FromParams(params).macaroon \in Seq(A)
           /\ IsBase64(FromParams(params).macaroon)
<1>1. /\ HasKey(params, "macaroon") /\ IsBase64(ValueOf(params, "macaroon"))
      /\ FromParams(params).macaroon = ValueOf(params, "macaroon")
    BY DEF FromParams, Refused
<1>2. QED
    BY <1>1, ValueOfIsText

-----------------------------------------------------------------------------
Quote == "\""
Blank == " "

(* The credentials.                                                        *)

\* What precedes the colon has none: the text is split where it was joined.
LEMMA ReadBack ==
    ASSUME NEW A, NEW macaroon \in Seq(A), IsBase64(macaroon)
    PROVE  FromCredentials(ToCredentials([macaroon |-> macaroon, preimage |-> Preimage])) =
               IF macaroon = <<>> THEN NoToken
               ELSE [macaroon |-> macaroon, preimage |-> Preimage]
<1> DEFINE B    == A \cup {":", "hex"}
           sent == macaroon \o <<":">> \o Preimage
           n    == Len(macaroon)
<1>1. /\ ToCredentials([macaroon |-> macaroon, preimage |-> Preimage]) = sent
      /\ sent \in Seq(B)
    BY DEF ToCredentials, Preimage
<1>2. /\ n \in Nat /\ Len(sent) = n + 2
      /\ sent[n + 1] = ":" /\ sent[n + 2] = "hex"
      /\ \A i \in 1 .. n : sent[i] = macaroon[i]
    BY DEF Preimage
<1>3. ASSUME NEW i \in 1 .. n PROVE macaroon[i] # ":"
    <2>1. i \in DOMAIN macaroon
        OBVIOUS
    <2>2. macaroon[i] \in ToSet(macaroon)
        BY <2>1, Zenon DEF ToSet
    <2>3. \A atom \in ToSet(macaroon) : atom # ":"
        BY DEF IsBase64, Standard, UrlSafe
    <2>4. QED
        BY <2>2, <2>3
<1>4. (n = 0) <=> (macaroon = <<>>)
    OBVIOUS
<1>5. SubSeq(sent, 1, n) = macaroon /\ SubSeq(sent, n + 2, n + 2) = <<"hex">>
    <2>1. SubSeq(sent, 1, n) = macaroon
        <3>1. /\ macaroon \in Seq(B) /\ sent \in Seq(B) /\ n \in Nat /\ n <= Len(sent)
              /\ Len(macaroon) = n
            BY <1>1, <1>2
        <3> HIDE DEF sent
        <3>2. /\ SubSeq(sent, 1, n) \in Seq(B) /\ Len(SubSeq(sent, 1, n)) = n
              /\ \A i \in 1 .. n : SubSeq(sent, 1, n)[i] = sent[i]
            BY <3>1
        <3>3. QED
            BY <1>2, <3>1, <3>2, SeqEqual
    <2>2. SubSeq(sent, n + 2, n + 2) = <<"hex">>
        <3>1. n + 2 \in 1 .. Len(sent) /\ sent \in Seq(B) /\ n \in Nat
            BY <1>1, <1>2
        <3> HIDE DEF sent
        <3>2. /\ SubSeq(sent, n + 2, n + 2) \in Seq(B) /\ Len(SubSeq(sent, n + 2, n + 2)) = 1
              /\ SubSeq(sent, n + 2, n + 2)[1] = sent[n + 2]
            BY <3>1
        <3>3. PICK one \in Seq(B) : one = SubSeq(sent, n + 2, n + 2)
            BY <3>2
        <3>4. PICK hex \in Seq(B) : hex = <<"hex">>
            <4>1. <<"hex">> \in Seq(B)
                OBVIOUS
            <4>2. QED
                BY <4>1, Zenon
        <3>5. /\ Len(one) = 1 /\ one[1] = "hex"
              /\ Len(hex) = 1 /\ hex[1] = "hex"
            BY <1>2, <3>2, <3>3, <3>4
        <3>6. one = hex
            BY <3>5, SeqEqual
        <3>7. QED
            BY <3>3, <3>4, <3>6
    <2>3. QED
        BY <2>1, <2>2
<1> HIDE DEF sent
<1>6. FirstOf(sent, ":") = n + 1
    <2>1. PICK colon : colon = FirstOf(sent, ":")
        OBVIOUS
    <2>2. /\ colon \in 0 .. n + 2
          /\ colon = 0 => \A i \in 1 .. n + 2 : sent[i] # ":"
          /\ colon # 0 => sent[colon] = ":" /\ \A j \in 1 .. colon - 1 : sent[j] # ":"
        BY <1>1, <1>2, <2>1, FirstOfText
    <2>3. colon # 0
        BY <1>2, <2>2
    <2>4. ~ (colon <= n)
        BY <1>2, <1>3, <2>2, <2>3
    <2>5. ~ (colon > n + 1)
        BY <1>2, <2>2, <2>3
    <2>6. QED
        BY <1>2, <2>1, <2>2, <2>4, <2>5
<1>7. FromCredentials(sent) = IF n = 0 THEN NoToken
                              ELSE [macaroon |-> macaroon, preimage |-> <<"hex">>]
    <2>1. /\ n + 1 \in {0, 1, Len(sent)} <=> n = 0
          /\ n + 1 - 1 = n /\ n + 1 + 1 = n + 2
        BY <1>2
    <2>2. PICK colon : colon = FirstOf(sent, ":")
        OBVIOUS
    <2>3. FromCredentials(sent) =
              IF colon \in {0, 1, Len(sent)} THEN NoToken
              ELSE [macaroon |-> SubSeq(sent, 1, colon - 1),
                    preimage |-> SubSeq(sent, colon + 1, Len(sent))]
        BY <2>2, Zenon DEF FromCredentials, Before, After
    <2>4. colon = n + 1 /\ colon - 1 = n /\ colon + 1 = n + 2 /\ Len(sent) = n + 2
        BY <1>2, <1>6, <2>1, <2>2
    <2>5. FromCredentials(sent) =
              IF colon \in {0, 1, Len(sent)} THEN NoToken
              ELSE [macaroon |-> macaroon, preimage |-> <<"hex">>]
        BY <1>5, <2>3, <2>4, Zenon
    <2>6. colon \in {0, 1, Len(sent)} <=> n = 0
        BY <2>1, <2>4
    <2>7. QED
        BY <2>5, <2>6
<1>8. QED
    BY <1>1, <1>4, <1>7 DEF Preimage

\* What the server has written is a text, what was accepted is base64, and
\* credentials are those of the challenge that was accepted.
Atoms == STRING \cup {",", Blank, "=", Quote}

CredentialInv ==
    /\ text \in Seq(Atoms)
    /\ stage \in {"parsed", "charged"} =>
            challenge.macaroon \in Seq(Atoms) /\ IsBase64(challenge.macaroon)
    /\ credentials # <<>> =>
            /\ stage = "charged"
            /\ credentials = ToCredentials([macaroon |-> challenge.macaroon,
                                            preimage |-> Preimage])

LEMMA CredentialStep == CredentialInv /\ [Next]_vars => CredentialInv'
<1> SUFFICES ASSUME CredentialInv, [Next]_vars PROVE CredentialInv'
    OBVIOUS
<1>1. ASSUME NEW fragment \in Fragments, Write(fragment) PROVE CredentialInv'
    <2>1. fragment.text \in Seq(Atoms)
        BY FragmentsAssumption, SeqMonotonic DEF Atoms
    <2>2. <<",", " ">> \in Seq(Atoms)
        BY DEF Atoms, Blank
    <2>3. text' \in Seq(Atoms)
        <3>1. text \in Seq(Atoms)
            BY DEF CredentialInv
        <3>2. text \o <<",", " ">> \in Seq(Atoms)
            BY <2>2, <3>1, ConcatProperties
        <3>3. PICK before \in Seq(Atoms) : text' = before \o fragment.text
            BY <1>1, <3>1, <3>2 DEF Write
        <3>4. QED
            BY <2>1, <3>3
    <2>4. UNCHANGED <<stage, challenge, credentials>>
        BY <1>1 DEF Write
    <2>5. QED
        BY <2>3, <2>4 DEF CredentialInv
<1>2. ASSUME NEW scheme \in Schemes, ExtractChallenge(scheme) PROVE CredentialInv'
    <2>1. /\ stage = "writing" /\ text' = <<>> /\ credentials' = credentials
          /\ challenge' = FromHeader(scheme, text)
          /\ stage' = IF challenge'.error = "" THEN "parsed" ELSE "refused"
        BY <1>2 DEF ExtractChallenge
    <2>2. credentials' = <<>>
        BY <2>1 DEF CredentialInv
    <2>3. ASSUME challenge'.error = ""
          PROVE  challenge'.macaroon \in Seq(Atoms) /\ IsBase64(challenge'.macaroon)
        <3>1. challenge' = FromParams(Params(text))
            BY <2>1, <2>3 DEF FromHeader, Refused
        <3>2. Params(text) \in Seq(Seq(Atoms))
            BY ParamsAreTexts DEF CredentialInv
        <3>3. QED
            BY <2>3, <3>1, <3>2, AcceptedIsBase64
    <2>4. text' \in Seq(Atoms)
        BY <2>1, EmptySeq
    <2>5. stage' \in {"parsed", "charged"} => challenge'.error = ""
        BY <2>1
    <2>6. QED
        BY <2>2, <2>3, <2>4, <2>5 DEF CredentialInv
<1>3. ASSUME NEW asked \in Amounts, ChargeInvoice(asked) PROVE CredentialInv'
    BY <1>3 DEF ChargeInvoice, CredentialInv
<1>4. CASE SendCredentials
    BY <1>4 DEF SendCredentials, CredentialInv
<1>5. CASE UNCHANGED vars
    BY <1>5 DEF vars, CredentialInv
<1>6. QED
    BY <1>1, <1>2, <1>3, <1>4, <1>5 DEF Next

(* Whoever reads the credentials finds the macaroon that was accepted and   *)
(* the preimage, for every text a server writes (token.rs:37, challenge.rs).*)
THEOREM FlowCredentials == Spec => []CredentialsReadBack
<1>1. Init => CredentialInv
    <2> SUFFICES ASSUME Init PROVE CredentialInv
        OBVIOUS
    <2>1. stage = "writing" /\ text = <<>> /\ credentials = <<>>
        BY DEF Init
    <2>2. text \in Seq(Atoms)
        BY <2>1
    <2>3. stage \notin {"parsed", "charged"}
        BY <2>1
    <2>4. QED
        BY <2>1, <2>2, <2>3 DEF CredentialInv
<1>2. CredentialInv => CredentialsReadBack
    BY ReadBack DEF CredentialInv, CredentialsReadBack
<1>3. QED
    BY <1>1, <1>2, CredentialStep, PTL DEF Spec

-----------------------------------------------------------------------------
(* Where the scanner stands behind a text, and behind a longer one.        *)

End(s) == (CHOOSE scanned : IsScan(s, scanned))[Len(s)]

LEMMA ParamsOfEnd ==
    ASSUME NEW s
    PROVE  Params(s) = Keep(End(s).parts, End(s).current)
    BY ParamsIsScan DEF End

\* What follows a text does not change how it was scanned.
LEMMA ScanOfPrefix ==
    ASSUME NEW A, NEW s \in Seq(A), NEW t \in Seq(A), NEW r, NEW q,
           IsScan(s, r), IsScan(s \o t, q)
    PROVE  \A i \in 0 .. Len(s) : q[i] = r[i]
<1> DEFINE Bad == {i \in 0 .. Len(s) : q[i] # r[i]}
<1>1. \A i \in 0 .. Len(s) : r[i] = IF i = 0 THEN ScanStart ELSE Scan(r[i - 1], s[i])
    BY DEF IsScan
<1>2. \A i \in 0 .. Len(s) : q[i] = IF i = 0 THEN ScanStart ELSE Scan(q[i - 1], s[i])
    <2>1. /\ Len(s \o t) = Len(s) + Len(t) /\ Len(s) \in Nat /\ Len(t) \in Nat
          /\ \A i \in 1 .. Len(s) : (s \o t)[i] = s[i]
        BY ConcatProperties
    <2> DEFINE whole == s \o t
    <2> HIDE DEF whole
    <2>2. \A i \in 0 .. Len(whole) : q[i] = IF i = 0 THEN ScanStart ELSE Scan(q[i - 1], whole[i])
        BY DEF IsScan, whole
    <2>3. /\ \A i \in 0 .. Len(s) : i \in 0 .. Len(whole)
          /\ \A i \in 1 .. Len(s) : whole[i] = s[i]
        BY <2>1 DEF whole
    <2>4. \A i \in 0 .. Len(s) : i # 0 => i \in 1 .. Len(s)
        OBVIOUS
    <2>5. QED
        BY <2>2, <2>3, <2>4
<1>3. ASSUME NEW i \in Bad, \A m \in Bad : i <= m PROVE FALSE
    <2>1. i \in 0 .. Len(s) /\ q[i] # r[i]
        OBVIOUS
    <2>2. i # 0
        BY <1>1, <1>2, <2>1
    <2>3. i - 1 \in 0 .. Len(s) /\ ~ (i <= i - 1)
        BY <2>1, <2>2
    <2>4. q[i - 1] = r[i - 1]
        BY <1>3, <2>3
    <2>5. QED
        BY <1>1, <1>2, <2>1, <2>2, <2>4
<1>4. Bad \subseteq Nat
    OBVIOUS
<1>5. Bad = {}
    <2> HIDE DEF Bad
    <2>1. QED
        BY <1>3, <1>4, SmallestNat
<1>6. QED
    BY <1>5

LEMMA EndOfEmpty == End(<<>>) = ScanStart
<1>1. PICK r : IsScan(<<>>, r) /\ r = CHOOSE scanned : IsScan(<<>>, scanned)
    BY ScanExists
<1>2. r[0] = ScanStart
    BY <1>1 DEF IsScan
<1>3. QED
    BY <1>1, <1>2 DEF End

\* One more atom is one more step of the scanner.
LEMMA EndOfAppend ==
    ASSUME NEW A, NEW s \in Seq(A), NEW atom \in A
    PROVE  End(s \o <<atom>>) = Scan(End(s), atom)
<1> DEFINE t == s \o <<atom>>
<1>1. /\ t \in Seq(A) /\ Len(s) \in Nat /\ Len(t) = Len(s) + 1 /\ t[Len(s) + 1] = atom
    OBVIOUS
<1>2. PICK r : IsScan(s, r) /\ r = CHOOSE scanned : IsScan(s, scanned)
    BY ScanExists
<1>3. PICK q : IsScan(t, q) /\ q = CHOOSE scanned : IsScan(t, scanned)
    <2> HIDE DEF t
    <2>1. QED
        BY <1>1, ScanExists
<1>4. q[Len(s)] = r[Len(s)]
    <2>1. IsScan(s, r) /\ IsScan(s \o <<atom>>, q)
        BY <1>2, <1>3
    <2>2. PICK last \in Seq(A) : last = <<atom>>
        <3>1. <<atom>> \in Seq(A)
            OBVIOUS
        <3>2. QED
            BY <3>1, Zenon
    <2>3. IsScan(s \o last, q)
        BY <2>1, <2>2
    <2> HIDE DEF t
    <2>4. \A i \in 0 .. Len(s) : q[i] = r[i]
        BY <2>1, <2>3, ScanOfPrefix
    <2>5. QED
        BY <1>1, <2>4
<1>5. q[Len(s) + 1] = Scan(q[Len(s)], atom)
    <2> HIDE DEF t
    <2>1. \A i \in 0 .. Len(t) : q[i] = IF i = 0 THEN ScanStart ELSE Scan(q[i - 1], t[i])
        BY <1>3 DEF IsScan
    <2>2. Len(s) + 1 \in 0 .. Len(t) /\ Len(s) + 1 # 0 /\ Len(s) + 1 - 1 = Len(s)
        BY <1>1
    <2>3. QED
        BY <1>1, <2>1, <2>2
<1>6. End(t) = q[Len(s) + 1] /\ End(s) = r[Len(s)]
    <2> HIDE DEF t
    <2>1. QED
        BY <1>1, <1>2, <1>3 DEF End
<1>7. QED
    BY <1>4, <1>5, <1>6

LEMMA EndIsState ==
    ASSUME NEW A, NEW s \in Seq(A)
    PROVE  End(s) \in ScanState(A)
<1>1. PICK scanned : IsScan(s, scanned) /\ scanned = CHOOSE r : IsScan(s, r)
    BY ScanExists
<1>2. scanned[Len(s)] \in ScanState(A)
    BY <1>1, ScanIsText
<1>3. QED
    BY <1>1, <1>2 DEF End

\* The cases of a step of the scanner.
State(parts, current, quoted) == [parts |-> parts, current |-> current, quoted |-> quoted]

LEMMA StateOfFields ==
    ASSUME NEW A, NEW state \in ScanState(A)
    PROVE  state = State(state.parts, state.current, state.quoted)
    BY DEF ScanState, State

LEMMA ScanCopies ==
    ASSUME NEW A, NEW state \in ScanState(A), NEW atom \in A,
           atom # Quote, state.quoted \/ atom # ","
    PROVE  Scan(state, atom) = State(state.parts, Append(state.current, atom), state.quoted)
<1>1. Scan(state, atom) = [state EXCEPT !.current = Append(@, atom)]
    BY Zenon DEF Scan, Quote
<1>2. PICK more \in Seq(A) : more = Append(state.current, atom)
    <2>1. state.current \in Seq(A)
        BY DEF ScanState
    <2>2. Append(state.current, atom) \in Seq(A)
        BY <2>1, AppendProperties, Zenon
    <2>3. QED
        BY <2>2, Zenon
<1>3. Scan(state, atom) = [state EXCEPT !.current = more]
    BY <1>1, <1>2, Zenon
<1>4. PICK next \in ScanState(A) : next = [state EXCEPT !.current = more]
    BY DEF ScanState
<1>5. next.parts = state.parts /\ next.quoted = state.quoted /\ next.current = more
    BY <1>4 DEF ScanState
<1>6. QED
    BY <1>2, <1>3, <1>4, <1>5, StateOfFields

LEMMA ScanQuotes ==
    ASSUME NEW A, NEW state \in ScanState(A), Quote \in A
    PROVE  Scan(state, Quote) = State(state.parts, Append(state.current, Quote), ~state.quoted)
<1>1. Scan(state, Quote) = [state EXCEPT !.quoted = ~@, !.current = Append(@, Quote)]
    BY Zenon DEF Scan, Quote
<1>2. PICK more \in Seq(A), other \in BOOLEAN :
            more = Append(state.current, Quote) /\ other = ~state.quoted
    <2>1. state.current \in Seq(A) /\ state.quoted \in BOOLEAN
        BY DEF ScanState
    <2>2. Append(state.current, Quote) \in Seq(A) /\ (~state.quoted) \in BOOLEAN
        BY <2>1
    <2>3. QED
        BY <2>2, Zenon
<1>3. Scan(state, Quote) = [state EXCEPT !.quoted = other, !.current = more]
    BY <1>1, <1>2, Zenon
<1>4. PICK next \in ScanState(A) : next = [state EXCEPT !.quoted = other, !.current = more]
    BY DEF ScanState
<1>5. next.parts = state.parts /\ next.quoted = other /\ next.current = more
    BY <1>4 DEF ScanState
<1>6. QED
    BY <1>2, <1>3, <1>4, <1>5, StateOfFields

LEMMA ScanSeparates ==
    ASSUME NEW A, NEW state \in ScanState(A), state.quoted = FALSE
    PROVE  Scan(state, ",") = State(Keep(state.parts, state.current), <<>>, FALSE)
<1>1. "," # Quote
    BY DEF Quote
<1>2. Scan(state, ",") = [state EXCEPT !.parts = Keep(@, state.current), !.current = <<>>]
    BY <1>1, Zenon DEF Scan, Quote
<1>3. PICK kept \in Seq(Seq(A)) : kept = Keep(state.parts, state.current)
    BY KeepIsText DEF ScanState
<1>4. Scan(state, ",") = [state EXCEPT !.parts = kept, !.current = <<>>]
    BY <1>2, <1>3, Zenon
<1>5. PICK next \in ScanState(A) : next = [state EXCEPT !.parts = kept, !.current = <<>>]
    <2>1. <<>> \in Seq(A)
        OBVIOUS
    <2>2. PICK none \in Seq(A) : none = <<>>
        BY <2>1, Zenon
    <2>3. [state EXCEPT !.parts = kept, !.current = none] \in ScanState(A)
        BY DEF ScanState
    <2>4. QED
        BY <2>2, <2>3
<1>6. next.parts = kept /\ next.quoted = FALSE /\ next.current = <<>>
    BY <1>5 DEF ScanState
<1>7. QED
    BY <1>3, <1>4, <1>5, <1>6, StateOfFields

IsText(A, s) == s \in Seq(A)

Regroups(x, y, z) == x \o (y \o z) = (x \o y) \o z

LEMMA JoinBehind ==
    ASSUME NEW A, NEW x, NEW y, NEW z, IsText(A, x), IsText(A, y), IsText(A, z)
    PROVE  IsText(A, y \o z) /\ Regroups(x, y, z)
<1> USE DEF IsText
<1>1. y \o z \in Seq(A)
    BY Z3
<1>2. x \o (y \o z) = (x \o y) \o z
    BY ConcatAssociative, Z3
<1>3. QED
    BY <1>1, <1>2, Zenon DEF Regroups

\* Between two places of a text everything was copied to the current part.
Copied(s, x, quoted) == End(s \o x) = State(End(s).parts, End(s).current \o x, quoted)

LEMMA AppendCopies ==
    ASSUME NEW A, NEW c \in Seq(A), NEW x \in Seq(A), NEW atom \in A
    PROVE  Append(c \o x, atom) = c \o (x \o <<atom>>)
<1>1. <<atom>> \in Seq(A)
    OBVIOUS
<1>2. PICK last \in Seq(A) : last = <<atom>>
    BY <1>1, Zenon
<1>3. PICK both \in Seq(A) : both = c \o x
    BY ConcatProperties
<1>4. Append(both, atom) = both \o <<atom>>
    BY <1>3, AppendIsConcat
<1>5. (c \o x) \o last = c \o (x \o last)
    <2>1. IsText(A, c) /\ IsText(A, x) /\ IsText(A, last)
        BY DEF IsText
    <2>2. Regroups(c, x, last)
        BY <2>1, JoinBehind
    <2>3. QED
        BY <2>2, Zenon DEF Regroups
<1>6. QED
    BY <1>2, <1>3, <1>4, <1>5

LEMMA CopiedNothing ==
    ASSUME NEW A, NEW s \in Seq(A)
    PROVE  Copied(s, <<>>, End(s).quoted)
<1>1. PICK state \in ScanState(A) : state = End(s)
    BY EndIsState
<1>2. state.current \o <<>> = state.current
    <2>1. state.current \in Seq(A)
        BY DEF ScanState
    <2>2. QED
        BY <2>1, ConcatEmptySeq
<1>3. s \o <<>> = s
    BY ConcatEmptySeq
<1>4. QED
    BY <1>1, <1>2, <1>3, StateOfFields DEF Copied

\* The scanner is about to read one more atom, and then stands elsewhere.
Reads(state, s, x, quoted, atom) ==
    /\ state.parts = End(s).parts /\ state.quoted = quoted
    /\ Append(state.current, atom) = End(s).current \o (x \o <<atom>>)
    /\ End(s \o (x \o <<atom>>)) = Scan(state, atom)

LEMMA CopiedState ==
    ASSUME NEW A, NEW s \in Seq(A), NEW x \in Seq(A), NEW quoted, Copied(s, x, quoted),
           NEW atom \in A
    PROVE  \E state \in ScanState(A) : Reads(state, s, x, quoted, atom)
<1>1. End(s).current \in Seq(A)
    BY EndIsState DEF ScanState
<1>2. PICK sofar \in Seq(A) : sofar = s \o x
    BY ConcatProperties
<1>3. s \o (x \o <<atom>>) = sofar \o <<atom>>
    <2>1. IsText(A, s) /\ IsText(A, x) /\ IsText(A, <<atom>>)
        BY DEF IsText
    <2>2. Regroups(s, x, <<atom>>)
        BY <2>1, JoinBehind
    <2>3. QED
        BY <1>2, <2>2, Zenon DEF Regroups
<1>4. PICK state \in ScanState(A) :
            state = State(End(s).parts, End(s).current \o x, quoted) /\ state = End(sofar)
    BY <1>2, EndIsState DEF Copied
<1>5. End(sofar \o <<atom>>) = Scan(state, atom)
    BY <1>4, EndOfAppend
<1>6. /\ state.parts = End(s).parts /\ state.quoted = quoted
      /\ state.current = End(s).current \o x
    BY <1>4 DEF State
<1>7. Append(state.current, atom) = End(s).current \o (x \o <<atom>>)
    <2>1. x \in Seq(A) /\ atom \in A
        OBVIOUS
    <2>2. PICK c : c \in Seq(A) /\ c = End(s).current
        BY <1>1, Zenon
    <2>3. Append(c \o x, atom) = c \o (x \o <<atom>>)
        BY ONLY <2>1, <2>2, AppendCopies
    <2>4. QED
        BY <1>6, <2>2, <2>3, Zenon
<1>8. QED
    BY <1>3, <1>5, <1>6, <1>7 DEF Reads

LEMMA CopiedAtom ==
    ASSUME NEW A, NEW s \in Seq(A), NEW x \in Seq(A), NEW quoted, Copied(s, x, quoted),
           NEW atom \in A, atom # Quote, quoted \/ atom # ","
    PROVE  Copied(s, x \o <<atom>>, quoted)
<1>1. PICK state \in ScanState(A) : Reads(state, s, x, quoted, atom)
    BY CopiedState
<1>2. Scan(state, atom) = State(state.parts, Append(state.current, atom), state.quoted)
    BY <1>1, ScanCopies DEF Reads
<1>3. QED
    BY <1>1, <1>2 DEF Copied, Reads

LEMMA CopiedQuote ==
    ASSUME NEW A, NEW s \in Seq(A), NEW x \in Seq(A), NEW quoted, Copied(s, x, quoted),
           Quote \in A
    PROVE  Copied(s, x \o <<Quote>>, ~quoted)
<1>1. PICK state \in ScanState(A) : Reads(state, s, x, quoted, Quote)
    BY CopiedState
<1>2. Scan(state, Quote) = State(state.parts, Append(state.current, Quote), ~state.quoted)
    BY ScanQuotes
<1>3. QED
    BY <1>1, <1>2 DEF Copied, Reads

\* Inside quotes everything up to the next quote is copied.
LEMMA CopiedInside ==
    ASSUME NEW A, NEW s \in Seq(A), NEW x \in Seq(A), Copied(s, x, TRUE),
           NEW v \in Seq(A), \A i \in 1 .. Len(v) : v[i] # Quote
    PROVE  Copied(s, x \o v, TRUE)
<1> DEFINE Good(k) == Copied(s, x \o SubSeq(v, 1, k), TRUE)
           Bad     == {k \in 0 .. Len(v) : ~Good(k)}
<1>1. Len(v) \in Nat
    OBVIOUS
<1>2. Good(0)
    <2>1. SubSeq(v, 1, 0) = <<>>
        BY SubSeqEmpty
    <2>2. x \o <<>> = x
        BY ConcatEmptySeq
    <2>3. QED
        BY <2>1, <2>2
<1>3. ASSUME NEW k \in 1 .. Len(v), Good(k - 1) PROVE Good(k)
    <2>1. k - 1 \in 0 .. Len(v) /\ 1 \in 1 .. Len(v)
        OBVIOUS
    <2>2. PICK before \in Seq(A) : before = SubSeq(v, 1, k - 1)
        <3>1. SubSeq(v, 1, k - 1) \in Seq(A)
            BY <2>1, PartOfText
        <3>2. QED
            BY <3>1
    <2>3. PICK atom \in A : atom = v[k] /\ atom # Quote
        OBVIOUS
    <2>4. SubSeq(v, 1, k) = before \o <<atom>>
        BY <2>1, <2>2, <2>3, SubSeqRecursiveSecond
    <2>5. PICK sofar \in Seq(A) : sofar = x \o before
        BY ConcatProperties
    <2>6. Copied(s, sofar \o <<atom>>, TRUE)
        BY <1>3, <2>2, <2>3, <2>5, CopiedAtom
    <2>7. sofar \o <<atom>> = x \o (before \o <<atom>>)
        <3>1. IsText(A, x) /\ IsText(A, before) /\ IsText(A, <<atom>>)
            BY DEF IsText
        <3>2. Regroups(x, before, <<atom>>)
            BY <3>1, JoinBehind
        <3>3. QED
            BY <2>5, <3>2, Zenon DEF Regroups
    <2>8. QED
        BY <2>4, <2>6, <2>7
<1> HIDE DEF Good
<1>4. Bad \subseteq Nat
    BY <1>1
<1>5. ASSUME NEW k \in Bad, \A m \in Bad : k <= m PROVE FALSE
    <2>1. k \in 0 .. Len(v) /\ ~Good(k)
        OBVIOUS
    <2>2. k # 0
        BY <1>2, <2>1
    <2>3. k \in 1 .. Len(v) /\ k - 1 \in 0 .. Len(v) /\ ~ (k <= k - 1)
        BY <1>1, <2>1, <2>2
    <2>4. Good(k - 1)
        BY <1>5, <2>3
    <2>5. QED
        BY <1>3, <2>1, <2>3, <2>4
<1>6. Bad = {}
    <2> HIDE DEF Bad
    <2>1. QED
        BY <1>4, <1>5, SmallestNat
<1>7. Good(Len(v))
    BY <1>1, <1>6
<1>8. SubSeq(v, 1, Len(v)) = v
    BY SubSeqFull
<1>9. QED
    BY <1>7, <1>8 DEF Good

-----------------------------------------------------------------------------
(* A pair: a key, an = and a value in quotes.                              *)

Written(x, w, v) == ((((x \o <<w>>) \o <<"=">>) \o <<Quote>>) \o v) \o <<Quote>>

InPairs(A) == {"=", Quote} \subseteq A

LEMMA OneAtom ==
    ASSUME NEW A, NEW atom \in A
    PROVE  \E one \in Seq(A) : one = <<atom>> /\ Len(one) = 1 /\ one[1] = atom
<1>1. <<atom>> \in Seq(A) /\ Len(<<atom>>) = 1 /\ <<atom>>[1] = atom
    OBVIOUS
<1>2. QED
    BY <1>1, Zenon

LEMMA Longer ==
    ASSUME NEW A, NEW x \in Seq(A), NEW atom \in A
    PROVE  x \o <<atom>> \in Seq(A)
    OBVIOUS

LEMMA JoinAt ==
    ASSUME NEW A, NEW y \in Seq(A), NEW z \in Seq(A)
    PROVE  /\ y \o z \in Seq(A) /\ Len(y \o z) = Len(y) + Len(z)
           /\ \A i \in 1 .. Len(y) : (y \o z)[i] = y[i]
           /\ \A i \in 1 .. Len(z) : (y \o z)[i + Len(y)] = z[i]
    OBVIOUS

Joins(A, y, z) ==
    /\ y \o z \in Seq(A) /\ Len(y \o z) = Len(y) + Len(z)
    /\ \A i \in 1 .. Len(y) : (y \o z)[i] = y[i]
    /\ \A i \in 1 .. Len(z) : (y \o z)[i + Len(y)] = z[i]

LEMMA JoinOf ==
    ASSUME NEW A, NEW y, NEW z, IsText(A, y), IsText(A, z)
    PROVE  Joins(A, y, z)
    BY JoinAt, Z3 DEF IsText, Joins

LEMMA WrittenBehind ==
    ASSUME NEW A, InPairs(A), NEW x \in Seq(A), NEW w \in A, NEW v \in Seq(A)
    PROVE  /\ Written(<<>>, w, v) \in Seq(A)
           /\ Written(x, w, v) = x \o Written(<<>>, w, v)
<1>1. "=" \in A /\ Quote \in A
    BY DEF InPairs
<1>2. PICK key : key \in Seq(A) /\ key = <<w>>
    BY OneAtom
<1>3. PICK eq : eq \in Seq(A) /\ eq = <<"=">>
    BY <1>1, OneAtom
<1>4. PICK q : q \in Seq(A) /\ q = <<Quote>>
    BY <1>1, OneAtom
<1>5. PICK a : a = key \o eq
    OBVIOUS
<1>6. a \in Seq(A) /\ x \o a = (x \o key) \o eq
    <2>1. IsText(A, x) /\ IsText(A, key) /\ IsText(A, eq)
        BY <1>2, <1>3 DEF IsText
    <2>2. IsText(A, key \o eq) /\ Regroups(x, key, eq)
        BY <2>1, JoinBehind
    <2>3. QED
        BY <1>5, <2>2, Zenon DEF IsText, Regroups
<1>7. PICK b : b = a \o q
    OBVIOUS
<1>8. b \in Seq(A) /\ x \o b = (x \o a) \o q
    <2>1. IsText(A, x) /\ IsText(A, a) /\ IsText(A, q)
        BY <1>4, <1>6 DEF IsText
    <2>2. IsText(A, a \o q) /\ Regroups(x, a, q)
        BY <2>1, JoinBehind
    <2>3. QED
        BY <1>7, <2>2, Zenon DEF IsText, Regroups
<1>9. PICK c : c = b \o v
    OBVIOUS
<1>10. c \in Seq(A) /\ x \o c = (x \o b) \o v
    <2>1. IsText(A, x) /\ IsText(A, b) /\ IsText(A, v)
        BY <1>8 DEF IsText
    <2>2. IsText(A, b \o v) /\ Regroups(x, b, v)
        BY <2>1, JoinBehind
    <2>3. QED
        BY <1>9, <2>2, Zenon DEF IsText, Regroups
<1>11. PICK d : d = c \o q
    OBVIOUS
<1>12. d \in Seq(A) /\ x \o d = (x \o c) \o q
    <2>1. IsText(A, x) /\ IsText(A, c) /\ IsText(A, q)
        BY <1>4, <1>10 DEF IsText
    <2>2. IsText(A, c \o q) /\ Regroups(x, c, q)
        BY <2>1, JoinBehind
    <2>3. QED
        BY <1>11, <2>2, Zenon DEF IsText, Regroups
<1>13. Written(<<>>, w, v) = d
    <2>1. <<>> \o key = key
        BY <1>2, ConcatEmptySeq
    <2>2. Written(<<>>, w, v) = ((((<<>> \o key) \o eq) \o q) \o v) \o q
        BY <1>2, <1>3, <1>4, Zenon DEF Written
    <2>3. QED
        BY <1>5, <1>7, <1>9, <1>11, <2>1, <2>2, Zenon
<1>14. Written(x, w, v) = x \o d
    <2>1. Written(x, w, v) = ((((x \o key) \o eq) \o q) \o v) \o q
        BY <1>2, <1>3, <1>4, Zenon DEF Written
    <2>2. QED
        BY <1>6, <1>8, <1>10, <1>12, <2>1, Zenon
<1>15. QED
    BY <1>12, <1>13, <1>14

LEMMA WrittenAt ==
    ASSUME NEW A, InPairs(A), NEW w \in A, NEW v \in Seq(A)
    PROVE  LET t == Written(<<>>, w, v)
           IN  /\ Len(t) = Len(v) + 4
               /\ t[1] = w /\ t[2] = "=" /\ t[3] = Quote
               /\ \A i \in 1 .. Len(v) : t[i + 3] = v[i]
               /\ t[Len(v) + 4] = Quote
<1>1. "=" \in A /\ Quote \in A /\ Len(v) \in Nat
    BY DEF InPairs
<1>2. PICK key : key \in Seq(A) /\ key = <<w>> /\ Len(key) = 1 /\ key[1] = w
    BY OneAtom
<1>3. PICK eq : eq \in Seq(A) /\ eq = <<"=">> /\ Len(eq) = 1 /\ eq[1] = "="
    BY <1>1, OneAtom
<1>4. PICK q : q \in Seq(A) /\ q = <<Quote>> /\ Len(q) = 1 /\ q[1] = Quote
    BY <1>1, OneAtom
<1>5. PICK a : a = key \o eq
    OBVIOUS
<1>6. a \in Seq(A) /\ Len(a) = 2 /\ a[1] = w /\ a[2] = "="
    <2>1. /\ key \in Seq(A) /\ Len(key) = 1
          /\ eq \in Seq(A) /\ Len(eq) = 1
        BY <1>2, <1>3
    <2>2. /\ a \in Seq(A) /\ Len(a) = 1 + 1
          /\ \A i \in 1 .. 1 : a[i] = key[i] /\ a[i + 1] = eq[i]
        <3>1. IsText(A, key) /\ IsText(A, eq)
            BY <2>1 DEF IsText
        <3>2. Joins(A, key, eq)
            BY <3>1, JoinOf
        <3>3. QED
            BY ONLY <1>5, <2>1, <3>2 DEF Joins
    <2>3. a[1] = key[1] /\ a[1 + 1] = eq[1]
        BY <2>2
    <2>4. QED
        BY <1>2, <1>3, <2>2, <2>3
<1>7. PICK b : b = a \o q
    OBVIOUS
<1>8. b \in Seq(A) /\ Len(b) = 3 /\ b[1] = w /\ b[2] = "=" /\ b[3] = Quote
    <2>1. /\ \A i \in 1 .. 2 : b[i] = a[i]
          /\ \A i \in 1 .. 1 : b[i + 2] = q[i]
        <3>1. a \in Seq(A) /\ Len(a) = 2 /\ q \in Seq(A) /\ Len(q) = 1
            BY <1>4, <1>6
        <3>2. IsText(A, a) /\ IsText(A, q)
            BY <3>1 DEF IsText
        <3>3. Joins(A, a, q)
            BY <3>2, JoinOf
        <3>4. QED
            BY ONLY <1>7, <3>1, <3>3 DEF Joins
    <2>2. b[1] = a[1] /\ b[2] = a[2] /\ b[1 + 2] = q[1]
        BY <2>1
    <2>3. b \in Seq(A) /\ Len(b) = Len(a) + Len(q)
        <3>1. a \in Seq(A) /\ q \in Seq(A)
            BY <1>4, <1>6
        <3>2. QED
            BY <1>7, <3>1, JoinAt
    <2>4. QED
        BY <1>4, <1>6, <2>2, <2>3
<1>9. PICK c : c = b \o v
    OBVIOUS
<1>10. /\ c \in Seq(A) /\ Len(c) = Len(v) + 3 /\ c[1] = w /\ c[2] = "=" /\ c[3] = Quote
       /\ \A i \in 1 .. Len(v) : c[i + 3] = v[i]
    <2>1. b \in Seq(A) /\ Len(b) = 3
        BY <1>8
    <2>2. /\ \A i \in 1 .. Len(b) : c[i] = b[i]
          /\ \A i \in 1 .. Len(v) : c[i + Len(b)] = v[i]
          /\ c \in Seq(A) /\ Len(c) = Len(b) + Len(v)
        <3>1. PICK y \in Seq(A) : y = b
            BY <2>1
        <3>2. c = y \o v
            BY <1>9, <3>1
        <3>3. QED
            BY <3>1, <3>2, JoinAt
    <2>3. c[1] = b[1] /\ c[2] = b[2] /\ c[3] = b[3]
        BY <2>1, <2>2
    <2>4. c \in Seq(A) /\ Len(c) = Len(v) + 3
        BY <1>1, <2>1, <2>2
    <2>5. QED
        BY <1>8, <2>1, <2>2, <2>3, <2>4
<1>11. PICK d : d = c \o q
    OBVIOUS
<1>12. /\ Len(d) = Len(v) + 4 /\ d[1] = w /\ d[2] = "=" /\ d[3] = Quote
       /\ \A i \in 1 .. Len(v) : d[i + 3] = v[i]
       /\ d[Len(v) + 4] = Quote
    <2>1. /\ \A i \in 1 .. Len(v) + 3 : d[i] = c[i]
          /\ \A i \in 1 .. 1 : d[i + (Len(v) + 3)] = q[i]
        BY <1>4, <1>10, <1>11, JoinAt
    <2>2. d[1] = c[1] /\ d[2] = c[2] /\ d[3] = c[3]
        BY <1>1, <2>1
    <2>3. ASSUME NEW i \in 1 .. Len(v) PROVE d[i + 3] = v[i]
        <3>1. i + 3 \in 1 .. Len(v) + 3
            BY <1>1
        <3>2. QED
            BY <1>10, <2>1, <3>1
    <2>4. d[1 + (Len(v) + 3)] = Quote /\ 1 + (Len(v) + 3) = Len(v) + 4
        BY <1>1, <1>4, <2>1
    <2>5. Len(d) = Len(v) + 4
        BY <1>1, <1>4, <1>10, <1>11, JoinAt
    <2>6. QED
        BY <1>10, <2>2, <2>3, <2>4, <2>5
<1>13. Written(<<>>, w, v) = d
    <2>1. <<>> \o key = key
        BY <1>2, ConcatEmptySeq
    <2>2. Written(<<>>, w, v) = ((((<<>> \o key) \o eq) \o q) \o v) \o q
        BY <1>2, <1>3, <1>4, Zenon DEF Written
    <2>3. QED
        BY <1>5, <1>7, <1>9, <1>11, <2>1, <2>2, Zenon
<1>14. QED
    BY <1>12, <1>13

\* A pair is copied whole: the commas of its value are inside quotes.
LEMMA CopiedPair ==
    ASSUME NEW A, InPairs(A), NEW s \in Seq(A), NEW x \in Seq(A), Copied(s, x, FALSE),
           NEW w \in A, w # Quote, w # ",",
           NEW v \in Seq(A), \A i \in 1 .. Len(v) : v[i] # Quote
    PROVE  Copied(s, x \o Written(<<>>, w, v), FALSE)
<1>1. "=" \in A /\ Quote \in A /\ "=" # "," /\ "=" # Quote
    BY DEF InPairs, Quote
<1>2. PICK a : a = x \o <<w>>
    OBVIOUS
<1>3. PICK b : b = a \o <<"=">>
    OBVIOUS
<1>4. PICK c : c = b \o <<Quote>>
    OBVIOUS
<1>5. PICK d : d = c \o v
    OBVIOUS
<1>6. a \in Seq(A) /\ Copied(s, a, FALSE)
    BY <1>2, Longer, CopiedAtom
<1>7. b \in Seq(A) /\ Copied(s, b, FALSE)
    BY <1>1, <1>3, <1>6, Longer, CopiedAtom
<1>8. c \in Seq(A) /\ Copied(s, c, TRUE)
    <2>1. Copied(s, b \o <<Quote>>, ~FALSE)
        BY <1>1, <1>7, CopiedQuote
    <2>2. c \in Seq(A)
        BY <1>1, <1>4, <1>7, Longer
    <2>3. QED
        BY <1>4, <2>1, <2>2
<1>9. d \in Seq(A) /\ Copied(s, d, TRUE)
    <2>1. d \in Seq(A)
        BY <1>5, <1>8, JoinAt
    <2>2. Copied(s, d, TRUE)
        BY <1>5, <1>8, CopiedInside
    <2>3. QED
        BY <2>1, <2>2
<1>10. Copied(s, d \o <<Quote>>, FALSE)
    <2>1. Copied(s, d \o <<Quote>>, ~TRUE)
        BY <1>1, <1>9, CopiedQuote
    <2>2. QED
        BY <2>1
<1>11. d \o <<Quote>> = Written(x, w, v)
    BY <1>2, <1>3, <1>4, <1>5, Zenon DEF Written
<1>12. QED
    <2>1. Written(x, w, v) = x \o Written(<<>>, w, v)
        <3>1. InPairs(A) /\ x \in Seq(A) /\ w \in A /\ v \in Seq(A)
            OBVIOUS
        <3>2. QED
            BY ONLY <3>1, WrittenBehind
    <2>2. QED
        BY <1>10, <1>11, <2>1

\* strip and trim: what is left begins and ends with the outermost kept atoms.
LEMMA StripOf ==
    ASSUME NEW A, NEW t \in Seq(A), NEW atoms, NEW m \in 1 .. Len(t), NEW n \in 1 .. Len(t),
           t[m] \notin atoms, t[n] \notin atoms,
           \A i \in 1 .. Len(t) : i < m \/ n < i => t[i] \in atoms
    PROVE  Strip(t, atoms) = SubSeq(t, m, n)
<1> DEFINE kept == {i \in DOMAIN t : t[i] \notin atoms}
<1>1. m \in kept /\ n \in kept
    OBVIOUS
<1>2. \A i \in kept : m <= i /\ i <= n /\ i \in Int
    OBVIOUS
<1>3. Strip(t, atoms) = SubSeq(t, CHOOSE i \in kept : \A j \in kept : i <= j,
                                  CHOOSE i \in kept : \A j \in kept : j <= i)
    BY <1>1 DEF Strip
<1> HIDE DEF kept
<1>4. (CHOOSE i \in kept : \A j \in kept : i <= j) = m
    <2>1. \A j \in kept : m <= j
        BY <1>2
    <2>2. PICK i \in kept : /\ \A j \in kept : i <= j
                            /\ i = CHOOSE k \in kept : \A j \in kept : k <= j
        BY <1>1, <2>1
    <2>3. i <= m /\ m <= i /\ i \in Int /\ m \in Int
        BY <1>1, <1>2, <2>2
    <2>4. QED
        BY <2>2, <2>3
<1>5. (CHOOSE i \in kept : \A j \in kept : j <= i) = n
    <2>1. \A j \in kept : j <= n
        BY <1>2
    <2>2. PICK i \in kept : /\ \A j \in kept : j <= i
                            /\ i = CHOOSE k \in kept : \A j \in kept : j <= k
        BY <1>1, <2>1
    <2>3. i <= n /\ n <= i /\ i \in Int /\ n \in Int
        BY <1>1, <1>2, <2>2
    <2>4. QED
        BY <2>2, <2>3
<1>6. QED
    BY <1>3, <1>4, <1>5

LEMMA StripNothing ==
    ASSUME NEW A, NEW t \in Seq(A), NEW atoms, \A i \in 1 .. Len(t) : t[i] \in atoms
    PROVE  Strip(t, atoms) = <<>>
    BY DEF Strip

\* Blanks before a text that neither begins nor ends with one are stripped.
LEMMA TrimOf ==
    ASSUME NEW A, NEW blanks \in Seq(A), NEW t \in Seq(A),
           \A i \in 1 .. Len(blanks) : blanks[i] = Blank,
           t # <<>>, t[1] # Blank, t[Len(t)] # Blank
    PROVE  Trim(blanks \o t) = t
<1>1. PICK whole : whole = blanks \o t
    OBVIOUS
<1>2. whole \in Seq(A)
    BY <1>1, JoinAt
<1>3. /\ whole \in Seq(A) /\ Len(whole) = Len(blanks) + Len(t)
      /\ \A i \in 1 .. Len(blanks) : whole[i] = blanks[i]
      /\ \A i \in 1 .. Len(t) : whole[i + Len(blanks)] = t[i]
    BY <1>1, JoinAt
<1>4. PICK m, n : m = Len(blanks) + 1 /\ n = Len(blanks) + Len(t)
    OBVIOUS
<1>5. Len(blanks) \in Nat /\ Len(t) \in Nat \ {0}
    OBVIOUS
<1>6. m \in 1 .. Len(whole) /\ n \in 1 .. Len(whole)
    BY <1>3, <1>4, <1>5
<1>7. whole[m] # Blank /\ whole[n] # Blank
    <2>1. whole[1 + Len(blanks)] = t[1] /\ whole[Len(t) + Len(blanks)] = t[Len(t)]
        BY <1>3, <1>5
    <2>2. 1 + Len(blanks) = m /\ Len(t) + Len(blanks) = n
        BY <1>4, <1>5
    <2>3. QED
        BY <2>1, <2>2
<1>8. \A i \in 1 .. Len(whole) : i < m \/ n < i => whole[i] \in {Blank}
    <2>1. ASSUME NEW i \in 1 .. Len(whole), i < m \/ n < i PROVE i \in 1 .. Len(blanks)
        BY <1>3, <1>4, <1>5, <2>1
    <2>2. \A i \in 1 .. Len(blanks) : whole[i] = Blank
        BY <1>3
    <2>3. QED
        BY ONLY <2>1, <2>2
<1>9. Strip(whole, {Blank}) = SubSeq(whole, m, n)
    BY <1>6, <1>7, <1>8, <1>2, StripOf
<1>10. SubSeq(whole, m, n) = t
    <2>1. SubSeq(whole, m, n) \in Seq(A) /\ Len(SubSeq(whole, m, n)) = Len(t)
        BY <1>4, <1>5, <1>6, <1>2
    <2>2. ASSUME NEW i \in 1 .. Len(t) PROVE SubSeq(whole, m, n)[i] = t[i]
        <3>1. SubSeq(whole, m, n)[i] = whole[m + i - 1]
            BY <1>4, <1>5, <1>6
        <3>2. m + i - 1 = i + Len(blanks)
            BY <1>4, <1>5
        <3>3. QED
            BY <1>3, <3>1, <3>2
    <2>3. QED
        BY <2>1, <2>2, SeqEqual
<1>11. Trim(whole) = Strip(whole, {Blank})
    BY Zenon DEF Trim, Blank
<1>12. QED
    BY <1>1, <1>9, <1>10, <1>11

-----------------------------------------------------------------------------
(* What a server that quotes its values writes.                            *)

IsPair(fragment, w) ==
    /\ w \in Atoms /\ w \notin {",", "=", Quote, Blank} /\ LowerKey(<<w>>) = <<fragment.key>>
    /\ fragment.value \in Seq(Atoms)
    /\ \A i \in 1 .. Len(fragment.value) : fragment.value[i] # Quote
    /\ fragment.text = Written(<<>>, w, fragment.value)

LEMMA PairStart ==
    ASSUME NEW w
    PROVE  <<w, "=", Quote>> = ((<<>> \o <<w>>) \o <<"=">>) \o <<Quote>>
<1> DEFINE A == {w, "=", Quote}
<1>1. PICK key \in Seq(A) : key = <<w>> /\ Len(key) = 1 /\ key[1] = w
    BY OneAtom
<1>2. PICK eq \in Seq(A) : eq = <<"=">> /\ Len(eq) = 1 /\ eq[1] = "="
    BY OneAtom
<1>3. PICK q \in Seq(A) : q = <<Quote>> /\ Len(q) = 1 /\ q[1] = Quote
    BY OneAtom
<1>4. PICK all \in Seq(A) : /\ all = <<w, "=", Quote>> /\ Len(all) = 3
                            /\ all[1] = w /\ all[2] = "=" /\ all[3] = Quote
    <2>1. /\ <<w, "=", Quote>> \in Seq(A) /\ Len(<<w, "=", Quote>>) = 3
          /\ <<w, "=", Quote>>[1] = w /\ <<w, "=", Quote>>[2] = "="
          /\ <<w, "=", Quote>>[3] = Quote
        OBVIOUS
    <2>2. QED
        BY <2>1, Zenon
<1> HIDE DEF A
<1>5. PICK a \in Seq(A) : a = key \o eq
    BY JoinAt
<1>6. Len(a) = 2 /\ a[1] = w /\ a[2] = "="
    <2>1. /\ Len(key \o eq) = 2
          /\ \A i \in 1 .. 1 : (key \o eq)[i] = key[i] /\ (key \o eq)[i + 1] = eq[i]
        BY ONLY key \in Seq(A), eq \in Seq(A), <1>1, <1>2, JoinAt
    <2>2. a[1] = key[1] /\ a[1 + 1] = eq[1]
        BY <1>5, <2>1
    <2>3. QED
        BY <1>1, <1>2, <1>5, <2>1, <2>2
<1>7. PICK b \in Seq(A) : b = a \o q
    BY JoinAt
<1>8. Len(b) = 3 /\ b[1] = w /\ b[2] = "=" /\ b[3] = Quote
    <2>1. /\ Len(a \o q) = Len(a) + Len(q)
          /\ \A i \in 1 .. Len(a) : (a \o q)[i] = a[i]
          /\ \A i \in 1 .. Len(q) : (a \o q)[i + Len(a)] = q[i]
        BY ONLY a \in Seq(A), q \in Seq(A), JoinAt
    <2>2. b[1] = a[1] /\ b[2] = a[2] /\ b[1 + 2] = q[1]
        BY <1>3, <1>6, <1>7, <2>1
    <2>3. QED
        BY <1>3, <1>6, <1>7, <2>1, <2>2
<1>9. b = all
    <2>1. \A i \in 1 .. 3 : b[i] = all[i]
        BY <1>4, <1>8
    <2>2. QED
        BY <1>4, <1>8, <2>1, SeqEqual
<1>10. b = ((<<>> \o <<w>>) \o <<"=">>) \o <<Quote>>
    <2>1. <<>> \o key = key
        BY ConcatEmptySeq
    <2>2. QED
        BY <1>1, <1>2, <1>3, <1>5, <1>7, <2>1, Zenon
<1>11. QED
    BY <1>4, <1>9, <1>10

LEMMA FragmentIsPair ==
    ASSUME NEW fragment, IsQuoted(fragment), fragment.text \in Seq(STRING)
    PROVE  \E w : IsPair(fragment, w)
<1> DEFINE w == Head(fragment.text)
<1>1. /\ fragment.text = <<w, "=", Quote>> \o fragment.value \o <<Quote>>
      /\ w \notin {",", "=", Quote, Blank} /\ LowerKey(<<w>>) = <<fragment.key>>
      /\ fragment.value \in Seq(STRING \ {Quote})
    BY Zenon DEF IsQuoted, Quote, Blank
<1>2. fragment.text = Written(<<>>, w, fragment.value)
    BY <1>1, PairStart, Zenon DEF Written
<1>3. \A i \in 1 .. Len(fragment.value) : fragment.value[i] # Quote
    <2>1. PICK v \in Seq(STRING \ {Quote}) : v = fragment.value
        BY <1>1, Zenon
    <2>2. \A i \in 1 .. Len(v) : v[i] \in STRING \ {Quote}
        OBVIOUS
    <2>3. QED
        BY <2>1, <2>2
<1>4. fragment.value \in Seq(Atoms)
    <2>1. STRING \ {Quote} \subseteq Atoms
        BY DEF Atoms
    <2>2. QED
        BY <1>1, <2>1, SeqMonotonic
<1>5. w \in Atoms
    <2>1. PICK t \in Seq(STRING) : t = fragment.text
        BY Zenon
    <2>2. Len(t) = Len(fragment.value) + 4
        <3> DEFINE B == Atoms \cup {w}
        <3>1. Atoms \subseteq B /\ w \in B /\ InPairs(B)
            BY DEF InPairs, Atoms
        <3>2. fragment.value \in Seq(B)
            BY <1>4, <3>1, SeqMonotonic
        <3> HIDE DEF B, w
        <3>3. QED
            BY <1>2, <2>1, <3>1, <3>2, WrittenAt
    <2>3. Len(fragment.value) \in Nat
        BY <1>4
    <2>4. Head(t) \in STRING
        BY <2>2, <2>3
    <2>5. QED
        BY <2>1, <2>4 DEF Atoms
<1>6. QED
    BY <1>1, <1>2, <1>3, <1>4, <1>5 DEF IsPair

LEMMA PairText ==
    ASSUME NEW fragment, NEW w, IsPair(fragment, w)
    PROVE  LET t == fragment.text
               v == fragment.value
           IN  /\ t \in Seq(Atoms) /\ Len(v) \in Nat /\ Len(t) = Len(v) + 4
               /\ t[1] = w /\ t[2] = "=" /\ t[3] = Quote
               /\ \A i \in 1 .. Len(v) : t[i + 3] = v[i]
               /\ t[Len(v) + 4] = Quote
<1>1. PICK v : v = fragment.value
    OBVIOUS
<1>2. InPairs(Atoms) /\ w \in Atoms /\ v \in Seq(Atoms) /\ fragment.text = Written(<<>>, w, v)
    BY <1>1 DEF IsPair, InPairs, Atoms
<1>3. Written(<<>>, w, v) \in Seq(Atoms)
    <2>1. <<>> \in Seq(Atoms)
        BY EmptySeq
    <2>2. QED
        BY <1>2, <2>1, WrittenBehind
<1>4. QED
    BY <1>1, <1>2, <1>3, WrittenAt

LEMMA PairIsTrimmed ==
    ASSUME NEW fragment, NEW w, IsPair(fragment, w),
           NEW blanks \in Seq(Atoms), \A i \in 1 .. Len(blanks) : blanks[i] = Blank
    PROVE  Trim(blanks \o fragment.text) = fragment.text
<1>1. PICK t \in Seq(Atoms) : t = fragment.text
    BY PairText
<1>2. w # Blank /\ Quote # Blank
    BY DEF IsPair, Quote, Blank
<1>3. t # <<>> /\ t[1] # Blank /\ t[Len(t)] # Blank
    BY <1>1, <1>2, PairText
<1>4. QED
    BY <1>1, <1>3, TrimOf

\* The first = of a pair is the one behind its key.
LEMMA PairIsSplit ==
    ASSUME NEW fragment, NEW w, IsPair(fragment, w)
    PROVE  FirstOf(fragment.text, "=") = 2
<1>1. PICK t \in Seq(Atoms) : t = fragment.text
    BY PairText
<1>2. Len(t) >= 2 /\ t[1] # "=" /\ t[2] = "="
    <2>1. w # "="
        BY Zenon DEF IsPair
    <2>2. Len(t) = Len(fragment.value) + 4 /\ Len(fragment.value) \in Nat
        BY <1>1, PairText
    <2>3. t[1] = w /\ t[2] = "="
        BY <1>1, PairText
    <2>4. QED
        BY <2>1, <2>2, <2>3
<1>3. PICK i : i = FirstOf(t, "=")
    OBVIOUS
<1>4. /\ i \in 0 .. Len(t) /\ (i = 0 => \A j \in 1 .. Len(t) : t[j] # "=")
      /\ (i # 0 => t[i] = "=" /\ \A j \in 1 .. i - 1 : t[j] # "=")
    BY <1>3, FirstOfText
<1>5. i # 0 /\ i # 1 /\ ~ (i > 2)
    BY <1>2, <1>4
<1>6. QED
    BY <1>1, <1>3, <1>4, <1>5

LEMMA PairKey ==
    ASSUME NEW fragment, NEW w, IsPair(fragment, w)
    PROVE  Key(fragment.text) = <<fragment.key>>
<1>1. PICK t \in Seq(Atoms) : t = fragment.text
    BY PairText
<1>2. Len(t) >= 2 /\ t[1] = w /\ w \in Atoms /\ w # Blank
    <2>1. w \in Atoms /\ w # Blank
        BY Zenon DEF IsPair
    <2>2. Len(t) = Len(fragment.value) + 4 /\ Len(fragment.value) \in Nat
        BY <1>1, PairText
    <2>3. t[1] = w
        BY <1>1, PairText
    <2>4. QED
        BY <2>1, <2>2, <2>3
<1>3. PICK key \in Seq(Atoms) : key = <<w>> /\ Len(key) = 1 /\ key[1] = w
    BY <1>2, OneAtom
<1>4. Before(t, 2) = key
    <2>1. SubSeq(t, 1, 1) \in Seq(Atoms) /\ Len(SubSeq(t, 1, 1)) = 1 /\ SubSeq(t, 1, 1)[1] = t[1]
        BY <1>2
    <2>2. PICK first \in Seq(Atoms) : first = SubSeq(t, 1, 1)
        BY <2>1
    <2>3. first = key
        <3>1. \A i \in 1 .. 1 : first[i] = key[i]
            BY <1>2, <1>3, <2>1, <2>2
        <3>2. Len(first) = 1 /\ Len(key) = 1
            BY <1>3, <2>1, <2>2
        <3>3. QED
            BY <3>1, <3>2, SeqEqual
    <2>4. QED
        BY <2>2, <2>3 DEF Before
<1>5. Trim(key) = key
    <2>1. PICK blanks \in Seq(Atoms) : blanks = <<>>
        BY EmptySeq
    <2>2. \A i \in 1 .. Len(blanks) : blanks[i] = Blank
        BY <2>1
    <2>3. key # <<>> /\ key[1] # Blank /\ key[Len(key)] # Blank
        BY <1>2, <1>3
    <2>4. Trim(blanks \o key) = key
        BY <2>2, <2>3, TrimOf
    <2>5. <<>> \o key = key
        BY ConcatEmptySeq
    <2>6. QED
        BY <2>1, <2>4, <2>5
<1>6. Key(t) = LowerKey(Trim(Before(t, FirstOf(t, "="))))
    BY Zenon DEF Key
<1>7. QED
    BY <1>1, <1>3, <1>4, <1>5, <1>6, PairIsSplit, Zenon DEF IsPair

LEMMA PairValue ==
    ASSUME NEW fragment, NEW w, IsPair(fragment, w)
    PROVE  Value(fragment.text) = fragment.value
<1>1. PICK t, v : t = fragment.text /\ v = fragment.value
    OBVIOUS
<1>2. v \in Seq(Atoms) /\ \A i \in 1 .. Len(v) : v[i] # Quote
    BY <1>1 DEF IsPair
<1>3. /\ t \in Seq(Atoms) /\ Len(v) \in Nat /\ Len(t) = Len(v) + 4
      /\ t[3] = Quote /\ t[Len(v) + 4] = Quote
      /\ \A i \in 1 .. Len(v) : t[i + 3] = v[i]
    BY <1>1, PairText
<1>4. PICK rest : rest = SubSeq(t, 3, Len(t))
    OBVIOUS
<1>5. /\ rest \in Seq(Atoms) /\ Len(rest) = Len(v) + 2
      /\ \A i \in 1 .. Len(v) + 2 : rest[i] = t[i + 2]
    BY <1>3, <1>4
<1>6. /\ rest[1] = Quote /\ rest[Len(v) + 2] = Quote
      /\ \A i \in 1 .. Len(v) : rest[i + 1] = v[i]
    <2>1. rest[1] = t[1 + 2] /\ rest[Len(v) + 2] = t[Len(v) + 2 + 2]
        BY <1>3, <1>5
    <2>2. ASSUME NEW i \in 1 .. Len(v) PROVE rest[i + 1] = v[i]
        <3>1. i + 1 \in 1 .. Len(v) + 2 /\ i + 1 + 2 = i + 3
            BY <1>3
        <3>2. QED
            BY <1>3, <1>5, <3>1
    <2>3. QED
        BY <1>3, <2>1, <2>2
<1>7. Trim(rest) = rest
    <2>1. PICK blanks \in Seq(Atoms) : blanks = <<>>
        BY EmptySeq
    <2>2. \A i \in 1 .. Len(blanks) : blanks[i] = Blank
        BY <2>1
    <2>3. rest # <<>> /\ rest[1] # Blank /\ rest[Len(rest)] # Blank
        <3>1. Quote # Blank
            BY DEF Quote, Blank
        <3>2. QED
            BY <1>3, <1>5, <1>6, <3>1
    <2>4. Trim(blanks \o rest) = rest
        BY <1>5, <2>2, <2>3, TrimOf
    <2>5. <<>> \o rest = rest
        BY <1>5, ConcatEmptySeq
    <2>6. QED
        BY <2>1, <2>4, <2>5
<1>8. Strip(rest, {Quote}) = v
    <2>1. CASE v = <<>>
        <3>1. \A i \in 1 .. Len(rest) : rest[i] \in {Quote}
            BY <1>5, <1>6, <2>1
        <3>2. QED
            BY <1>5, <2>1, <3>1, StripNothing
    <2>2. CASE v # <<>>
        <3>1. Len(v) # 0
            BY <1>2, <2>2
        <3>2. PICK n : n = Len(v) + 1
            OBVIOUS
        <3>3. 2 \in 1 .. Len(rest) /\ n \in 1 .. Len(rest) /\ n \in 2 .. Len(rest)
            BY <1>3, <1>5, <3>1, <3>2
        <3>4. rest[2] \notin {Quote} /\ rest[n] \notin {Quote}
            <4>1. rest[1 + 1] = v[1] /\ rest[Len(v) + 1] = v[Len(v)]
                BY <1>3, <1>6, <3>1
            <4>2. QED
                BY <1>2, <1>3, <3>1, <3>2, <4>1
        <3>5. \A i \in 1 .. Len(rest) : i < 2 \/ n < i => rest[i] \in {Quote}
            BY <1>3, <1>5, <1>6, <3>2
        <3>6. Strip(rest, {Quote}) = SubSeq(rest, 2, n)
            BY <1>5, <3>3, <3>4, <3>5, StripOf, Zenon
        <3>7. /\ SubSeq(rest, 2, n) \in Seq(Atoms) /\ Len(SubSeq(rest, 2, n)) = Len(v)
              /\ \A i \in 1 .. Len(v) : SubSeq(rest, 2, n)[i] = rest[i + 1]
            BY <1>3, <1>5, <3>2, <3>3
        <3>8. SubSeq(rest, 2, n) = v
            <4>1. \A i \in 1 .. Len(v) : SubSeq(rest, 2, n)[i] = v[i]
                BY <1>6, <3>7
            <4>2. QED
                BY <1>2, <3>7, <4>1, SeqEqual
        <3>9. QED
            BY <3>6, <3>8
    <2>3. QED
        BY <2>1, <2>2
<1>9. After(t, 2) = rest
    BY <1>4 DEF After
<1>10. Value(t) = Strip(Trim(After(t, FirstOf(t, "="))), {Quote})
    BY Zenon DEF Value, Quote
<1>11. QED
    BY <1>1, <1>7, <1>8, <1>9, <1>10, PairIsSplit, Zenon

\* A pair behind blanks is one more parameter.
LEMMA ParamsOfPair ==
    ASSUME NEW s \in Seq(Atoms), End(s).current = <<>>,
           NEW blanks \in Seq(Atoms), \A i \in 1 .. Len(blanks) : blanks[i] = Blank,
           Copied(s, blanks, FALSE),
           NEW fragment, NEW w, IsPair(fragment, w)
    PROVE  /\ End(s \o (blanks \o fragment.text)).quoted = FALSE
           /\ Params(s \o (blanks \o fragment.text)) = Append(End(s).parts, fragment.text)
<1>1. PICK x : x = blanks \o fragment.text
    OBVIOUS
<1>2. fragment.text \in Seq(Atoms) /\ fragment.text # <<>>
    <2>1. /\ fragment.text \in Seq(Atoms) /\ Len(fragment.value) \in Nat
          /\ Len(fragment.text) = Len(fragment.value) + 4
        BY PairText
    <2>2. QED
        BY <2>1
<1>3. x \in Seq(Atoms)
    BY <1>1, <1>2, JoinAt
<1>4. Copied(s, x, FALSE)
    <2>1. PICK v : v = fragment.value
        OBVIOUS
    <2>2. /\ InPairs(Atoms) /\ w \in Atoms /\ w # Quote /\ w # ","
          /\ v \in Seq(Atoms) /\ \A i \in 1 .. Len(v) : v[i] # Quote
          /\ fragment.text = Written(<<>>, w, v)
        BY <2>1, Zenon DEF IsPair, InPairs, Atoms
    <2>3. Copied(s, blanks \o Written(<<>>, w, v), FALSE)
        BY <2>2, CopiedPair
    <2>4. QED
        BY <1>1, <2>2, <2>3
<1>5. End(s \o x) = State(End(s).parts, x, FALSE)
    <2>1. <<>> \o x = x
        BY <1>3, ConcatEmptySeq
    <2>2. QED
        BY <1>4, <2>1, Zenon DEF Copied
<1>6. Keep(End(s).parts, x) = Append(End(s).parts, fragment.text)
    <2>1. Trim(x) = fragment.text
        BY <1>1, PairIsTrimmed
    <2>2. QED
        BY <1>2, <2>1, Zenon DEF Keep
<1>7. /\ State(End(s).parts, x, FALSE).quoted = FALSE
      /\ State(End(s).parts, x, FALSE).current = x
      /\ State(End(s).parts, x, FALSE).parts = End(s).parts
    BY DEF State
<1>8. QED
    BY <1>1, <1>5, <1>6, <1>7, ParamsOfEnd, Zenon

LEMMA ParamsOfFirst ==
    ASSUME NEW fragment, NEW w, IsPair(fragment, w)
    PROVE  /\ End(fragment.text).quoted = FALSE
           /\ Params(fragment.text) = Append(<<>>, fragment.text)
<1>1. PICK none \in Seq(Atoms) : none = <<>>
    BY EmptySeq
<1>2. End(none).current = <<>> /\ End(none).parts = <<>> /\ End(none).quoted = FALSE
    BY <1>1, EndOfEmpty DEF ScanStart
<1>3. Copied(none, none, FALSE)
    BY <1>1, <1>2, CopiedNothing
<1>4. \A i \in 1 .. Len(none) : none[i] = Blank
    BY <1>1
<1>5. none \o (none \o fragment.text) = fragment.text
    <2>1. fragment.text \in Seq(Atoms)
        BY PairText
    <2>2. QED
        BY <1>1, <2>1, ConcatEmptySeq
<1>6. /\ End(none \o (none \o fragment.text)).quoted = FALSE
      /\ Params(none \o (none \o fragment.text)) = Append(End(none).parts, fragment.text)
    BY <1>2, <1>3, <1>4, ParamsOfPair
<1>7. QED
    BY <1>2, <1>5, <1>6

LEMMA TwoAtoms ==
    ASSUME NEW A, NEW first \in A, NEW second \in A
    PROVE  /\ <<first, second>> \in Seq(A)
           /\ <<first, second>> = <<first>> \o <<second>>
<1>1. PICK pair \in Seq(A) : /\ pair = <<first, second>> /\ Len(pair) = 2
                             /\ pair[1] = first /\ pair[2] = second
    <2>1. /\ <<first, second>> \in Seq(A) /\ Len(<<first, second>>) = 2
          /\ <<first, second>>[1] = first /\ <<first, second>>[2] = second
        OBVIOUS
    <2>2. QED
        BY <2>1, Zenon
<1>2. PICK one \in Seq(A) : one = <<first>> /\ Len(one) = 1 /\ one[1] = first
    BY OneAtom
<1>3. PICK two \in Seq(A) : two = <<second>> /\ Len(two) = 1 /\ two[1] = second
    BY OneAtom
<1>4. /\ one \o two \in Seq(A) /\ Len(one \o two) = Len(one) + Len(two)
      /\ \A i \in 1 .. Len(one) : (one \o two)[i] = one[i]
      /\ \A i \in 1 .. Len(two) : (one \o two)[i + Len(one)] = two[i]
    BY ONLY one \in Seq(A), two \in Seq(A), JoinAt
<1>5. (one \o two)[1] = first /\ (one \o two)[1 + 1] = second /\ Len(one \o two) = 2
    BY <1>2, <1>3, <1>4
<1>6. one \o two = pair
    <2>1. \A i \in 1 .. 2 : (one \o two)[i] = pair[i]
        BY <1>1, <1>5
    <2>2. QED
        BY <1>1, <1>4, <1>5, <2>1, SeqEqual, Zenon
<1>7. QED
    BY <1>1, <1>2, <1>3, <1>6

LEMMA ParamsOfNext ==
    ASSUME NEW s \in Seq(Atoms), End(s).quoted = FALSE,
           NEW fragment, NEW w, IsPair(fragment, w)
    PROVE  /\ End((s \o <<",", Blank>>) \o fragment.text).quoted = FALSE
           /\ Params((s \o <<",", Blank>>) \o fragment.text)
                = Append(Params(s), fragment.text)
<1>1. "," \in Atoms /\ Blank \in Atoms /\ Blank # "," /\ Blank # Quote
    BY DEF Atoms, Blank, Quote
<1>2. PICK comma : comma \in Seq(Atoms) /\ comma = <<",">>
    BY <1>1, OneAtom
<1>3. PICK blanks : /\ blanks \in Seq(Atoms) /\ blanks = <<Blank>>
                    /\ Len(blanks) = 1 /\ blanks[1] = Blank
    <2>1. Blank \in Atoms
        BY <1>1
    <2>2. QED
        BY ONLY <2>1, OneAtom, Zenon
<1>4. PICK sofar : sofar = s \o comma
    OBVIOUS
<1>5. sofar \in Seq(Atoms)
    BY <1>2, <1>4, JoinAt
<1>6. End(sofar) = State(Params(s), <<>>, FALSE)
    <2>1. End(sofar) = Scan(End(s), ",")
        BY <1>1, <1>2, <1>4, EndOfAppend
    <2>2. End(s) \in ScanState(Atoms)
        BY EndIsState
    <2>3. QED
        BY <2>1, <2>2, ScanSeparates, ParamsOfEnd
<1>7. /\ End(sofar).parts = Params(s) /\ End(sofar).current = <<>>
      /\ End(sofar).quoted = FALSE
    BY <1>6 DEF State
<1>8. Copied(sofar, blanks, FALSE)
    <2>1. PICK none \in Seq(Atoms) : none = <<>>
        BY EmptySeq
    <2>2. Copied(sofar, none, FALSE)
        BY <1>5, <1>7, <2>1, CopiedNothing
    <2>3. Copied(sofar, none \o <<Blank>>, FALSE)
        BY <1>1, <1>5, <2>2, CopiedAtom
    <2>4. none \o blanks = blanks
        BY <1>3, <2>1, ConcatEmptySeq
    <2>5. QED
        BY <1>3, <2>3, <2>4
<1>9. /\ End(sofar \o (blanks \o fragment.text)).quoted = FALSE
      /\ Params(sofar \o (blanks \o fragment.text)) = Append(End(sofar).parts, fragment.text)
    <2>1. \A i \in 1 .. Len(blanks) : blanks[i] = Blank
        BY <1>3
    <2>2. QED
        BY <1>3, <1>5, <1>7, <1>8, <2>1, ParamsOfPair
<1>10. (s \o <<",", Blank>>) \o fragment.text = sofar \o (blanks \o fragment.text)
    <2>1. PICK both : both \in Seq(Atoms) /\ both = <<",", Blank>>
        <3>1. <<",", Blank>> \in Seq(Atoms)
            BY <1>1, TwoAtoms
        <3>2. QED
            BY <3>1, Zenon
    <2>2. both = comma \o blanks
        <3>1. <<",", Blank>> = <<",">> \o <<Blank>>
            BY <1>1, TwoAtoms
        <3>2. QED
            BY <1>2, <1>3, <2>1, <3>1, Zenon
    <2>3. PICK t : t \in Seq(Atoms) /\ t = fragment.text
        BY PairText
    <2>4. s \o both = sofar \o blanks
        <3>1. IsText(Atoms, s) /\ IsText(Atoms, comma) /\ IsText(Atoms, blanks)
            BY <1>2, <1>3 DEF IsText
        <3>2. Regroups(s, comma, blanks)
            BY <3>1, JoinBehind
        <3>3. QED
            BY <1>4, <2>2, <3>2, Zenon DEF Regroups
    <2>5. (sofar \o blanks) \o t = sofar \o (blanks \o t)
        <3>1. IsText(Atoms, sofar) /\ IsText(Atoms, blanks) /\ IsText(Atoms, t)
            BY <1>3, <1>5, <2>3 DEF IsText
        <3>2. Regroups(sofar, blanks, t)
            BY <3>1, JoinBehind
        <3>3. QED
            BY <3>2, Zenon DEF Regroups
    <2>6. QED
        BY <2>1, <2>3, <2>4, <2>5, Zenon
<1>11. QED
    BY <1>7, <1>9, <1>10

\* The parameters are the pairs that were written, one by one.
ParamsArePairs(params, written) ==
    /\ Len(params) = Len(written)
    /\ \A i \in 1 .. Len(written) :
            params[i] = written[i].text /\ \E w : IsPair(written[i], w)

LEMMA OneMorePair ==
    ASSUME NEW A, NEW params \in Seq(A), NEW B, NEW written \in Seq(B),
           ParamsArePairs(params, written),
           NEW fragment \in B, fragment.text \in A, NEW w, IsPair(fragment, w)
    PROVE  ParamsArePairs(Append(params, fragment.text), Append(written, fragment))
<1>1. PICK t \in A : t = fragment.text
    OBVIOUS
<1>2. PICK n \in Nat : n = Len(params) /\ n = Len(written)
    BY DEF ParamsArePairs
<1>3. PICK more : more = Append(params, t)
    OBVIOUS
<1>4. PICK all : all = Append(written, fragment)
    OBVIOUS
<1>5. Len(more) = n + 1 /\ more[n + 1] = t /\ \A i \in 1 .. n : more[i] = params[i]
    <2>1. t \in A /\ params \in Seq(A)
        BY <1>1
    <2>2. /\ Len(Append(params, t)) = Len(params) + 1
          /\ Append(params, t)[Len(params) + 1] = t
          /\ \A i \in 1 .. Len(params) : Append(params, t)[i] = params[i]
        BY ONLY <2>1, AppendProperties
    <2>3. QED
        BY <1>2, <1>3, <2>2
<1>6. Len(all) = n + 1 /\ all[n + 1] = fragment /\ \A i \in 1 .. n : all[i] = written[i]
    BY <1>2, <1>4
<1>7. ASSUME NEW i \in 1 .. n + 1
      PROVE  more[i] = all[i].text /\ \E u : IsPair(all[i], u)
    <2>1. CASE i = n + 1
        BY <1>1, <1>5, <1>6, <2>1
    <2>2. CASE i \in 1 .. n
        BY <1>2, <1>5, <1>6, <2>2 DEF ParamsArePairs
    <2>3. QED
        BY <2>1, <2>2
<1>8. ParamsArePairs(more, all)
    BY <1>5, <1>6, <1>7 DEF ParamsArePairs
<1>9. QED
    BY <1>1, <1>3, <1>4, <1>8

PairsInv ==
    /\ text \in Seq(Atoms) /\ pairs \in Seq(Fragments)
    /\ ~loose => End(text).quoted = FALSE /\ ParamsArePairs(Params(text), pairs)

LEMMA ParamsOfEmpty == Params(<<>>) = <<>>
<1>1. Params(<<>>) = Keep(<<>>, <<>>)
    BY EndOfEmpty, ParamsOfEnd DEF ScanStart
<1>2. PICK none \in Seq(Atoms) : none = <<>>
    BY EmptySeq
<1>3. Strip(none, {Blank}) = <<>>
    <2>1. \A i \in 1 .. Len(none) : none[i] \in {Blank}
        BY <1>2
    <2>2. QED
        BY <2>1, StripNothing
<1>4. Trim(none) = <<>>
    BY <1>3, Zenon DEF Trim, Blank
<1>5. QED
    BY <1>1, <1>2, <1>4 DEF Keep

LEMMA NoPairs == text = <<>> /\ pairs = <<>> => PairsInv
<1> SUFFICES ASSUME text = <<>>, pairs = <<>> PROVE PairsInv
    OBVIOUS
<1>1. <<>> \in Seq(Atoms) /\ <<>> \in Seq(Fragments)
    BY EmptySeq
<1>2. End(<<>>) = ScanStart
    BY EndOfEmpty
<1>3. ScanStart.quoted = FALSE
    BY DEF ScanStart
<1>4. ParamsArePairs(<<>>, <<>>)
    BY DEF ParamsArePairs
<1>5. QED
    BY <1>1, <1>2, <1>3, <1>4, ParamsOfEmpty DEF PairsInv

LEMMA PairsStep == PairsInv /\ [Next]_vars => PairsInv'
<1> SUFFICES ASSUME PairsInv, [Next]_vars PROVE PairsInv'
    OBVIOUS
<1>1. ASSUME NEW fragment \in Fragments, Write(fragment) PROVE PairsInv'
    <2>1. /\ pairs' = Append(pairs, fragment)
          /\ text' = (IF text # <<>> /\ fragment.key # "" THEN text \o <<",", " ">> ELSE text)
                     \o fragment.text
          /\ loose' = (loose \/ fragment.key = "")
        BY <1>1 DEF Write
    <2>2. text \in Seq(Atoms) /\ pairs \in Seq(Fragments)
        BY DEF PairsInv
    <2>3. fragment.text \in Seq(STRING) /\ fragment.text \in Seq(Atoms)
        BY FragmentsAssumption, SeqMonotonic DEF Atoms
    <2>4. text' \in Seq(Atoms)
        <3>1. <<",", " ">> \in Seq(Atoms)
            BY DEF Atoms, Blank
        <3>2. text \o <<",", " ">> \in Seq(Atoms)
            BY <2>2, <3>1, ConcatProperties
        <3>3. PICK before \in Seq(Atoms) : text' = before \o fragment.text
            BY <2>1, <2>2, <3>2
        <3>4. QED
            BY <2>3, <3>3
    <2>5. pairs' \in Seq(Fragments)
        BY <2>1, <2>2, AppendProperties
    <2>6. ASSUME ~loose' PROVE End(text').quoted = FALSE /\ ParamsArePairs(Params(text'), pairs')
        <3>1. ~loose /\ fragment.key # ""
            BY <2>1, <2>6
        <3>2. End(text).quoted = FALSE /\ ParamsArePairs(Params(text), pairs)
            BY <3>1 DEF PairsInv
        <3>3. PICK w : IsPair(fragment, w)
            <4>1. IsQuoted(fragment)
                BY <3>1, FragmentsAssumption, Zenon
            <4>2. QED
                BY <2>3, <4>1, FragmentIsPair
        <3>4. End(text').quoted = FALSE /\ Params(text') = Append(Params(text), fragment.text)
            <4>1. CASE text = <<>>
                <5>1. text' = <<>> \o fragment.text
                    BY <2>1, <4>1
                <5>2. text' = fragment.text
                    BY <2>3, <5>1, ConcatEmptySeq
                <5>3. QED
                    BY <3>3, <4>1, <5>2, ParamsOfEmpty, ParamsOfFirst
            <4>2. CASE text # <<>>
                <5>1. text' = (text \o <<",", Blank>>) \o fragment.text
                    BY <2>1, <3>1, <4>2, Zenon DEF Blank
                <5>2. QED
                    BY <2>2, <3>2, <3>3, <5>1, ParamsOfNext
            <4>3. QED
                BY <4>1, <4>2
        <3>5. Params(text) \in Seq(Seq(Atoms))
            BY <2>2, ParamsAreTexts
        <3>6. ParamsArePairs(Append(Params(text), fragment.text), Append(pairs, fragment))
            BY <2>2, <2>3, <3>2, <3>3, <3>5, OneMorePair
        <3>7. QED
            BY <2>1, <3>4, <3>6
    <2>7. QED
        BY <2>4, <2>5, <2>6 DEF PairsInv
<1>2. ASSUME NEW scheme \in Schemes, ExtractChallenge(scheme) PROVE PairsInv'
    <2>1. text' = <<>> /\ pairs' = <<>>
        BY <1>2 DEF ExtractChallenge
    <2>2. (text = <<>> /\ pairs = <<>> => PairsInv)'
        BY NoPairs, PTL
    <2>3. QED
        BY <2>1, <2>2
<1>3. ASSUME NEW asked \in Amounts, ChargeInvoice(asked) PROVE PairsInv'
    BY <1>3 DEF ChargeInvoice, PairsInv
<1>4. CASE SendCredentials
    BY <1>4 DEF SendCredentials, PairsInv
<1>5. CASE UNCHANGED vars
    BY <1>5 DEF vars, PairsInv
<1>6. QED
    BY <1>1, <1>2, <1>3, <1>4, <1>5 DEF Next

\* The last of several pairs with a key is the last parameter with that key.
LEMMA LastPairIsFound ==
    ASSUME NEW A, NEW params \in Seq(A), NEW B, pairs \in Seq(B), NEW k,
           ParamsArePairs(params, pairs)
    PROVE  /\ HasKey(params, k) <=> Meant(k)
           /\ Meant(k) => ValueOf(params, k) = LastOf(k).value
<1> DEFINE IsParam(i) == /\ Key(params[i]) = <<k>>
                         /\ \A j \in DOMAIN params : j > i => Key(params[j]) # <<k>>
           IsLast(i)  == /\ pairs[i].key = k
                         /\ \A j \in DOMAIN pairs : j > i => pairs[j].key # k
           n          == Len(pairs)
<1>1. n \in Nat /\ DOMAIN params = 1 .. n /\ DOMAIN pairs = 1 .. n
    BY DEF ParamsArePairs
<1>2. ASSUME NEW i \in 1 .. n
      PROVE  /\ Key(params[i]) = <<k>> <=> pairs[i].key = k
             /\ Value(params[i]) = pairs[i].value
    <2>1. PICK w : params[i] = pairs[i].text /\ IsPair(pairs[i], w)
        BY DEF ParamsArePairs
    <2>2. Key(params[i]) = <<pairs[i].key>> /\ Value(params[i]) = pairs[i].value
        BY <2>1, PairKey, PairValue
    <2>3. <<pairs[i].key>> = <<k>> <=> pairs[i].key = k
        OBVIOUS
    <2>4. QED
        BY <2>2, <2>3
<1>3. HasKey(params, k) <=> Meant(k)
    BY <1>1, <1>2 DEF HasKey, Meant
<1>4. ASSUME NEW i \in 1 .. n PROVE IsParam(i) <=> IsLast(i)
    BY <1>1, <1>2
<1>5. ASSUME Meant(k) PROVE ValueOf(params, k) = LastOf(k).value
    <2> DEFINE named == {i \in 1 .. n : pairs[i].key = k}
    <2>1. PICK last \in named : \A i \in named : i <= last
        <3>1. named # {} /\ named \subseteq 1 .. n
            BY <1>1, <1>5 DEF Meant
        <3> HIDE DEF named, n
        <3>2. QED
            BY <1>1, <3>1, LargestPosition
    <2>2. last \in 1 .. n /\ IsLast(last)
        <3>1. last \in 1 .. n /\ pairs[last].key = k
            OBVIOUS
        <3>2. ASSUME NEW j \in 1 .. n, j > last PROVE pairs[j].key # k
            <4>1. pairs[j].key = k => j \in named
                OBVIOUS
            <4>2. j \in Int /\ last \in Int
                BY <1>1, <3>1
            <4> HIDE DEF named
            <4>3. QED
                BY <2>1, <3>2, <4>1, <4>2
        <3>3. QED
            BY <1>1, <3>1, <3>2
    <2>3. PICK i \in 1 .. n : IsLast(i) /\ i = CHOOSE m \in DOMAIN pairs : IsLast(m)
        BY <1>1, <2>2
    <2>4. PICK j \in 1 .. n : IsParam(j) /\ j = CHOOSE m \in DOMAIN params : IsParam(m)
        BY <1>1, <1>4, <2>2
    <2>5. i = j
        <3>1. IsLast(j)
            BY <1>4, <2>4
        <3>2. ~ (i < j) /\ ~ (j < i)
            BY <1>1, <2>3, <3>1
        <3>3. QED
            BY <1>1, <3>2
    <2>6. ValueOf(params, k) = Value(params[j])
        BY <2>4 DEF ValueOf
    <2>7. LastOf(k) = pairs[i]
        BY <2>3 DEF LastOf
    <2>8. QED
        BY <1>2, <2>5, <2>6, <2>7
<1>6. QED
    BY <1>3, <1>5

(* Quoted values arrive as they were meant, whatever commas, = and blanks   *)
(* they contain, in headers of any length (challenge.rs:61).               *)
THEOREM FlowQuoted == Spec => []QuotedValuesArrive
<1>1. Init => PairsInv
    BY NoPairs DEF Init
<1>2. PairsInv => QuotedValuesArrive
    <2> SUFFICES ASSUME PairsInv, ~loose
                 PROVE  QuotedValuesArrive
        BY DEF QuotedValuesArrive
    <2>1. PICK params : params = Params(text)
        OBVIOUS
    <2>2. params \in Seq(Seq(Atoms)) /\ pairs \in Seq(Fragments) /\ ParamsArePairs(params, pairs)
        BY <2>1, ParamsAreTexts DEF PairsInv
    <2>3. \A i \in DOMAIN params : FirstOf(params[i], "=") # 0
        <3>1. ASSUME NEW i \in 1 .. Len(pairs) PROVE FirstOf(params[i], "=") = 2
            <4>1. PICK w : params[i] = pairs[i].text /\ IsPair(pairs[i], w)
                BY <2>2 DEF ParamsArePairs
            <4>2. QED
                BY <4>1, PairIsSplit
        <3>2. DOMAIN params = 1 .. Len(pairs)
            BY <2>2 DEF ParamsArePairs
        <3>3. QED
            BY <3>1, <3>2
    <2>4. /\ HasKey(params, "macaroon") <=> Meant("macaroon")
          /\ Meant("macaroon") => ValueOf(params, "macaroon") = LastOf("macaroon").value
          /\ HasKey(params, "invoice") <=> Meant("invoice")
          /\ Meant("invoice") => ValueOf(params, "invoice") = LastOf("invoice").value
        BY <2>2, LastPairIsFound
    <2>5. QED
        BY <2>1, <2>3, <2>4 DEF QuotedValuesArrive, FromParams, Refused
<1>3. QED
    BY <1>1, <1>2, PairsStep, PTL DEF Spec

-----------------------------------------------------------------------------
(* The parameters of any text, quoted well or not.                         *)

Quotes(k) == {j \in 1 .. k : text[j] = Quote}

LEMMA SeparatorsAre ==
    Separators = {i \in DOMAIN text : text[i] = "," /\ Cardinality(Quotes(i - 1)) % 2 = 0}
    BY Zenon DEF Separators, Quotes, Quote

LEMMA QuotesAreCounted ==
    /\ Cardinality(Quotes(0)) = 0
    /\ \A k \in Nat : IsFiniteSet(Quotes(k)) /\ Cardinality(Quotes(k)) \in Nat
    /\ \A k \in Nat \ {0} :
            Cardinality(Quotes(k)) =
                Cardinality(Quotes(k - 1)) + (IF text[k] = Quote THEN 1 ELSE 0)
<1>1. Cardinality(Quotes(0)) = 0
    <2>1. Quotes(0) = {}
        BY DEF Quotes
    <2>2. QED
        BY <2>1, FS_EmptySet
<1>2. ASSUME NEW k \in Nat PROVE IsFiniteSet(Quotes(k)) /\ Cardinality(Quotes(k)) \in Nat
    <2>1. IsFiniteSet(1 .. k) /\ Quotes(k) \subseteq 1 .. k
        BY FS_Interval DEF Quotes
    <2>2. QED
        BY <2>1, FS_Subset, FS_CardinalityType
<1>3. ASSUME NEW k \in Nat \ {0}
      PROVE  Cardinality(Quotes(k)) =
                Cardinality(Quotes(k - 1)) + (IF text[k] = Quote THEN 1 ELSE 0)
    <2>1. CASE text[k] = Quote
        <3>1. Quotes(k) = Quotes(k - 1) \cup {k} /\ k \notin Quotes(k - 1)
            BY <2>1 DEF Quotes
        <3>2. IsFiniteSet(Quotes(k - 1))
            BY <1>2
        <3>3. QED
            BY <2>1, <3>1, <3>2, FS_AddElement
    <2>2. CASE text[k] # Quote
        <3>1. Quotes(k) = Quotes(k - 1)
            BY <2>2 DEF Quotes
        <3>2. Cardinality(Quotes(k - 1)) \in Nat
            BY <1>2
        <3>3. QED
            BY <2>2, <3>1, <3>2
    <2>3. QED
        BY <2>1, <2>2
<1>4. QED
    BY <1>1, <1>2, <1>3

\* The parts behind some starts, in the order of those.
Ranked(parts, starts) ==
    /\ Len(parts) = Cardinality(starts)
    /\ \A i \in starts : parts[Cardinality({j \in starts : j <= i})] = PartAfter(i)

LEMMA OneMoreRank ==
    ASSUME NEW starts, starts \subseteq Nat, IsFiniteSet(starts),
           NEW next \in Nat, \A i \in starts : i < next,
           NEW X, NEW parts \in Seq(X), NEW part \in X, part = PartAfter(next),
           Ranked(parts, starts)
    PROVE  Ranked(Append(parts, part), starts \cup {next})
<1> DEFINE all == starts \cup {next}
<1>1. PICK n \in Nat : n = Cardinality(starts) /\ n = Len(parts)
    BY FS_CardinalityType DEF Ranked
<1>2. Cardinality(all) = n + 1
    <2>1. next \notin starts
        OBVIOUS
    <2>2. QED
        BY <1>1, <2>1, FS_AddElement
<1>3. PICK more : more = Append(parts, part)
    OBVIOUS
<1>4. Len(more) = n + 1 /\ more[n + 1] = part /\ \A i \in 1 .. n : more[i] = parts[i]
    BY <1>1, <1>3
<1>5. ASSUME NEW i \in starts PROVE more[Cardinality({j \in all : j <= i})] = PartAfter(i)
    <2> DEFINE below == {j \in starts : j <= i}
    <2>1. PICK rank : rank = Cardinality(below) /\ rank = Cardinality({j \in all : j <= i})
        <3>1. {j \in all : j <= i} = below
            OBVIOUS
        <3>2. QED
            BY <3>1, Zenon
    <2>2. below \subseteq starts /\ i \in below
        OBVIOUS
    <2>3. parts[rank] = PartAfter(i)
        BY <2>1 DEF Ranked
    <2> HIDE DEF below, all
    <2>4. rank \in Nat /\ rank <= n /\ IsFiniteSet(below)
        <3>1. IsFiniteSet(below) /\ Cardinality(below) <= Cardinality(starts)
            BY <2>2, FS_Subset
        <3>2. Cardinality(below) \in Nat
            BY <3>1, FS_CardinalityType
        <3>3. rank = Cardinality(below)
            BY <2>1
        <3>4. QED
            BY <1>1, <3>1, <3>2, <3>3
    <2>5. rank # 0
        BY <2>1, <2>2, <2>4, FS_EmptySet
    <2>6. rank \in 1 .. n
        BY <2>4, <2>5
    <2>7. more[rank] = PartAfter(i)
        BY <1>4, <2>3, <2>6
    <2>8. QED
        BY <2>1, <2>7
<1>6. more[Cardinality({j \in all : j <= next})] = PartAfter(next)
    <2>1. {j \in all : j <= next} = all
        <3>1. \A j \in all : j <= next
            OBVIOUS
        <3> HIDE DEF all
        <3>2. QED
            BY <3>1
    <2>2. QED
        BY <1>2, <1>4, <2>1
<1>7. Ranked(more, all)
    BY <1>2, <1>4, <1>5, <1>6 DEF Ranked
<1>8. QED
    BY <1>3, <1>7

StartsBefore(k) == {i \in FullStarts : i < k}

\* Behind k atoms: the last start is known, and the part behind it is open.
ScannedTo(k, state, last) ==
    /\ last \in 0 .. k /\ last \in {0} \cup Separators
    /\ \A i \in Separators : i <= last \/ k < i
    /\ state.quoted <=> Cardinality(Quotes(k)) % 2 = 1
    /\ state.current = SubSeq(text, last + 1, k)
    /\ Ranked(state.parts, StartsBefore(last))

LEMMA SeparatorsInText ==
    ASSUME text \in Seq(Atoms)
    PROVE  Separators \subseteq 1 .. Len(text) /\ Len(text) \in Nat
<1>1. Separators \subseteq DOMAIN text
    BY Zenon DEF Separators
<1>2. QED
    BY <1>1

LEMMA StartsBeforeAre ==
    ASSUME NEW k, NEW i
    PROVE  i \in StartsBefore(k) <=>
                i \in {0} \cup Separators /\ PartAfter(i) # <<>> /\ i < k
    BY Zenon DEF StartsBefore, FullStarts

LEMMA StartsAreFinite ==
    ASSUME text \in Seq(Atoms), NEW k \in Nat
    PROVE  /\ Separators \subseteq 1 .. Len(text)
           /\ StartsBefore(k) \subseteq Nat /\ IsFiniteSet(StartsBefore(k))
           /\ \A i \in StartsBefore(k) : i < k
<1>1. Separators \subseteq 1 .. Len(text) /\ Len(text) \in Nat
    BY SeparatorsInText
<1>2. StartsBefore(k) \subseteq Nat /\ \A i \in StartsBefore(k) : i < k /\ i <= k
    <2>1. ASSUME NEW i \in StartsBefore(k) PROVE i \in Nat /\ i < k
        <3>1. i \in {0} \cup Separators /\ i < k
            BY StartsBeforeAre, Zenon
        <3>2. QED
            BY <1>1, <3>1
    <2>2. QED
        BY <2>1
<1>3. IsFiniteSet(StartsBefore(k))
    BY <1>2, FS_BoundedSetOfNaturals
<1>4. QED
    BY <1>1, <1>2, <1>3

\* A part ends before the next separator, or with the text.
LEMMA PartEnds ==
    ASSUME text \in Seq(Atoms), NEW last, NEW end \in Nat,
           \A i \in Separators : i <= last \/ end < i,
           end + 1 \in Separators \/ end = Len(text), last <= end, last \in Nat
    PROVE  PartAfter(last) = Trim(SubSeq(text, last + 1, end))
<1> DEFINE ends == {j \in Separators : j > last}
<1>1. Separators \subseteq 1 .. Len(text) /\ Len(text) \in Nat
    BY SeparatorsInText
<1>2. CASE end + 1 \in Separators
    <2>1. end + 1 \in ends /\ \A k \in ends : end + 1 <= k /\ k \in Int
        BY <1>1, <1>2
    <2>2. PartAfter(last) =
            Trim(SubSeq(text, last + 1, (CHOOSE j \in ends : \A k \in ends : j <= k) - 1))
        BY <2>1 DEF PartAfter
    <2> HIDE DEF ends
    <2>3. PICK j \in ends : /\ \A k \in ends : j <= k
                            /\ j = CHOOSE i \in ends : \A k \in ends : i <= k
        BY <2>1
    <2>4. j = end + 1
        <3>1. j <= end + 1 /\ end + 1 <= j /\ j \in Int
            BY <2>1, <2>3
        <3>2. QED
            BY <3>1
    <2>5. j - 1 = end
        BY <2>4
    <2>6. QED
        BY <2>2, <2>3, <2>5
<1>3. CASE end + 1 \notin Separators
    <2>1. ends = {} /\ end = Len(text)
        <3>1. end = Len(text)
            BY <1>3
        <3>2. \A i \in Separators : i <= end /\ i \in Int
            BY <1>1, <3>1
        <3>3. QED
            BY <3>1, <3>2
    <2>2. PartAfter(last) = Trim(SubSeq(text, last + 1, Len(text)))
        BY <2>1 DEF PartAfter
    <2>3. QED
        BY <2>1, <2>2
<1>4. QED
    BY <1>2, <1>3

\* Keep closes the open part: it is counted unless it is empty.
LEMMA KeepCloses ==
    ASSUME text \in Seq(Atoms), NEW state \in ScanState(Atoms), NEW k \in Nat,
           NEW last, ScannedTo(k, state, last), Trim(state.current) = PartAfter(last),
           NEW next \in Nat, last < next, \A i \in Separators : i <= last \/ next <= i
    PROVE  Ranked(Keep(state.parts, state.current), StartsBefore(next))
<1>1. last \in Nat /\ last \in {0} \cup Separators /\ Ranked(state.parts, StartsBefore(last))
    BY DEF ScannedTo
<1>2. PICK parts \in Seq(Seq(Atoms)), part \in Seq(Atoms) :
            parts = state.parts /\ part = Trim(state.current)
    <2>1. state.parts \in Seq(Seq(Atoms)) /\ state.current \in Seq(Atoms)
        BY DEF ScanState
    <2>2. Trim(state.current) \in Seq(Atoms)
        BY <2>1, StripIsText DEF Trim
    <2>3. QED
        BY <2>1, <2>2, Zenon
<1>3. Separators \subseteq 1 .. Len(text) /\ Len(text) \in Nat
    BY SeparatorsInText
<1>4. CASE PartAfter(last) = <<>>
    <2>1. StartsBefore(next) = StartsBefore(last)
        <3>1. \A i \in {0} \cup Separators : i < next <=> i <= last
            BY <1>1, <1>3
        <3>2. ASSUME NEW i PROVE i \in StartsBefore(next) <=> i \in StartsBefore(last)
            <4>1. ASSUME i \in {0} \cup Separators, i # last PROVE i < next <=> i < last
                BY <1>1, <1>3, <3>1, <4>1
            <4>2. QED
                BY <1>4, <4>1, StartsBeforeAre, Zenon
        <3>3. QED
            BY <3>2, Zenon
    <2>2. Keep(state.parts, state.current) = state.parts
        BY <1>4, Zenon DEF Keep
    <2>3. QED
        BY <1>1, <2>1, <2>2
<1>5. CASE PartAfter(last) # <<>>
    <2>1. StartsBefore(next) = StartsBefore(last) \cup {last}
        <3>1. \A i \in {0} \cup Separators : i < next <=> i <= last
            BY <1>1, <1>3
        <3>2. ASSUME NEW i
              PROVE  i \in StartsBefore(next) <=> i \in StartsBefore(last) \/ i = last
            <4>1. ASSUME i \in {0} \cup Separators, i # last PROVE i < next <=> i < last
                BY <1>1, <1>3, <3>1, <4>1
            <4>2. last \in {0} \cup Separators /\ last < next
                BY <1>1
            <4>3. QED
                BY <1>5, <4>1, <4>2, StartsBeforeAre, Zenon
        <3>3. QED
            BY <3>2, Zenon
    <2>2. Keep(state.parts, state.current) = Append(parts, part)
        BY <1>2, <1>5, Zenon DEF Keep
    <2>3. Ranked(Append(parts, part), StartsBefore(last) \cup {last})
        BY <1>1, <1>2, StartsAreFinite, OneMoreRank
    <2>4. QED
        BY <2>1, <2>2, <2>3
<1>6. QED
    BY <1>4, <1>5

LEMMA OpenPartGrows ==
    ASSUME text \in Seq(Atoms), NEW k \in 1 .. Len(text), NEW last \in 0 .. k - 1
    PROVE  Append(SubSeq(text, last + 1, k - 1), text[k]) = SubSeq(text, last + 1, k)
<1>1. SubSeq(text, last + 1, k - 1) \in Seq(Atoms)
    <2>1. last + 1 \in 1 .. Len(text) + 1 /\ k - 1 \in 0 .. Len(text)
        OBVIOUS
    <2>2. QED
        BY <2>1, PartOfText
<1>2. text[k] \in Atoms
    OBVIOUS
<1>3. last + 1 \in 1 .. Len(text) /\ k \in (last + 1) - 1 .. Len(text)
    OBVIOUS
<1>4. SubSeq(text, last + 1, k) = SubSeq(text, last + 1, k - 1) \o <<text[k]>>
    BY <1>3, SubSeqRecursiveSecond
<1>5. QED
    BY <1>1, <1>2, <1>4, AppendIsConcat

\* An atom that is no separator is added to the open part.
LEMMA ScannedMore ==
    ASSUME text \in Seq(Atoms), NEW k \in 1 .. Len(text), NEW state \in ScanState(Atoms),
           NEW last, ScannedTo(k - 1, state, last), k \notin Separators,
           NEW quoted, quoted <=> Cardinality(Quotes(k)) % 2 = 1
    PROVE  ScannedTo(k, State(state.parts, Append(state.current, text[k]), quoted), last)
<1> DEFINE next == State(state.parts, Append(state.current, text[k]), quoted)
<1>1. /\ last \in 0 .. k - 1 /\ last \in {0} \cup Separators
      /\ \A i \in Separators : i <= last \/ k - 1 < i
      /\ state.current = SubSeq(text, last + 1, k - 1)
      /\ Ranked(state.parts, StartsBefore(last))
    BY DEF ScannedTo
<1>2. next.parts = state.parts /\ next.quoted = quoted
    BY DEF State
<1>3. next.current = SubSeq(text, last + 1, k)
    <2>1. next.current = Append(state.current, text[k])
        BY DEF State
    <2>2. QED
        BY <1>1, <2>1, OpenPartGrows
<1>4. last \in 0 .. k
    BY <1>1
<1>5. \A i \in Separators : i <= last \/ k < i
    <2>1. Separators \subseteq 1 .. Len(text)
        BY SeparatorsInText
    <2>2. QED
        BY <1>1, <2>1
<1> HIDE DEF next
<1>6. ScannedTo(k, next, last)
    BY <1>1, <1>2, <1>3, <1>4, <1>5, Zenon DEF ScannedTo
<1>7. QED
    BY <1>6 DEF next

LEMMA ScannedStep ==
    ASSUME text \in Seq(Atoms), NEW k \in 1 .. Len(text), NEW state \in ScanState(Atoms),
           NEW last, ScannedTo(k - 1, state, last)
    PROVE  \E l : ScannedTo(k, Scan(state, text[k]), l)
<1>1. text[k] \in Atoms /\ Quote \in Atoms /\ Quote # "," /\ k - 1 \in Nat /\ k \in Nat \ {0}
    <2>1. Quote \in Atoms
        BY DEF Atoms
    <2>2. Quote # ","
        BY DEF Quote
    <2>3. text[k] \in Atoms /\ k - 1 \in Nat /\ k \in Nat \ {0}
        OBVIOUS
    <2>4. QED
        BY <2>1, <2>2, <2>3
<1>2. PICK before \in Nat, count \in Nat :
        /\ before = Cardinality(Quotes(k - 1)) /\ count = Cardinality(Quotes(k))
        /\ count = before + (IF text[k] = Quote THEN 1 ELSE 0)
    <2>1. k - 1 \in Nat /\ k \in Nat /\ k \in Nat \ {0}
        BY <1>1
    <2>2. Cardinality(Quotes(k - 1)) \in Nat /\ Cardinality(Quotes(k)) \in Nat
        BY ONLY <2>1, QuotesAreCounted, Zenon
    <2>3. Cardinality(Quotes(k)) =
            Cardinality(Quotes(k - 1)) + (IF text[k] = Quote THEN 1 ELSE 0)
        BY ONLY <2>1, QuotesAreCounted, Zenon
    <2>4. QED
        BY ONLY <2>2, <2>3, Zenon
<1>3. state.quoted \in BOOLEAN /\ (state.quoted <=> before % 2 = 1)
    BY <1>2 DEF ScannedTo, ScanState
<1>4. k \in Separators <=> text[k] = "," /\ before % 2 = 0
    <2>1. k \in DOMAIN text
        OBVIOUS
    <2>2. k \in Separators <=> text[k] = "," /\ Cardinality(Quotes(k - 1)) % 2 = 0
        BY <2>1, SeparatorsAre, Zenon
    <2>3. QED
        BY <1>2, <2>2
<1>5. k - 1 \in Nat /\ k \in Nat
    OBVIOUS
<1>6. before % 2 = 0 \/ before % 2 = 1
    OBVIOUS
<1>7. CASE text[k] = Quote
    <2>1. Scan(state, text[k]) = State(state.parts, Append(state.current, text[k]), ~state.quoted)
        BY <1>1, <1>7, ScanQuotes
    <2>2. k \notin Separators
        BY <1>1, <1>4, <1>7
    <2>3. ~state.quoted <=> count % 2 = 1
        <3>1. count = before + 1
            BY <1>2, <1>7
        <3>2. ~(before % 2 = 1) <=> (before + 1) % 2 = 1
            BY ONLY before \in Nat
        <3>3. QED
            BY <1>3, <3>1, <3>2, Zenon
    <2>4. QED
        BY <1>2, <2>1, <2>2, <2>3, ScannedMore
<1>8. CASE text[k] # Quote /\ k \notin Separators
    <2>1. state.quoted \/ text[k] # ","
        BY <1>3, <1>4, <1>8, <1>6
    <2>2. Scan(state, text[k]) = State(state.parts, Append(state.current, text[k]), state.quoted)
        BY <1>1, <1>8, <2>1, ScanCopies
    <2>3. state.quoted <=> count % 2 = 1
        BY <1>2, <1>3, <1>8
    <2>4. QED
        BY <1>2, <1>8, <2>2, <2>3, ScannedMore
<1>9. CASE text[k] # Quote /\ k \in Separators
    <2>1. text[k] = "," /\ state.quoted = FALSE
        <3>1. before % 2 = 0 /\ text[k] = ","
            BY <1>4, <1>9
        <3>2. before % 2 = 0 => before % 2 # 1
            OBVIOUS
        <3>3. QED
            BY <1>3, <3>1, <3>2, Zenon
    <2>2. PICK next : next = State(Keep(state.parts, state.current), <<>>, FALSE)
        OBVIOUS
    <2>3. Scan(state, text[k]) = next
        BY <2>1, <2>2, ScanSeparates
    <2>4. /\ next.parts = Keep(state.parts, state.current)
          /\ next.current = <<>> /\ next.quoted = FALSE
        BY <2>2 DEF State
    <2>5. ~ (count % 2 = 1)
        <3>1. before % 2 = 0
            BY <1>4, <1>9, Zenon
        <3>2. count = before
            BY <1>2, <1>9
        <3>3. QED
            BY <3>1, <3>2
    <2>6. SubSeq(text, k + 1, k) = <<>>
        BY SubSeqEmpty
    <2>7. /\ last \in 0 .. k - 1 /\ state.current = SubSeq(text, last + 1, k - 1)
          /\ \A i \in Separators : i <= last \/ k - 1 < i
        BY DEF ScannedTo
    <2>8. Separators \subseteq 1 .. Len(text)
        BY SeparatorsInText
    <2>9. PartAfter(last) = Trim(state.current)
        <3>1. k - 1 + 1 = k /\ last <= k - 1 /\ last \in Nat
            BY <2>7
        <3>2. QED
            BY <1>5, <1>9, <2>7, <3>1, PartEnds
    <2>10. Ranked(next.parts, StartsBefore(k))
        <3>1. last < k /\ \A i \in Separators : i <= last \/ k <= i
            BY <2>7, <2>8
        <3>2. QED
            BY <1>5, <2>4, <2>9, <3>1, KeepCloses
    <2>11. k \in 0 .. k /\ \A i \in Separators : i <= k \/ k < i
        BY <2>8
    <2>12. ScannedTo(k, next, k)
        BY <1>2, <1>9, <2>4, <2>5, <2>6, <2>10, <2>11 DEF ScannedTo
    <2>13. QED
        BY <2>3, <2>12
<1>10. QED
    BY <1>7, <1>8, <1>9

LEMMA ScannedStart ==
    ASSUME text \in Seq(Atoms)
    PROVE  ScannedTo(0, ScanStart, 0)
<1>1. /\ ScanStart.parts = <<>> /\ ScanStart.current = <<>> /\ ScanStart.quoted = FALSE
    BY DEF ScanStart
<1>2. SubSeq(text, 1, 0) = <<>>
    BY SubSeqEmpty
<1>3. ~ (Cardinality(Quotes(0)) % 2 = 1)
    BY QuotesAreCounted
<1>4. Separators \subseteq 1 .. Len(text)
    BY SeparatorsInText
<1>5. StartsBefore(0) = {}
    <2>1. \A i \in StartsBefore(0) : i \in Nat /\ i < 0
        BY StartsAreFinite
    <2>2. QED
        BY <2>1
<1>6. Ranked(<<>>, {})
    BY FS_EmptySet DEF Ranked
<1>7. 0 \in 0 .. 0 /\ 0 \in {0} \cup Separators /\ \A i \in Separators : i <= 0 \/ 0 < i
    BY <1>4
<1>8. QED
    BY <1>1, <1>2, <1>3, <1>5, <1>6, <1>7 DEF ScannedTo

LEMMA ScannedAll ==
    ASSUME text \in Seq(Atoms)
    PROVE  \E last : ScannedTo(Len(text), End(text), last)
<1>1. PICK scanned : IsScan(text, scanned) /\ scanned = CHOOSE r : IsScan(text, r)
    BY ScanExists
<1>2. \A i \in 0 .. Len(text) : scanned[i] \in ScanState(Atoms)
    BY <1>1, ScanIsText
<1>3. \A i \in 0 .. Len(text) :
        scanned[i] = IF i = 0 THEN ScanStart ELSE Scan(scanned[i - 1], text[i])
    BY <1>1 DEF IsScan
<1> DEFINE Good(k) == \E last : ScannedTo(k, scanned[k], last)
           Bad     == {k \in 0 .. Len(text) : ~Good(k)}
<1>4. Len(text) \in Nat
    OBVIOUS
<1>5. Good(0)
    <2>1. scanned[0] = ScanStart
        BY <1>3, <1>4
    <2>2. QED
        BY <2>1, ScannedStart
<1>6. ASSUME NEW k \in 1 .. Len(text), Good(k - 1) PROVE Good(k)
    <2>1. k - 1 \in 0 .. Len(text) /\ k \in 0 .. Len(text) /\ k # 0
        OBVIOUS
    <2>2. PICK state \in ScanState(Atoms) : state = scanned[k - 1]
        BY <1>2, <2>1
    <2>3. PICK last : ScannedTo(k - 1, state, last)
        BY <1>6, <2>2
    <2>4. scanned[k] = Scan(state, text[k])
        BY <1>3, <2>1, <2>2
    <2>5. \E l : ScannedTo(k, Scan(state, text[k]), l)
        BY <2>3, ScannedStep
    <2>6. QED
        BY <2>4, <2>5
<1> HIDE DEF Good
<1>7. Bad \subseteq Nat
    BY <1>4
<1>8. ASSUME NEW k \in Bad, \A m \in Bad : k <= m PROVE FALSE
    <2>1. k \in 0 .. Len(text) /\ ~Good(k)
        OBVIOUS
    <2>2. k # 0
        BY <1>5, <2>1
    <2>3. k \in 1 .. Len(text) /\ k - 1 \in 0 .. Len(text) /\ ~ (k <= k - 1)
        BY <1>4, <2>1, <2>2
    <2>4. Good(k - 1)
        BY <1>8, <2>3
    <2>5. QED
        BY <1>6, <2>1, <2>3, <2>4
<1>9. Bad = {}
    <2> HIDE DEF Bad
    <2>1. QED
        BY <1>7, <1>8, SmallestNat
<1>10. Good(Len(text))
    BY <1>4, <1>9
<1>11. End(text) = scanned[Len(text)]
    BY <1>1 DEF End
<1>12. QED
    BY <1>10, <1>11 DEF Good

LEMMA PartsAreOuter ==
    ASSUME text \in Seq(Atoms) PROVE ParamsAreTheOuterParts
<1>1. PICK last : ScannedTo(Len(text), End(text), last)
    BY ScannedAll
<1>2. PICK state \in ScanState(Atoms) : state = End(text)
    BY EndIsState
<1>3. PICK n \in Nat : n = Len(text)
    OBVIOUS
<1>4. /\ last \in 0 .. n /\ \A i \in Separators : i <= last \/ n < i
      /\ state.current = SubSeq(text, last + 1, n)
    BY <1>1, <1>2, <1>3 DEF ScannedTo
<1>5. Separators \subseteq 1 .. n
    BY <1>3, SeparatorsInText
<1>6. PartAfter(last) = Trim(state.current)
    <2>1. last \in Nat /\ last <= n
        BY <1>4
    <2>2. PartAfter(last) = Trim(SubSeq(text, last + 1, n))
        BY <1>3, <1>4, <2>1, PartEnds
    <2>3. QED
        BY <1>4, <2>2
<1>7. Ranked(Keep(state.parts, state.current), StartsBefore(n + 1))
    <2>1. n + 1 \in Nat /\ last < n + 1 /\ \A i \in Separators : i <= last \/ n + 1 <= i
        BY <1>4, <1>5
    <2>2. ScannedTo(n, state, last)
        BY <1>1, <1>2, <1>3
    <2>3. QED
        BY <1>6, <2>1, <2>2, KeepCloses
<1>8. StartsBefore(n + 1) = FullStarts
    <2>1. \A i \in {0} \cup Separators : i < n + 1
        BY <1>5
    <2>2. FullStarts \subseteq {0} \cup Separators
        BY Zenon DEF FullStarts
    <2>3. QED
        BY <2>1, <2>2, Zenon DEF StartsBefore
<1>9. Params(text) = Keep(state.parts, state.current)
    BY <1>2, ParamsOfEnd
<1>10. QED
    BY <1>7, <1>8, <1>9 DEF Ranked, ParamsAreTheOuterParts

(* parse_params cuts every text at the commas outside quotes and nowhere    *)
(* else, and loses no part that is not blank (challenge.rs:130).           *)
THEOREM FlowOuterParts == Spec => []ParamsAreTheOuterParts
<1>1. Init => PairsInv
    BY NoPairs DEF Init
<1>2. PairsInv => ParamsAreTheOuterParts
    BY PartsAreOuter DEF PairsInv
<1>3. QED
    BY <1>1, <1>2, PairsStep, PTL DEF Spec
=============================================================================
