--------------------------- MODULE TokenCacheProofs ---------------------------
(***************************************************************************)
(* The in-memory cache: its list names its keys in the order of their puts,*)
(* so it evicts the oldest, and it implements the port, for every capacity *)
(* and any finite set of endpoints.                                        *)
(***************************************************************************)
EXTENDS TokenCache, FiniteSetTheorems, WellFoundedInduction, TLAPS

(* Lists.  A list is known by what it names and by what comes before what. *)

Names(list, x) == \E i \in 1 .. Len(list) : list[i] = x

\* No element is named twice.
Distinct(list) == \A x : ~ Before(list, x, x)

LEMMA NamesOfAppend ==
    ASSUME NEW S, NEW list \in Seq(S), NEW x \in S, NEW y
    PROVE  Names(Append(list, x), y) <=> Names(list, y) \/ y = x
    BY DEF Names

LEMMA BeforeOfAppend ==
    ASSUME NEW S, NEW list \in Seq(S), NEW x \in S, NEW a, NEW b
    PROVE  Before(Append(list, x), a, b) <=> Before(list, a, b) \/ (Names(list, a) /\ b = x)
    BY DEF Names, Before

LEMMA NamesOfTail ==
    ASSUME NEW S, NEW list \in Seq(S), list # << >>, NEW y
    PROVE  /\ Head(list) \in S /\ Tail(list) \in Seq(S)
           /\ Names(list, y) <=> y = Head(list) \/ Names(Tail(list), y)
           /\ Names(Tail(list), y) => Before(list, Head(list), y)
    BY DEF Names, Before

LEMMA BeforeOfTail ==
    ASSUME NEW S, NEW list \in Seq(S), list # << >>, NEW a, NEW b
    PROVE  Before(Tail(list), a, b) => Before(list, a, b)
    BY DEF Before

LEMMA SmallestNat ==
    ASSUME NEW T, T \subseteq Nat, T # {}
    PROVE  \E low \in T : \A t \in T : low <= t
<1>1. PICK low \in T : \A t \in T : ~ (<<t, low>> \in OpToRel(<, Nat))
    BY NatLessThanWellFounded, WFMin, Zenon
<1>2. \A t \in T : ~ (t < low)
    BY <1>1, Zenon DEF OpToRel
<1>3. QED
    BY <1>2

\* r[i] is what retain has kept of the first i elements.
IsRetained(list, e, r) ==
    r = [i \in 0 .. Len(list) |->
            IF i = 0 THEN << >>
            ELSE IF list[i] = e THEN r[i - 1] ELSE Append(r[i - 1], list[i])]

LEMMA WithoutIsRetained ==
    ASSUME NEW list, NEW e
    PROVE  Without(list, e) = (CHOOSE r : IsRetained(list, e, r))[Len(list)]
    BY DEF Without, IsRetained

\* The recursion has a solution: it is extended from i elements to i + 1.
LEMMA RetainedExists ==
    ASSUME NEW list, NEW e, Len(list) \in Nat
    PROVE  \E r : IsRetained(list, e, r)
<1> DEFINE Kept(r, i) == IF i = 0 THEN << >>
                         ELSE IF list[i] = e THEN r[i - 1] ELSE Append(r[i - 1], list[i])
           Good(n)    == \E r : \A i \in 0 .. Len(list) : i <= n => r[i] = Kept(r, i)
           Bad        == {n \in Nat : ~Good(n)}
<1>1. ASSUME NEW n \in Bad, \A m \in Bad : n <= m PROVE FALSE
    <2>1. CASE n = 0
        <3> DEFINE r == [i \in 0 .. Len(list) |-> << >>]
        <3>1. \A i \in 0 .. Len(list) : i <= 0 => r[i] = Kept(r, i)
            OBVIOUS
        <3>2. Good(0)
            BY <3>1
        <3>3. QED
            BY <2>1, <3>2
    <2>2. CASE n # 0
        <3>1. n - 1 \in Nat /\ n - 1 \notin Bad /\ n \in Nat
            <4>1. n \in Nat
                OBVIOUS
            <4> HIDE DEF Bad
            <4>2. QED
                BY <1>1, <2>2, <4>1
        <3>2. PICK r : \A i \in 0 .. Len(list) : i <= n - 1 => r[i] = Kept(r, i)
            BY <3>1
        <3> DEFINE s == [i \in 0 .. Len(list) |-> Kept(r, i)]
        <3>3. ASSUME NEW i \in 0 .. Len(list), i <= n
              PROVE  s[i] = Kept(s, i)
            <4>1. CASE i = 0
                BY <4>1
            <4>2. CASE i # 0
                <5>1. i - 1 \in 0 .. Len(list) /\ i - 1 <= n - 1
                    BY <3>1, <3>3, <4>2
                <5>2. r[i - 1] = Kept(r, i - 1)
                    BY <3>2, <5>1
                <5>3. s[i - 1] = Kept(r, i - 1)
                    BY <5>1
                <5>4. s[i] = Kept(r, i)
                    OBVIOUS
                <5>5. QED
                    BY <4>2, <5>2, <5>3, <5>4
            <4>3. QED
                BY <4>1, <4>2
        <3>4. Good(n)
            BY <3>3
        <3>5. QED
            BY <3>4
    <2>3. QED
        BY <2>1, <2>2
<1>2. Bad = {}
    <2> HIDE DEF Bad
    <2>1. Bad \subseteq Nat
        BY DEF Bad
    <2>2. QED
        BY <1>1, <2>1, SmallestNat
<1>3. Good(Len(list))
    BY <1>2
<1>4. PICK r : \A i \in 0 .. Len(list) : i <= Len(list) => r[i] = Kept(r, i)
    BY <1>3
<1> DEFINE s == [i \in 0 .. Len(list) |-> r[i]]
<1>5. s = [i \in 0 .. Len(list) |-> Kept(s, i)]
    <2>1. ASSUME NEW i \in 0 .. Len(list) PROVE s[i] = Kept(s, i)
        <3>1. r[i] = Kept(r, i)
            BY <1>4
        <3>2. i # 0 => i - 1 \in 0 .. Len(list)
            OBVIOUS
        <3>3. QED
            BY <3>1, <3>2
    <2>2. QED
        BY <2>1
<1>6. QED
    BY <1>5 DEF IsRetained

\* What is kept of the first i elements: they but e, in their order.
KeptOf(list, e, i, kept) ==
    /\ \A x : Names(kept, x) <=> x # e /\ \E m \in 1 .. i : list[m] = x
    /\ \A a, b : Before(kept, a, b) <=>
            a # e /\ b # e /\ \E m, n \in 1 .. i : m < n /\ list[m] = a /\ list[n] = b

LEMMA RetainedStep ==
    ASSUME NEW S, NEW list \in Seq(S), NEW e, NEW i \in 1 .. Len(list),
           NEW kept \in Seq(S), KeptOf(list, e, i - 1, kept)
    PROVE  LET next == IF list[i] = e THEN kept ELSE Append(kept, list[i]) IN
           next \in Seq(S) /\ KeptOf(list, e, i, next)
<1> DEFINE next == IF list[i] = e THEN kept ELSE Append(kept, list[i])
<1>1. list[i] \in S /\ i \in Nat /\ i >= 1
    OBVIOUS
<1>2. 1 .. i = 1 .. (i - 1) \cup {i}
    BY <1>1
<1>3. CASE list[i] = e
    <2>1. \A x : Names(kept, x) <=> x # e /\ \E m \in 1 .. i : list[m] = x
        BY <1>2, <1>3 DEF KeptOf
    <2>2. ASSUME NEW a, NEW b
          PROVE  Before(kept, a, b) <=>
                    a # e /\ b # e /\ \E m, n \in 1 .. i : m < n /\ list[m] = a /\ list[n] = b
        BY <1>2, <1>3 DEF KeptOf
    <2>3. QED
        BY <1>3, <2>1, <2>2 DEF KeptOf
<1>4. CASE list[i] # e
    <2>1. next \in Seq(S)
        BY <1>1, <1>4
    <2>2. ASSUME NEW x
          PROVE  Names(next, x) <=> x # e /\ \E m \in 1 .. i : list[m] = x
        <3>1. Names(next, x) <=> Names(kept, x) \/ x = list[i]
            BY <1>1, <1>4, NamesOfAppend
        <3>2. QED
            BY <1>2, <1>4, <3>1 DEF KeptOf
    <2>3. ASSUME NEW a, NEW b
          PROVE  Before(next, a, b) <=>
                    a # e /\ b # e /\ \E m, n \in 1 .. i : m < n /\ list[m] = a /\ list[n] = b
        <3>1. Before(next, a, b) <=> Before(kept, a, b) \/ (Names(kept, a) /\ b = list[i])
            BY <1>1, <1>4, BeforeOfAppend
        <3>2. (\E m, n \in 1 .. i : m < n /\ list[m] = a /\ list[n] = b)
                <=> \/ \E m, n \in 1 .. (i - 1) : m < n /\ list[m] = a /\ list[n] = b
                    \/ (\E m \in 1 .. (i - 1) : list[m] = a) /\ list[i] = b
            BY <1>1, <1>2
        <3>3. QED
            BY <1>4, <3>1, <3>2 DEF KeptOf
    <2>4. QED
        BY <2>1, <2>2, <2>3 DEF KeptOf
<1>5. QED
    BY <1>3, <1>4

LEMMA RetainedSteps ==
    ASSUME NEW list, NEW e, Len(list) \in Nat, NEW r, IsRetained(list, e, r)
    PROVE  /\ r[0] = << >>
           /\ \A i \in 1 .. Len(list) :
                r[i] = IF list[i] = e THEN r[i - 1] ELSE Append(r[i - 1], list[i])
<1>1. \A i \in 0 .. Len(list) :
        r[i] = IF i = 0 THEN << >>
               ELSE IF list[i] = e THEN r[i - 1] ELSE Append(r[i - 1], list[i])
    BY DEF IsRetained
<1>2. QED
    BY <1>1

\* retain(|k| k != e) drops e and keeps the rest in order.
LEMMA WithoutKeeps ==
    ASSUME NEW S, NEW list \in Seq(S), NEW e
    PROVE  /\ Without(list, e) \in Seq(S)
           /\ \A x : Names(Without(list, e), x) <=> Names(list, x) /\ x # e
           /\ \A a, b : Before(Without(list, e), a, b) <=>
                            Before(list, a, b) /\ a # e /\ b # e
<1>1. PICK r : IsRetained(list, e, r) /\ Without(list, e) = r[Len(list)]
    BY RetainedExists, WithoutIsRetained
<1> DEFINE Good(i) == r[i] \in Seq(S) /\ KeptOf(list, e, i, r[i])
           Bad     == {i \in 0 .. Len(list) : ~Good(i)}
<1>2. ASSUME NEW n \in Bad, \A m \in Bad : n <= m PROVE FALSE
    <2>1. CASE n = 0
        <3>1. r[0] = << >>
            BY <1>1, RetainedSteps
        <3>2. Good(0)
            BY <3>1 DEF KeptOf, Names, Before
        <3>3. QED
            BY <2>1, <3>2
    <2>2. CASE n # 0
        <3>1. n \in 1 .. Len(list) /\ n - 1 \in 0 .. Len(list)
            BY <2>2
        <3>2. Good(n - 1)
            BY <1>2, <3>1
        <3>3. r[n] = IF list[n] = e THEN r[n - 1] ELSE Append(r[n - 1], list[n])
            BY <1>1, <3>1, RetainedSteps
        <3> HIDE DEF Bad
        <3>4. Good(n)
            BY <3>1, <3>2, <3>3, RetainedStep
        <3>5. QED
            BY <3>4 DEF Bad
    <2>3. QED
        BY <2>1, <2>2
<1>3. Bad = {}
    <2> HIDE DEF Bad
    <2>1. Bad \subseteq Nat
        BY DEF Bad
    <2>2. QED
        BY <1>2, <2>1, SmallestNat
<1>4. Good(Len(list))
    BY <1>3
<1>5. r[Len(list)] \in Seq(S) /\ KeptOf(list, e, Len(list), r[Len(list)])
    BY <1>4
<1> HIDE DEF Bad, Good
<1>6. Without(list, e) \in Seq(S) /\ KeptOf(list, e, Len(list), Without(list, e))
    <2>1. Without(list, e) = r[Len(list)]
        BY <1>1
    <2>2. QED
        BY ONLY <1>5, <2>1
<1>7. \A x : Names(Without(list, e), x) <=> Names(list, x) /\ x # e
    BY <1>6, Zenon DEF KeptOf, Names
<1>8. ASSUME NEW a, NEW b
      PROVE  Before(Without(list, e), a, b) <=> Before(list, a, b) /\ a # e /\ b # e
    <2>1. Before(list, a, b) <=>
            \E m, n \in 1 .. Len(list) : m < n /\ list[m] = a /\ list[n] = b
        BY Zenon DEF Before
    <2>2. QED
        BY <1>6, <2>1, Z3 DEF KeptOf
<1>9. QED
    BY <1>6, <1>7, <1>8

-----------------------------------------------------------------------------
(* The cache. *)

\* The list names the keys, in the order of their last puts.
IInv ==
    /\ TypeOK
    /\ SizeBounded
    /\ \A x : x \in Cached <=> Names(insertion_order, x)
    /\ Distinct(insertion_order)
    /\ \A x \in Cached : Names(recency, x)
    /\ \A a, b : Before(insertion_order, a, b) => Before(recency, a, b)

LEMMA InitIInv == Init => IInv
<1> SUFFICES ASSUME Init PROVE IInv
    OBVIOUS
<1>1. Cached = {} /\ insertion_order = << >> /\ recency = << >>
    BY DEF Init, Cached
<1>2. Cardinality(Cached) = 0
    BY <1>1, FS_EmptySet
<1>3. QED
    BY <1>1, <1>2, CacheAssumption DEF IInv, TypeOK, SizeBounded, Names, Distinct, Before

\* A put evicts nothing, or the oldest key of a full cache to let a new one in.
LEMMA EvictedIsHead ==
    ASSUME IInv, NEW e \in Endpoints, NEW gone \in Evicted(e)
    PROVE  /\ Cardinality(Cached) >= Capacity /\ e \notin Cached /\ insertion_order # << >>
           /\ gone = Head(insertion_order) /\ gone \in Cached
           /\ Evicted(e) = {gone}
<1>1. /\ Cardinality(Cached) >= Capacity /\ e \notin Cached /\ insertion_order # << >>
      /\ gone = Head(insertion_order) /\ Evicted(e) = {gone}
    BY DEF Evicted
<1>2. Names(insertion_order, gone)
    BY <1>1, NamesOfTail DEF IInv, TypeOK
<1>3. QED
    BY <1>1, <1>2 DEF IInv

\* The keys that stay, in their order: what the new key is appended to.
StayedInOrder(e, stay) ==
    /\ stay \in Seq(Endpoints)
    /\ \A x : Names(stay, x) <=> x \in Cached /\ x \notin Evicted(e) /\ x # e
    /\ \A a, b : Before(stay, a, b) => Before(insertion_order, a, b) /\ a # e /\ b # e

LEMMA PutAppends ==
    ASSUME IInv, NEW e \in Endpoints, NEW t \in Tokens, Put(e, t)
    PROVE  /\ Cached' = (Cached \ Evicted(e)) \cup {e}
           /\ \A x \in Cached' : tokens'[x] = IF x = e THEN t ELSE tokens[x]
           /\ \E stay : StayedInOrder(e, stay) /\ insertion_order' = Append(stay, e)
<1> USE DEF IInv, TypeOK
<1>1. /\ Cached' = (Cached \ Evicted(e)) \cup {e}
      /\ \A x \in Cached' : tokens'[x] = IF x = e THEN t ELSE tokens[x]
    BY DEF Put, Drop, Cached
<1>2. CASE Evicted(e) = {} /\ e \in Cached
    <2>1. insertion_order' = Append(Without(insertion_order, e), e)
        BY <1>2 DEF Put, Drop, Cached
    <2>2. StayedInOrder(e, Without(insertion_order, e))
        BY <1>2, WithoutKeeps DEF StayedInOrder
    <2>3. QED
        BY <1>1, <2>1, <2>2
<1>3. CASE Evicted(e) = {} /\ e \notin Cached
    <2>1. insertion_order' = Append(insertion_order, e)
        BY <1>3 DEF Put, Drop, Cached
    <2>2. \A a, b : Before(insertion_order, a, b) =>
                        Names(insertion_order, a) /\ Names(insertion_order, b)
        BY DEF Before, Names
    <2>3. StayedInOrder(e, insertion_order)
        BY <1>3, <2>2 DEF StayedInOrder
    <2>4. QED
        BY <1>1, <2>1, <2>3
<1>4. CASE Evicted(e) # {}
    <2>1. PICK gone : gone \in Evicted(e)
        BY <1>4
    <2>2. /\ e \notin Cached /\ insertion_order # << >>
          /\ gone = Head(insertion_order) /\ Evicted(e) = {gone}
        BY <2>1, EvictedIsHead
    <2>3. insertion_order' = Append(Tail(insertion_order), e)
        BY <1>4, <2>2 DEF Put, Drop, Cached
    <2>4. Tail(insertion_order) \in Seq(Endpoints)
        BY <2>2
    <2>5. \A x : Names(Tail(insertion_order), x) <=> x \in Cached /\ x # gone
        BY <2>2, NamesOfTail DEF Distinct
    <2>6. \A a, b : Before(Tail(insertion_order), a, b) =>
                        /\ Before(insertion_order, a, b)
                        /\ Names(insertion_order, a) /\ Names(insertion_order, b)
        BY <2>2, BeforeOfTail DEF Before, Names
    <2>7. StayedInOrder(e, Tail(insertion_order))
        BY <2>2, <2>4, <2>5, <2>6 DEF StayedInOrder
    <2>8. QED
        BY <1>1, <2>3, <2>7
<1>5. QED
    BY <1>2, <1>3, <1>4

\* The new entry takes the place of the evicted one.
LEMMA PutKeepsSize ==
    ASSUME IInv, NEW e \in Endpoints, NEW t \in Tokens, Put(e, t)
    PROVE  SizeBounded'
<1>1. IsFiniteSet(Cached) /\ Cardinality(Cached) \in Nat /\ Capacity \in Nat
    BY CacheAssumption, FS_Subset, FS_CardinalityType DEF IInv, TypeOK
<1>2. Cached' = (Cached \ Evicted(e)) \cup {e}
    BY PutAppends
<1>3. CASE e \in Cached
    <2>1. Cached' = Cached
        BY <1>2, <1>3 DEF Evicted
    <2>2. QED
        BY <2>1 DEF IInv, SizeBounded
<1>4. CASE e \notin Cached /\ Evicted(e) # {}
    <2>1. PICK gone : gone \in Evicted(e)
        BY <1>4
    <2>2. gone \in Cached /\ Evicted(e) = {gone}
        BY <2>1, EvictedIsHead
    <2>3. /\ IsFiniteSet(Cached \ {gone}) /\ e \notin Cached \ {gone}
          /\ Cardinality(Cached \ {gone}) = Cardinality(Cached) - 1
        BY <1>1, <1>4, <2>2, FS_RemoveElement
    <2>4. Cardinality((Cached \ {gone}) \cup {e}) = Cardinality(Cached \ {gone}) + 1
        BY <2>3, FS_AddElement
    <2>5. Cardinality(Cached') = Cardinality(Cached)
        BY <1>1, <1>2, <2>2, <2>3, <2>4
    <2>6. QED
        BY <2>5 DEF IInv, SizeBounded
<1>5. CASE e \notin Cached /\ Evicted(e) = {}
    <2>1. Cardinality(Cached') = Cardinality(Cached) + 1
        BY <1>1, <1>2, <1>5, FS_AddElement
    <2>2. Cardinality(Cached) < Capacity \/ insertion_order = << >>
        BY <1>1, <1>5 DEF Evicted
    <2>3. CASE Cardinality(Cached) < Capacity
        BY <1>1, <2>1, <2>3 DEF SizeBounded
    <2>4. CASE insertion_order = << >>
        <3>1. Cached = {}
            BY <2>4 DEF IInv, Names
        <3>2. QED
            BY <2>1, <3>1, FS_EmptySet DEF SizeBounded
    <2>5. QED
        BY <2>2, <2>3, <2>4
<1>6. QED
    BY <1>3, <1>4, <1>5

\* What is named by a list and comes before what.
LEMMA BeforeNames ==
    ASSUME NEW list, NEW a, NEW b, Before(list, a, b)
    PROVE  Names(list, a) /\ Names(list, b)
    BY DEF Before, Names

LEMMA PutIInv ==
    ASSUME IInv, NEW e \in Endpoints, NEW t \in Tokens, Put(e, t)
    PROVE  IInv'
<1>1. PICK stay : StayedInOrder(e, stay) /\ insertion_order' = Append(stay, e)
    BY PutAppends
<1>2. Cached' = (Cached \ Evicted(e)) \cup {e}
    BY PutAppends
<1>3. /\ stay \in Seq(Endpoints) /\ recency \in Seq(Endpoints)
      /\ Without(recency, e) \in Seq(Endpoints)
      /\ recency' = Append(Without(recency, e), e)
    BY <1>1, WithoutKeeps DEF StayedInOrder, IInv, TypeOK, Put
<1>4. TypeOK'
    <2>1. \A x \in Cached' : tokens'[x] \in Tokens
        BY <1>2, PutAppends DEF IInv, TypeOK
    <2>2. insertion_order' \in Seq(Endpoints) /\ recency' \in Seq(Endpoints)
        BY <1>1, <1>3
    <2>3. QED
        BY <1>2, <2>1, <2>2 DEF IInv, TypeOK
<1>5. SizeBounded'
    BY PutKeepsSize
<1>6. \A x : x \in Cached' <=> Names(insertion_order', x)
    <2>1. \A x : Names(insertion_order', x) <=> Names(stay, x) \/ x = e
        BY <1>1, <1>3, NamesOfAppend
    <2>2. QED
        BY <1>1, <1>2, <2>1 DEF StayedInOrder
<1>7. \A x : Names(recency', x) <=> Names(recency, x) \/ x = e
    BY <1>3, NamesOfAppend, WithoutKeeps
<1>8. \A a, b : Before(insertion_order', a, b) <=>
                    Before(stay, a, b) \/ (Names(stay, a) /\ b = e)
    BY <1>1, <1>3, BeforeOfAppend
<1>9. \A a, b : Before(recency', a, b) <=>
                    \/ Before(recency, a, b) /\ a # e /\ b # e
                    \/ Names(recency, a) /\ a # e /\ b = e
    BY <1>3, BeforeOfAppend, WithoutKeeps
<1>10. Distinct(insertion_order)'
    BY <1>1, <1>8 DEF StayedInOrder, Distinct, IInv
<1>11. \A x \in Cached' : Names(recency', x)
    BY <1>2, <1>7 DEF IInv
<1>12. ASSUME NEW a, NEW b, Before(insertion_order', a, b) PROVE Before(recency', a, b)
    BY <1>1, <1>8, <1>9, <1>12 DEF StayedInOrder, IInv
<1>13. QED
    BY <1>4, <1>5, <1>6, <1>10, <1>11, <1>12 DEF IInv

\* A smaller cache is within its bound too.
LEMMA FewerKeepSize ==
    ASSUME IInv, Cached' \subseteq Cached
    PROVE  SizeBounded'
<1>1. /\ IsFiniteSet(Cached) /\ Cardinality(Cached) \in Nat /\ Capacity \in Nat
      /\ Cardinality(Cached') \in Nat /\ Cardinality(Cached') <= Cardinality(Cached)
    BY CacheAssumption, FS_Subset, FS_CardinalityType DEF IInv, TypeOK
<1>2. CASE Cardinality(Cached) = 1 /\ Cardinality(Cached') = 0
    BY <1>1, <1>2 DEF SizeBounded
<1>3. CASE ~(Cardinality(Cached) = 1 /\ Cardinality(Cached') = 0)
    BY <1>1, <1>3 DEF SizeBounded, IInv
<1>4. QED
    BY <1>2, <1>3

LEMMA RemoveIInv ==
    ASSUME IInv, NEW e \in Endpoints, Remove(e)
    PROVE  IInv'
<1>1. Cached' = Cached \ {e} /\ \A x \in Cached' : tokens'[x] = tokens[x]
    BY DEF Remove, Drop, Cached
<1>2. insertion_order' = Without(insertion_order, e) /\ recency' = recency
    BY DEF Remove
<1>3. TypeOK'
    BY <1>1, <1>2, WithoutKeeps DEF IInv, TypeOK
<1>4. SizeBounded'
    BY <1>1, FewerKeepSize
<1>5. /\ \A x : Names(insertion_order', x) <=> Names(insertion_order, x) /\ x # e
      /\ \A a, b : Before(insertion_order', a, b) => Before(insertion_order, a, b)
    BY <1>2, WithoutKeeps DEF IInv, TypeOK
<1>6. QED
    BY <1>1, <1>2, <1>3, <1>4, <1>5 DEF IInv, Distinct

LEMMA ClearIInv == ASSUME IInv, Clear PROVE IInv'
<1>1. Cached' = {} /\ insertion_order' = << >> /\ recency' = recency
    BY DEF Clear, Cached
<1>2. SizeBounded'
    BY <1>1, FewerKeepSize
<1>3. QED
    BY <1>1, <1>2 DEF IInv, TypeOK, Names, Distinct, Before

LEMMA StepIInv == IInv /\ [Next]_cacheVars => IInv'
<1> SUFFICES ASSUME IInv, [Next]_cacheVars PROVE IInv'
    OBVIOUS
<1>1. CASE UNCHANGED cacheVars
    BY <1>1 DEF cacheVars, IInv, TypeOK, SizeBounded, Cached, Distinct
<1>2. QED
    BY <1>1, PutIInv, RemoveIInv, ClearIInv DEF Next

LEMMA CacheInvariant == Spec => []IInv
    BY InitIInv, StepIInv, PTL DEF Spec

(* Map, list and history keep their types.                                  *)
THEOREM CacheTypeCorrect == Spec => []TypeOK
<1>1. IInv => TypeOK
    BY DEF IInv
<1>2. QED
    BY <1>1, CacheInvariant, PTL

(* The list names each cached endpoint exactly once and nothing else        *)
(* (cache.rs), so that every entry can be evicted and no eviction misses.   *)
THEOREM CacheOrder == Spec => []OrderListsTheKeys
<1>1. ASSUME IInv PROVE OrderListsTheKeys
    <2>1. Cached = {insertion_order[i] : i \in 1 .. Len(insertion_order)}
        BY <1>1 DEF IInv, Names
    <2>2. ASSUME NEW i \in 1 .. Len(insertion_order), NEW j \in 1 .. Len(insertion_order),
                 i # j, insertion_order[i] = insertion_order[j]
          PROVE  FALSE
        <3>1. i < j \/ j < i
            BY <2>2
        <3>2. Before(insertion_order, insertion_order[i], insertion_order[i])
            BY <2>2, <3>1 DEF Before
        <3>3. QED
            BY <1>1, <3>2 DEF IInv, Distinct
    <2>3. QED
        BY <2>1, <2>2 DEF OrderListsTheKeys
<1>2. QED
    BY <1>1, CacheInvariant, PTL

(* The cache holds at most its capacity, or one entry when that is 0        *)
(* (cache.rs, InMemoryTokenStore::put).                                     *)
THEOREM CacheSize == Spec => []SizeBounded
<1>1. IInv => SizeBounded
    BY DEF IInv
<1>2. QED
    BY <1>1, CacheInvariant, PTL

\* An eviction is a put, into a full cache, and takes the head of the list.
LEMMA EvictionTakesOldest ==
    ASSUME IInv, [Next]_cacheVars, NEW gone \in Cached \ Cached', ~(Cached' \subseteq Cached)
    PROVE  /\ Cardinality(Cached) >= Capacity
           /\ \A e \in Cached \ {gone} : Before(recency, gone, e)
<1>1. PICK e \in Endpoints, t \in Tokens : Put(e, t)
    <2>1. \A x \in Endpoints : Remove(x) => Cached' \subseteq Cached
        BY DEF Remove, Drop, Cached
    <2>2. Clear => Cached' \subseteq Cached
        BY DEF Clear, Cached
    <2>3. UNCHANGED cacheVars => Cached' \subseteq Cached
        BY DEF cacheVars, Cached
    <2>4. QED
        BY <2>1, <2>2, <2>3 DEF Next
<1>2. gone \in Evicted(e)
    BY <1>1, PutAppends
<1>3. /\ Cardinality(Cached) >= Capacity
      /\ insertion_order # << >> /\ gone = Head(insertion_order)
    BY <1>1, <1>2, EvictedIsHead
<1>4. ASSUME NEW x \in Cached \ {gone} PROVE Before(recency, gone, x)
    <2>1. Names(insertion_order, x) /\ insertion_order \in Seq(Endpoints)
        BY DEF IInv, TypeOK
    <2>2. Before(insertion_order, gone, x)
        BY <1>3, <2>1, NamesOfTail
    <2>3. QED
        BY <2>2 DEF IInv
<1>5. QED
    BY <1>3, <1>4

(* An endpoint leaves the cache while another enters it only when the cache *)
(* is full, and it is the one whose put lies furthest back (cache.rs:12,    *)
(* FIFO), through every sequence of puts, updates, removals and clears.     *)
THEOREM CacheFifo == Spec => EvictionIsFifo
<1>1. IInv /\ [Next]_cacheVars =>
        \A gone \in Cached \ Cached' :
            ~(Cached' \subseteq Cached) =>
                /\ Cardinality(Cached) >= Capacity
                /\ \A e \in Cached \ {gone} : Before(recency, gone, e)
    BY EvictionTakesOldest
<1>2. QED
    BY <1>1, InitIInv, StepIInv, PTL DEF Spec, EvictionIsFifo

-----------------------------------------------------------------------------
(* The cache implements the port. *)

LEMMA PutImplements ==
    ASSUME IInv, NEW e \in Endpoints, NEW t \in Tokens, Put(e, t)
    PROVE  Store!StorePut(e, t)
<1>1. PICK evicted : evicted = Evicted(e)
    OBVIOUS
<1>2. /\ Cached' = (Cached \ evicted) \cup {e}
      /\ \A x \in Cached' : tokens'[x] = IF x = e THEN t ELSE tokens[x]
    BY <1>1, PutAppends
<1>3. evicted \in SUBSET (Endpoints \ {e})
    BY <1>1, EvictedIsHead DEF IInv, TypeOK
<1>4. \A x \in Endpoints : Get(x)' = IF x = e THEN t
                                     ELSE IF x \in evicted THEN NoToken ELSE Get(x)
    BY <1>2 DEF Get
<1>5. [x \in Endpoints |-> Get(x)]' =
            [x \in Endpoints |-> IF x = e THEN t
                                 ELSE IF x \in evicted THEN NoToken
                                 ELSE [y \in Endpoints |-> Get(y)][x]]
    BY <1>4
<1>6. QED
    BY <1>3, <1>5 DEF Store!StorePut

LEMMA RemoveImplements ==
    ASSUME NEW e \in Endpoints, Remove(e)
    PROVE  Store!StoreRemove(e)
<1>1. Cached' = Cached \ {e} /\ \A x \in Cached' : tokens'[x] = tokens[x]
    BY DEF Remove, Drop, Cached
<1>2. \A x \in Endpoints : Get(x)' = IF x = e THEN NoToken ELSE Get(x)
    BY <1>1 DEF Get
<1>3. QED
    BY <1>2 DEF Store!StoreRemove

LEMMA ClearImplements == ASSUME Clear PROVE Store!StoreClear
<1>1. Cached' = {}
    BY DEF Clear, Cached
<1>2. \A x \in Endpoints : Get(x)' = NoToken
    BY <1>1 DEF Get
<1>3. QED
    BY <1>2 DEF Store!StoreClear

(* The cache implements the port, operation by operation: after a put its   *)
(* token is what a lookup finds, no other endpoint changes but by being     *)
(* evicted, and what is removed is gone (port.rs, TokenStore).              *)
THEOREM CacheRefinement == Spec => ImplementsStore
<1>1. Init => Store!StoreInit
    BY DEF Init, Store!StoreInit, Get, Cached
<1>2. IInv /\ [Next]_cacheVars =>
        /\ \A e \in Endpoints, t \in Tokens : Put(e, t) => Store!StorePut(e, t)
        /\ \A e \in Endpoints : Remove(e) => Store!StoreRemove(e)
        /\ Clear => Store!StoreClear
    BY PutImplements, RemoveImplements, ClearImplements
<1>3. IInv /\ [Next]_cacheVars =>
        [Store!StoreNext]_([e \in Endpoints |-> Get(e)])
    <2> SUFFICES ASSUME IInv, [Next]_cacheVars
                 PROVE  Store!StoreNext \/ UNCHANGED [e \in Endpoints |-> Get(e)]
        OBVIOUS
    <2>1. CASE UNCHANGED cacheVars
        BY <2>1 DEF cacheVars, Get, Cached
    <2>2. QED
        BY <1>2, <2>1 DEF Next, Store!StoreNext
<1>4. QED
    BY <1>1, <1>2, <1>3, InitIInv, StepIInv, PTL
       DEF Spec, ImplementsStore, Store!StoreSpec
=============================================================================
