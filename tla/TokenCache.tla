------------------------------ MODULE TokenCache ------------------------------
(***************************************************************************)
(* The in-memory token store of bolt402-core (cache.rs): a map from        *)
(* endpoints to tokens, and the list of its keys in the order they were    *)
(* put.  One lock guards both, so each operation is one action.  A lookup  *)
(* (get) only reads.                                                       *)
(*                                                                         *)
(* recency is a history variable: every endpoint that was ever put, the    *)
(* one put last at the end, whatever was removed meanwhile.                *)
(***************************************************************************)
EXTENDS Naturals, Sequences, FiniteSets

CONSTANTS
    Endpoints, Tokens, NoToken,
    Capacity     \* the number of entries the cache was created for

ASSUME CacheAssumption ==
    /\ Capacity \in Nat
    /\ NoToken \notin Tokens
    /\ IsFiniteSet(Endpoints)

VARIABLES
    tokens,            \* CacheInner.tokens: a function from the cached endpoints
    insertion_order,   \* CacheInner.insertion_order
    recency

cacheVars == <<tokens, insertion_order, recency>>

Cached == DOMAIN tokens

\* Vec::retain(|k| k != e), key by key
Without(order, e) ==
    LET retained[i \in 0 .. Len(order)] ==
            IF i = 0 THEN << >>
            ELSE IF order[i] = e THEN retained[i - 1]
                 ELSE Append(retained[i - 1], order[i])
    IN  retained[Len(order)]

\* the map without the entries of gone
Drop(map, gone) == [x \in DOMAIN map \ gone |-> map[x]]

\* Mutant: the cache evicts one entry too late.
EvictedLate(e) ==
    IF Cardinality(Cached) > Capacity /\ e \notin Cached /\ insertion_order # << >>
    THEN {Head(insertion_order)}
    ELSE {}

\* what put evicts: the oldest key, when the cache is full and e is new
Evicted(e) ==
    IF Cardinality(Cached) >= Capacity /\ e \notin Cached /\ insertion_order # << >>
    THEN {Head(insertion_order)}
    ELSE {}

-----------------------------------------------------------------------------

Init ==
    /\ tokens = << >>
    /\ insertion_order = << >>
    /\ recency = << >>

\* Mutants of Put: a known key is listed twice; it keeps its place; it keeps its
\* token; the list gets the token instead of the key.
PutListsTwice(e, t) ==
    LET kept == Drop(tokens, Evicted(e)) IN
    /\ tokens' = [x \in DOMAIN kept \cup {e} |-> IF x = e THEN t ELSE kept[x]]
    /\ insertion_order' =
            Append(IF Evicted(e) = {} THEN insertion_order ELSE Tail(insertion_order), e)
    /\ recency' = Append(Without(recency, e), e)
PutInPlace(e, t) ==
    LET kept  == Drop(tokens, Evicted(e))
        order == IF Evicted(e) = {} THEN insertion_order ELSE Tail(insertion_order)
    IN
    /\ tokens' = [x \in DOMAIN kept \cup {e} |-> IF x = e THEN t ELSE kept[x]]
    /\ insertion_order' = IF e \in DOMAIN kept THEN order ELSE Append(order, e)
    /\ recency' = Append(Without(recency, e), e)
PutKeepsToken(e, t) ==
    LET kept  == Drop(tokens, Evicted(e))
        order == IF Evicted(e) = {} THEN insertion_order ELSE Tail(insertion_order)
    IN
    /\ tokens' = [x \in DOMAIN kept \cup {e} |-> IF x \in DOMAIN kept THEN kept[x] ELSE t]
    /\ insertion_order' = Append(Without(order, e), e)
    /\ recency' = Append(Without(recency, e), e)
PutListsToken(e, t) ==
    LET kept  == Drop(tokens, Evicted(e))
        order == IF Evicted(e) = {} THEN insertion_order ELSE Tail(insertion_order)
    IN
    /\ tokens' = [x \in DOMAIN kept \cup {e} |-> IF x = e THEN t ELSE kept[x]]
    /\ insertion_order' = Append(Without(order, e), t)
    /\ recency' = Append(Without(recency, e), e)

\* A new key goes to the back after the eviction, a known key moves there.
Put(e, t) ==
    LET kept  == Drop(tokens, Evicted(e))
        order == IF Evicted(e) = {} THEN insertion_order ELSE Tail(insertion_order)
    IN
    /\ tokens' = [x \in DOMAIN kept \cup {e} |-> IF x = e THEN t ELSE kept[x]]
    /\ insertion_order' =
            Append(IF e \in DOMAIN kept THEN Without(order, e) ELSE order, e)
    /\ recency' = Append(Without(recency, e), e)

Remove(e) ==
    /\ tokens' = Drop(tokens, {e})
    /\ insertion_order' = Without(insertion_order, e)
    /\ UNCHANGED recency

Clear ==
    /\ tokens' = << >>
    /\ insertion_order' = << >>
    /\ UNCHANGED recency

Next ==
    \/ \E e \in Endpoints, t \in Tokens : Put(e, t)
    \/ \E e \in Endpoints : Remove(e)
    \/ Clear

Spec == Init /\ [][Next]_cacheVars

-----------------------------------------------------------------------------

TypeOK ==
    /\ Cached \subseteq Endpoints
    /\ \A e \in Cached : tokens[e] \in Tokens
    /\ insertion_order \in Seq(Endpoints)
    /\ recency \in Seq(Endpoints)

\* i comes before j in a list
Before(list, i, j) == \E m, n \in 1 .. Len(list) : m < n /\ list[m] = i /\ list[n] = j

(* The list names each cached endpoint exactly once and nothing else: no    *)
(* entry is ever beyond eviction, and no eviction hits an absent entry.     *)
OrderListsTheKeys ==
    /\ Cached = {insertion_order[i] : i \in 1 .. Len(insertion_order)}
    /\ \A i, j \in 1 .. Len(insertion_order) :
            i # j => insertion_order[i] # insertion_order[j]

(* The cache holds at most its capacity, or one entry when that is 0: the   *)
(* eviction of put finds nothing to evict in an empty cache.                *)
SizeBounded == Cardinality(Cached) <= Capacity \/ Cardinality(Cached) = 1

(* An endpoint leaves the cache while another enters it only when the cache *)
(* is full, and then it is the one whose put lies furthest back, through    *)
(* every sequence of puts, updates, removals and clears (cache.rs:12, FIFO).*)
EvictionIsFifo ==
    [][ \A gone \in Cached \ Cached' :
            ~(Cached' \subseteq Cached) =>
                /\ Cardinality(Cached) >= Capacity
                /\ \A e \in Cached \ {gone} : Before(recency, gone, e) ]_cacheVars

\* What a lookup returns.
Get(e) == IF e \in Cached THEN tokens[e] ELSE NoToken

Store == INSTANCE TokenStore WITH cached <- [e \in Endpoints |-> Get(e)]

(* The cache implements the port, operation by operation: after a put its   *)
(* token is what a lookup finds, no other endpoint changes but by being     *)
(* evicted, and what is removed is gone (port.rs, TokenStore).              *)
ImplementsStore ==
    /\ Store!StoreSpec
    /\ [][ /\ \A e \in Endpoints, t \in Tokens : Put(e, t) => Store!StorePut(e, t)
           /\ \A e \in Endpoints : Remove(e) => Store!StoreRemove(e)
           /\ Clear => Store!StoreClear ]_cacheVars
=============================================================================
