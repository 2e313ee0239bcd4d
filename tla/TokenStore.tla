------------------------------ MODULE TokenStore ------------------------------
(***************************************************************************)
(* The token store port (port.rs, trait TokenStore) as its callers may     *)
(* rely on it: a lookup of an endpoint returns the token last put for it,  *)
(* or nothing.  A store may forget: it evicts entries when it is full and  *)
(* expires them when they are old.  TokenCache and SqliteStore implement it. *)
(***************************************************************************)
CONSTANTS
    Endpoints,   \* the keys: the URLs that are requested
    Tokens,      \* the values: pairs of a macaroon and a preimage
    NoToken      \* a lookup that finds nothing (Option::None)

VARIABLE cached   \* what a lookup of each endpoint returns

StoreTypeOK == cached \in [Endpoints -> Tokens \cup {NoToken}]

StoreInit == cached = [e \in Endpoints |-> NoToken]

\* put: the entry is there afterwards; entries of other endpoints may be
\* evicted to make room, but never changed
StorePut(e, t) ==
    \E evicted \in SUBSET (Endpoints \ {e}) :
        cached' = [x \in Endpoints |-> IF x = e THEN t
                                       ELSE IF x \in evicted THEN NoToken
                                       ELSE cached[x]]

StoreRemove(e) == cached' = [cached EXCEPT ![e] = NoToken]

StoreClear == cached' = [e \in Endpoints |-> NoToken]

\* some entries are no longer found: they expired
StoreForget(gone) ==
    cached' = [x \in Endpoints |-> IF x \in gone THEN NoToken ELSE cached[x]]

StoreNext ==
    \/ \E e \in Endpoints, t \in Tokens : StorePut(e, t)
    \/ \E e \in Endpoints : StoreRemove(e)
    \/ \E gone \in SUBSET Endpoints : StoreForget(gone)
    \/ StoreClear

StoreSpec == StoreInit /\ [][StoreNext]_cached
=============================================================================
