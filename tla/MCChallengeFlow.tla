-------------------------- MODULE MCChallengeFlow --------------------------
(* A server that writes good and bad parameters and stray atoms, and       *)
(* invoices in every unit around the boundaries of the decoder.            *)
EXTENDS ChallengeFlow

Pair(key, written, value) ==
    [key |-> key, value |-> value, text |-> <<written, "=", "\"">> \o value \o <<"\"">>]
Stray(atoms) == [key |-> "", value |-> <<>>, text |-> atoms]

MCFragments ==
    { Pair("macaroon", "macaroon", <<"b64", "std", "=">>),
      Pair("macaroon", "MACAROON", <<"b64", "url">>),
      Pair("macaroon", "macaroon", <<"std", "url">>),
      Pair("macaroon", "macaroon", <<"b64", ":", "b64">>),
      Pair("macaroon", "macaroon", <<>>),
      Pair("invoice", "invoice", <<"lnbc2u1">>),
      Pair("invoice", "invoice", <<"LNBC2U1">>),
      Pair("address", "address", <<"b64", ",", "=", "b64">>),
      Pair("realm", "realm", <<" ", ",", " ">>),
      Stray(<<"\"">>), Stray(<<",", " ">>), Stray(<<"=">>),
      Stray(<<"macaroon", " ", "=", " ", "b64", ",">>) }

Whole(units)          == [kind |-> "integer", units |-> units, scale |-> 1]
Decimal(units, scale) == [kind |-> "decimal", units |-> units, scale |-> scale]

MCNumbers == {Whole(u) : u \in 0..21 \cup {45, 50, 199, 200, 201, 209, 210, 2000, 39990, 40000}}
             \cup {Decimal(u, 10) : u \in 0..21 \cup {205}}
             \cup {Decimal(u, 100) : u \in {1, 2, 3, 124, 125, 126, 249, 250, 9999}}
             \cup {[kind |-> k, units |-> 0, scale |-> 1] : k \in {"none", "junk"}}

MCAmounts == [network : {"lnbc", "other"}, separator : {TRUE}, number : MCNumbers, unit : Units]
=============================================================================
