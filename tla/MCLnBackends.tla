---------------------------- MODULE MCLnBackends ----------------------------
(* Nodes with readable and unreadable balances, over up to two channels;   *)
(* a custodial wallet in debt.                                             *)
EXTENDS LnBackends

Wallet(channels, active) ==
    [channels |-> channels, info |-> [channels |-> active, methods |-> 3]]

MCWallets ==
    { Wallet(<<Number(45)>>, Number(2)), Wallet(<<Number(-30)>>, Number(0)),
      Wallet(<<>>, Number(0)), Wallet(<<Absent>>, Absent), Wallet(<<Junk>>, Number(1)),
      Wallet(<<Number(39), Number(19)>>, Number(2)), Wallet(<<Number(39), Junk>>, Number(1)) }
=============================================================================
