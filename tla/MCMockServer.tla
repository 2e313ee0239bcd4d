---------------------------- MODULE MCMockServer ----------------------------
(* Two paths, one priced in whole microbitcoins.                           *)
EXTENDS MockServer

CONSTANTS even, odd, nowhere

MCPrice == (even :> 2) @@ (odd :> 3)
=============================================================================
