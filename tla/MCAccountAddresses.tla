------------------------- MODULE MCAccountAddresses -------------------------
(* Model values for AccountAddresses. *)
EXTENDS AccountAddresses, TLC

CONSTANTS f1, F1, u1, u2, l1, l2

\* f1 and F1 are two spellings of one forward address; u2 is a user name, too.
Spelling == (f1 :> f1) @@ (F1 :> f1) @@ (u2 :> u2)

\* The name of u2 is the address it is created with.
Qualified == u2 :> l1
=============================================================================
