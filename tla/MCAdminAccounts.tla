--------------------------- MODULE MCAdminAccounts ---------------------------
(***************************************************************************)
(* Small instances of AdminAccounts for TLC.                               *)
(***************************************************************************)
EXTENDS AdminAccounts, TLC

\* Sessions, user names and passwords are interchangeable.
Symmetry ==
    Permutations(Session) \cup Permutations(Name) \cup Permutations(Password)
=============================================================================
