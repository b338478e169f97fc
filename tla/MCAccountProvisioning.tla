----------------------- MODULE MCAccountProvisioning -----------------------
(***************************************************************************)
(* Small instances of AccountProvisioning for TLC.                         *)
(***************************************************************************)
EXTENDS AccountProvisioning, TLC

\* Users and workers are interchangeable; so are local parts.
Symmetry ==
    Permutations(User) \cup Permutations(Worker) \cup Permutations(Local)
=============================================================================
