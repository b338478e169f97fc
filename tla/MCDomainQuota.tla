---------------------------- MODULE MCDomainQuota ----------------------------
(***************************************************************************)
(* Small instances of DomainQuota for TLC.                                 *)
(***************************************************************************)
EXTENDS DomainQuota, TLC

\* Workers are interchangeable.
Symmetry == Permutations(Worker)
=============================================================================
