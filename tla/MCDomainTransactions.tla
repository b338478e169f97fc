------------------------- MODULE MCDomainTransactions -------------------------
(* Threads, names and folders are model values of the cfg files; threads and *)
(* plain names are interchangeable. *)
EXTENDS DomainTransactions, TLC

Symmetry == Permutations(Worker) \cup Permutations(Name \ IdnName)

=============================================================================
