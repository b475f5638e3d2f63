----------------------- MODULE MCSalespersonAccounts -----------------------
(* SalespersonAccounts on a small instance. *)
EXTENDS SalespersonAccounts, TLC

(* People, names and request slots are interchangeable. *)
Symmetry == Permutations(Users) \cup Permutations(Names) \cup Permutations(Requests)
=============================================================================
