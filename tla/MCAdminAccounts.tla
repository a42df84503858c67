-------------------------- MODULE MCAdminAccounts ---------------------------
(* Small instances of AdminAccounts: users and threads are symmetric.      *)
EXTENDS AdminAccounts, TLC

Symmetry == Permutations(Users) \cup Permutations(Handlers)
=============================================================================
