---------------------------- MODULE MCVerifyJobs ----------------------------
(* Small instances of VerifyJobs.                                          *)
EXTENDS VerifyJobs, TLC

SymmetricWorkers == Permutations(Workers)

(* Bound: a second delivery is explored for an upload that is alone.  Only *)
(* Post and Redeliver are cut, which no fairness condition names.          *)
RedeliveredAlone == \A r \in redelivered', s \in Requests : pc'[s] # "idle" => s = r
=============================================================================
