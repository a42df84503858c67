--------------------------- MODULE MCRegisterJobs ---------------------------
(* Small instances of RegisterJobs: requests and workers are symmetric.    *)
EXTENDS RegisterJobs, TLC

Symmetry == Permutations(Requests) \cup Permutations(Workers)

(* Bound: a second delivery is explored for an upload that is alone.  Only *)
(* Post and Redeliver are cut, which no fairness condition names.          *)
RedeliveredAlone == \A r \in redelivered', s \in Requests : pc'[s] # "idle" => s = r

(* Bound: two uploads are of one file; uploads of different files share no *)
(* row.                                                                    *)
SameFile == \A r, s \in Requests : {fileOf'[r], fileOf'[s]} \subseteq Files => fileOf'[r] = fileOf'[s]
=============================================================================
