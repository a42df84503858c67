--------------------------- MODULE MCWatermarkJobs ---------------------------
(* Workers are interchangeable, and so are requests and contents as long   *)
(* as no Slow or Rerun constant tells them apart.                          *)
EXTENDS WatermarkJobs, TLC

Symmetry == Permutations(Requests) \cup Permutations(Workers)

SymmetricWorkers == Permutations(Workers)

(* Bound: a second delivery is explored for an upload that is alone.  Only *)
(* Post and Redeliver are cut, which no fairness condition names.          *)
RedeliveredAlone == \A r \in redelivered', s \in Requests : pc'[s] # "idle" => s = r
=============================================================================
