--------------------------- MODULE AIJobLifecycle ---------------------------
(***************************************************************************)
(* What a client that polls or streams one AIJob may rely on: the job is   *)
(* created once, runs at most once, its progress never goes back, and a    *)
(* result, once shown, is never withdrawn.  RegisterJobs, WatermarkJobs    *)
(* and VerifyJobs are checked to implement this module for every job whose *)
(* message the broker delivered once.                                      *)
(***************************************************************************)
EXTENDS AIJobs

VARIABLE job

Init == job = NoJob

Create == /\ job = NoJob
          /\ job' = NewJob

Start == /\ job.status = "queued"
         /\ job' = Running(job, job.progress)

Advance == /\ job.status = "running"
           /\ \E p \in job.progress..100 : job' = AtProgress(job, p)

Succeed == /\ job.status = "running"
           /\ job' = Succeeded(job)

Fail == /\ job.status = "running"
        /\ job' = Failed(job)

Next == Create \/ Start \/ Advance \/ Succeed \/ Fail

Spec == Init /\ [][Next]_job
=============================================================================
