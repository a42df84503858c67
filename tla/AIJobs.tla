------------------------------- MODULE AIJobs -------------------------------
(***************************************************************************)
(* The AIJob row and the writes that the task helpers of analysis/tasks.py *)
(* make to it.  A row is abstracted to what clients poll and stream:       *)
(* its status, its progress and whether it carries an error code.  Each    *)
(* operator below is the effect of ONE save(update_fields=[...]): fields   *)
(* the save does not name keep the value they have in the database, which  *)
(* is why every operator takes the stored row as its first argument.       *)
(***************************************************************************)
EXTENDS Naturals

JobStatus == {"absent", "queued", "running", "success", "failure"}
InFlight  == {"queued", "running"}
Terminal  == {"success", "failure"}

\* "absent" is the row before AIJob.objects.create.
JobRow == [status : JobStatus, progress : 0..100, error : {"none", "code"}]

NoJob == [status |-> "absent", progress |-> 0, error |-> "none"]

\* AIJob.objects.create(progress=5, ...) in the three content views.
NewJob == [status |-> "queued", progress |-> 5, error |-> "none"]

\* _update_job_progress: max(0, min(progress, 100)).
AtProgress(row, p) == [row EXCEPT !.progress = IF p > 100 THEN 100 ELSE p]

\* _mark_job_running, given the progress the task loaded with the row.
Running(row, loaded) ==
    [status   |-> "running",
     progress |-> IF loaded > 10 THEN loaded ELSE 10,
     error    |-> "none"]

\* _mark_job_success: an error code left by an earlier run stays.
Succeeded(row) ==
    [status |-> "success", progress |-> 100, error |-> row.error]

\* _mark_job_failure: the progress is left where it was.
Failed(row) ==
    [status |-> "failure", progress |-> row.progress, error |-> "code"]
=============================================================================
