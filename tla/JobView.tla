------------------------------ MODULE JobView ------------------------------
(***************************************************************************)
(* What a client is told of an AIJob and may rely on, by whatever way it   *)
(* asks: the payload of the stream and the poll, and the order in which    *)
(* payloads may follow each other.  JobStream adds stream and poll.        *)
(***************************************************************************)
EXTENDS AIJobs

VARIABLE shown  \* what the client has been told, over all its streams and polls

\* _build_job_payload shows a success at 100.
Payload(r) == [status   |-> r.status,
               progress |-> IF r.status = "success" THEN 100 ELSE r.progress,
               error    |-> r.error]

(* a may have become b: later in the lifecycle, or the same and no less.   *)
Rank(status) == CASE status = "absent"  -> 0
                  [] status = "queued"  -> 1
                  [] status = "running" -> 2
                  [] OTHER              -> 3

Upto(a, b) ==
    /\ Rank(a.status) <= Rank(b.status)
    /\ a.progress <= b.progress
    /\ Rank(a.status) = 3 => a = b

(* Whatever streams and polls it combines, the client never sees the job   *)
(* go back, and a result it saw never changes.                             *)
NeverBack == [][Upto(shown, shown')]_shown
=============================================================================
