------------------------------ MODULE JobStream ------------------------------
(***************************************************************************)
(* What a client sees of one AIJob: AIJobStreamView's server-sent events   *)
(* and AIJobDetailView's answers, over a job that behaves as               *)
(* AIJobLifecycle says.  The stream polls the row twice a second, sends    *)
(* what changed, stops at the first result and gives up after ten minutes; *)
(* the client may reconnect or poll whenever no stream is open.            *)
(*                                                                         *)
(* Read, event and sleep are steps of their own: the job moves on between  *)
(* them, time passes at any of them, and the connection may break.         *)
(***************************************************************************)
EXTENDS JobView

CONSTANTS
    Reports,    \* the progress values the job's task reports
    Deadline    \* how many sleeps fit into the ten minutes

ASSUME StreamAssumption ==
    /\ Reports \subseteq 0..100
    /\ Deadline \in Nat \ {0}

VARIABLES
    job,    \* the AIJob row
    there,  \* "yes", or "no" after an administrator deleted the row
    at,     \* where the event generator is
    left,   \* time until its deadline, in sleeps
    row,    \* the row it has read
    last,   \* last_signature
    ended   \* how its last stream ended

vars == <<job, there, at, left, row, last, shown, ended>>

Lifecycle == INSTANCE AIJobLifecycle

Pc     == {"closed", "check", "read", "send", "sleep"}
Ending == {"none", "result", "timeout", "error", "cut"}

TypeOK ==
    /\ job \in JobRow
    /\ there \in {"yes", "no"}
    /\ at \in Pc
    /\ left \in 0..Deadline
    /\ row \in JobRow
    /\ last \in JobRow
    /\ shown \in JobRow
    /\ ended \in Ending

\* NoJob stands for "nothing read", "no signature" and "nothing shown".
Init ==
    /\ job = NoJob /\ there = "yes"
    /\ at = "closed" /\ left = 0 /\ row = NoJob /\ last = NoJob
    /\ shown = NoJob /\ ended = "none"

-----------------------------------------------------------------------------
\* A plausible slip: a task that is started for a finished job resets it.
JobMoves_Again ==
    /\ there = "yes"
    /\ \/ Lifecycle!Next
       \/ job.status \in Terminal /\ job' = Running(job, 0)
    /\ job'.progress \in Reports \cup {5, 10, 100}
    /\ UNCHANGED <<there, at, left, row, last, shown, ended>>

\* The request that creates the job, and the task that executes it.
JobMoves ==
    /\ there = "yes"
    /\ Lifecycle!Next
    /\ job'.progress \in Reports \cup {5, 10, 100}
    /\ UNCHANGED <<there, at, left, row, last, shown, ended>>

\* Deleted in the admin site.
Delete ==
    /\ there = "yes" /\ job # NoJob
    /\ there' = "no"
    /\ UNCHANGED <<job, at, left, row, last, shown, ended>>

-----------------------------------------------------------------------------
(* AIJobStreamView.get and its event_stream                                *)

Close(how) == at' = "closed" /\ ended' = how

\* get_object_or_404, then the generator's first lines.
Open ==
    /\ at = "closed"
    /\ job # NoJob /\ there = "yes"
    /\ at' = "check" /\ left' = Deadline /\ last' = NoJob /\ ended' = "none"
    /\ UNCHANGED <<job, there, row, shown>>

\* A plausible slip: the deadline is computed anew in every round.
Check_Renewed ==
    /\ at = "check"
    /\ at' = "read" /\ left' = Deadline
    /\ UNCHANGED <<job, there, row, last, shown, ended>>

Check ==
    /\ at = "check"
    /\ \/ left > 0 /\ at' = "read" /\ UNCHANGED ended
       \/ left = 0 /\ Close("timeout")
    /\ UNCHANGED <<job, there, left, row, last, shown>>

\* A plausible slip: the row loaded for the permission check is used again.
Read_Cached ==
    /\ at = "read"
    /\ row' = IF last = NoJob THEN job ELSE last
    /\ at' = "send"
    /\ UNCHANGED <<job, there, left, last, shown, ended>>

Read ==
    /\ at = "read"
    /\ \/ there = "yes" /\ row' = job /\ at' = "send" /\ UNCHANGED ended
       \/ there = "no" /\ Close("error") /\ UNCHANGED row
    /\ UNCHANGED <<job, there, left, last, shown>>

\* The event is sent if its signature changed; a result ends the stream.
Send ==
    /\ at = "send"
    /\ IF Payload(row) # last
       THEN last' = Payload(row) /\ shown' = Payload(row)
       ELSE UNCHANGED <<last, shown>>
    /\ IF row.status \in Terminal THEN Close("result") ELSE at' = "sleep" /\ UNCHANGED ended
    /\ UNCHANGED <<job, there, left, row>>

\* time.sleep(0.5)
Sleep ==
    /\ at = "sleep"
    /\ at' = "check"
    /\ left' = IF left = 0 THEN 0 ELSE left - 1
    /\ UNCHANGED <<job, there, row, last, shown, ended>>

\* Queries and the network take time, too.
Delay ==
    /\ at # "closed" /\ left > 0
    /\ left' = left - 1
    /\ UNCHANGED <<job, there, at, row, last, shown, ended>>

\* The client or a proxy closes the connection, or the server restarts.
Disconnect ==
    /\ at # "closed"
    /\ Close("cut")
    /\ UNCHANGED <<job, there, left, row, last, shown>>

\* AIJobDetailView.get
Poll ==
    /\ at = "closed"
    /\ job # NoJob /\ there = "yes"
    /\ shown' = Payload(job)
    /\ UNCHANGED <<job, there, at, left, row, last, ended>>

StreamStep == Check \/ Read \/ Send \/ Sleep

Next == \/ JobMoves \/ Delete
        \/ Open \/ StreamStep \/ Delay \/ Disconnect
        \/ Poll

Spec == Init /\ [][Next]_vars

\* A generator that is being consumed goes on.
FairSpec == Spec /\ WF_vars(StreamStep)

-----------------------------------------------------------------------------
(* Every stream ends, whether or not the job does.                         *)
StreamEnds == (at # "closed") ~> (at = "closed")

(* A job that has its result before a stream starts its next read is shown *)
(* by this stream, unless the row or the connection is lost first.         *)
ResultShown ==
    (at = "read" /\ job.status \in Terminal)
        ~> (shown = job \/ there = "no" \/ ended = "cut")
=============================================================================
