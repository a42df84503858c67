----------------------------- MODULE VerifyJobs -----------------------------
(***************************************************************************)
(* Verification of a file: POST /contents/verify/ (ContentVerifyView) and  *)
(* run_verify_job on the AI workers, with the workflow of                  *)
(* ContentVerificationService and the history entry it leaves.             *)
(*                                                                         *)
(* Unlike a registration, a verification has no content and is never       *)
(* shared: each request makes its own job, named after it here.  The       *)
(* task's history entry is written BEFORE the job's success and in a       *)
(* transaction of its own, and nothing makes it unique.  The broker is     *)
(* that of RegisterJobs.                                                   *)
(***************************************************************************)
EXTENDS AIJobs, Sequences, FiniteSets

CONSTANTS
    Requests,   \* POSTs that reach the verify view
    Documents,  \* those whose effective content type is "document"
    Marked,     \* those whose file carries a watermark
    Workers,    \* Celery worker processes consuming the "ai" queue
    Slow,       \* jobs whose message may outlive the visibility timeout
    NoRequest   \* the job of an idle worker

ASSUME VerifyAssumption ==
    /\ Documents \subseteq Requests
    /\ Marked \subseteq Requests
    /\ Slow \subseteq Requests
    /\ NoRequest \notin Requests

VARIABLES
    pc,           \* where each request is in ContentVerifyView.post
    job,          \* AIJob rows
    result,       \* the outcome in AIJob.response_payload
    log,          \* VerificationHistoryLog rows written for each job, in order
    registered,   \* chain: requests whose watermark id has a token
    copies,       \* messages per job that no worker has started yet
    redelivered,  \* jobs whose message was delivered a second time
    worker,       \* what each worker process is executing
    lost          \* history: jobs whose sender or executor was cut short

rows  == <<job, result, log>>
queue == <<copies, redelivered>>
vars  == <<pc, rows, registered, queue, worker, lost>>

Outcome == {"verified", "candidate"}

PostPc == {"idle", "posted", "uploaded", "recorded", "enqueued", "answered", "aborted"}

TaskPc == {"loaded", "start", "ask", "detect", "read", "look", "chain",
           "search", "guard", "compose", "record", "log", "finish", "failJob"}
Task   == [pc : TaskPc, job : Requests, progress : 0..100,
           mark : {"unseen", "seen"}, outcome : Outcome]
Idle   == [pc |-> "idle", job |-> NoRequest, progress |-> 0,
           mark |-> "unseen", outcome |-> "candidate"]

TypeOK ==
    /\ pc \in [Requests -> PostPc]
    /\ job \in [Requests -> JobRow]
    /\ result \in [Requests -> Outcome \cup {"none"}]
    /\ log \in [Requests -> Seq(Outcome)]
    /\ registered \in SUBSET Requests
    /\ copies \in [Requests -> Nat]
    /\ redelivered \in SUBSET Requests
    /\ worker \in [Workers -> Task \cup {Idle}]
    /\ lost \in SUBSET Requests

Init ==
    /\ pc = [r \in Requests |-> "idle"]
    /\ job = [r \in Requests |-> NoJob]
    /\ result = [r \in Requests |-> "none"]
    /\ log = [r \in Requests |-> <<>>]
    /\ registered \in SUBSET Marked
    /\ copies = [r \in Requests |-> 0]
    /\ redelivered = {}
    /\ worker = [w \in Workers |-> Idle]
    /\ lost = {}

-----------------------------------------------------------------------------
(* ContentVerifyView.post                                                  *)

Goto(r, next) == pc' = [pc EXCEPT ![r] = next]

Post(r) ==
    /\ pc[r] = "idle"
    /\ Goto(r, "posted")
    /\ UNCHANGED <<rows, registered, queue, worker, lost>>

\* _write_temp_file, _build_source_input: the file and a preview go to S3.
Upload(r) ==
    /\ pc[r] = "posted"
    /\ Goto(r, "uploaded")
    /\ UNCHANGED <<rows, registered, queue, worker, lost>>

CreateJob(r) ==
    /\ pc[r] = "uploaded"
    /\ job' = [job EXCEPT ![r] = NewJob]
    /\ Goto(r, "recorded")
    /\ UNCHANGED <<result, log, registered, queue, worker, lost>>

Enqueue(r) ==
    /\ pc[r] = "recorded"
    /\ copies' = [copies EXCEPT ![r] = @ + 1]
    /\ Goto(r, "enqueued")
    /\ UNCHANGED <<rows, registered, redelivered, worker, lost>>

\* A plausible slip: job.save() without update_fields writes the row as the
\* view created it over whatever the task has saved since.
SaveTaskId_WholeRow(r) ==
    /\ pc[r] = "enqueued"
    /\ job' = [job EXCEPT ![r] = NewJob]
    /\ result' = [result EXCEPT ![r] = "none"]
    /\ Goto(r, "answered")
    /\ UNCHANGED <<log, registered, queue, worker, lost>>

\* job.save(update_fields=["celery_task_id", ...]), then the response.
SaveTaskId(r) ==
    /\ pc[r] = "enqueued"
    /\ Goto(r, "answered")
    /\ UNCHANGED <<rows, registered, queue, worker, lost>>

\* S3, the database or the broker raises, or the API process is killed.
Abort(r) ==
    /\ pc[r] \in {"posted", "uploaded", "recorded", "enqueued"}
    /\ Goto(r, "aborted")
    /\ lost' = IF pc[r] = "recorded" THEN lost \cup {r} ELSE lost
    /\ UNCHANGED <<rows, registered, queue, worker>>

-----------------------------------------------------------------------------
(* Broker, chain and workers                                               *)

\* The visibility timeout of a prefetched, unacknowledged message expires.
Redeliver(r) ==
    /\ r \in Slow \ redelivered
    /\ copies[r] = 1
    /\ copies' = [copies EXCEPT ![r] = 2]
    /\ redelivered' = redelivered \cup {r}
    /\ UNCHANGED <<pc, rows, registered, worker, lost>>

\* Somebody mints the content a watermark belongs to.
Register(r) ==
    /\ r \in Marked \ registered
    /\ registered' = registered \cup {r}
    /\ UNCHANGED <<pc, rows, queue, worker, lost>>

\* The message is acknowledged as the task starts and loads its job.
TakeMessage(w, r) ==
    /\ worker[w].pc = "idle"
    /\ copies[r] > 0
    /\ copies' = [copies EXCEPT ![r] = @ - 1]
    /\ worker' = [worker EXCEPT ![w] =
           [pc |-> "loaded", job |-> r, progress |-> job[r].progress,
            mark |-> "unseen", outcome |-> "candidate"]]
    /\ UNCHANGED <<pc, rows, registered, redelivered, lost>>

TaskGoto(w, next) == worker' = [worker EXCEPT ![w].pc = next]

MarkRunning(w) ==
    LET r == worker[w].job IN
    /\ worker[w].pc = "loaded"
    /\ job' = [job EXCEPT ![r] = Running(@, worker[w].progress)]
    /\ TaskGoto(w, "start")
    /\ UNCHANGED <<pc, result, log, registered, queue, lost>>

IsDocument(r) == r \in Documents

\* After the detection an image goes on to the chain or to the search for
\* similar images, a document to the chain or to the answer.
Unresolved(r) == IF IsDocument(r) THEN "compose" ELSE "search"

\* The report(...) calls of the workflow: a document has reports of its own.
UpdateProgress(w) ==
    LET r == worker[w].job
        Report(here, image, document, next) ==
            /\ worker[w].pc = here
            /\ job' = [job EXCEPT ![r] =
                           AtProgress(@, IF IsDocument(r) THEN document ELSE image)]
            /\ TaskGoto(w, next)
    IN
    /\ \/ Report("start", 18, 18, "ask")
       \/ Report("ask", 35, 35, "detect")
       \/ Report("read", 58, 62, IF worker[w].mark = "seen" THEN "look" ELSE Unresolved(r))
       \/ Report("look", 72, 74, "chain")
       \/ Report("search", 72, 72, "guard")
       \/ Report("compose", 82, 82, "record")
       \/ Report("record", 85, 85, "log")
    /\ UNCHANGED <<pc, result, log, registered, queue, lost>>

\* WatermarkAIService.detect or the document workflow answers; it may
\* overlook a watermark.
Detect(w) ==
    LET r == worker[w].job IN
    /\ worker[w].pc = "detect"
    /\ \E m \in IF r \in Marked THEN {"unseen", "seen"} ELSE {"unseen"} :
         worker' = [worker EXCEPT ![w] =
             [pc |-> "read", job |-> r, progress |-> worker[w].progress,
              mark |-> m, outcome |-> "candidate"]]
    /\ UNCHANGED <<pc, rows, registered, queue, lost>>

\* A plausible slip: a detected watermark counts as verified although the
\* chain does not know it.
LookUpToken_Unchecked(w) ==
    /\ worker[w].pc = "chain"
    /\ worker' = [worker EXCEPT ![w] =
           [pc |-> "compose", job |-> worker[w].job, progress |-> worker[w].progress,
            mark |-> "seen", outcome |-> "verified"]]
    /\ UNCHANGED <<pc, rows, registered, queue, lost>>

\* _build_verified_result: verify_document, then the content and the token.
LookUpToken(w) ==
    LET r == worker[w].job IN
    /\ worker[w].pc = "chain"
    /\ IF r \in registered
       THEN worker' = [worker EXCEPT ![w] =
                [pc |-> "compose", job |-> r, progress |-> worker[w].progress,
                 mark |-> "seen", outcome |-> "verified"]]
       ELSE TaskGoto(w, Unresolved(r))
    /\ UNCHANGED <<pc, rows, registered, queue, lost>>

\* _build_candidate_result: the guard's matches, one displayable, or none.
FindCandidate(w) ==
    /\ worker[w].pc = "guard"
    /\ TaskGoto(w, "compose")
    /\ UNCHANGED <<pc, rows, registered, queue, lost>>

\* The AI module or the chain fails: AIIntegrationError.
AskFails(w) ==
    /\ worker[w].pc \in {"detect", "chain", "guard"}
    /\ TaskGoto(w, "failJob")
    /\ UNCHANGED <<pc, rows, registered, queue, lost>>

\* A plausible slip: the outcome is looked up under another name, and the
\* default of payload.get("outcome", "candidate") is recorded.
CreateLog_Default(w) ==
    LET r == worker[w].job IN
    /\ worker[w].pc = "log"
    /\ log' = [log EXCEPT ![r] = Append(@, "candidate")]
    /\ TaskGoto(w, "finish")
    /\ UNCHANGED <<pc, job, result, registered, queue, lost>>

\* VerificationHistoryLog.objects.create
CreateLog(w) ==
    LET r == worker[w].job IN
    /\ worker[w].pc = "log"
    /\ log' = [log EXCEPT ![r] = Append(@, worker[w].outcome)]
    /\ TaskGoto(w, "finish")
    /\ UNCHANGED <<pc, job, result, registered, queue, lost>>

\* _mark_job_success, with the payload as response_payload.
Finish(w) ==
    LET r == worker[w].job IN
    /\ worker[w].pc = "finish"
    /\ job' = [job EXCEPT ![r] = Succeeded(@)]
    /\ result' = [result EXCEPT ![r] = worker[w].outcome]
    /\ worker' = [worker EXCEPT ![w] = Idle]
    /\ UNCHANGED <<pc, log, registered, queue, lost>>

\* A plausible slip: the exception is re-raised without _mark_job_failure.
FailJob_Reraise(w) ==
    /\ worker[w].pc = "failJob"
    /\ worker' = [worker EXCEPT ![w] = Idle]
    /\ UNCHANGED <<pc, rows, registered, queue, lost>>

FailJob(w) ==
    LET r == worker[w].job IN
    /\ worker[w].pc = "failJob"
    /\ job' = [job EXCEPT ![r] = Failed(@)]
    /\ worker' = [worker EXCEPT ![w] = Idle]
    /\ UNCHANGED <<pc, result, log, registered, queue, lost>>

\* The process is killed, or an exception other than AIIntegrationError ends
\* the task: the user is gone, get_document_info fails, a save fails.
Die(w) ==
    /\ worker[w].pc # "idle"
    /\ worker' = [worker EXCEPT ![w] = Idle]
    /\ lost' = lost \cup {worker[w].job}
    /\ UNCHANGED <<pc, rows, registered, queue>>

-----------------------------------------------------------------------------
PostStep(r) == \/ Upload(r)
               \/ CreateJob(r)
               \/ Enqueue(r)
               \/ SaveTaskId(r)
               \/ Abort(r)

TaskStep(w) == \/ MarkRunning(w)
               \/ UpdateProgress(w)
               \/ Detect(w)
               \/ LookUpToken(w)
               \/ FindCandidate(w)
               \/ AskFails(w)
               \/ CreateLog(w)
               \/ Finish(w)
               \/ FailJob(w)

Next == \/ \E r \in Requests : \/ Post(r) \/ PostStep(r)
                               \/ Redeliver(r) \/ Register(r)
        \/ \E w \in Workers : TaskStep(w) \/ Die(w)
        \/ \E w \in Workers, r \in Requests : TakeMessage(w, r)

Spec == Init /\ [][Next]_vars

(* As in RegisterJobs: started requests and tasks go on, and the worker    *)
(* service is restarted by the deployment and keeps consuming its queue.   *)
Fairness == /\ \A r \in Requests : WF_vars(PostStep(r))
            /\ \A r \in Requests : WF_vars(\E w \in Workers : TakeMessage(w, r))
            /\ \A w \in Workers : WF_vars(TaskStep(w))

FairSpec == Spec /\ Fairness

-----------------------------------------------------------------------------
Once(r) == r \notin redelivered

Executing(w, r) == worker[w].job = r

(* The history and the job tell the user the same story: a finished        *)
(* verification has exactly one entry, with the outcome the job shows, and *)
(* an entry whose job did not succeed belongs to a task that is about to   *)
(* finish or died between the entry and the success.  A message delivered  *)
(* twice may leave a second entry, but no entry is without a job.          *)
HistoryAgreement ==
    /\ \A r \in Requests :
        /\ Len(log[r]) <= IF Once(r) THEN 1 ELSE 2
        /\ log[r] # <<>> => job[r] # NoJob
    /\ \A r \in Requests : Once(r) =>
        /\ job[r].status = "success" => log[r] = <<result[r]>>
        /\ job[r].status = "failure" => log[r] = <<>>
        /\ log[r] # <<>> => \/ job[r].status = "success"
                            \/ r \in lost
                            \/ \E w \in Workers : Executing(w, r) /\ worker[w].pc = "finish"

(* Nobody is told "verified" for a file whose watermark has no token on    *)
(* the chain, neither by the job nor by the history, second deliveries     *)
(* included; documents and images alike.                                   *)
VerifiedIsRegistered ==
    \A r \in Requests :
        (result[r] = "verified" \/ \E i \in 1..Len(log[r]) : log[r][i] = "verified")
            => r \in Marked \cap registered

(* Every job delivered once behaves as AIJobLifecycle promises: in         *)
(* particular the reports of the two workflows never go back.              *)
Lifecycle(r) == INSTANCE AIJobLifecycle WITH job <- job[r]

ImplementsLifecycle ==
    [][\A r \in Requests :
        Once(r) => Lifecycle(r)!Next \/ UNCHANGED job[r]]_vars

(* A client that was answered sees its verification end, with its entry in *)
(* the history if it succeeded, unless the executor died.                  *)
AnsweredVerificationEnds ==
    \A r \in Requests :
        (pc[r] = "answered") ~> \/ job[r].status = "failure"
                                \/ job[r].status = "success" /\ log[r] # <<>>
                                \/ r \in lost
=============================================================================
