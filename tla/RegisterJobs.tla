---------------------------- MODULE RegisterJobs ----------------------------
(***************************************************************************)
(* Registration of a file: POST /contents/register/ (ContentRegisterView), *)
(* the Celery broker, and run_register_analysis_job on the AI workers.     *)
(*                                                                         *)
(* There is no ATOMIC_REQUESTS and no lock on this path: every query and   *)
(* every save below is a transaction of its own, so each is an action of   *)
(* its own.  A request creates at most one Content row and at most one     *)
(* AIJob, so both rows carry the identity of the request that made them.   *)
(*                                                                         *)
(* The broker is Redis with Celery's defaults: a message is acknowledged   *)
(* when its task starts (no acks_late, no retries), so a task that dies is *)
(* not run again; a message that waits unacknowledged in a worker's        *)
(* prefetch buffer beyond the visibility timeout is delivered a second     *)
(* time.                                                                   *)
(***************************************************************************)
EXTENDS AIJobs, FiniteSets

CONSTANTS
    Requests,   \* POSTs that reach the register view (one owner per file)
    Files,      \* distinct (owner, SHA-256) pairs that may be uploaded
    Documents,  \* the files whose effective content type is "document"
    Workers,    \* Celery worker processes consuming the "ai" queue
    Slow,       \* jobs whose message may outlive the visibility timeout
    NoFile,     \* a request that has not arrived yet
    NoRequest   \* "no job" in a reply, "no content" in a lookup

ASSUME RegisterAssumption ==
    /\ Documents \subseteq Files
    /\ Slow \subseteq Requests
    /\ NoFile \notin Files
    /\ NoRequest \notin Requests

VARIABLES
    pc,           \* where each request is in ContentRegisterView.post
    fileOf,       \* the file each request uploads
    seen,         \* existing_content: the row the request's first query found
    reply,        \* the job whose id the response carries
    content,      \* Content rows: status, decision
    newer,        \* <<a, b>> \in newer: a.updated_at is later than b.updated_at
    job,          \* AIJob rows
    copies,       \* messages per job that no worker has started yet
    redelivered,  \* jobs whose message was delivered a second time
    worker,       \* what each worker process is executing
    lost          \* history: jobs whose sender or executor was cut short

rows  == <<content, newer, job>>
queue == <<copies, redelivered>>
posts == <<pc, fileOf, seen, reply>>
vars  == <<posts, rows, queue, worker, lost>>

GuardDecisions    == {"allow", "review", "block"}
DocumentDecisions == {"verified", "review", "failed"}
Decided           == {"allow", "review", "block", "verified"}

ContentRow == [status   : {"absent", "pending", "failed"} \cup Decided,
               decision : {"none", "failed"} \cup Decided]
NoContent  == [status |-> "absent", decision |-> "none"]

PostPc == {"idle", "posted", "matched", "creating", "stored", "uploaded",
           "recorded", "enqueued", "answered", "aborted"}

TaskPc == {"loaded", "p20", "p35", "analyse", "p78", "p90", "finish",
           "failContent", "failJob"}
Task   == [pc : TaskPc, job : Requests, progress : 0..100,
           decision : {"none", "failed"} \cup Decided]
Idle   == [pc |-> "idle", job |-> NoRequest, progress |-> 0, decision |-> "none"]

TypeOK ==
    /\ pc \in [Requests -> PostPc]
    /\ fileOf \in [Requests -> Files \cup {NoFile}]
    /\ seen \in [Requests -> Requests \cup {NoRequest}]
    /\ reply \in [Requests -> Requests \cup {NoRequest}]
    /\ content \in [Requests -> ContentRow]
    /\ newer \in SUBSET (Requests \X Requests)
    /\ job \in [Requests -> JobRow]
    /\ copies \in [Requests -> Nat]
    /\ redelivered \in SUBSET Requests
    /\ worker \in [Workers -> Task \cup {Idle}]
    /\ lost \in SUBSET Requests

Init ==
    /\ pc = [r \in Requests |-> "idle"]
    /\ fileOf = [r \in Requests |-> NoFile]
    /\ seen = [r \in Requests |-> NoRequest]
    /\ reply = [r \in Requests |-> NoRequest]
    /\ content = [r \in Requests |-> NoContent]
    /\ newer = {}
    /\ job = [r \in Requests |-> NoJob]
    /\ copies = [r \in Requests |-> 0]
    /\ redelivered = {}
    /\ worker = [w \in Workers |-> Idle]
    /\ lost = {}

-----------------------------------------------------------------------------
(* Content.updated_at is auto_now: every save moves the row to the front.  *)

Exists(c) == content[c].status # "absent"

Touched(c) == (newer \ (Requests \X {c}))
                  \cup ({c} \X {d \in Requests \ {c} : Exists(d)})

Newest(c, S) == c \in S /\ \A d \in S \ {c} : <<c, d>> \in newer

(* filter(owner, source_sha256).exclude(status="failed") *)
Matching(r) == {c \in Requests : /\ Exists(c)
                                 /\ content[c].status # "failed"
                                 /\ fileOf[c] = fileOf[r]}

-----------------------------------------------------------------------------
(* ContentRegisterView.post                                                *)

Goto(r, next) == pc' = [pc EXCEPT ![r] = next]

Post(r, f) ==
    /\ pc[r] = "idle"
    /\ fileOf' = [fileOf EXCEPT ![r] = f]
    /\ Goto(r, "posted")
    /\ UNCHANGED <<seen, reply, rows, queue, worker, lost>>

\* The newest row of the same owner and hash that has not failed, if any.
LookUpContent(r) ==
    /\ pc[r] = "posted"
    /\ \/ /\ Matching(r) = {}
          /\ Goto(r, "creating")
          /\ UNCHANGED seen
       \/ \E c \in Matching(r) :
            /\ Newest(c, Matching(r))
            /\ seen' = [seen EXCEPT ![r] = c]
            /\ Goto(r, "matched")
    /\ UNCHANGED <<fileOf, reply, rows, queue, worker, lost>>

\* Its register job is returned as it is while it is queued or running.
LookUpJob(r) ==
    /\ pc[r] = "matched"
    /\ IF job[seen[r]].status \in InFlight
       THEN Goto(r, "answered") /\ reply' = [reply EXCEPT ![r] = seen[r]]
       ELSE Goto(r, "creating") /\ UNCHANGED reply
    /\ UNCHANGED <<fileOf, seen, rows, queue, worker, lost>>

CreateContent(r) ==
    /\ pc[r] = "creating"
    /\ content' = [content EXCEPT ![r].status = "pending"]
    /\ newer' = Touched(r)
    /\ Goto(r, "stored")
    /\ UNCHANGED <<fileOf, seen, reply, job, queue, worker, lost>>

\* _build_source_input: preview and original_storage_key are saved on the row.
Upload(r) ==
    /\ pc[r] = "stored"
    /\ newer' = Touched(r)
    /\ Goto(r, "uploaded")
    /\ UNCHANGED <<fileOf, seen, reply, content, job, queue, worker, lost>>

CreateJob(r) ==
    /\ pc[r] = "uploaded"
    /\ job' = [job EXCEPT ![r] = NewJob]
    /\ Goto(r, "recorded")
    /\ UNCHANGED <<fileOf, seen, reply, content, newer, queue, worker, lost>>

\* run_register_analysis_job.delay: published after the row is committed.
Enqueue(r) ==
    /\ pc[r] = "recorded"
    /\ copies' = [copies EXCEPT ![r] = @ + 1]
    /\ Goto(r, "enqueued")
    /\ UNCHANGED <<fileOf, seen, reply, rows, redelivered, worker, lost>>

\* A plausible slip: job.save() without update_fields writes the row as the
\* view created it over whatever the task has saved since.
SaveTaskId_WholeRow(r) ==
    /\ pc[r] = "enqueued"
    /\ job' = [job EXCEPT ![r] = NewJob]
    /\ reply' = [reply EXCEPT ![r] = r]
    /\ Goto(r, "answered")
    /\ UNCHANGED <<fileOf, seen, content, newer, queue, worker, lost>>

\* job.save(update_fields=["celery_task_id", "updated_at"]), then the response.
\* The task id is the one the worker saves too, so the row does not change.
SaveTaskId(r) ==
    /\ pc[r] = "enqueued"
    /\ reply' = [reply EXCEPT ![r] = r]
    /\ Goto(r, "answered")
    /\ UNCHANGED <<fileOf, seen, rows, queue, worker, lost>>

\* S3, the database or the broker raises, or the API process is killed: what
\* was committed stays, and nothing later in the handler happens.
Abort(r) ==
    /\ pc[r] \in {"posted", "matched", "creating", "stored", "uploaded",
                  "recorded", "enqueued"}
    /\ Goto(r, "aborted")
    /\ lost' = IF pc[r] = "recorded" THEN lost \cup {r} ELSE lost
    /\ UNCHANGED <<fileOf, seen, reply, rows, queue, worker>>

\* Watermarking, minting and vote synchronisation save a decided row again.
SaveElsewhere(c) ==
    /\ content[c].status \in Decided
    /\ newer' = Touched(c)
    /\ UNCHANGED <<posts, content, job, queue, worker, lost>>

-----------------------------------------------------------------------------
(* Broker and workers                                                      *)

\* The visibility timeout of a prefetched, unacknowledged message expires.
Redeliver(r) ==
    /\ r \in Slow \ redelivered
    /\ copies[r] = 1
    /\ copies' = [copies EXCEPT ![r] = 2]
    /\ redelivered' = redelivered \cup {r}
    /\ UNCHANGED <<posts, rows, worker, lost>>

\* A task as it starts: AIJob.objects.select_related(...).get(...).
Loaded(r) == [pc       |-> "loaded",
              job      |-> r,
              progress |-> job[r].progress,
              decision |-> "none"]

\* A plausible slip: the message stays on the queue while the task runs.
TakeMessage_Unacknowledged(w, r) ==
    /\ worker[w].pc = "idle"
    /\ copies[r] > 0
    /\ worker' = [worker EXCEPT ![w] = Loaded(r)]
    /\ UNCHANGED <<posts, rows, queue, lost>>

\* The message is acknowledged as the task starts.
TakeMessage(w, r) ==
    /\ worker[w].pc = "idle"
    /\ copies[r] > 0
    /\ copies' = [copies EXCEPT ![r] = @ - 1]
    /\ worker' = [worker EXCEPT ![w] = Loaded(r)]
    /\ UNCHANGED <<posts, rows, redelivered, lost>>

TaskGoto(w, next) == worker' = [worker EXCEPT ![w].pc = next]

MarkRunning(w) ==
    LET r == worker[w].job IN
    /\ worker[w].pc = "loaded"
    /\ job' = [job EXCEPT ![r] = Running(@, worker[w].progress)]
    /\ TaskGoto(w, "p20")
    /\ UNCHANGED <<posts, content, newer, queue, lost>>

IsDocument(r) == fileOf[r] \in Documents

\* The _update_job_progress calls before and after the analysis.
UpdateProgress(w) ==
    LET r == worker[w].job
        Report(here, p, next) ==
            /\ worker[w].pc = here
            /\ job' = [job EXCEPT ![r] = AtProgress(@, p)]
            /\ TaskGoto(w, next)
    IN
    /\ \/ Report("p20", 20, "p35")
       \/ Report("p35", 35, "analyse")
       \/ Report("p78", 78, "p90")
       \/ Report("p90", 90, "finish")
    /\ UNCHANGED <<posts, content, newer, queue, lost>>

\* The AI module answers, and the result is saved on the content: a guard
\* decision (run_guard_for_content) or a document decision
\* (register_document, apply_document_register_result).
Analyse(w) ==
    LET r == worker[w].job IN
    /\ worker[w].pc = "analyse"
    /\ \E d \in IF IsDocument(r) THEN DocumentDecisions ELSE GuardDecisions :
         /\ content' = [content EXCEPT ![r] = [status |-> d, decision |-> d]]
         /\ worker' = [worker EXCEPT ![w] =
                         [pc       |-> IF IsDocument(r) THEN "p78" ELSE "p90",
                          job      |-> r,
                          progress |-> worker[w].progress,
                          decision |-> d]]
    /\ newer' = Touched(r)
    /\ UNCHANGED <<posts, job, queue, lost>>

\* The AI module fails or answers nonsense: AIIntegrationError.
AnalyseFails(w) ==
    /\ worker[w].pc = "analyse"
    /\ TaskGoto(w, "failContent")
    /\ UNCHANGED <<posts, rows, queue, lost>>

\* A plausible slip: the failed document is not told apart.
Finish_AnyDecision(w) ==
    LET r == worker[w].job IN
    /\ worker[w].pc = "finish"
    /\ job' = [job EXCEPT ![r] = Succeeded(@)]
    /\ worker' = [worker EXCEPT ![w] = Idle]
    /\ UNCHANGED <<posts, content, newer, queue, lost>>

\* _mark_job_success, or DOCUMENT_REGISTER_FAILED for a failed document.
Finish(w) ==
    LET r == worker[w].job IN
    /\ worker[w].pc = "finish"
    /\ job' = [job EXCEPT ![r] =
                 IF IsDocument(r) /\ worker[w].decision = "failed"
                 THEN Failed(@) ELSE Succeeded(@)]
    /\ worker' = [worker EXCEPT ![w] = Idle]
    /\ UNCHANGED <<posts, content, newer, queue, lost>>

\* The except clause: the content first, ...
FailContent(w) ==
    LET r == worker[w].job IN
    /\ worker[w].pc = "failContent"
    /\ content' = [content EXCEPT ![r].status = "failed"]
    /\ newer' = Touched(r)
    /\ TaskGoto(w, "failJob")
    /\ UNCHANGED <<posts, job, queue, lost>>

\* A plausible slip: the exception is re-raised without _mark_job_failure.
FailJob_Reraise(w) ==
    /\ worker[w].pc = "failJob"
    /\ worker' = [worker EXCEPT ![w] = Idle]
    /\ UNCHANGED <<posts, rows, queue, lost>>

\* ... then the job; the exception is re-raised to Celery, which drops it.
FailJob(w) ==
    LET r == worker[w].job IN
    /\ worker[w].pc = "failJob"
    /\ job' = [job EXCEPT ![r] = Failed(@)]
    /\ worker' = [worker EXCEPT ![w] = Idle]
    /\ UNCHANGED <<posts, content, newer, queue, lost>>

\* The process is killed, or an exception other than AIIntegrationError ends
\* the task (a database error, a pydantic error, an error message too long
\* for progress_message): no handler saves anything and nothing is retried.
Die(w) ==
    /\ worker[w].pc # "idle"
    /\ worker' = [worker EXCEPT ![w] = Idle]
    /\ lost' = lost \cup {worker[w].job}
    /\ UNCHANGED <<posts, rows, queue>>

-----------------------------------------------------------------------------
PostStep(r) == \/ LookUpContent(r)
               \/ LookUpJob(r)
               \/ CreateContent(r)
               \/ Upload(r)
               \/ CreateJob(r)
               \/ Enqueue(r)
               \/ SaveTaskId(r)
               \/ Abort(r)

TaskStep(w) == \/ MarkRunning(w)
               \/ UpdateProgress(w)
               \/ Analyse(w)
               \/ AnalyseFails(w)
               \/ Finish(w)
               \/ FailContent(w)
               \/ FailJob(w)

Next == \/ \E r \in Requests, f \in Files : Post(r, f)
        \/ \E r \in Requests : PostStep(r) \/ SaveElsewhere(r) \/ Redeliver(r)
        \/ \E w \in Workers : TaskStep(w) \/ Die(w)
        \/ \E w \in Workers, r \in Requests : TakeMessage(w, r)

Spec == Init /\ [][Next]_vars

(* The worker service is restarted by the deployment (restart:             *)
(* unless-stopped) and keeps consuming its queue; a started task, and a    *)
(* request whose handler started, runs on until it ends or dies.  Nobody   *)
(* has to post anything.                                                   *)
Fairness == /\ \A r \in Requests : WF_vars(PostStep(r))
            /\ \A r \in Requests : WF_vars(\E w \in Workers : TakeMessage(w, r))
            /\ \A w \in Workers : WF_vars(TaskStep(w))

FairSpec == Spec /\ Fairness

-----------------------------------------------------------------------------
Once(r) == r \notin redelivered

(* At most one worker executes a job whose message was delivered once, and *)
(* while one does, no message can start another: the early acknowledgement *)
(* of run_register_analysis_job's message is what makes the unguarded      *)
(* _mark_job_running safe.                                                 *)
OneExecutor ==
    \A r \in Requests : Once(r) =>
        /\ \A v, w \in Workers : worker[v].job = r /\ worker[w].job = r => v = w
        /\ \A w \in Workers : worker[w].job = r => copies[r] = 0

(* A worker never loads a job that is not there: every message on the      *)
(* queue, first or second delivery, names a committed AIJob row of a       *)
(* committed Content row.                                                  *)
MessageHasRows ==
    \A r \in Requests :
        (copies[r] > 0 \/ \E w \in Workers : worker[w].job = r)
            => job[r].status # "absent" /\ Exists(r)

(* The job and the content tell the client the same story: a successful    *)
(* registration has a decided content, a failed one a failed content, and  *)
(* a content is undecided only as long as its job has no result.  It holds *)
(* whatever crashes between the save of the one and the save of the other. *)
OutcomeAgreement ==
    \A r \in Requests : Once(r) =>
        /\ job[r].status = "success" => content[r].status \in Decided
        /\ job[r].status = "failure" => content[r].status = "failed"
        /\ content[r].status = "pending" => job[r].status \notin Terminal

(* A job nobody will finish is always the result of a death: if it is      *)
(* queued or running with no message and no executor left, the request     *)
(* died before publishing, is about to publish, or its executor died.      *)
Abandoned(r) == /\ job[r].status \in InFlight
                /\ copies[r] = 0
                /\ \A w \in Workers : worker[w].job # r
                /\ pc[r] # "recorded"

AbandonedOnlyByDeath == \A r \in Requests : Abandoned(r) => r \in lost

(* Every job delivered once behaves as AIJobLifecycle promises.            *)
Lifecycle(r) == INSTANCE AIJobLifecycle WITH job <- job[r]

ImplementsLifecycle ==
    [][\A r \in Requests :
        Once(r) => Lifecycle(r)!Next \/ UNCHANGED job[r]]_vars

(* A request that was given a job, its own or a reused one, sees that job  *)
(* end, unless its sender or executor died.                                *)
AnsweredJobEnds ==
    \A r, s \in Requests :
        (reply[r] = s) ~> (job[s].status \in Terminal \/ s \in lost)

(* README.md: a repeated upload of a file in progress returns the existing *)
(* job instead of creating another, so a file has one job in flight.       *)
OneJobInFlightPerFile ==
    \A r, s \in Requests :
        /\ fileOf[r] = fileOf[s]
        /\ job[r].status \in InFlight
        /\ job[s].status \in InFlight
        => r = s
=============================================================================
