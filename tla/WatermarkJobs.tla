---------------------------- MODULE WatermarkJobs ----------------------------
(***************************************************************************)
(* Watermarking of a registered content: ContentWatermarkView.post, the    *)
(* broker, run_watermark_job, and the claim that                           *)
(* ContentWatermarkService.apply_watermark keeps in Content.watermark.     *)
(*                                                                         *)
(* Several requests may ask for the same content.  The view's lookups and  *)
(* its create are separate queries, so they may all create a job; what     *)
(* keeps two workers from embedding at once is the claim: a transaction    *)
(* that locks the row (select_for_update), checks it and sets              *)
(* "processing".  The claim has no expiry: a worker that dies with it      *)
(* leaves it behind.  A request creates at most one AIJob, which carries   *)
(* its identity; the broker is the one of RegisterJobs.                    *)
(***************************************************************************)
EXTENDS AIJobs, FiniteSets

CONSTANTS
    Requests,   \* POSTs that reach the watermark view
    Contents,   \* the contents they name (each POST by the content's owner)
    Workers,    \* Celery worker processes consuming the "ai" queue
    Slow,       \* jobs whose message may outlive the visibility timeout
    Rerun,      \* contents whose register job may be delivered again
    NoContent,  \* a request that has not arrived yet
    NoRequest   \* "no job"

ASSUME WatermarkAssumption ==
    /\ Slow \subseteq Requests
    /\ Rerun \subseteq Contents
    /\ NoContent \notin Contents
    /\ NoRequest \notin Requests

VARIABLES
    pc,           \* where each request is in ContentWatermarkView.post
    contentOf,    \* the content each request names
    reply,        \* the job whose id the response carries
    decision,     \* Content.decision: "allow" or any other
    stage,        \* Content.watermark: see Stage
    later,        \* <<a, b>> \in later: job a was created after job b
    job,          \* AIJob rows
    copies,       \* messages per job that no worker has started yet
    redelivered,  \* jobs whose message was delivered a second time
    worker,       \* what each worker process is executing
    lost,         \* history: jobs whose sender or executor was cut short
    stuck,        \* history: contents whose claim outlived its executor
    unusable,     \* history: contents given a bare watermark, or one taken back
    rerun         \* history: contents that were analysed a second time

rows    == <<decision, stage, later, job>>
queue   == <<copies, redelivered>>
posts   == <<pc, contentOf, reply>>
history == <<lost, stuck, unusable, rerun>>
vars    == <<posts, rows, queue, worker, history>>

(* "processing" is {"processing": True, "applied": False}; "applied" has   *)
(* an output key or url and "bare" has neither; "none" is everything else, *)
(* a failed attempt with its last_error included.                          *)
Stage == {"none", "processing", "applied", "bare"}

PostPc == {"idle", "completed", "checking", "creating", "recorded", "enqueued",
           "answered", "aborted"}

\* The places of the task at which it holds the claim of its content.
Claiming == {"source", "embed", "release"}
TaskPc   == Claiming \cup {"loaded", "p25", "claim", "index", "withdraw", "p90",
                           "finish", "failJob"}
Task     == [pc : TaskPc, job : Requests, progress : 0..100]
Idle     == [pc |-> "idle", job |-> NoRequest, progress |-> 0]

TypeOK ==
    /\ pc \in [Requests -> PostPc]
    /\ contentOf \in [Requests -> Contents \cup {NoContent}]
    /\ reply \in [Requests -> Requests \cup {NoRequest}]
    /\ decision \in [Contents -> {"allow", "other"}]
    /\ stage \in [Contents -> Stage]
    /\ later \in SUBSET (Requests \X Requests)
    /\ job \in [Requests -> JobRow]
    /\ copies \in [Requests -> Nat]
    /\ redelivered \in SUBSET Requests
    /\ worker \in [Workers -> Task \cup {Idle}]
    /\ lost \in SUBSET Requests
    /\ stuck \in SUBSET Contents
    /\ unusable \in SUBSET Contents
    /\ rerun \in SUBSET Contents

\* A document may come out of its registration with a watermark applied.
Init ==
    /\ pc = [r \in Requests |-> "idle"]
    /\ contentOf = [r \in Requests |-> NoContent]
    /\ reply = [r \in Requests |-> NoRequest]
    /\ decision \in [Contents -> {"allow", "other"}]
    /\ stage \in [Contents -> {"none", "applied"}]
    /\ later = {}
    /\ job = [r \in Requests |-> NoJob]
    /\ copies = [r \in Requests |-> 0]
    /\ redelivered = {}
    /\ worker = [w \in Workers |-> Idle]
    /\ lost = {} /\ stuck = {} /\ unusable = {} /\ rerun = {}

-----------------------------------------------------------------------------
(* ContentWatermarkView.post                                               *)

Goto(r, next) == pc' = [pc EXCEPT ![r] = next]

Created(r) == job[r].status # "absent"

JobsOf(c) == {r \in Requests : Created(r) /\ contentOf[r] = c}

Newest(r, S) == r \in S /\ \A s \in S \ {r} : <<r, s>> \in later

\* get_object_or_404(Content, ...): is a usable watermark applied already?
Post(r, c) ==
    /\ pc[r] = "idle"
    /\ contentOf' = [contentOf EXCEPT ![r] = c]
    /\ Goto(r, IF stage[c] = "applied" THEN "completed" ELSE "checking")
    /\ UNCHANGED <<reply, rows, queue, worker, history>>

\* The newest job in S is returned as it is; without one the view goes on.
AnswerWithNewest(r, S, otherwise) ==
    /\ \/ /\ S = {}
          /\ Goto(r, otherwise)
          /\ UNCHANGED reply
       \/ \E s \in S :
            /\ Newest(s, S)
            /\ reply' = [reply EXCEPT ![r] = s]
            /\ Goto(r, "answered")
    /\ UNCHANGED <<contentOf, rows, queue, worker, history>>

LookUpCompleted(r) ==
    /\ pc[r] = "completed"
    /\ AnswerWithNewest(r, JobsOf(contentOf[r]), "checking")

LookUpInFlight(r) ==
    /\ pc[r] = "checking"
    /\ AnswerWithNewest(r,
           {s \in JobsOf(contentOf[r]) : job[s].status \in InFlight}, "creating")

CreateJob(r) ==
    /\ pc[r] = "creating"
    /\ job' = [job EXCEPT ![r] = NewJob]
    /\ later' = later \cup ({r} \X {s \in Requests : Created(s)})
    /\ Goto(r, "recorded")
    /\ UNCHANGED <<contentOf, reply, decision, stage, queue, worker, history>>

\* run_watermark_job.delay
Enqueue(r) ==
    /\ pc[r] = "recorded"
    /\ copies' = [copies EXCEPT ![r] = @ + 1]
    /\ Goto(r, "enqueued")
    /\ UNCHANGED <<contentOf, reply, rows, redelivered, worker, history>>

\* A plausible slip: job.save() without update_fields writes the row as the
\* view created it over whatever the task has saved since.
SaveTaskId_WholeRow(r) ==
    /\ pc[r] = "enqueued"
    /\ job' = [job EXCEPT ![r] = NewJob]
    /\ reply' = [reply EXCEPT ![r] = r]
    /\ Goto(r, "answered")
    /\ UNCHANGED <<contentOf, decision, stage, later, queue, worker, history>>

\* job.save(update_fields=["celery_task_id", "updated_at"]), then the response.
SaveTaskId(r) ==
    /\ pc[r] = "enqueued"
    /\ reply' = [reply EXCEPT ![r] = r]
    /\ Goto(r, "answered")
    /\ UNCHANGED <<contentOf, rows, queue, worker, history>>

\* The database or the broker raises, or the API process is killed.
Abort(r) ==
    /\ pc[r] \in {"completed", "checking", "creating", "recorded", "enqueued"}
    /\ Goto(r, "aborted")
    /\ lost' = IF pc[r] = "recorded" THEN lost \cup {r} ELSE lost
    /\ UNCHANGED <<contentOf, reply, rows, queue, worker, stuck, unusable, rerun>>

-----------------------------------------------------------------------------
(* Broker and workers                                                      *)

Redeliver(r) ==
    /\ r \in Slow \ redelivered
    /\ copies[r] = 1
    /\ copies' = [copies EXCEPT ![r] = 2]
    /\ redelivered' = redelivered \cup {r}
    /\ UNCHANGED <<posts, rows, worker, history>>

\* AIJob.objects.select_related("content").get(...)
Loaded(r) == [pc |-> "loaded", job |-> r, progress |-> job[r].progress]

TakeMessage(w, r) ==
    /\ worker[w].pc = "idle"
    /\ copies[r] > 0
    /\ copies' = [copies EXCEPT ![r] = @ - 1]
    /\ worker' = [worker EXCEPT ![w] = Loaded(r)]
    /\ UNCHANGED <<posts, rows, redelivered, history>>

TaskGoto(w, next) == worker' = [worker EXCEPT ![w].pc = next]

ContentOf(w) == contentOf[worker[w].job]

MarkRunning(w) ==
    LET r == worker[w].job IN
    /\ worker[w].pc = "loaded"
    /\ job' = [job EXCEPT ![r] = Running(@, worker[w].progress)]
    /\ TaskGoto(w, "p25")
    /\ UNCHANGED <<posts, decision, stage, later, queue, history>>

UpdateProgress(w) ==
    LET r == worker[w].job
        Report(here, p, next) ==
            /\ worker[w].pc = here
            /\ job' = [job EXCEPT ![r] = AtProgress(@, p)]
            /\ TaskGoto(w, next)
    IN
    /\ \/ Report("p25", 25, "claim")
       \/ Report("p90", 90, "finish")
    /\ UNCHANGED <<posts, decision, stage, later, queue, history>>

-----------------------------------------------------------------------------
(* ContentWatermarkService.apply_watermark                                 *)

Watermark(w, s) == stage' = [stage EXCEPT ![ContentOf(w)] = s]

\* A plausible slip: the row is not locked, so what it checked is stale.
Claim_Unlocked(w) ==
    LET c == ContentOf(w) IN
    /\ worker[w].pc = "claim"
    /\ decision[c] = "allow" /\ stage[c] # "applied"
    /\ Watermark(w, "processing")
    /\ TaskGoto(w, "source")
    /\ UNCHANGED <<posts, decision, later, job, queue, history>>

\* A plausible slip: a finished content is watermarked again.
Claim_Again(w) ==
    LET c == ContentOf(w) IN
    /\ worker[w].pc = "claim"
    /\ decision[c] = "allow" /\ stage[c] # "processing"
    /\ Watermark(w, "processing")
    /\ TaskGoto(w, "source")
    /\ UNCHANGED <<posts, decision, later, job, queue, history>>

\* The locked transaction: refuse, find the work done, or take the claim.
Claim(w) ==
    LET c == ContentOf(w) IN
    /\ worker[w].pc = "claim"
    /\ \/ /\ decision[c] # "allow"
          /\ TaskGoto(w, "failJob")
          /\ UNCHANGED stage
       \/ /\ decision[c] = "allow" /\ stage[c] = "applied"
          /\ TaskGoto(w, "p90")
          /\ UNCHANGED stage
       \/ /\ decision[c] = "allow" /\ stage[c] = "processing"
          /\ TaskGoto(w, "failJob")
          /\ UNCHANGED stage
       \/ /\ decision[c] = "allow" /\ stage[c] \in {"none", "bare"}
          /\ Watermark(w, "processing")
          /\ TaskGoto(w, "source")
    /\ UNCHANGED <<posts, decision, later, job, queue, history>>

\* _build_source_input, inside the claim and outside the try block ...
BuildSource(w) ==
    /\ worker[w].pc = "source"
    /\ TaskGoto(w, "embed")
    /\ UNCHANGED <<posts, rows, queue, history>>

\* ... so a missing original fails the job and leaves the claim behind.
SourceMissing(w) ==
    /\ worker[w].pc = "source"
    /\ TaskGoto(w, "failJob")
    /\ stuck' = stuck \cup {ContentOf(w)}
    /\ UNCHANGED <<posts, rows, queue, lost, unusable, rerun>>

\* The AI module embeds and the result is saved over the claim.  For a bare
\* result the index update only records that there is nothing to index.
Embed(w) ==
    /\ worker[w].pc = "embed"
    /\ \/ /\ Watermark(w, "applied")
          /\ TaskGoto(w, "index")
          /\ UNCHANGED unusable
       \/ /\ Watermark(w, "bare")
          /\ TaskGoto(w, "p90")
          /\ unusable' = unusable \cup {ContentOf(w)}
    /\ UNCHANGED <<posts, decision, later, job, queue, lost, stuck, rerun>>

\* Any exception of the try block, turned into an AIIntegrationError.
EmbedFails(w) ==
    /\ worker[w].pc = "embed"
    /\ TaskGoto(w, "release")
    /\ UNCHANGED <<posts, rows, queue, history>>

\* A plausible slip: the except clause forgets "processing": False.
Release_Forgotten(w) ==
    /\ worker[w].pc = "release"
    /\ TaskGoto(w, "failJob")
    /\ UNCHANGED <<posts, rows, queue, history>>

\* A plausible slip: the failure is logged and swallowed.
Release_Swallowed(w) ==
    /\ worker[w].pc = "release"
    /\ Watermark(w, "none")
    /\ TaskGoto(w, "p90")
    /\ UNCHANGED <<posts, decision, later, job, queue, history>>

\* The except clauses give the claim back ...
Release(w) ==
    /\ worker[w].pc = "release"
    /\ Watermark(w, "none")
    /\ TaskGoto(w, "failJob")
    /\ UNCHANGED <<posts, decision, later, job, queue, history>>

\* _ensure_vector_upserted: its AIIntegrationErrors are only recorded.
Index(w) ==
    /\ worker[w].pc = "index"
    /\ TaskGoto(w, "p90")
    /\ UNCHANGED <<posts, rows, queue, history>>

\* Any other exception of the index update (a presigned url, an answer that
\* is not a dictionary) reaches the same except clause, ...
IndexFails(w) ==
    /\ worker[w].pc = "index"
    /\ TaskGoto(w, "withdraw")
    /\ UNCHANGED <<posts, rows, queue, history>>

\* ... which then takes back a watermark that was applied and shown.
Withdraw(w) ==
    /\ worker[w].pc = "withdraw"
    /\ Watermark(w, "none")
    /\ unusable' = unusable \cup {ContentOf(w)}
    /\ TaskGoto(w, "failJob")
    /\ UNCHANGED <<posts, decision, later, job, queue, lost, stuck, rerun>>

Finish(w) ==
    LET r == worker[w].job IN
    /\ worker[w].pc = "finish"
    /\ job' = [job EXCEPT ![r] = Succeeded(@)]
    /\ worker' = [worker EXCEPT ![w] = Idle]
    /\ UNCHANGED <<posts, decision, stage, later, queue, history>>

FailJob(w) ==
    LET r == worker[w].job IN
    /\ worker[w].pc = "failJob"
    /\ job' = [job EXCEPT ![r] = Failed(@)]
    /\ worker' = [worker EXCEPT ![w] = Idle]
    /\ UNCHANGED <<posts, decision, stage, later, queue, history>>

\* The process is killed, or an exception nobody catches ends the task.
Die(w) ==
    /\ worker[w].pc # "idle"
    /\ worker' = [worker EXCEPT ![w] = Idle]
    /\ lost' = lost \cup {worker[w].job}
    /\ stuck' = IF worker[w].pc \in Claiming
                THEN stuck \cup {ContentOf(w)} ELSE stuck
    /\ UNCHANGED <<posts, rows, queue, unusable, rerun>>

-----------------------------------------------------------------------------
(* Writers of the content outside this component                           *)

\* sync_review_vote saves the decision the chain reports.
Redecide(c) ==
    /\ decision' = [decision EXCEPT ![c] = IF @ = "allow" THEN "other" ELSE "allow"]
    /\ UNCHANGED <<posts, stage, later, job, queue, worker, history>>

\* A register job delivered a second time (RegisterJobs!Analyse) saves its
\* decision and a fresh watermark field over whatever is there.
Reanalyse(c) ==
    /\ c \in Rerun \ rerun
    /\ \E d \in {"allow", "other"} : decision' = [decision EXCEPT ![c] = d]
    /\ stage' = [stage EXCEPT ![c] = "none"]
    /\ rerun' = rerun \cup {c}
    /\ UNCHANGED <<posts, later, job, queue, worker, lost, stuck, unusable>>

-----------------------------------------------------------------------------
PostStep(r) == \/ LookUpCompleted(r)
               \/ LookUpInFlight(r)
               \/ CreateJob(r)
               \/ Enqueue(r)
               \/ SaveTaskId(r)
               \/ Abort(r)

TaskStep(w) == \/ MarkRunning(w)
               \/ UpdateProgress(w)
               \/ Claim(w)
               \/ BuildSource(w)
               \/ SourceMissing(w)
               \/ Embed(w)
               \/ EmbedFails(w)
               \/ Release(w)
               \/ Index(w)
               \/ IndexFails(w)
               \/ Withdraw(w)
               \/ Finish(w)
               \/ FailJob(w)

Next == \/ \E r \in Requests, c \in Contents : Post(r, c)
        \/ \E r \in Requests : PostStep(r) \/ Redeliver(r)
        \/ \E w \in Workers : TaskStep(w) \/ Die(w)
        \/ \E w \in Workers, r \in Requests : TakeMessage(w, r)
        \/ \E c \in Contents : Redecide(c) \/ Reanalyse(c)

Spec == Init /\ [][Next]_vars

(* As in RegisterJobs: handlers that started and the worker service run    *)
(* on; nobody has to post, and nobody has to decide.                       *)
Fairness == /\ \A r \in Requests : WF_vars(PostStep(r))
            /\ \A r \in Requests : WF_vars(\E w \in Workers : TakeMessage(w, r))
            /\ \A w \in Workers : WF_vars(TaskStep(w))

FairSpec == Spec /\ Fairness

-----------------------------------------------------------------------------
Holds(w, c) == worker[w].pc \in Claiming /\ ContentOf(w) = c

(* However many jobs the view let through, and however often the broker    *)
(* delivers them, at most one worker at a time embeds into a content.      *)
OneEmbedder ==
    \A c \in Contents \ rerun :
        \A v, w \in Workers : Holds(v, c) /\ Holds(w, c) => v = w

(* The stored "processing" tells the truth: it is set exactly while a      *)
(* worker holds the claim, or for ever once its holder died or found no    *)
(* original, since nothing in the code takes a claim over.                 *)
ClaimAccounted ==
    \A c \in Contents \ rerun :
        stage[c] = "processing" <=>
            c \in stuck \/ \E w \in Workers : Holds(w, c)

(* A job that reports success, its own work or another job's, left a       *)
(* watermark the owner can download and mint, unless the AI module         *)
(* answered without an output or a failed index update took it back.       *)
SuccessMeansApplied ==
    \A r \in Requests :
        job[r].status = "success" =>
            stage[contentOf[r]] = "applied" \/ contentOf[r] \in unusable \cup rerun

(* A usable watermark is only ever taken back by the job that applied it,  *)
(* when its own index update fails: no other job overwrites it.            *)
AppliedKept ==
    [][\A c \in Contents :
         stage[c] = "applied" /\ stage'[c] # "applied"
             => \/ c \in rerun'
                \/ \E w \in Workers : worker[w].pc = "withdraw" /\ ContentOf(w) = c]_vars

(* A worker never loads a job that is not there.                           *)
MessageHasRow ==
    \A r \in Requests :
        copies[r] > 0 \/ (\E w \in Workers : worker[w].job = r)
            => Created(r) /\ contentOf[r] \in Contents

Once(r) == r \notin redelivered

Lifecycle(r) == INSTANCE AIJobLifecycle WITH job <- job[r]

(* Every watermark job delivered once behaves as AIJobLifecycle promises.  *)
ImplementsLifecycle ==
    [][\A r \in Requests :
         Once(r) => Lifecycle(r)!Next \/ UNCHANGED job[r]]_vars

(* A claim that is taken is given back or turned into a watermark, unless  *)
(* its holder died or found no original.                                   *)
ClaimEnds ==
    \A c \in Contents :
        stage[c] = "processing" ~> stage[c] # "processing" \/ c \in stuck
=============================================================================
