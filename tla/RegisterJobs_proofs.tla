------------------------ MODULE RegisterJobs_proofs ------------------------
(***************************************************************************)
(* Proofs about RegisterJobs, for any sets of requests, files and workers, *)
(* and, at the end, about JobStream: what a client sees of its jobs.       *)
(***************************************************************************)
EXTENDS RegisterJobs, JobView, TLAPS

(* The task helpers of analysis/tasks.py keep an AIJob row well-formed; in *)
(* particular the progress stays within the range its column can hold.     *)
LEMMA RowsStayTyped ==
    /\ NoJob \in JobRow
    /\ NewJob \in JobRow
    /\ \A row \in JobRow, p \in Nat : AtProgress(row, p) \in JobRow
    /\ \A row \in JobRow, p \in 0..100 : Running(row, p) \in JobRow
    /\ \A row \in JobRow : Succeeded(row) \in JobRow
    /\ \A row \in JobRow : Failed(row) \in JobRow
<1>1. NoJob \in JobRow /\ NewJob \in JobRow
  BY DEF JobRow, JobStatus, NoJob, NewJob
<1>2. \A row \in JobRow, p \in Nat : AtProgress(row, p) \in JobRow
  BY DEF JobRow, JobStatus, AtProgress
<1>3. \A row \in JobRow, p \in 0..100 : Running(row, p) \in JobRow
  BY DEF JobRow, JobStatus, Running
<1>4. \A row \in JobRow : Succeeded(row) \in JobRow /\ Failed(row) \in JobRow
  BY DEF JobRow, JobStatus, Succeeded, Failed
<1> QED BY <1>1, <1>2, <1>3, <1>4

(* What each write does to the status and the progress.                    *)
LEMMA RowFields ==
    /\ \A row \in JobRow, p \in 0..100 :
          /\ AtProgress(row, p).status = row.status
          /\ AtProgress(row, p).progress = p
          /\ Running(row, p).status = "running"
          /\ Running(row, p).progress = IF p > 10 THEN p ELSE 10
    /\ \A row \in JobRow : /\ Succeeded(row).status = "success"
                           /\ Failed(row).status = "failure"
    /\ NewJob.status = "queued" /\ NewJob.progress = 5
    /\ NoJob.status = "absent"
<1>1. \A row \in JobRow, p \in 0..100 :
         AtProgress(row, p).status = row.status /\ AtProgress(row, p).progress = p
  BY DEF JobRow, AtProgress
<1>2. \A row \in JobRow, p \in 0..100 :
         /\ Running(row, p).status = "running"
         /\ Running(row, p).progress = IF p > 10 THEN p ELSE 10
  BY DEF Running
<1>3. \A row \in JobRow : /\ Succeeded(row).status = "success"
                          /\ Failed(row).status = "failure"
  BY DEF Succeeded, Failed
<1>4. /\ NewJob.status = "queued" /\ NewJob.progress = 5
      /\ NoJob.status = "absent"
  BY DEF NewJob, NoJob
<1> QED BY <1>1, <1>2, <1>3, <1>4

-----------------------------------------------------------------------------
(* A worker that takes a step has a task, and its task names a request.    *)
LEMMA BusyWorker ==
    ASSUME TypeOK, NEW w \in Workers, TaskStep(w) \/ Die(w)
    PROVE  worker[w] \in Task /\ worker[w].job \in Requests
<1>1. worker[w].pc # "idle"
  BY DEF TaskStep, Die, MarkRunning, UpdateProgress, Analyse, AnalyseFails,
         Finish, FailContent, FailJob
<1>2. worker[w] \in Task
  BY <1>1 DEF TypeOK, Idle
<1> QED BY <1>2 DEF Task

(* Moving a task on, or replacing it, keeps the workers well-typed.        *)
LEMMA TaskTyped ==
    ASSUME TypeOK, NEW w \in Workers, worker[w] \in Task
    PROVE  /\ \A next \in TaskPc :
                [worker EXCEPT ![w].pc = next] \in [Workers -> Task \cup {Idle}]
           /\ \A t \in Task \cup {Idle} :
                [worker EXCEPT ![w] = t] \in [Workers -> Task \cup {Idle}]
<1>1. ASSUME NEW next \in TaskPc
      PROVE  [worker EXCEPT ![w].pc = next] \in [Workers -> Task \cup {Idle}]
  <2>1. [worker[w] EXCEPT !.pc = next] \in Task
    BY DEF Task
  <2> QED BY <2>1 DEF TypeOK
<1> QED BY <1>1 DEF TypeOK

(* A save of one content row keeps the order of the rows well-typed.       *)
LEMMA TouchedTyped ==
    ASSUME TypeOK, NEW c \in Requests
    PROVE  Touched(c) \in SUBSET (Requests \X Requests)
BY DEF TypeOK, Touched

(* So does a save of its status.                                           *)
LEMMA ContentTyped ==
    ASSUME TypeOK, NEW c \in Requests, NEW s \in {"pending", "failed"}
    PROVE  [content EXCEPT ![c].status = s] \in [Requests -> ContentRow]
<1>1. [content[c] EXCEPT !.status = s] \in ContentRow
  BY DEF TypeOK, ContentRow
<1> QED BY <1>1 DEF TypeOK

(* Every variable keeps its type in every step of the register view, the   *)
(* broker and the workers.                                                 *)
LEMMA TypeStep == TypeOK /\ [Next]_vars => TypeOK'
<1> SUFFICES ASSUME TypeOK, [Next]_vars PROVE TypeOK'
  OBVIOUS
<1> USE DEF TypeOK, posts, rows, queue, Goto
<1>1. ASSUME NEW r \in Requests, NEW f \in Files, Post(r, f) PROVE TypeOK'
  BY <1>1 DEF Post, PostPc
<1>2. ASSUME NEW r \in Requests, PostStep(r) PROVE TypeOK'
  <2>0. Touched(r) \in SUBSET (Requests \X Requests)
    BY TouchedTyped
  <2>1. CASE LookUpContent(r)
    <3>1. Matching(r) \subseteq Requests
      BY DEF Matching
    <3> QED BY <2>1, <3>1 DEF LookUpContent, PostPc
  <2>2. CASE LookUpJob(r)
    BY <2>2 DEF LookUpJob, PostPc
  <2>3. CASE CreateContent(r)
    <3>1. content' \in [Requests -> ContentRow]
      BY <2>3, ContentTyped DEF CreateContent
    <3>2. pc' \in [Requests -> PostPc]
      BY <2>3 DEF CreateContent, PostPc
    <3>3. UNCHANGED <<fileOf, seen, reply, job, queue, worker, lost>>
          /\ newer' = Touched(r)
      BY <2>3 DEF CreateContent
    <3> QED BY <2>0, <3>1, <3>2, <3>3
  <2>4. CASE Upload(r)
    BY <2>0, <2>4 DEF Upload, PostPc
  <2>5. CASE CreateJob(r)
    BY <2>5, RowsStayTyped DEF CreateJob, PostPc
  <2>6. CASE Enqueue(r)
    BY <2>6 DEF Enqueue, PostPc
  <2>7. CASE SaveTaskId(r)
    BY <2>7 DEF SaveTaskId, PostPc
  <2>8. CASE Abort(r)
    BY <2>8 DEF Abort, PostPc
  <2> QED BY <1>2, <2>1, <2>2, <2>3, <2>4, <2>5, <2>6, <2>7, <2>8 DEF PostStep
<1>3. ASSUME NEW r \in Requests, SaveElsewhere(r) PROVE TypeOK'
  BY <1>3, TouchedTyped DEF SaveElsewhere
<1>4. ASSUME NEW r \in Requests, Redeliver(r) PROVE TypeOK'
  BY <1>4 DEF Redeliver
<1>5. ASSUME NEW w \in Workers, TaskStep(w) PROVE TypeOK'
  <2> DEFINE r == worker[w].job
  <2>0. /\ worker[w] \in Task
        /\ r \in Requests
        /\ Touched(r) \in SUBSET (Requests \X Requests)
        /\ worker[w].progress \in 0..100
    BY <1>5, BusyWorker, TouchedTyped DEF Task
  <2> HIDE DEF r
  <2>1. CASE MarkRunning(w)
    BY <2>0, <2>1, TaskTyped, RowsStayTyped DEF MarkRunning, TaskGoto, TaskPc, r
  <2>2. CASE UpdateProgress(w)
    <3>1. PICK next \in TaskPc, p \in {20, 35, 78, 90} :
            /\ job' = [job EXCEPT ![r] = AtProgress(job[r], p)]
            /\ worker' = [worker EXCEPT ![w].pc = next]
      BY <2>2 DEF UpdateProgress, TaskGoto, TaskPc, r
    <3>2. worker' \in [Workers -> Task \cup {Idle}]
      BY <2>0, <3>1, TaskTyped
    <3>3. AtProgress(job[r], p) \in JobRow
      BY <2>0, RowsStayTyped
    <3>4. UNCHANGED <<posts, content, newer, queue, lost>>
      BY <2>2 DEF UpdateProgress
    <3> QED BY <2>0, <3>1, <3>2, <3>3, <3>4
  <2>3. CASE Analyse(w)
    <3>1. PICK d \in DocumentDecisions \cup GuardDecisions :
            /\ content' = [content EXCEPT ![r] = [status |-> d, decision |-> d]]
            /\ worker' = [worker EXCEPT ![w] =
                            [pc       |-> IF IsDocument(r) THEN "p78" ELSE "p90",
                             job      |-> r,
                             progress |-> worker[w].progress,
                             decision |-> d]]
      BY <2>3 DEF Analyse, r
    <3>2. [status |-> d, decision |-> d] \in ContentRow
      BY DEF DocumentDecisions, GuardDecisions, ContentRow, Decided
    <3>3. [pc       |-> IF IsDocument(r) THEN "p78" ELSE "p90",
           job      |-> r,
           progress |-> worker[w].progress,
           decision |-> d] \in Task
      BY <2>0 DEF DocumentDecisions, GuardDecisions, Task, TaskPc, Decided
    <3> QED BY <2>0, <2>3, <3>1, <3>2, <3>3 DEF Analyse, r
  <2>4. CASE AnalyseFails(w)
    BY <2>0, <2>4, TaskTyped DEF AnalyseFails, TaskGoto, TaskPc
  <2>5. CASE Finish(w)
    BY <2>0, <2>5, TaskTyped, RowsStayTyped DEF Finish, r
  <2>6. CASE FailContent(w)
    BY <2>0, <2>6, TaskTyped, ContentTyped DEF FailContent, TaskGoto, TaskPc, r
  <2>7. CASE FailJob(w)
    BY <2>0, <2>7, TaskTyped, RowsStayTyped DEF FailJob, r
  <2> QED BY <1>5, <2>1, <2>2, <2>3, <2>4, <2>5, <2>6, <2>7 DEF TaskStep
<1>6. ASSUME NEW w \in Workers, Die(w) PROVE TypeOK'
  BY <1>6, BusyWorker, TaskTyped DEF Die
<1>7. ASSUME NEW w \in Workers, NEW r \in Requests, TakeMessage(w, r)
      PROVE TypeOK'
  <2>1. Loaded(r) \in Task
    BY DEF Loaded, Task, TaskPc, JobRow
  <2> QED BY <1>7, <2>1 DEF TakeMessage
<1>8. CASE UNCHANGED vars
  BY <1>8 DEF vars
<1> QED BY <1>1, <1>2, <1>3, <1>4, <1>5, <1>6, <1>7, <1>8 DEF Next

(* Every reachable state is well-typed.                                    *)
THEOREM TypeCorrect == Spec => []TypeOK
<1>1. Init => TypeOK
  BY DEF Init, TypeOK, PostPc, ContentRow, NoContent, JobRow, JobStatus, NoJob
<1> QED BY <1>1, TypeStep, PTL DEF Spec

-----------------------------------------------------------------------------
(* The inductive invariant.  The safety properties only speak of what an   *)
(* observer can see; what makes them inductive is where the request and    *)
(* the task stand in their handlers when the rows have these values.       *)

Unsent == {"idle", "posted", "matched", "creating", "stored", "uploaded",
           "recorded"}

\* Before the message is published nothing but the request touches its rows.
SenderInv(r) ==
    /\ pc[r] \in {"idle", "posted", "matched", "creating"} =>
           content[r].status = "absent" /\ job[r] = NoJob
    /\ pc[r] \in {"stored", "uploaded"} =>
           content[r].status = "pending" /\ job[r] = NoJob
    /\ pc[r] = "recorded" => content[r].status = "pending" /\ job[r] = NewJob
    /\ pc[r] \in Unsent =>
           copies[r] = 0 /\ \A w \in Workers : worker[w].job # r

\* A message that waits for its first executor finds the rows as created.
WaitingInv(r) ==
    Once(r) /\ copies[r] > 0 =>
        /\ copies[r] = 1
        /\ job[r] = NewJob
        /\ content[r].status = "pending"
        /\ \A w \in Workers : worker[w].job # r

\* What the rows look like at each point of the task.
TaskRows(r, t) ==
    /\ t.pc = "loaded" =>
           /\ job[r] = NewJob
           /\ t.progress = 5
           /\ content[r].status = "pending"
    /\ t.pc # "loaded" => job[r].status = "running"
    /\ t.pc \in {"p20", "p35", "analyse", "failContent"} =>
           content[r].status = "pending"
    /\ t.pc \in {"p78", "p90", "finish"} =>
           /\ content[r].status = t.decision
           /\ t.decision \in Decided \/ (t.decision = "failed" /\ IsDocument(r))
    /\ t.pc = "failJob" => content[r].status = "failed"
    /\ t.pc = "p20" => job[r].progress <= 20
    /\ t.pc \in {"p35", "analyse", "p78"} => job[r].progress <= 35
    /\ t.pc = "p90" => job[r].progress <= 90

TaskInv(r) ==
    Once(r) =>
        \A w \in Workers : worker[w].job = r =>
            /\ copies[r] = 0
            /\ \A v \in Workers : worker[v].job = r => v = w
            /\ TaskRows(r, worker[w])

ResultInv(r) ==
    Once(r) =>
        /\ job[r].status = "success" => content[r].status \in Decided
        /\ job[r].status = "failure" => content[r].status = "failed"
        /\ content[r].status = "pending" => job[r].status \notin Terminal

MessageInv(r) ==
    (copies[r] > 0 \/ \E w \in Workers : worker[w].job = r)
        => job[r].status # "absent" /\ Exists(r)

AbandonInv(r) == Abandoned(r) => r \in lost

JobInv(r) == /\ SenderInv(r)
             /\ WaitingInv(r)
             /\ TaskInv(r)
             /\ ResultInv(r)
             /\ MessageInv(r)
             /\ AbandonInv(r)

IInv == TypeOK /\ \A r \in Requests : JobInv(r)

-----------------------------------------------------------------------------
(* A job none of whose rows, messages and executors moved keeps its        *)
(* invariant; its sender may have moved on after publishing.               *)
LEMMA Frame ==
    ASSUME NEW r \in Requests, JobInv(r),
           pc'[r] = pc[r] \/ (pc[r] \notin Unsent /\ pc'[r] \notin Unsent),
           fileOf'[r] = fileOf[r],
           content'[r] = content[r],
           job'[r] = job[r],
           copies'[r] = copies[r],
           r \in redelivered => r \in redelivered',
           r \in lost => r \in lost',
           \A w \in Workers : worker'[w].job = r <=> worker[w].job = r,
           \A w \in Workers : worker[w].job = r => worker'[w] = worker[w]
    PROVE  JobInv(r)'
<1>1. SenderInv(r)'
  BY DEF JobInv, SenderInv, Unsent
<1>2. WaitingInv(r)'
  BY DEF JobInv, WaitingInv, Once
<1>3. TaskInv(r)'
  BY DEF JobInv, TaskInv, TaskRows, Once, IsDocument
<1>4. ResultInv(r)'
  BY DEF JobInv, ResultInv, Once
<1>5. MessageInv(r)'
  BY DEF JobInv, MessageInv, Exists
<1>6. AbandonInv(r)'
  BY DEF JobInv, AbandonInv, Abandoned, Unsent
<1> QED BY <1>1, <1>2, <1>3, <1>4, <1>5, <1>6 DEF JobInv

(* A task that moves on keeps everything but its place.                    *)
LEMMA TaskGotoFields ==
    ASSUME TypeOK, NEW w \in Workers, worker[w] \in Task, NEW next,
           TaskGoto(w, next)
    PROVE  /\ worker'[w].pc = next
           /\ worker'[w].job = worker[w].job
           /\ worker'[w].progress = worker[w].progress
           /\ worker'[w].decision = worker[w].decision
           /\ \A v \in Workers \ {w} : worker'[v] = worker[v]
BY DEF TypeOK, TaskGoto, Task

(* A worker whose task ended is on no job.                                 *)
LEMMA TaskEnds ==
    ASSUME TypeOK, NEW w \in Workers, worker' = [worker EXCEPT ![w] = Idle]
    PROVE  /\ \A r \in Requests : worker'[w].job # r
           /\ \A v \in Workers \ {w} : worker'[v] = worker[v]
BY RegisterAssumption DEF TypeOK, Idle

(* No step of a request breaks the invariant.                              *)
LEMMA PostInv ==
    ASSUME IInv, NEW q \in Requests,
           (\E f \in Files : Post(q, f)) \/ PostStep(q),
           NEW r \in Requests
    PROVE  JobInv(r)'
<1> USE DEF IInv
<1>1. CASE r # q
  <2>1. /\ pc'[r] = pc[r]
        /\ fileOf'[r] = fileOf[r]
        /\ content'[r] = content[r]
        /\ job'[r] = job[r]
        /\ copies'[r] = copies[r]
        /\ UNCHANGED <<redelivered, worker>>
        /\ r \in lost => r \in lost'
    BY <1>1 DEF TypeOK, PostStep, Post, LookUpContent, LookUpJob, CreateContent,
         Upload, CreateJob, Enqueue, SaveTaskId, Abort, Goto, rows, queue
  <2> QED BY <2>1, Frame
<1>2. CASE r = q
  <2> USE <1>2 DEF Goto, rows, queue, TypeOK, JobInv
  <2>1. CASE \E f \in Files : Post(q, f)
    BY <2>1 DEF Post, SenderInv, WaitingInv, TaskInv, ResultInv, MessageInv,
         AbandonInv, Abandoned, Unsent, Once, Exists, NoJob, InFlight, Terminal
  <2>2. CASE LookUpContent(q)
    BY <2>2 DEF LookUpContent, SenderInv, WaitingInv, TaskInv, ResultInv, MessageInv,
         AbandonInv, Abandoned, Unsent, Once, Exists, NoJob, InFlight, Terminal
  <2>3. CASE LookUpJob(q)
    BY <2>3 DEF LookUpJob, SenderInv, WaitingInv, TaskInv, ResultInv, MessageInv,
         AbandonInv, Abandoned, Unsent, Once, Exists, NoJob, InFlight, Terminal
  <2>4. CASE CreateContent(q)
    BY <2>4 DEF CreateContent, SenderInv, WaitingInv, TaskInv, ResultInv, MessageInv,
         AbandonInv, Abandoned, Unsent, Once, Exists, NoJob, InFlight, Terminal, ContentRow
  <2>5. CASE Upload(q)
    BY <2>5 DEF Upload, SenderInv, WaitingInv, TaskInv, ResultInv, MessageInv,
         AbandonInv, Abandoned, Unsent, Once, Exists, NoJob, InFlight, Terminal
  <2>6. CASE CreateJob(q)
    BY <2>6 DEF CreateJob, SenderInv, WaitingInv, TaskInv, ResultInv, MessageInv,
         AbandonInv, Abandoned, Unsent, Once, Exists, NewJob, InFlight, Terminal
  <2>7. CASE Enqueue(q)
    BY <2>7 DEF Enqueue, SenderInv, WaitingInv, TaskInv, ResultInv, MessageInv,
         AbandonInv, Abandoned, Unsent, Once, Exists, NewJob, InFlight, Terminal
  <2>8. CASE SaveTaskId(q)
    BY <2>8, Frame DEF SaveTaskId, Unsent
  <2>9. CASE Abort(q) /\ pc[q] = "enqueued"
    BY <2>9, Frame DEF Abort, Unsent
  <2>10. CASE Abort(q) /\ pc[q] # "enqueued"
    BY <2>10 DEF Abort, SenderInv, WaitingInv, TaskInv, ResultInv, MessageInv,
         AbandonInv, Abandoned, Unsent, Once, Exists, NoJob, NewJob, InFlight, Terminal
  <2> QED BY <2>1, <2>2, <2>3, <2>4, <2>5, <2>6, <2>7, <2>8, <2>9, <2>10 DEF PostStep
<1> QED BY <1>1, <1>2

(* What a step of the task of worker w leaves alone: the requests, the     *)
(* messages, the other workers, and the rows of the other jobs.            *)
LEMMA TaskLeaves ==
    ASSUME IInv, NEW w \in Workers, TaskStep(w) \/ Die(w)
    PROVE  /\ UNCHANGED <<pc, fileOf, copies, redelivered>>
           /\ \A v \in Workers \ {w} : worker'[v] = worker[v]
           /\ worker'[w].job = worker[w].job \/ worker' = [worker EXCEPT ![w] = Idle]
           /\ \A r \in Requests : r # worker[w].job =>
                 content'[r] = content[r] /\ job'[r] = job[r]
           /\ \A r \in lost : r \in lost'
<1> USE DEF IInv
<1>0. worker[w] \in Task /\ worker[w].job \in Requests
  BY BusyWorker
<1>1. /\ UNCHANGED <<pc, fileOf, copies, redelivered>>
      /\ \A r \in Requests : r # worker[w].job =>
            content'[r] = content[r] /\ job'[r] = job[r]
      /\ \A r \in lost : r \in lost'
  BY <1>0 DEF TypeOK, TaskStep, Die, MarkRunning, UpdateProgress, Analyse,
     AnalyseFails, Finish, FailContent, FailJob, posts, rows, queue
<1>2. CASE \E next : TaskGoto(w, next)
  BY <1>0, <1>1, <1>2, TaskGotoFields
<1>3. CASE worker' = [worker EXCEPT ![w] = Idle]
  BY <1>1, <1>3 DEF TypeOK
<1>4. CASE Analyse(w)
  BY <1>1, <1>4 DEF TypeOK, Analyse
<1> QED BY <1>2, <1>3, <1>4 DEF TaskStep, Die, MarkRunning, UpdateProgress,
           AnalyseFails, Finish, FailContent, FailJob

(* It keeps the invariant of those jobs.                                   *)
LEMMA TaskFrame ==
    ASSUME IInv, NEW w \in Workers, TaskStep(w) \/ Die(w),
           NEW r \in Requests, r # worker[w].job
    PROVE  JobInv(r)'
<1>1. worker'[w].job # r
  BY TaskLeaves, TaskEnds DEF IInv
<1> QED BY <1>1, TaskLeaves, Frame DEF IInv

(* The invariant of the job that worker w executes, seen from w.           *)
LEMMA OwnTask ==
    ASSUME IInv, NEW w \in Workers, worker[w] \in Task,
           NEW r \in Requests, r = worker[w].job
    PROVE  /\ pc[r] \notin Unsent
           /\ job[r] \in JobRow
           /\ job[r].status # "absent"
           /\ Exists(r)
           /\ Once(r) => /\ copies[r] = 0
                         /\ \A v \in Workers : worker[v].job = r => v = w
                         /\ TaskRows(r, worker[w])
BY DEF IInv, JobInv, TaskInv, SenderInv, MessageInv, TypeOK

(* What is left to show of a step after which w still executes r ...       *)
LEMMA TaskMoves ==
    ASSUME NEW w \in Workers, NEW r \in Requests,
           pc[r] \notin Unsent,
           UNCHANGED <<pc, copies, redelivered>>,
           worker'[w].job = r,
           job'[r].status # "absent",
           Exists(r)',
           Once(r) => /\ copies[r] = 0
                      /\ \A v \in Workers : worker'[v].job = r => v = w
                      /\ job'[r].status = "running"
                      /\ TaskRows(r, worker[w])'
    PROVE  JobInv(r)'
BY DEF JobInv, SenderInv, WaitingInv, TaskInv, ResultInv, MessageInv,
       AbandonInv, Abandoned, Once, Unsent, Terminal

(* ... and of one that ends its execution.                                 *)
LEMMA TaskStops ==
    ASSUME NEW w \in Workers, NEW r \in Requests,
           pc[r] \notin Unsent,
           UNCHANGED <<pc, copies, redelivered>>,
           job'[r].status # "absent",
           Exists(r)',
           r \in lost' \/ job'[r].status \in Terminal,
           Once(r) => /\ copies[r] = 0
                      /\ \A v \in Workers : worker'[v].job # r
                      /\ ResultInv(r)'
    PROVE  JobInv(r)'
BY DEF JobInv, SenderInv, WaitingInv, TaskInv, ResultInv, MessageInv,
       AbandonInv, Abandoned, Once, Unsent, Terminal, InFlight

(* No step of a task breaks the invariant of the job it executes.          *)
LEMMA TaskStepInv ==
    ASSUME IInv, NEW w \in Workers, TaskStep(w) \/ Die(w),
           NEW r \in Requests
    PROVE  JobInv(r)'
<1>1. CASE r # worker[w].job
  BY <1>1, TaskFrame
<1>2. CASE r = worker[w].job
  <2>0. /\ worker[w] \in Task
        /\ worker[w].progress \in 0..100
        /\ pc[r] \notin Unsent
        /\ job[r] \in JobRow
        /\ job[r].status # "absent"
        /\ Exists(r)
        /\ Once(r) => /\ copies[r] = 0
                      /\ \A v \in Workers : worker[v].job = r => v = w
                      /\ TaskRows(r, worker[w])
        /\ UNCHANGED <<pc, fileOf, copies, redelivered>>
        /\ \A v \in Workers \ {w} : worker'[v] = worker[v]
        /\ content \in [Requests -> ContentRow]
        /\ job \in [Requests -> JobRow]
    BY <1>2, BusyWorker, OwnTask, TaskLeaves DEF IInv, TypeOK, Task
  <2>1. CASE MarkRunning(w)
    <3>1. /\ worker'[w].pc = "p20" /\ worker'[w].job = r
          /\ job' = [job EXCEPT ![r] = Running(job[r], worker[w].progress)]
          /\ worker[w].pc = "loaded"
          /\ UNCHANGED content
      BY <1>2, <2>0, <2>1, TaskGotoFields DEF MarkRunning, IInv
    <3>2. /\ job'[r].status = "running"
          /\ job'[r].progress = IF worker[w].progress > 10
                                THEN worker[w].progress ELSE 10
      BY <2>0, <3>1, RowFields
    <3>3. Once(r) => TaskRows(r, worker[w])'
      BY <2>0, <3>1, <3>2 DEF TaskRows
    <3> QED BY <2>0, <3>1, <3>2, <3>3, TaskMoves DEF Exists
  <2>2. CASE UpdateProgress(w)
    <3>1. PICK p \in {20, 35, 78, 90}, next \in {"p35", "analyse", "p90", "finish"} :
          /\ worker[w].pc = CASE p = 20 -> "p20" [] p = 35 -> "p35"
                              [] p = 78 -> "p78" [] p = 90 -> "p90"
          /\ next = CASE p = 20 -> "p35" [] p = 35 -> "analyse"
                      [] p = 78 -> "p90" [] p = 90 -> "finish"
          /\ job' = [job EXCEPT ![r] = AtProgress(job[r], p)]
          /\ TaskGoto(w, next)
          /\ UNCHANGED content
      BY <1>2, <2>2 DEF UpdateProgress
    <3>2. /\ worker'[w].pc = next /\ worker'[w].job = r
          /\ worker'[w].decision = worker[w].decision
          /\ worker'[w].progress = worker[w].progress
      BY <1>2, <2>0, <3>1, TaskGotoFields DEF IInv
    <3>3. job'[r].status = job[r].status /\ job'[r].progress = p
      BY <2>0, <3>1, RowFields
    <3>4. Once(r) => TaskRows(r, worker[w])' /\ job'[r].status = "running"
      BY <2>0, <3>1, <3>2, <3>3 DEF TaskRows, IsDocument
    <3> QED BY <2>0, <3>1, <3>2, <3>3, <3>4, TaskMoves DEF Exists
  <2>3. CASE Analyse(w)
    <3>1. PICK d \in IF IsDocument(r) THEN DocumentDecisions ELSE GuardDecisions :
          /\ content' = [content EXCEPT ![r] = [status |-> d, decision |-> d]]
          /\ worker' = [worker EXCEPT ![w] =
                          [pc       |-> IF IsDocument(r) THEN "p78" ELSE "p90",
                           job      |-> r,
                           progress |-> worker[w].progress,
                           decision |-> d]]
          /\ worker[w].pc = "analyse"
          /\ UNCHANGED job
      BY <1>2, <2>3 DEF Analyse
    <3>2. content'[r].status = d
      BY <2>0, <3>1
    <3>3. /\ worker'[w].pc = IF IsDocument(r) THEN "p78" ELSE "p90"
          /\ worker'[w].job = r
          /\ worker'[w].decision = d
      BY <3>1 DEF IInv, TypeOK
    <3>4. d \in Decided \/ (d = "failed" /\ IsDocument(r))
      BY <3>1 DEF DocumentDecisions, GuardDecisions, Decided
    <3>5. d # "absent" /\ (IsDocument(r) <=> IsDocument(r)')
      BY <2>0, <3>4 DEF Decided, IsDocument
    <3>6. Once(r) => job[r].status = "running" /\ job[r].progress <= 35
      BY <2>0, <3>1 DEF TaskRows
    <3>7. job[r].progress \in 0..100
      BY <2>0 DEF JobRow
    <3>8. Once(r) => TaskRows(r, worker[w])' /\ job'[r].status = "running"
      BY <3>1, <3>2, <3>3, <3>4, <3>5, <3>6, <3>7 DEF TaskRows
    <3> QED BY <2>0, <3>1, <3>2, <3>3, <3>5, <3>8, TaskMoves DEF Exists
  <2>4. CASE AnalyseFails(w)
    <3>1. /\ worker'[w].pc = "failContent" /\ worker'[w].job = r
          /\ worker[w].pc = "analyse"
          /\ UNCHANGED <<content, job>>
      BY <1>2, <2>0, <2>4, TaskGotoFields DEF AnalyseFails, IInv, rows
    <3>2. Once(r) => TaskRows(r, worker[w])' /\ job'[r].status = "running"
      BY <2>0, <3>1 DEF TaskRows
    <3> QED BY <2>0, <3>1, <3>2, TaskMoves DEF Exists
  <2>5. CASE Finish(w)
    <3>1. /\ \A v \in Workers : v = w => worker'[v].job # r
          /\ worker[w].pc = "finish"
          /\ job' = [job EXCEPT ![r] =
                       IF IsDocument(r) /\ worker[w].decision = "failed"
                       THEN Failed(job[r]) ELSE Succeeded(job[r])]
          /\ UNCHANGED content
      BY <1>2, <2>0, <2>5, TaskEnds DEF Finish, IInv
    <3>2. job'[r].status = IF IsDocument(r) /\ worker[w].decision = "failed"
                           THEN "failure" ELSE "success"
      BY <2>0, <3>1, RowFields
    <3>3. Once(r) => ResultInv(r)'
      BY <2>0, <3>1, <3>2 DEF ResultInv, TaskRows, Decided
    <3> QED BY <2>0, <3>1, <3>2, <3>3, TaskStops DEF Exists, Terminal
  <2>6. CASE FailContent(w)
    <3>1. /\ worker'[w].pc = "failJob" /\ worker'[w].job = r
          /\ worker[w].pc = "failContent"
          /\ content' = [content EXCEPT ![r].status = "failed"]
          /\ UNCHANGED job
      BY <1>2, <2>0, <2>6, TaskGotoFields DEF FailContent, IInv
    <3>2. content'[r].status = "failed"
      BY <2>0, <3>1 DEF ContentRow
    <3>3. Once(r) => TaskRows(r, worker[w])' /\ job'[r].status = "running"
      BY <2>0, <3>1, <3>2 DEF TaskRows
    <3> QED BY <2>0, <3>1, <3>2, <3>3, TaskMoves DEF Exists
  <2>7. CASE FailJob(w)
    <3>1. /\ \A v \in Workers : v = w => worker'[v].job # r
          /\ worker[w].pc = "failJob"
          /\ job' = [job EXCEPT ![r] = Failed(job[r])]
          /\ UNCHANGED content
      BY <1>2, <2>0, <2>7, TaskEnds DEF FailJob, IInv
    <3>2. job'[r].status = "failure"
      BY <2>0, <3>1, RowFields
    <3>3. Once(r) => ResultInv(r)'
      BY <2>0, <3>1, <3>2 DEF ResultInv, TaskRows
    <3> QED BY <2>0, <3>1, <3>2, <3>3, TaskStops DEF Exists, Terminal
  <2>8. CASE Die(w)
    <3>1. /\ \A v \in Workers : v = w => worker'[v].job # r
          /\ r \in lost'
          /\ UNCHANGED <<content, job>>
      BY <1>2, <2>0, <2>8, TaskEnds DEF Die, IInv, rows
    <3>2. Once(r) => ResultInv(r)'
      BY <2>0, <3>1 DEF IInv, JobInv, ResultInv, Once
    <3> QED BY <2>0, <3>1, <3>2, TaskStops DEF Exists
  <2> QED BY <2>1, <2>2, <2>3, <2>4, <2>5, <2>6, <2>7, <2>8 DEF TaskStep
<1> QED BY <1>1, <1>2

(* Taking a message: the task starts with the row as it is stored, and its *)
(* message is gone.                                                        *)
LEMMA TakeMessageInv ==
    ASSUME IInv, NEW w \in Workers, NEW q \in Requests, TakeMessage(w, q),
           NEW r \in Requests
    PROVE  JobInv(r)'
<1>1. /\ UNCHANGED <<pc, fileOf, content, job, redelivered, lost>>
      /\ worker[w].pc = "idle"
      /\ copies[q] > 0
      /\ copies'[q] = copies[q] - 1
      /\ \A s \in Requests \ {q} : copies'[s] = copies[s]
      /\ worker'[w] = Loaded(q)
      /\ \A v \in Workers \ {w} : worker'[v] = worker[v]
  BY DEF TakeMessage, IInv, TypeOK, posts, rows, queue
<1>2. \A s \in Requests : worker[w].job # s
  BY <1>1, RegisterAssumption DEF IInv, TypeOK, Task, TaskPc, Idle
<1>3. worker'[w].job = q /\ worker'[w].pc = "loaded"
      /\ worker'[w].progress = job[q].progress
  BY <1>1 DEF Loaded
<1>4. CASE r # q
  BY <1>1, <1>2, <1>3, <1>4, Frame DEF IInv
<1>5. CASE r = q
  <2>1. copies[r] \in Nat /\ JobInv(r)
    BY DEF IInv, TypeOK
  <2>2. pc[r] \notin Unsent /\ job[r].status # "absent" /\ Exists(r)
    BY <1>1, <1>5, <2>1 DEF JobInv, SenderInv, MessageInv
  <2>3. SenderInv(r)'
    BY <1>1, <2>2 DEF SenderInv, Unsent
  <2>4. Once(r) => /\ copies'[r] = 0
                   /\ job[r] = NewJob
                   /\ content[r].status = "pending"
                   /\ \A v \in Workers : worker'[v].job = r => v = w
    BY <1>1, <1>5, <2>1 DEF JobInv, WaitingInv
  <2>5. WaitingInv(r)'
    BY <1>1, <2>4 DEF WaitingInv, Once
  <2>6. Once(r) => TaskRows(r, worker[w])'
    BY <1>1, <1>3, <1>5, <2>4 DEF TaskRows, NewJob
  <2>7. TaskInv(r)'
    BY <1>1, <1>3, <1>5, <2>4, <2>6 DEF TaskInv, Once
  <2>8. ResultInv(r)'
    BY <1>1, <2>1 DEF JobInv, ResultInv, Once
  <2>9. MessageInv(r)'
    BY <1>1, <2>2 DEF MessageInv, Exists
  <2>10. AbandonInv(r)'
    BY <1>3, <1>5 DEF AbandonInv, Abandoned
  <2> QED BY <2>3, <2>5, <2>7, <2>8, <2>9, <2>10 DEF JobInv
<1> QED BY <1>4, <1>5

(* A second delivery of q's message, and a save of a content row made      *)
(* elsewhere, leave the invariant of every job in place: the first lifts   *)
(* the promises that hold for one delivery.                                *)
LEMMA OutsideInv ==
    ASSUME IInv, NEW q \in Requests, Redeliver(q) \/ SaveElsewhere(q),
           NEW r \in Requests
    PROVE  JobInv(r)'
<1>1. CASE SaveElsewhere(q)
  BY <1>1, Frame DEF SaveElsewhere, IInv, TypeOK, posts, queue
<1>2. CASE Redeliver(q)
  <2>1. /\ UNCHANGED <<pc, fileOf, content, job, worker, lost>>
        /\ copies[q] = 1 /\ copies'[q] = 2
        /\ \A s \in Requests \ {q} : copies'[s] = copies[s]
        /\ redelivered' = redelivered \cup {q}
    BY <1>2 DEF Redeliver, IInv, TypeOK, posts, rows
  <2>2. CASE r # q
    BY <2>1, <2>2, Frame DEF IInv
  <2>3. CASE r = q
    <3>1. JobInv(r) /\ ~Once(r)'
      BY <2>1, <2>3 DEF IInv, Once
    <3> QED BY <2>1, <2>3, <3>1 DEF JobInv, SenderInv, WaitingInv, TaskInv,
               ResultInv, MessageInv, AbandonInv, Abandoned, Exists, Unsent
  <2> QED BY <2>2, <2>3
<1> QED BY <1>1, <1>2

(* IInv is inductive.                                                      *)
LEMMA InvStep == IInv /\ [Next]_vars => IInv'
<1> SUFFICES ASSUME IInv, [Next]_vars PROVE IInv'
  OBVIOUS
<1>1. TypeOK'
  BY TypeStep DEF IInv
<1>2. ASSUME NEW r \in Requests PROVE JobInv(r)'
  <2>1. CASE Next
    BY <2>1, PostInv, TaskStepInv, TakeMessageInv, OutsideInv DEF Next
  <2>2. CASE UNCHANGED vars
    BY <2>2, Frame DEF IInv, vars, posts, rows, queue
  <2> QED BY <2>1, <2>2
<1> QED BY <1>1, <1>2 DEF IInv

(* It holds at first.                                                      *)
LEMMA InvInit == Init => IInv
<1> SUFFICES ASSUME Init PROVE IInv
  OBVIOUS
<1>1. TypeOK
  BY DEF Init, TypeOK, PostPc, ContentRow, NoContent, JobRow, JobStatus, NoJob
<1>2. ASSUME NEW r \in Requests PROVE JobInv(r)
  BY RegisterAssumption DEF Init, JobInv, SenderInv, WaitingInv, TaskInv, ResultInv,
     MessageInv, AbandonInv, Abandoned, NoContent, NoJob, Idle, Unsent, InFlight, Terminal
<1> QED BY <1>1, <1>2 DEF IInv

(* It always holds.                                                        *)
THEOREM Invariance == Spec => []IInv
BY InvInit, InvStep, PTL DEF Spec

-----------------------------------------------------------------------------
(* OneExecutor: for any number of requests and workers, no two workers     *)
(* execute a job whose message was delivered once, and no message can      *)
(* start a second execution while one runs.                                *)
THEOREM SingleExecution == Spec => []OneExecutor
<1>1. IInv => OneExecutor
  BY DEF IInv, JobInv, TaskInv, OneExecutor
<1> QED BY <1>1, Invariance, PTL

(* MessageHasRows: a worker never looks up a job or a content that has not *)
(* been committed, even when its message was delivered twice.              *)
THEOREM MessagesNameRows == Spec => []MessageHasRows
<1>1. IInv => MessageHasRows
  BY DEF IInv, JobInv, MessageInv, MessageHasRows
<1> QED BY <1>1, Invariance, PTL

(* OutcomeAgreement: wherever the request or the worker dies, the stored   *)
(* job and the stored content never contradict each other.                 *)
THEOREM OutcomesAgree == Spec => []OutcomeAgreement
<1>1. IInv => OutcomeAgreement
  BY DEF IInv, JobInv, ResultInv, OutcomeAgreement
<1> QED BY <1>1, Invariance, PTL

(* AbandonedOnlyByDeath: a job that nobody will finish lost its sender or  *)
(* its executor; no path through the handlers forgets one.                 *)
THEOREM NoJobForgotten == Spec => []AbandonedOnlyByDeath
<1>1. IInv => AbandonedOnlyByDeath
  BY DEF IInv, JobInv, AbandonInv, AbandonedOnlyByDeath
<1> QED BY <1>1, Invariance, PTL

-----------------------------------------------------------------------------
(* A step that writes a job row is one of the lifecycle's actions.         *)
LEMMA StepImplements ==
    ASSUME IInv, Next, NEW r \in Requests, Once(r)
    PROVE  Lifecycle(r)!Next \/ UNCHANGED job[r]
<1> USE DEF IInv
<1> SUFFICES ASSUME job'[r] # job[r]
             PROVE  Lifecycle(r)!Next
  OBVIOUS
<1>1. CASE CreateJob(r)
  <2>1. job[r] = NoJob /\ job'[r] = NewJob
    BY <1>1 DEF CreateJob, JobInv, SenderInv, TypeOK
  <2> QED BY <2>1 DEF Lifecycle!Next, Lifecycle!Create, Lifecycle!NoJob,
         Lifecycle!NewJob, NoJob, NewJob
<1>2. CASE \E w \in Workers : TaskStep(w)
  <2>1. PICK w \in Workers : TaskStep(w)
    BY <1>2
  <2>2. r = worker[w].job
    BY <2>1, TaskLeaves
  <2>3. /\ worker[w] \in Task
        /\ TaskRows(r, worker[w])
        /\ job[r] \in JobRow
        /\ job \in [Requests -> JobRow]
    BY <2>1, <2>2, BusyWorker, OwnTask DEF TypeOK
  <2>4. CASE MarkRunning(w)
    <3>1. job'[r] = Running(job[r], job[r].progress) /\ job[r].status = "queued"
      BY <2>2, <2>3, <2>4 DEF MarkRunning, TaskRows, NewJob
    <3> QED BY <3>1 DEF Lifecycle!Next, Lifecycle!Start, Lifecycle!Running, Running
  <2>5. CASE UpdateProgress(w)
    <3>1. PICK p \in {20, 35, 78, 90} :
            /\ worker[w].pc = CASE p = 20 -> "p20" [] p = 35 -> "p35"
                                [] p = 78 -> "p78" [] p = 90 -> "p90"
            /\ job'[r] = AtProgress(job[r], p)
      BY <2>2, <2>3, <2>5 DEF UpdateProgress
    <3>2. job[r].progress \in 0..100
      BY <2>3 DEF JobRow
    <3>3. job[r].status = "running" /\ job[r].progress <= p
      BY <2>3, <3>1, <3>2 DEF TaskRows
    <3> QED BY <3>1, <3>2, <3>3 DEF Lifecycle!Next, Lifecycle!Advance,
           Lifecycle!AtProgress, AtProgress
  <2>6. CASE Finish(w)
    <3>1. /\ job'[r] = Failed(job[r]) \/ job'[r] = Succeeded(job[r])
          /\ job[r].status = "running"
      BY <2>2, <2>3, <2>6 DEF Finish, TaskRows
    <3> QED BY <3>1 DEF Lifecycle!Next, Lifecycle!Succeed, Lifecycle!Fail,
           Lifecycle!Succeeded, Lifecycle!Failed, Succeeded, Failed
  <2>7. CASE FailJob(w)
    <3>1. job'[r] = Failed(job[r]) /\ job[r].status = "running"
      BY <2>2, <2>3, <2>7 DEF FailJob, TaskRows
    <3> QED BY <3>1 DEF Lifecycle!Next, Lifecycle!Fail, Lifecycle!Failed, Failed
  <2> QED BY <2>1, <2>4, <2>5, <2>6, <2>7 DEF TaskStep, Analyse, AnalyseFails,
             FailContent, rows
<1> QED BY <1>1, <1>2 DEF Next, Post, PostStep, LookUpContent, LookUpJob,
           CreateContent, Upload, CreateJob, Enqueue, SaveTaskId, Abort,
           SaveElsewhere, Redeliver, TakeMessage, Die, TypeOK, rows

(* ImplementsLifecycle: for any number of requests and workers, a job      *)
(* whose message was delivered once is created once, starts once, never    *)
(* reports less progress than before, and never takes back its result.     *)
THEOREM LifecycleImplemented == Spec => ImplementsLifecycle
<1>1. IInv /\ [Next]_vars =>
        [\A r \in Requests :
            Once(r) => Lifecycle(r)!Next \/ UNCHANGED job[r]]_vars
  BY StepImplements
<1> QED BY <1>1, Invariance, PTL DEF Spec, ImplementsLifecycle

-----------------------------------------------------------------------------
(* What a client sees that streams and polls one of these jobs, Watched.   *)
(* The job of JobStream is the row of that request, whose task may report  *)
(* any progress.                                                           *)

CONSTANTS Watched, Deadline

VARIABLES there, at, left, fetched, last, ended

Stream == INSTANCE JobStream WITH job <- job[Watched], row <- fetched, Reports <- 0..100

\* What the client has seen, what the generator is about to send and the
\* stored job are in the order of the lifecycle.
StreamInv ==
    /\ job[Watched] \in JobRow /\ fetched \in JobRow /\ shown \in JobRow
    /\ Stream!Upto(shown, Stream!Payload(job[Watched]))
    /\ at = "send" => /\ Stream!Upto(shown, Stream!Payload(fetched))
                      /\ Stream!Upto(Stream!Payload(fetched), Stream!Payload(job[Watched]))

(* The order of what a client sees is one.                                 *)
LEMMA UptoOrder ==
    ASSUME NEW a \in JobRow, NEW b \in JobRow, NEW c \in JobRow
    PROVE  /\ Stream!Upto(a, a)
           /\ Stream!Upto(a, b) /\ Stream!Upto(b, c) => Stream!Upto(a, c)
<1>1. \A r \in JobRow : Stream!Rank(r.status) \in 0..3 /\ r.progress \in 0..100
  BY DEF JobRow, JobStatus, Stream!Rank
<1>2. Stream!Upto(a, a)
  BY <1>1 DEF Stream!Upto
<1>3. \A i, j, k \in Nat : i <= j /\ j <= k => i <= k
  OBVIOUS
<1>4. ASSUME Stream!Upto(a, b), Stream!Upto(b, c)
      PROVE  Stream!Upto(a, c)
  <2>1. /\ \A r \in {a, b, c} : Stream!Rank(r.status) \in Nat /\ r.progress \in Nat
        /\ Stream!Rank(a.status) <= Stream!Rank(b.status)
        /\ Stream!Rank(b.status) <= Stream!Rank(c.status)
        /\ a.progress <= b.progress /\ b.progress <= c.progress
    BY <1>1, <1>4 DEF Stream!Upto
  <2>2. Stream!Rank(a.status) <= Stream!Rank(c.status) /\ a.progress <= c.progress
    BY <1>3, <2>1, Zenon
  <2>3. Stream!Rank(a.status) = 3 => a = b /\ b = c
    BY <1>4 DEF Stream!Upto
  <2> QED BY <2>2, <2>3 DEF Stream!Upto
<1> QED BY <1>2, <1>4

(* A payload is a row, of the same status.                                 *)
LEMMA PayloadRow ==
    ASSUME NEW r \in JobRow
    PROVE  /\ Stream!Payload(r) \in JobRow
           /\ Stream!Payload(r).status = r.status /\ Stream!Payload(r).error = r.error
           /\ Stream!Payload(r).progress = IF r.status = "success" THEN 100 ELSE r.progress
BY DEF Stream!Payload, JobRow

(* Every step of the lifecycle shows in the payload as a step forward.     *)
LEMMA LifecycleRises ==
    ASSUME job[Watched] \in JobRow, Lifecycle(Watched)!Next
    PROVE  /\ job'[Watched] \in JobRow
           /\ Stream!Upto(Stream!Payload(job[Watched]), Stream!Payload(job'[Watched]))
<1> DEFINE old == job[Watched]
           new == job'[Watched]
<1>0. old.status \in JobStatus /\ old.progress \in 0..100 /\ old.error \in {"none", "code"}
  BY DEF JobRow
<1>1. \/ old = NoJob /\ new = NewJob
      \/ old.status = "queued" /\ new = Running(old, old.progress)
      \/ old.status = "running" /\ \E p \in old.progress..100 : new = AtProgress(old, p)
      \/ old.status = "running" /\ new = Succeeded(old)
      \/ old.status = "running" /\ new = Failed(old)
  BY DEF Lifecycle!Next, Lifecycle!Create, Lifecycle!Start, Lifecycle!Advance,
         Lifecycle!Succeed, Lifecycle!Fail, Lifecycle!NoJob, Lifecycle!NewJob,
         Lifecycle!Running, Lifecycle!AtProgress, Lifecycle!Succeeded, Lifecycle!Failed,
         NoJob, NewJob, Running, AtProgress, Succeeded, Failed
<1> HIDE DEF old, new
<1>2. ASSUME new \in JobRow, old.progress <= new.progress, old.status \notin Terminal,
             \/ Stream!Rank(old.status) < Stream!Rank(new.status)
             \/ old.status = "running" /\ new.status = "running"
      PROVE  Stream!Upto(Stream!Payload(old), Stream!Payload(new))
  <2>1. /\ Stream!Payload(old).status = old.status /\ Stream!Payload(old).progress = old.progress
        /\ Stream!Payload(new).status = new.status
        /\ Stream!Payload(new).progress = IF new.status = "success" THEN 100 ELSE new.progress
    BY <1>2, PayloadRow DEF old, Terminal
  <2>2. /\ Stream!Rank(old.status) \in 0..3 /\ Stream!Rank(new.status) \in 0..3
        /\ new.progress \in 0..100 /\ Stream!Rank(old.status) # 3
    BY <1>0, <1>2 DEF JobRow, JobStatus, Terminal, Stream!Rank
  <2> QED BY <1>0, <1>2, <2>1, <2>2 DEF Stream!Upto
<1>3. CASE old = NoJob /\ new = NewJob
  <2>1. new \in JobRow
    BY <1>3 DEF NewJob, JobRow, JobStatus
  <2> QED BY <1>2, <1>3, <2>1 DEF NoJob, NewJob, Terminal, Stream!Rank, old, new
<1>4. CASE old.status = "queued" /\ new = Running(old, old.progress)
  <2>1. /\ new \in JobRow /\ new.status = "running" /\ old.progress <= new.progress
    BY <1>0, <1>4 DEF Running, JobRow, JobStatus
  <2> QED BY <1>2, <1>4, <2>1 DEF Terminal, Stream!Rank, old, new
<1>5. CASE old.status = "running" /\ \E p \in old.progress..100 : new = AtProgress(old, p)
  <2>1. PICK p \in old.progress..100 : new = AtProgress(old, p)
    BY <1>5
  <2>2. /\ new \in JobRow /\ new.status = "running" /\ old.progress <= new.progress
    BY <1>0, <1>5, <2>1 DEF AtProgress, JobRow, old
  <2> QED BY <1>2, <1>5, <2>2 DEF Terminal, old, new
<1>6. CASE old.status = "running" /\ (new = Succeeded(old) \/ new = Failed(old))
  <2>1. /\ new \in JobRow /\ new.status \in Terminal /\ old.progress <= new.progress
    BY <1>0, <1>6 DEF Succeeded, Failed, Terminal, JobRow, JobStatus
  <2> QED BY <1>2, <1>6, <2>1 DEF Terminal, Stream!Rank, old, new
<1> QED BY <1>1, <1>3, <1>4, <1>5, <1>6

(* The lifecycle the stream assumes is the one the jobs implement.         *)
LEMMA SameLifecycle == Stream!Lifecycle!Next <=> Lifecycle(Watched)!Next
BY DEF Lifecycle!Next, Lifecycle!Create, Lifecycle!Start, Lifecycle!Advance,
       Lifecycle!Succeed, Lifecycle!Fail, Lifecycle!NoJob, Lifecycle!NewJob,
       Lifecycle!Running, Lifecycle!AtProgress, Lifecycle!Succeeded, Lifecycle!Failed,
       Stream!Lifecycle!Next, Stream!Lifecycle!Create, Stream!Lifecycle!Start,
       Stream!Lifecycle!Advance, Stream!Lifecycle!Succeed, Stream!Lifecycle!Fail,
       Stream!Lifecycle!NoJob, Stream!Lifecycle!NewJob, Stream!Lifecycle!Running,
       Stream!Lifecycle!AtProgress, Stream!Lifecycle!Succeeded, Stream!Lifecycle!Failed

(* A step of the stream, or of its job, keeps the order and shows the      *)
(* client nothing earlier.                                                 *)
LEMMA StreamRises ==
    ASSUME StreamInv, [Stream!Next]_(Stream!vars)
    PROVE  StreamInv' /\ Stream!Upto(shown, shown')
<1> DEFINE Shows(r) == Stream!Payload(r)
           old == job[Watched]
           new == job'[Watched]
<1>0. /\ old \in JobRow /\ fetched \in JobRow /\ shown \in JobRow
      /\ Shows(old) \in JobRow /\ Shows(fetched) \in JobRow
      /\ Stream!Upto(shown, Shows(old)) /\ Stream!Upto(shown, shown)
      /\ Stream!Upto(Shows(old), Shows(old))
      /\ at = "send" => /\ Stream!Upto(shown, Shows(fetched))
                        /\ Stream!Upto(Shows(fetched), Shows(old))
  BY PayloadRow, UptoOrder DEF StreamInv
<1>1. CASE Stream!JobMoves
  <2>1. Lifecycle(Watched)!Next /\ UNCHANGED <<at, fetched, shown>>
    BY <1>1, SameLifecycle DEF Stream!JobMoves
  <2>2. new \in JobRow /\ Stream!Upto(Shows(old), Shows(new)) /\ Shows(new) \in JobRow
    BY <1>0, <2>1, LifecycleRises, PayloadRow
  <2>3. /\ Stream!Upto(shown, Shows(new))
        /\ at = "send" => Stream!Upto(Shows(fetched), Shows(new))
    BY <1>0, <2>2, UptoOrder
  <2> QED BY <1>0, <2>1, <2>2, <2>3 DEF StreamInv, Stream!Payload
<1>2. CASE Stream!Read /\ at' = "send"
  <2>1. fetched' = old /\ new = old /\ shown' = shown
    BY <1>2 DEF Stream!Read, Stream!Close
  <2> QED BY <1>0, <2>1 DEF StreamInv, Stream!Payload
<1>3. CASE Stream!Send
  <2>1. /\ at = "send" /\ at' # "send" /\ new = old /\ fetched' = fetched
        /\ shown' = shown \/ shown' = Shows(fetched)
    BY <1>3 DEF Stream!Send, Stream!Close
  <2> QED BY <1>0, <2>1 DEF StreamInv, Stream!Payload
<1>4. CASE Stream!Poll
  <2>1. at # "send" /\ at' = at /\ new = old /\ fetched' = fetched /\ shown' = Shows(old)
    BY <1>4 DEF Stream!Poll
  <2> QED BY <1>0, <2>1 DEF StreamInv, Stream!Payload
<1>5. CASE /\ new = old /\ fetched' = fetched /\ shown' = shown
           /\ at' \in {at, "closed", "check", "read", "sleep"}
  BY <1>0, <1>5 DEF StreamInv, Stream!Payload
<1>6. CASE \/ UNCHANGED Stream!vars
           \/ Stream!Delete \/ Stream!Open \/ Stream!Check \/ (Stream!Read /\ at' # "send")
           \/ Stream!Sleep \/ Stream!Delay \/ Stream!Disconnect
  BY <1>5, <1>6 DEF Stream!vars, Stream!Delete, Stream!Open, Stream!Check, Stream!Read,
         Stream!Sleep, Stream!Delay, Stream!Disconnect, Stream!Close
<1> QED BY <1>1, <1>2, <1>3, <1>4, <1>6 DEF Stream!Next, Stream!StreamStep

(* Nothing is shown at first.                                              *)
LEMMA StreamStarts == Stream!Init => StreamInv
<1> SUFFICES ASSUME Stream!Init PROVE StreamInv
  OBVIOUS
<1>1. /\ job[Watched] = NoJob /\ fetched = NoJob /\ shown = NoJob /\ at = "closed"
      /\ NoJob \in JobRow /\ Stream!Payload(NoJob) = NoJob
  BY DEF Stream!Init, Stream!NoJob, Stream!Payload, NoJob, JobRow, JobStatus
<1> QED BY <1>1, UptoOrder DEF StreamInv

(* NeverBack: whatever streams and polls a client combines, it never sees  *)
(* the job go back, and a result it saw never changes, if the job behaves  *)
(* as AIJobLifecycle promises.                                             *)
THEOREM ClientNeverBack == Stream!Spec => NeverBack
<1>1. StreamInv /\ [Stream!Next]_(Stream!vars) => StreamInv' /\ [Upto(shown, shown')]_shown
  BY StreamRises DEF Upto, Rank, Stream!Upto, Stream!Rank
<1> QED BY <1>1, StreamStarts, PTL DEF Stream!Spec, NeverBack

\* A client that streams and polls the job of one request, while requests
\* and workers go on; RegisterJobs knows no deletion of a job.
client == <<there, at, left, fetched, last, shown, ended>>

ClientStep ==
    /\ Stream!Open \/ Stream!StreamStep \/ Stream!Delay \/ Stream!Disconnect \/ Stream!Poll
    /\ UNCHANGED vars

WatchNext == (Next /\ UNCHANGED client) \/ ClientStep

WatchSpec == Init /\ Stream!Init /\ [][WatchNext]_<<vars, client>>

(* The steps of the system and of its client are steps of JobStream.       *)
LEMMA WatchImplements ==
    ASSUME Watched \in Requests, IInv, IInv', Once(Watched), there = "yes",
           [WatchNext]_<<vars, client>>
    PROVE  [Stream!Next]_(Stream!vars) /\ there' = "yes"
<1>1. CASE UNCHANGED <<vars, client>>
  <2>1. UNCHANGED <<job, client>>
    BY <1>1 DEF vars, rows
  <2> QED BY <2>1 DEF client, Stream!vars
<1>2. CASE Next /\ UNCHANGED client
  <2>1. UNCHANGED <<there, at, left, fetched, last, shown, ended>>
    BY <1>2 DEF client
  <2>2. CASE UNCHANGED job[Watched]
    BY <2>1, <2>2 DEF Stream!vars
  <2>3. CASE Lifecycle(Watched)!Next
    <3>1. job'[Watched].progress \in 0..100
      BY DEF IInv, TypeOK, JobRow
    <3> QED BY <2>1, <2>3, <3>1, SameLifecycle DEF Stream!Next, Stream!JobMoves
  <2> QED BY <1>2, <2>2, <2>3, StepImplements
<1>3. CASE ClientStep
  BY <1>3 DEF ClientStep, Stream!Next, Stream!Open, Stream!StreamStep, Stream!Check,
       Stream!Read, Stream!Send, Stream!Sleep, Stream!Delay, Stream!Disconnect, Stream!Poll
<1> QED BY <1>1, <1>2, <1>3 DEF WatchNext

(* NeverBack of the whole: a client that watches the job of any request,   *)
(* among any number of requests and workers, never sees it go back, as     *)
(* long as its message is not delivered a second time.                     *)
THEOREM WatchedNeverBack ==
    ASSUME Watched \in Requests
    PROVE  WatchSpec /\ []Once(Watched) => NeverBack
<1>1. [WatchNext]_<<vars, client>> => [Next]_vars
  BY DEF WatchNext, ClientStep, vars
<1>2. Stream!Init => there = "yes"
  BY DEF Stream!Init
<1>3. IInv /\ IInv' /\ Once(Watched) /\ there = "yes" /\ [WatchNext]_<<vars, client>>
          => [Stream!Next]_(Stream!vars) /\ (there = "yes")'
  BY WatchImplements
<1> QED BY <1>1, <1>2, <1>3, Invariance, ClientNeverBack, PTL DEF Spec, WatchSpec, Stream!Spec
=============================================================================
