------------------------- MODULE VerifyJobs_proofs -------------------------
(***************************************************************************)
(* Proofs about VerifyJobs, for any sets of requests, documents, marked    *)
(* files and workers.                                                      *)
(***************************************************************************)
EXTENDS VerifyJobs, TLAPS

(* The task helpers of analysis/tasks.py keep an AIJob row well-formed; in *)
(* particular the progress stays within the range its column can hold.     *)
LEMMA RowsStayTyped ==
    /\ NoJob \in JobRow
    /\ NewJob \in JobRow
    /\ \A row \in JobRow, p \in Nat : AtProgress(row, p) \in JobRow
    /\ \A row \in JobRow, p \in 0..100 : Running(row, p) \in JobRow
    /\ \A row \in JobRow : Succeeded(row) \in JobRow
    /\ \A row \in JobRow : Failed(row) \in JobRow
<1>1. NoJob \in JobRow /\ NewJob \in JobRow
  BY DEF JobRow, JobStatus, NoJob, NewJob
<1>2. \A row \in JobRow, p \in Nat : AtProgress(row, p) \in JobRow
  BY DEF JobRow, JobStatus, AtProgress
<1>3. \A row \in JobRow, p \in 0..100 : Running(row, p) \in JobRow
  BY DEF JobRow, JobStatus, Running
<1>4. \A row \in JobRow : Succeeded(row) \in JobRow /\ Failed(row) \in JobRow
  BY DEF JobRow, JobStatus, Succeeded, Failed
<1> QED BY <1>1, <1>2, <1>3, <1>4

(* What each write does to the status and the progress.                    *)
LEMMA RowFields ==
    /\ \A row \in JobRow, p \in 0..100 :
          /\ AtProgress(row, p).status = row.status
          /\ AtProgress(row, p).progress = p
          /\ Running(row, p).status = "running"
          /\ Running(row, p).progress = IF p > 10 THEN p ELSE 10
    /\ \A row \in JobRow : /\ Succeeded(row).status = "success"
                           /\ Failed(row).status = "failure"
    /\ NewJob.status = "queued" /\ NewJob.progress = 5
    /\ NoJob.status = "absent"
<1>1. \A row \in JobRow, p \in 0..100 :
         AtProgress(row, p).status = row.status /\ AtProgress(row, p).progress = p
  BY DEF JobRow, AtProgress
<1>2. \A row \in JobRow, p \in 0..100 :
         /\ Running(row, p).status = "running"
         /\ Running(row, p).progress = IF p > 10 THEN p ELSE 10
  BY DEF Running
<1>3. \A row \in JobRow : /\ Succeeded(row).status = "success"
                          /\ Failed(row).status = "failure"
  BY DEF Succeeded, Failed
<1>4. /\ NewJob.status = "queued" /\ NewJob.progress = 5
      /\ NoJob.status = "absent"
  BY DEF NewJob, NoJob
<1> QED BY <1>1, <1>2, <1>3, <1>4

-----------------------------------------------------------------------------
(* A worker that takes a step has a task, and its task names a request.    *)
LEMMA BusyWorker ==
    ASSUME TypeOK, NEW w \in Workers, TaskStep(w) \/ Die(w)
    PROVE  /\ worker[w] \in Task /\ worker[w].job \in Requests
           /\ worker[w].progress \in 0..100 /\ worker[w].outcome \in Outcome
<1>1. worker[w].pc # "idle"
  BY DEF TaskStep, Die, MarkRunning, UpdateProgress, Detect, LookUpToken,
         FindCandidate, AskFails, CreateLog, Finish, FailJob
<1>2. worker[w] \in Task
  BY <1>1 DEF TypeOK, Idle
<1> QED BY <1>2 DEF Task

(* A task that moves on keeps everything but its place, and its type.      *)
LEMMA TaskGotoFields ==
    ASSUME TypeOK, NEW w \in Workers, worker[w] \in Task, NEW next \in TaskPc,
           TaskGoto(w, next)
    PROVE  /\ worker' \in [Workers -> Task \cup {Idle}]
           /\ worker'[w].pc = next
           /\ worker'[w].job = worker[w].job
           /\ worker'[w].progress = worker[w].progress
           /\ worker'[w].mark = worker[w].mark
           /\ worker'[w].outcome = worker[w].outcome
           /\ \A v \in Workers \ {w} : worker'[v] = worker[v]
<1>1. [worker[w] EXCEPT !.pc = next] \in Task
  BY DEF Task
<1>2. worker' = [worker EXCEPT ![w] = [worker[w] EXCEPT !.pc = next]]
  BY DEF TaskGoto
<1>3. LET t == [worker[w] EXCEPT !.pc = next]
      IN  /\ t.pc = next /\ t.job = worker[w].job /\ t.progress = worker[w].progress
          /\ t.mark = worker[w].mark /\ t.outcome = worker[w].outcome
  BY DEF Task
<1> QED BY <1>1, <1>2, <1>3 DEF TypeOK

(* A worker whose task ended is on no job.                                 *)
LEMMA TaskEnds ==
    ASSUME TypeOK, NEW w \in Workers, worker' = [worker EXCEPT ![w] = Idle]
    PROVE  /\ worker' \in [Workers -> Task \cup {Idle}]
           /\ \A r \in Requests : worker'[w].job # r
           /\ \A v \in Workers \ {w} : worker'[v] = worker[v]
BY VerifyAssumption DEF TypeOK, Idle

\* The progress a running job has at most at each place of its task.
Reached(r, here) ==
    IF here \in {"start", "ask"} THEN 18
    ELSE IF here \in {"detect", "read"} THEN 35
    ELSE IF here = "look" THEN 62
    ELSE IF here = "chain" THEN (IF IsDocument(r) THEN 74 ELSE 72)
    ELSE IF here \in {"search", "guard"} THEN 72
    ELSE IF here \in {"compose", "record"} THEN 82
    ELSE 100

(* It is a percentage.                                                     *)
LEMMA ReachedRange == \A r, here : Reached(r, here) \in 0..100
BY DEF Reached

\* A report p of the workflow of r, on its way from here to next.
Reports(r, here, p, next) ==
    /\ here \notin {"loaded", "finish"} /\ next \notin {"loaded", "finish"}
    /\ Reached(r, here) <= p /\ p <= Reached(r, next)

(* The reports of both workflows lie between what their task has reached   *)
(* before and after them.                                                  *)
LEMMA ReportsRise ==
    ASSUME NEW w \in Workers, NEW r, r = worker[w].job, UpdateProgress(w)
    PROVE  \E p \in 0..100, next \in TaskPc :
              /\ job' = [job EXCEPT ![r] = AtProgress(job[r], p)]
              /\ TaskGoto(w, next)
              /\ Reports(r, worker[w].pc, p, next)
<1> DEFINE s == worker[w].job
           Report(here, image, document, next) ==
              /\ worker[w].pc = here
              /\ job' = [job EXCEPT ![s] =
                             AtProgress(@, IF IsDocument(s) THEN document ELSE image)]
              /\ TaskGoto(w, next)
<1> DEFINE Goal == \E p \in 0..100, next \in TaskPc :
              /\ job' = [job EXCEPT ![r] = AtProgress(job[r], p)]
              /\ TaskGoto(w, next)
              /\ Reports(r, worker[w].pc, p, next)
<1> SUFFICES Goal
  BY Zenon
<1>1. \/ Report("start", 18, 18, "ask")
      \/ Report("ask", 35, 35, "detect")
      \/ Report("read", 58, 62, IF worker[w].mark = "seen" THEN "look" ELSE Unresolved(s))
      \/ Report("look", 72, 74, "chain")
      \/ Report("search", 72, 72, "guard")
      \/ Report("compose", 82, 82, "record")
      \/ Report("record", 85, 85, "log")
  BY Zenon DEF UpdateProgress
<1>2. ASSUME NEW here, NEW image \in 0..100, NEW document \in 0..100, NEW next \in TaskPc,
             Report(here, image, document, next),
             Reports(r, here, IF IsDocument(r) THEN document ELSE image, next)
      PROVE  Goal
  <2>1. PICK p \in 0..100 : p = IF IsDocument(r) THEN document ELSE image
    OBVIOUS
  <2>2. job' = [job EXCEPT ![r] = AtProgress(job[r], p)] /\ TaskGoto(w, next)
    BY <1>2, <2>1
  <2>3. Reports(r, worker[w].pc, p, next)
    BY <1>2, <2>1
  <2> QED BY <2>2, <2>3, Zenon
<1> HIDE DEF Goal, Report
<1>3. CASE Report("start", 18, 18, "ask")
  <2>1. "ask" \in TaskPc /\ 18 \in 0..100
    BY DEF TaskPc
  <2>2. Reports(r, "start", IF IsDocument(r) THEN 18 ELSE 18, "ask")
    BY DEF Reports, Reached
  <2> QED BY <1>2, <1>3, <2>1, <2>2, Zenon
<1>4. CASE Report("ask", 35, 35, "detect")
  <2>1. "detect" \in TaskPc /\ 35 \in 0..100
    BY DEF TaskPc
  <2>2. Reports(r, "ask", IF IsDocument(r) THEN 35 ELSE 35, "detect")
    BY DEF Reports, Reached
  <2> QED BY <1>2, <1>4, <2>1, <2>2, Zenon
<1>5. CASE Report("read", 58, 62, IF worker[w].mark = "seen" THEN "look" ELSE Unresolved(s))
  <2> DEFINE next == IF worker[w].mark = "seen" THEN "look" ELSE Unresolved(s)
  <2>1. next \in TaskPc /\ 58 \in 0..100 /\ 62 \in 0..100
    BY DEF TaskPc, Unresolved
  <2>2. Reports(r, "read", IF IsDocument(r) THEN 62 ELSE 58, next)
    BY DEF Reports, Reached, Unresolved
  <2> QED BY <1>2, <1>5, <2>1, <2>2, Zenon
<1>6. CASE Report("look", 72, 74, "chain")
  <2>1. "chain" \in TaskPc /\ 72 \in 0..100 /\ 74 \in 0..100
    BY DEF TaskPc
  <2>2. Reports(r, "look", IF IsDocument(r) THEN 74 ELSE 72, "chain")
    BY DEF Reports, Reached
  <2> QED BY <1>2, <1>6, <2>1, <2>2, Zenon
<1>7. CASE Report("search", 72, 72, "guard")
  <2>1. "guard" \in TaskPc /\ 72 \in 0..100
    BY DEF TaskPc
  <2>2. Reports(r, "search", IF IsDocument(r) THEN 72 ELSE 72, "guard")
    BY DEF Reports, Reached
  <2> QED BY <1>2, <1>7, <2>1, <2>2, Zenon
<1>8. CASE Report("compose", 82, 82, "record")
  <2>1. "record" \in TaskPc /\ 82 \in 0..100
    BY DEF TaskPc
  <2>2. Reports(r, "compose", IF IsDocument(r) THEN 82 ELSE 82, "record")
    BY DEF Reports, Reached
  <2> QED BY <1>2, <1>8, <2>1, <2>2, Zenon
<1>9. CASE Report("record", 85, 85, "log")
  <2>1. "log" \in TaskPc /\ 85 \in 0..100
    BY DEF TaskPc
  <2>2. Reports(r, "record", IF IsDocument(r) THEN 85 ELSE 85, "log")
    BY DEF Reports, Reached
  <2> QED BY <1>2, <1>9, <2>1, <2>2, Zenon
<1> QED BY <1>1, <1>3, <1>4, <1>5, <1>6, <1>7, <1>8, <1>9, Zenon

(* Every variable keeps its type in every step of the verify view, the     *)
(* broker, the chain and the workers.                                      *)
LEMMA TypeStep == TypeOK /\ [Next]_vars => TypeOK'
<1> SUFFICES ASSUME TypeOK, [Next]_vars PROVE TypeOK'
  OBVIOUS
<1>1. ASSUME NEW r \in Requests, Post(r) \/ PostStep(r) \/ Redeliver(r) \/ Register(r)
      PROVE  TypeOK'
  <2> USE DEF TypeOK, rows, queue, Goto, PostPc
  <2>1. CASE Post(r)
    BY <2>1 DEF Post
  <2>2. CASE Upload(r)
    BY <2>2 DEF Upload
  <2>3. CASE CreateJob(r)
    BY <2>3, RowsStayTyped DEF CreateJob
  <2>4. CASE Enqueue(r)
    BY <2>4 DEF Enqueue
  <2>5. CASE SaveTaskId(r)
    BY <2>5 DEF SaveTaskId
  <2>6. CASE Abort(r)
    BY <2>6 DEF Abort
  <2>7. CASE Redeliver(r)
    BY <2>7 DEF Redeliver
  <2>8. CASE Register(r)
    BY <2>8 DEF Register
  <2> QED BY <1>1, <2>1, <2>2, <2>3, <2>4, <2>5, <2>6, <2>7, <2>8 DEF PostStep
<1>2. ASSUME NEW w \in Workers, TaskStep(w) \/ Die(w) PROVE TypeOK'
  <2> DEFINE r == worker[w].job
  <2>0. /\ worker[w] \in Task /\ r \in Requests /\ r = worker[w].job
        /\ worker[w].progress \in 0..100 /\ worker[w].outcome \in Outcome
    BY <1>2, BusyWorker
  <2> HIDE DEF r
  <2>a. \A next \in TaskPc : TaskGoto(w, next) => worker' \in [Workers -> Task \cup {Idle}]
    BY <2>0, TaskGotoFields
  <2>1. CASE MarkRunning(w)
    <3>1. worker' \in [Workers -> Task \cup {Idle}]
      BY <2>1, <2>a DEF MarkRunning, TaskPc
    <3> QED BY <2>0, <2>1, <3>1, RowsStayTyped DEF MarkRunning, TypeOK, queue
  <2>2. CASE UpdateProgress(w)
    <3>1. PICK p \in 0..100, next \in TaskPc :
            job' = [job EXCEPT ![r] = AtProgress(job[r], p)] /\ TaskGoto(w, next)
      BY <2>0, <2>2, ReportsRise
    <3>2. worker' \in [Workers -> Task \cup {Idle}]
      BY <2>a, <3>1
    <3>3. AtProgress(job[r], p) \in JobRow
      BY <2>0, RowsStayTyped DEF TypeOK
    <3> QED BY <2>0, <2>2, <3>1, <3>2, <3>3 DEF UpdateProgress, TypeOK, queue
  <2>3. CASE Detect(w)
    <3>1. PICK m \in {"unseen", "seen"} : worker' = [worker EXCEPT ![w] =
             [pc |-> "read", job |-> r, progress |-> worker[w].progress,
              mark |-> m, outcome |-> "candidate"]]
      BY <2>0, <2>3 DEF Detect
    <3>2. [pc |-> "read", job |-> r, progress |-> worker[w].progress,
           mark |-> m, outcome |-> "candidate"] \in Task
      BY <2>0 DEF Task, TaskPc, Outcome
    <3>3. worker' \in [Workers -> Task \cup {Idle}]
      BY <3>1, <3>2 DEF TypeOK
    <3> QED BY <2>3, <3>3 DEF Detect, TypeOK, rows, queue
  <2>4. CASE LookUpToken(w)
    <3>1. [pc |-> "compose", job |-> r, progress |-> worker[w].progress,
           mark |-> "seen", outcome |-> "verified"] \in Task
      BY <2>0 DEF Task, TaskPc, Outcome
    <3>2. Unresolved(r) \in TaskPc
      BY DEF Unresolved, TaskPc
    <3>3. worker' \in [Workers -> Task \cup {Idle}]
      BY <2>0, <2>4, <2>a, <3>1, <3>2 DEF LookUpToken, TypeOK
    <3> QED BY <2>4, <3>3 DEF LookUpToken, TypeOK, rows, queue
  <2>5. CASE FindCandidate(w)
    BY <2>5, <2>a DEF FindCandidate, TypeOK, rows, queue, TaskPc
  <2>6. CASE AskFails(w)
    BY <2>6, <2>a DEF AskFails, TypeOK, rows, queue, TaskPc
  <2>7. CASE CreateLog(w)
    <3>1. worker' \in [Workers -> Task \cup {Idle}]
      BY <2>7, <2>a DEF CreateLog, TaskPc
    <3>2. Append(log[r], worker[w].outcome) \in Seq(Outcome)
      BY <2>0 DEF TypeOK
    <3>3. log' \in [Requests -> Seq(Outcome)]
      BY <2>0, <2>7, <3>2 DEF CreateLog, TypeOK
    <3> QED BY <2>7, <3>1, <3>3 DEF CreateLog, TypeOK, queue
  <2>8. CASE Finish(w)
    <3>1. worker' \in [Workers -> Task \cup {Idle}]
      BY <2>8, TaskEnds DEF Finish
    <3> QED BY <2>0, <2>8, <3>1, RowsStayTyped DEF Finish, TypeOK, queue
  <2>9. CASE FailJob(w)
    <3>1. worker' \in [Workers -> Task \cup {Idle}]
      BY <2>9, TaskEnds DEF FailJob
    <3> QED BY <2>0, <2>9, <3>1, RowsStayTyped DEF FailJob, TypeOK, queue
  <2>10. CASE Die(w)
    <3>1. worker' \in [Workers -> Task \cup {Idle}]
      BY <2>10, TaskEnds DEF Die
    <3> QED BY <2>0, <2>10, <3>1 DEF Die, TypeOK, rows, queue
  <2> QED BY <1>2, <2>1, <2>2, <2>3, <2>4, <2>5, <2>6, <2>7, <2>8, <2>9, <2>10 DEF TaskStep
<1>3. ASSUME NEW w \in Workers, NEW r \in Requests, TakeMessage(w, r)
      PROVE  TypeOK'
  <2>1. [pc |-> "loaded", job |-> r, progress |-> job[r].progress,
         mark |-> "unseen", outcome |-> "candidate"] \in Task
    BY DEF Task, TaskPc, Outcome, TypeOK, JobRow
  <2>2. worker' \in [Workers -> Task \cup {Idle}]
    BY <1>3, <2>1 DEF TakeMessage, TypeOK
  <2> QED BY <1>3, <2>2 DEF TakeMessage, TypeOK, rows
<1>4. CASE UNCHANGED vars
  BY <1>4 DEF vars, rows, queue, TypeOK
<1> QED BY <1>1, <1>2, <1>3, <1>4 DEF Next

(* The state before the first request is well-typed.                       *)
LEMMA TypeInit == Init => TypeOK
BY VerifyAssumption DEF Init, TypeOK, PostPc, JobRow, JobStatus, NoJob

(* Every reachable state of verification is well-typed.                    *)
THEOREM TypeCorrect == Spec => []TypeOK
BY TypeInit, TypeStep, PTL DEF Spec

-----------------------------------------------------------------------------
(* The inductive invariant.  HistoryAgreement and VerifiedIsRegistered     *)
(* speak of stored rows; what makes them inductive is where the tasks      *)
(* stand that wrote, or are about to write, these rows.                    *)

Unsent == {"idle", "posted", "uploaded", "recorded"}

\* Before the message is published nothing but the request touches its job.
SenderInv(r) ==
    /\ pc[r] \in {"idle", "posted", "uploaded"} => job[r] = NoJob
    /\ pc[r] = "recorded" => job[r] = NewJob
    /\ pc[r] \in Unsent =>
           /\ copies[r] = 0 /\ log[r] = <<>>
           /\ \A w \in Workers : worker[w].job # r

\* A message that waits for its first executor finds the job as created.
WaitingInv(r) ==
    Once(r) /\ copies[r] > 0 =>
        /\ copies[r] = 1
        /\ job[r] = NewJob
        /\ log[r] = <<>>
        /\ \A w \in Workers : worker[w].job # r

\* Job and history at each place of the task.
TaskRows(r, t) ==
    /\ t.pc = "loaded" => job[r] = NewJob /\ t.progress = 5
    /\ t.pc # "loaded" => job[r].status = "running" /\ job[r].progress <= Reached(r, t.pc)
    /\ log[r] = IF t.pc = "finish" THEN <<t.outcome>> ELSE <<>>

TaskInv(r) ==
    Once(r) =>
        \A w \in Workers : worker[w].job = r =>
            /\ copies[r] = 0
            /\ \A v \in Workers : worker[v].job = r => v = w
            /\ TaskRows(r, worker[w])

ResultInv(r) ==
    Once(r) =>
        /\ Len(log[r]) <= 1
        /\ job[r].status = "success" => log[r] = <<result[r]>>
        /\ job[r].status = "failure" => log[r] = <<>>
        /\ log[r] # <<>> => \/ job[r].status = "success"
                            \/ r \in lost
                            \/ \E w \in Workers : Executing(w, r) /\ worker[w].pc = "finish"

MessageInv(r) ==
    copies[r] > 0 \/ log[r] # <<>> \/ (\E w \in Workers : worker[w].job = r)
        => job[r].status # "absent"

\* A task that may still write an entry to the history.
Pending(w, r) == worker[w].job = r /\ worker[w].pc # "finish"

\* One message leads to at most one entry, two to at most two.
BudgetInv(r) ==
    /\ copies[r] + Len(log[r]) <= 2
    /\ \A w \in Workers : Pending(w, r) => copies[r] + Len(log[r]) <= 1
    /\ \A v, w \in Workers : v # w /\ Pending(v, r) /\ Pending(w, r)
                                => copies[r] + Len(log[r]) = 0
    /\ \A u, v, w \in Workers : Pending(u, r) /\ Pending(v, r) /\ Pending(w, r)
                                => u = v \/ v = w \/ u = w

Known(r) == r \in Marked \cap registered

VerifiedInv(r) ==
    /\ r \in registered => r \in Marked
    /\ result[r] = "verified" => Known(r)
    /\ \A i \in 1..Len(log[r]) : log[r][i] = "verified" => Known(r)
    /\ \A w \in Workers : worker[w].job = r /\ worker[w].outcome = "verified" => Known(r)

JobInv(r) == /\ SenderInv(r)
             /\ WaitingInv(r)
             /\ TaskInv(r)
             /\ ResultInv(r)
             /\ MessageInv(r)
             /\ BudgetInv(r)
             /\ VerifiedInv(r)

IInv == TypeOK /\ \A r \in Requests : JobInv(r)

-----------------------------------------------------------------------------
(* While no message comes and no entry is written, and no task starts, the *)
(* entries stay within bounds ...                                          *)
LEMMA BudgetKept ==
    ASSUME NEW r \in Requests, BudgetInv(r),
           copies'[r] = copies[r], log'[r] = log[r],
           \A w \in Workers : Pending(w, r)' => Pending(w, r)
    PROVE  BudgetInv(r)'
BY DEF BudgetInv

(* ... and what counts as verified stays registered.                       *)
LEMMA VerifiedKept ==
    ASSUME NEW r \in Requests, VerifiedInv(r),
           log'[r] = log[r],
           r \in registered => r \in registered',
           r \in registered' => r \in Marked,
           result'[r] = "verified" => result[r] = "verified" \/ Known(r),
           \A w \in Workers : worker'[w].job = r /\ worker'[w].outcome = "verified" =>
               Known(r) \/ (worker[w].job = r /\ worker[w].outcome = "verified")
    PROVE  VerifiedInv(r)'
BY DEF VerifiedInv, Known

(* A job none of whose rows, messages and executors moved keeps its        *)
(* invariant; its sender may have moved on after publishing.               *)
LEMMA Frame ==
    ASSUME NEW r \in Requests, JobInv(r),
           pc'[r] = pc[r] \/ (pc[r] \notin Unsent /\ pc'[r] \notin Unsent),
           job'[r] = job[r], result'[r] = result[r], log'[r] = log[r],
           copies'[r] = copies[r],
           r \in redelivered => r \in redelivered',
           r \in lost => r \in lost',
           r \in registered => r \in registered',
           r \in registered' => r \in Marked,
           \A w \in Workers : worker'[w].job = r <=> worker[w].job = r,
           \A w \in Workers : worker[w].job = r => worker'[w] = worker[w]
    PROVE  JobInv(r)'
<1>1. SenderInv(r)'
  BY DEF JobInv, SenderInv, Unsent
<1>2. WaitingInv(r)'
  BY DEF JobInv, WaitingInv, Once
<1>3. TaskInv(r)'
  BY DEF JobInv, TaskInv, TaskRows, Once, Reached, IsDocument
<1>4. ResultInv(r)'
  BY DEF JobInv, ResultInv, Once, Executing
<1>5. MessageInv(r)'
  BY DEF JobInv, MessageInv
<1>6. BudgetInv(r)'
  BY BudgetKept DEF JobInv, Pending
<1>7. VerifiedInv(r)'
  BY VerifiedKept DEF JobInv
<1> QED BY <1>1, <1>2, <1>3, <1>4, <1>5, <1>6, <1>7 DEF JobInv

(* No step of a request breaks the invariant.                              *)
LEMMA PostInv ==
    ASSUME IInv, NEW q \in Requests, Post(q) \/ PostStep(q), NEW r \in Requests
    PROVE  JobInv(r)'
<1>0. /\ TypeOK /\ JobInv(r)
      /\ r \in registered => r \in Marked
      /\ UNCHANGED <<result, log, registered, redelivered, worker>>
  BY DEF IInv, JobInv, VerifiedInv, Post, PostStep, Upload, CreateJob, Enqueue,
         SaveTaskId, Abort, rows, queue
<1>1. CASE r # q
  <2>1. /\ pc'[r] = pc[r] /\ job'[r] = job[r] /\ copies'[r] = copies[r]
        /\ r \in lost => r \in lost'
    BY <1>0, <1>1 DEF TypeOK, PostStep, Post, Upload, CreateJob, Enqueue, SaveTaskId,
       Abort, Goto, rows, queue
  <2> QED BY <1>0, <2>1, Frame
<1>2. CASE r = q
  <2>1. CASE SaveTaskId(q) \/ (Abort(q) /\ pc[q] = "enqueued")
    <3>1. /\ pc[r] \notin Unsent /\ pc'[r] \notin Unsent
          /\ UNCHANGED <<job, copies, lost>>
      BY <1>0, <1>2, <2>1 DEF SaveTaskId, Abort, Goto, TypeOK, Unsent, rows, queue
    <3> QED BY <1>0, <3>1, Frame
  <2>2. CASE ~(SaveTaskId(q) \/ (Abort(q) /\ pc[q] = "enqueued"))
    <3>1. /\ pc[r] \in Unsent /\ copies[r] = 0 /\ log[r] = <<>>
          /\ \A w \in Workers : worker[w].job # r
      BY <1>0, <1>2, <2>2 DEF Post, PostStep, Upload, CreateJob, Enqueue, Abort,
         Unsent, JobInv, SenderInv
    <3>2. job'[r] \in {NoJob, NewJob} /\ copies'[r] \in {0, 1}
          /\ (copies'[r] = 1 => pc'[r] = "enqueued" /\ job'[r] = NewJob)
      BY <1>0, <1>2, <2>2, <3>1 DEF Post, PostStep, Upload, CreateJob, Enqueue, Abort,
         Goto, Unsent, JobInv, SenderInv, TypeOK, rows, queue
    <3>3. SenderInv(r)'
      BY <1>0, <1>2, <2>2, <3>1 DEF Post, PostStep, Upload, CreateJob, Enqueue, Abort,
         Goto, Unsent, JobInv, SenderInv, TypeOK, rows, queue
    <3>4. /\ job'[r].status \notin {"success", "failure"}
          /\ copies'[r] = 1 => job'[r].status # "absent"
      BY <3>2 DEF NoJob, NewJob
    <3>5. Len(<<>>) = 0
      OBVIOUS
    <3>6. WaitingInv(r)' /\ TaskInv(r)' /\ ResultInv(r)' /\ MessageInv(r)'
      BY <1>0, <3>1, <3>2, <3>4, <3>5 DEF WaitingInv, TaskInv, ResultInv, MessageInv
    <3>7. BudgetInv(r)'
      BY <1>0, <3>1, <3>2, <3>5 DEF BudgetInv, Pending
    <3>8. VerifiedInv(r)'
      BY <1>0, VerifiedKept DEF JobInv
    <3> QED BY <3>3, <3>6, <3>7, <3>8 DEF JobInv
  <2> QED BY <2>1, <2>2
<1> QED BY <1>1, <1>2

(* What a step of the task of worker w leaves alone: the requests, the     *)
(* messages, the chain, the other workers, and the rows of other jobs.     *)
LEMMA TaskLeaves ==
    ASSUME TypeOK, NEW w \in Workers, TaskStep(w) \/ Die(w)
    PROVE  /\ UNCHANGED <<pc, copies, redelivered, registered>>
           /\ \A v \in Workers \ {w} : worker'[v] = worker[v]
           /\ \A r \in Requests : r # worker[w].job =>
                 /\ job'[r] = job[r] /\ result'[r] = result[r] /\ log'[r] = log[r]
                 /\ worker'[w].job # r
           /\ \A r \in lost : r \in lost'
<1>0. worker[w] \in Task /\ worker[w].job \in Requests
  BY BusyWorker
<1>1. /\ UNCHANGED <<pc, copies, redelivered, registered>>
      /\ \A r \in lost : r \in lost'
  BY DEF TaskStep, Die, MarkRunning, UpdateProgress, Detect, LookUpToken,
     FindCandidate, AskFails, CreateLog, Finish, FailJob, rows, queue
<1>2. \A r \in Requests : r # worker[w].job =>
         job'[r] = job[r] /\ result'[r] = result[r] /\ log'[r] = log[r]
  BY <1>0 DEF TypeOK, TaskStep, Die, MarkRunning, UpdateProgress, Detect, LookUpToken,
     FindCandidate, AskFails, CreateLog, Finish, FailJob, rows
<1>3. \/ \E next \in TaskPc : TaskGoto(w, next)
      \/ worker' = [worker EXCEPT ![w] = Idle]
      \/ \E t : t.job = worker[w].job /\ worker' = [worker EXCEPT ![w] = t]
  <2>1. CASE UpdateProgress(w)
    BY <2>1, ReportsRise
  <2>2. CASE Detect(w)
    BY <2>2 DEF Detect
  <2>3. CASE LookUpToken(w)
    BY <2>3 DEF LookUpToken, Unresolved, TaskPc
  <2> QED BY <2>1, <2>2, <2>3 DEF TaskStep, Die, MarkRunning, FindCandidate, AskFails,
             CreateLog, Finish, FailJob, TaskPc
<1>4. CASE \E next \in TaskPc : TaskGoto(w, next)
  BY <1>0, <1>1, <1>2, <1>4, TaskGotoFields
<1>5. CASE worker' = [worker EXCEPT ![w] = Idle]
  BY <1>1, <1>2, <1>5, TaskEnds
<1>6. CASE \E t : t.job = worker[w].job /\ worker' = [worker EXCEPT ![w] = t]
  BY <1>1, <1>2, <1>6 DEF TypeOK
<1> QED BY <1>3, <1>4, <1>5, <1>6

(* The invariant of the job that worker w executes, seen from w.           *)
LEMMA OwnTask ==
    ASSUME IInv, NEW w \in Workers, worker[w] \in Task,
           NEW r \in Requests, r = worker[w].job
    PROVE  /\ pc[r] \notin Unsent
           /\ JobInv(r)
           /\ job[r] \in JobRow
           /\ job[r].status # "absent"
           /\ Once(r) => /\ copies[r] = 0
                         /\ \A v \in Workers : worker[v].job = r => v = w
                         /\ TaskRows(r, worker[w])
BY DEF IInv, JobInv, TaskInv, SenderInv, MessageInv, TypeOK

(* A step after which w still executes r and that writes neither its       *)
(* result nor its history keeps the invariant of r ...                     *)
LEMMA TaskMoves ==
    ASSUME NEW w \in Workers, NEW r \in Requests, JobInv(r),
           worker[w].job = r, worker[w].pc # "finish",
           UNCHANGED <<pc, copies, redelivered, registered, result, log>>,
           \A v \in Workers \ {w} : worker'[v] = worker[v],
           worker'[w].job = r, worker'[w].pc \notin {"loaded", "finish"},
           worker'[w].outcome = "verified" => worker[w].outcome = "verified" \/ Known(r),
           job'[r].status # "absent",
           Once(r) => /\ job'[r].status = "running"
                      /\ job'[r].progress <= Reached(r, worker'[w].pc)
    PROVE  JobInv(r)'
<1>1. pc[r] \notin Unsent
  BY DEF JobInv, SenderInv
<1>2. Once(r) => /\ copies[r] = 0 /\ log[r] = <<>>
                 /\ \A v \in Workers : worker[v].job = r => v = w
  BY DEF JobInv, TaskInv, TaskRows
<1>3. SenderInv(r)' /\ WaitingInv(r)' /\ MessageInv(r)'
  BY <1>1, <1>2 DEF SenderInv, WaitingInv, MessageInv, Unsent, Once
<1>4. TaskInv(r)'
  <2>1. Once(r) => TaskRows(r, worker[w])'
    BY <1>2 DEF TaskRows, Reached, IsDocument
  <2> QED BY <1>2, <2>1 DEF TaskInv, Once
<1>5. ResultInv(r)'
  <2>1. Len(<<>>) = 0
    OBVIOUS
  <2> QED BY <1>2, <2>1 DEF ResultInv, Once
<1>6. BudgetInv(r)'
  <2>1. \A v \in Workers : Pending(v, r)' => Pending(v, r)
    BY DEF Pending
  <2> QED BY <2>1, BudgetKept DEF JobInv
<1>7. VerifiedInv(r)'
  <2>1. \A v \in Workers : worker'[v].job = r /\ worker'[v].outcome = "verified" =>
               Known(r) \/ (worker[v].job = r /\ worker[v].outcome = "verified")
    OBVIOUS
  <2> QED BY <2>1, VerifiedKept DEF JobInv, VerifiedInv
<1> QED BY <1>3, <1>4, <1>5, <1>6, <1>7 DEF JobInv

(* ... and so does one that ends the execution, if job and history agree.  *)
LEMMA TaskStops ==
    ASSUME NEW w \in Workers, NEW r \in Requests, JobInv(r),
           worker[w].job = r,
           UNCHANGED <<pc, copies, redelivered, registered, log>>,
           result'[r] = result[r] \/ result'[r] = worker[w].outcome,
           \A v \in Workers \ {w} : worker'[v] = worker[v],
           worker'[w].job # r,
           job'[r].status # "absent",
           Once(r) => ResultInv(r)'
    PROVE  JobInv(r)'
<1>1. pc[r] \notin Unsent
  BY DEF JobInv, SenderInv
<1>2. Once(r) => /\ copies[r] = 0
                 /\ \A v \in Workers : worker[v].job = r => v = w
  BY DEF JobInv, TaskInv
<1>3. SenderInv(r)' /\ WaitingInv(r)' /\ TaskInv(r)' /\ ResultInv(r)' /\ MessageInv(r)'
  BY <1>1, <1>2 DEF SenderInv, WaitingInv, TaskInv, ResultInv, MessageInv, Unsent, Once
<1>4. BudgetInv(r)'
  <2>1. \A v \in Workers : Pending(v, r)' => Pending(v, r)
    BY DEF Pending
  <2> QED BY <2>1, BudgetKept DEF JobInv
<1>5. VerifiedInv(r)'
  <2>1. \A v \in Workers : worker'[v].job = r /\ worker'[v].outcome = "verified" =>
               Known(r) \/ (worker[v].job = r /\ worker[v].outcome = "verified")
    OBVIOUS
  <2>2. result'[r] = "verified" => result[r] = "verified" \/ Known(r)
    BY DEF JobInv, VerifiedInv
  <2> QED BY <2>1, <2>2, VerifiedKept DEF JobInv, VerifiedInv
<1> QED BY <1>3, <1>4, <1>5 DEF JobInv

(* The one step that writes the history.                                   *)
LEMMA CreateLogInv ==
    ASSUME IInv, NEW w \in Workers, CreateLog(w), NEW r \in Requests, r = worker[w].job
    PROVE  JobInv(r)'
<1>0. /\ worker[w] \in Task /\ worker[w].pc = "log" /\ TypeOK
      /\ log[r] \in Seq(Outcome) /\ copies[r] \in Nat /\ Len(log[r]) \in Nat
  <2>1. TaskStep(w)
    BY DEF TaskStep
  <2>2. worker[w] \in Task /\ log[r] \in Seq(Outcome)
    BY <2>1, BusyWorker DEF IInv, TypeOK
  <2> QED BY <2>2 DEF IInv, TypeOK, CreateLog
<1>1. /\ pc[r] \notin Unsent /\ JobInv(r) /\ job[r].status # "absent"
      /\ Once(r) => /\ copies[r] = 0
                    /\ \A v \in Workers : worker[v].job = r => v = w
                    /\ TaskRows(r, worker[w])
  BY <1>0, OwnTask
<1>2. /\ UNCHANGED <<pc, job, result, registered, copies, redelivered, lost>>
      /\ log'[r] = Append(log[r], worker[w].outcome)
      /\ worker'[w].pc = "finish" /\ worker'[w].job = r
      /\ worker'[w].outcome = worker[w].outcome
      /\ \A v \in Workers \ {w} : worker'[v] = worker[v]
  BY <1>0, TaskGotoFields DEF CreateLog, TypeOK, TaskPc, queue
<1>3. /\ Len(log'[r]) = Len(log[r]) + 1
      /\ \A i \in 1..Len(log'[r]) : log'[r][i] = IF i <= Len(log[r]) THEN log[r][i]
                                                 ELSE worker[w].outcome
  BY <1>0, <1>2
<1>4. Once(r) => log'[r] = <<worker[w].outcome>> /\ Len(log[r]) = 0
  <2>1. Once(r) => log[r] = <<>>
    BY <1>0, <1>1 DEF TaskRows
  <2>2. Len(<<>>) = 0 /\ Append(<<>>, worker[w].outcome) = <<worker[w].outcome>>
    OBVIOUS
  <2> QED BY <1>2, <2>1, <2>2
<1>5. SenderInv(r)' /\ WaitingInv(r)' /\ MessageInv(r)'
  BY <1>1, <1>2 DEF SenderInv, WaitingInv, MessageInv, Unsent, Once
<1>6. TaskInv(r)'
  <2>1. Once(r) => job[r].status = "running" /\ job[r].progress <= 100
    BY <1>0, <1>1 DEF TaskRows, Reached
  <2>2. Once(r) => TaskRows(r, worker[w])'
    BY <1>2, <1>4, <2>1 DEF TaskRows, Reached
  <2> QED BY <1>1, <1>2, <2>2 DEF TaskInv, Once
<1>7. ResultInv(r)'
  <2>1. Once(r) => job[r].status = "running"
    BY <1>0, <1>1 DEF TaskRows
  <2> QED BY <1>2, <1>3, <1>4, <2>1 DEF ResultInv, Once, Executing
<1>8. BudgetInv(r)'
  <2>1. Pending(w, r) /\ BudgetInv(r)
    BY <1>0, <1>1 DEF Pending, JobInv
  <2>2. copies'[r] + Len(log'[r]) = copies[r] + Len(log[r]) + 1
    BY <1>0, <1>2, <1>3
  <2>3. \A v \in Workers : Pending(v, r)' => v # w /\ Pending(v, r)
    BY <1>2 DEF Pending
  <2>4. copies[r] + Len(log[r]) <= 1
    BY <2>1 DEF BudgetInv
  <2>5. \A v \in Workers : Pending(v, r)' => copies[r] + Len(log[r]) = 0
    BY <2>1, <2>3 DEF BudgetInv
  <2>6. \A u, v \in Workers : Pending(u, r)' /\ Pending(v, r)' => u = v
    BY <2>1, <2>3 DEF BudgetInv
  <2>7. copies[r] + Len(log[r]) \in Nat
    BY <1>0
  <2> HIDE DEF Pending
  <2> QED BY <2>2, <2>4, <2>5, <2>6, <2>7 DEF BudgetInv
<1>9. VerifiedInv(r)'
  <2>1. worker[w].outcome = "verified" => Known(r)
    BY <1>1 DEF JobInv, VerifiedInv
  <2>2. \A i \in 1..Len(log[r]) : log[r][i] = "verified" => Known(r)
    BY <1>1 DEF JobInv, VerifiedInv
  <2>3. \A i \in 1..Len(log'[r]) : log'[r][i] = "verified" => Known(r)
    BY <1>0, <1>3, <2>1, <2>2
  <2> QED BY <1>1, <1>2, <2>3 DEF JobInv, VerifiedInv, Known
<1> QED BY <1>5, <1>6, <1>7, <1>8, <1>9 DEF JobInv

(* No step of a task breaks the invariant of any job.                      *)
LEMMA TaskStepInv ==
    ASSUME IInv, NEW w \in Workers, TaskStep(w) \/ Die(w), NEW r \in Requests
    PROVE  JobInv(r)'
<1>0. /\ TypeOK /\ JobInv(r)
      /\ worker[w] \in Task /\ worker[w].progress \in 0..100
      /\ UNCHANGED <<pc, copies, redelivered, registered>>
      /\ \A v \in Workers \ {w} : worker'[v] = worker[v]
      /\ r \in registered => r \in Marked
      /\ r \in lost => r \in lost'
      /\ job \in [Requests -> JobRow] /\ result \in [Requests -> Outcome \cup {"none"}]
  BY BusyWorker, TaskLeaves DEF IInv, JobInv, VerifiedInv, TypeOK
<1>1. CASE r # worker[w].job
  <2>1. /\ job'[r] = job[r] /\ result'[r] = result[r] /\ log'[r] = log[r]
        /\ worker'[w].job # r
    BY <1>0, <1>1, TaskLeaves
  <2> QED BY <1>0, <1>1, <2>1, Frame
<1>2. CASE r = worker[w].job
  <2>0. /\ job[r] \in JobRow /\ job[r].progress \in 0..100
        /\ job[r].status # "absent"
        /\ Once(r) => /\ copies[r] = 0
                      /\ \A v \in Workers : worker[v].job = r => v = w
                      /\ TaskRows(r, worker[w])
    BY <1>0, <1>2, OwnTask DEF JobRow
  <2>1. CASE MarkRunning(w)
    <3>1. /\ worker'[w].pc = "start" /\ worker'[w].job = r
          /\ worker'[w].outcome = worker[w].outcome
          /\ job'[r] = Running(job[r], worker[w].progress)
          /\ worker[w].pc = "loaded"
          /\ UNCHANGED <<result, log>>
      BY <1>0, <1>2, <2>1, TaskGotoFields DEF MarkRunning, TaskPc
    <3>2. /\ job'[r].status = "running"
          /\ job'[r].progress = IF worker[w].progress > 10 THEN worker[w].progress ELSE 10
      BY <3>1 DEF Running
    <3>3. Once(r) => job'[r].progress <= Reached(r, worker'[w].pc)
      BY <2>0, <3>1, <3>2 DEF TaskRows, Reached
    <3> QED BY <1>0, <1>2, <3>1, <3>2, <3>3, TaskMoves
  <2>2. CASE UpdateProgress(w)
    <3>1. PICK p \in 0..100, next \in TaskPc :
              /\ job' = [job EXCEPT ![r] = AtProgress(job[r], p)]
              /\ TaskGoto(w, next)
              /\ Reports(r, worker[w].pc, p, next)
      BY <1>2, <2>2, ReportsRise
    <3>2. /\ worker'[w].pc = next /\ worker'[w].job = r
          /\ worker'[w].outcome = worker[w].outcome
          /\ UNCHANGED <<result, log>>
      BY <1>0, <1>2, <2>2, <3>1, TaskGotoFields DEF UpdateProgress
    <3>3. job'[r].status = job[r].status /\ job'[r].progress = p
      BY <1>0, <2>0, <3>1, RowFields
    <3>4. /\ worker[w].pc \notin {"loaded", "finish"} /\ next \notin {"loaded", "finish"}
          /\ p <= Reached(r, next)
      BY <3>1 DEF Reports
    <3>5. Once(r) => job[r].status = "running"
      BY <2>0, <3>4 DEF TaskRows
    <3> QED BY <1>0, <1>2, <2>0, <3>2, <3>3, <3>4, <3>5, TaskMoves
  <2>3. CASE Detect(w)
    <3>1. /\ worker'[w].pc = "read" /\ worker'[w].job = r
          /\ worker'[w].outcome = "candidate"
          /\ worker[w].pc = "detect"
          /\ UNCHANGED <<job, result, log>>
      BY <1>0, <1>2, <2>3 DEF Detect, TypeOK, rows
    <3>2. Once(r) => job[r].status = "running" /\ job[r].progress <= Reached(r, "read")
      BY <2>0, <3>1 DEF TaskRows, Reached
    <3> QED BY <1>0, <1>2, <2>0, <3>1, <3>2, TaskMoves
  <2>4. CASE LookUpToken(w)
    <3>0. worker[w].pc = "chain" /\ UNCHANGED <<job, result, log>>
      BY <2>4 DEF LookUpToken, rows
    <3>1. \/ /\ Known(r) /\ worker'[w].pc = "compose" /\ worker'[w].job = r
          \/ /\ worker'[w].pc = Unresolved(r) /\ worker'[w].job = r
             /\ worker'[w].outcome = worker[w].outcome
      <4>1. CASE r \in registered
        BY <1>0, <1>2, <2>4, <4>1 DEF LookUpToken, TypeOK, Known
      <4>2. CASE r \notin registered
        <5>1. TaskGoto(w, Unresolved(r)) /\ Unresolved(r) \in TaskPc
          BY <1>2, <2>4, <4>2 DEF LookUpToken, Unresolved, TaskPc
        <5> QED BY <1>0, <1>2, <5>1, TaskGotoFields
      <4> QED BY <4>1, <4>2
    <3>2. Once(r) => /\ job[r].status = "running"
                     /\ job[r].progress <= Reached(r, "compose")
                     /\ job[r].progress <= Reached(r, Unresolved(r))
      <4>1. Once(r) => /\ job[r].status = "running"
                       /\ job[r].progress <= IF IsDocument(r) THEN 74 ELSE 72
        BY <2>0, <3>0 DEF TaskRows, Reached
      <4> QED BY <2>0, <4>1 DEF Reached, Unresolved
    <3>3. Unresolved(r) \notin {"loaded", "finish"}
      BY DEF Unresolved
    <3> QED BY <1>0, <1>2, <2>0, <3>0, <3>1, <3>2, <3>3, TaskMoves
  <2>5. CASE FindCandidate(w) \/ AskFails(w)
    <3>1. PICK next \in {"compose", "failJob"} :
              /\ worker'[w].pc = next /\ worker'[w].job = r
              /\ worker'[w].outcome = worker[w].outcome
              /\ worker[w].pc \in {"detect", "chain", "guard"}
              /\ next = "compose" => worker[w].pc = "guard"
      <4>1. CASE FindCandidate(w)
        BY <1>0, <1>2, <4>1, TaskGotoFields DEF FindCandidate, TaskPc
      <4>2. CASE AskFails(w)
        BY <1>0, <1>2, <4>2, TaskGotoFields DEF AskFails, TaskPc
      <4> QED BY <2>5, <4>1, <4>2
    <3>2. UNCHANGED <<job, result, log>>
      BY <2>5 DEF FindCandidate, AskFails, rows
    <3>3. Once(r) => job[r].status = "running" /\ job[r].progress <= Reached(r, next)
      <4>1. Once(r) => /\ job[r].status = "running"
                       /\ next = "compose" => job[r].progress <= 72
        BY <2>0, <3>1 DEF TaskRows, Reached
      <4> QED BY <2>0, <4>1 DEF Reached
    <3> QED BY <1>0, <1>2, <2>0, <3>1, <3>2, <3>3, TaskMoves
  <2>6. CASE CreateLog(w)
    BY <1>2, <2>6, CreateLogInv
  <2>7. CASE Finish(w)
    <3>1. /\ worker'[w].job # r /\ worker[w].pc = "finish"
          /\ job'[r] = Succeeded(job[r]) /\ result'[r] = worker[w].outcome
          /\ UNCHANGED log
      BY <1>0, <1>2, <2>7, TaskEnds DEF Finish
    <3>2. job'[r].status = "success"
      BY <2>0, <3>1, RowFields
    <3>3. Once(r) => log[r] = <<worker[w].outcome>>
      BY <2>0, <3>1 DEF TaskRows
    <3>4. Len(<<worker[w].outcome>>) = 1
      OBVIOUS
    <3>5. Once(r) => log'[r] = <<result'[r]>> /\ Len(log'[r]) = 1
      BY <3>1, <3>3, <3>4
    <3>6. Once(r) => ResultInv(r)'
      <4>1. \A n : n = 1 => n <= 1
        OBVIOUS
      <4>2. job'[r].status # "failure"
        BY <3>2
      <4> QED BY <3>2, <3>5, <4>1, <4>2, Zenon DEF ResultInv
    <3> QED BY <1>0, <1>2, <3>1, <3>2, <3>6, TaskStops
  <2>8. CASE FailJob(w)
    <3>1. /\ worker'[w].job # r /\ worker[w].pc = "failJob"
          /\ job'[r] = Failed(job[r])
          /\ UNCHANGED <<result, log>>
      BY <1>0, <1>2, <2>8, TaskEnds DEF FailJob
    <3>2. job'[r].status = "failure"
      BY <2>0, <3>1, RowFields
    <3>3. Len(<<>>) = 0
      OBVIOUS
    <3>4. Once(r) => ResultInv(r)'
      BY <2>0, <3>1, <3>2, <3>3 DEF ResultInv, TaskRows
    <3> QED BY <1>0, <1>2, <3>1, <3>2, <3>4, TaskStops
  <2>9. CASE Die(w)
    <3>1. /\ worker'[w].job # r /\ r \in lost'
          /\ UNCHANGED <<job, result, log>>
      BY <1>0, <1>2, <2>9, TaskEnds DEF Die, rows
    <3>2. Once(r) => ResultInv(r)'
      BY <1>0, <3>1 DEF JobInv, ResultInv, Once
    <3> QED BY <1>0, <1>2, <2>0, <3>1, <3>2, TaskStops
  <2> QED BY <2>1, <2>2, <2>3, <2>4, <2>5, <2>6, <2>7, <2>8, <2>9 DEF TaskStep
<1> QED BY <1>1, <1>2

(* Taking a message: the task starts with the row as it is stored, and its *)
(* message is gone.                                                        *)
LEMMA TakeMessageInv ==
    ASSUME IInv, NEW w \in Workers, NEW q \in Requests, TakeMessage(w, q),
           NEW r \in Requests
    PROVE  JobInv(r)'
<1>1. /\ UNCHANGED <<pc, job, result, log, registered, redelivered, lost>>
      /\ worker[w].pc = "idle" /\ worker[w] = Idle
      /\ copies[q] > 0 /\ copies'[q] = copies[q] - 1
      /\ \A s \in Requests \ {q} : copies'[s] = copies[s]
      /\ worker'[w].job = q /\ worker'[w].pc = "loaded"
      /\ worker'[w].progress = job[q].progress /\ worker'[w].outcome = "candidate"
      /\ \A v \in Workers \ {w} : worker'[v] = worker[v]
  BY DEF TakeMessage, IInv, TypeOK, rows, Task, TaskPc
<1>2. \A s \in Requests : worker[w].job # s
  BY <1>1, VerifyAssumption DEF Idle
<1>3. /\ copies[r] \in Nat /\ Len(log[r]) \in Nat /\ JobInv(r)
      /\ r \in registered => r \in Marked
  BY DEF IInv, TypeOK, JobInv, VerifiedInv
<1>4. CASE r # q
  <2>1. /\ \A v \in Workers : worker'[v].job = r <=> worker[v].job = r
        /\ \A v \in Workers : worker[v].job = r => worker'[v] = worker[v]
        /\ copies'[r] = copies[r]
    BY <1>1, <1>2, <1>4
  <2> QED BY <1>1, <1>3, <2>1, Frame
<1>5. CASE r = q
  <2>1. pc[r] \notin Unsent /\ job[r].status # "absent"
    BY <1>1, <1>3, <1>5 DEF JobInv, SenderInv, MessageInv
  <2>2. Once(r) => /\ copies'[r] = 0 /\ job[r] = NewJob /\ log[r] = <<>>
                   /\ \A v \in Workers : worker'[v].job = r => v = w
    BY <1>1, <1>3, <1>5 DEF JobInv, WaitingInv
  <2>3. SenderInv(r)' /\ WaitingInv(r)' /\ MessageInv(r)'
    BY <1>1, <2>1, <2>2 DEF SenderInv, WaitingInv, MessageInv, Unsent, Once
  <2>4. TaskInv(r)'
    <3>1. Once(r) => TaskRows(r, worker[w])'
      BY <1>1, <1>5, <2>2 DEF TaskRows, NewJob
    <3> QED BY <1>1, <2>2, <3>1 DEF TaskInv, Once
  <2>5. ResultInv(r)'
    <3>1. Len(<<>>) = 0
      OBVIOUS
    <3> QED BY <1>1, <2>2, <3>1 DEF ResultInv, NewJob, Once
  <2>6. BudgetInv(r)'
    <3>1. \A v \in Workers \ {w} : Pending(v, r)' <=> Pending(v, r)
      BY <1>1 DEF Pending
    <3>2. copies'[r] + Len(log'[r]) = copies[r] + Len(log[r]) - 1
          /\ copies[r] + Len(log[r]) > 0
      BY <1>1, <1>3, <1>5
    <3>3. copies[r] + Len(log[r]) <= 2 /\ copies[r] + Len(log[r]) \in Nat
      BY <1>3 DEF JobInv, BudgetInv
    <3>4. \A v \in Workers \ {w} : Pending(v, r)' => copies'[r] + Len(log'[r]) = 0
      BY <1>3, <3>1, <3>2, <3>3 DEF JobInv, BudgetInv
    <3>5. \A u, v \in Workers \ {w} : Pending(u, r)' /\ Pending(v, r)' => u = v
      BY <1>3, <3>1, <3>2 DEF JobInv, BudgetInv
    <3>6. copies'[r] + Len(log'[r]) <= 2 /\ copies'[r] + Len(log'[r]) <= 1
      <4>1. copies'[r] = copies[r] - 1 /\ log'[r] = log[r]
        BY <1>1, <1>5
      <4> QED BY <1>3, <3>3, <4>1
    <3>7. \A t, u, v \in Workers : Pending(t, r)' /\ Pending(u, r)' /\ Pending(v, r)'
                => t = u \/ u = v \/ t = v
      BY <3>5
    <3>8. \A u, v \in Workers : u # v /\ Pending(u, r)' /\ Pending(v, r)'
                => copies'[r] + Len(log'[r]) = 0
      BY <3>4, Zenon
    <3> QED BY <3>6, <3>7, <3>8, Zenon DEF BudgetInv
  <2>7. VerifiedInv(r)'
    BY <1>1, <1>3, VerifiedKept DEF JobInv
  <2> QED BY <2>3, <2>4, <2>5, <2>6, <2>7 DEF JobInv
<1> QED BY <1>4, <1>5

(* A second delivery lifts the promises that hold for one delivery, and a  *)
(* token that is minted meanwhile takes none away.                         *)
LEMMA OutsideInv ==
    ASSUME IInv, NEW q \in Requests, Redeliver(q) \/ Register(q), NEW r \in Requests
    PROVE  JobInv(r)'
<1>0. /\ JobInv(r) /\ UNCHANGED <<pc, job, result, log, worker, lost>>
      /\ r \in registered => r \in Marked
      /\ copies \in [Requests -> Nat]
  BY DEF IInv, JobInv, VerifiedInv, TypeOK, Redeliver, Register, rows, queue
<1>1. CASE Register(q)
  <2>1. /\ UNCHANGED <<copies, redelivered>>
        /\ r \in registered => r \in registered'
        /\ r \in registered' => r \in Marked
    BY <1>0, <1>1 DEF Register, queue
  <2> QED BY <1>0, <2>1, Frame
<1>2. CASE Redeliver(q)
  <2>1. /\ UNCHANGED registered
        /\ copies[q] = 1 /\ copies'[q] = 2 /\ q \notin redelivered
        /\ \A s \in Requests \ {q} : copies'[s] = copies[s]
        /\ redelivered' = redelivered \cup {q}
    BY <1>0, <1>2 DEF Redeliver
  <2>2. CASE r # q
    BY <1>0, <2>1, <2>2, Frame
  <2>3. CASE r = q
    <3>1. /\ ~Once(r)' /\ pc[r] \notin Unsent
          /\ log[r] = <<>> /\ job[r] = NewJob
          /\ \A w \in Workers : worker[w].job # r
      BY <1>0, <2>1, <2>3 DEF Once, JobInv, WaitingInv, SenderInv
    <3>2. Len(<<>>) = 0 /\ NewJob.status # "absent"
      BY DEF NewJob
    <3>3. SenderInv(r)' /\ WaitingInv(r)' /\ TaskInv(r)' /\ ResultInv(r)' /\ MessageInv(r)'
      BY <1>0, <2>1, <3>1, <3>2 DEF SenderInv, WaitingInv, TaskInv, ResultInv,
         MessageInv, Unsent
    <3>4. BudgetInv(r)'
      BY <1>0, <2>1, <2>3, <3>1, <3>2 DEF BudgetInv, Pending
    <3>5. VerifiedInv(r)'
      BY <1>0, <2>1, VerifiedKept DEF JobInv
    <3> QED BY <3>3, <3>4, <3>5 DEF JobInv
  <2> QED BY <2>2, <2>3
<1> QED BY <1>1, <1>2

(* IInv is inductive ...                                                   *)
LEMMA InvStep == IInv /\ [Next]_vars => IInv'
<1> SUFFICES ASSUME IInv, [Next]_vars PROVE IInv'
  OBVIOUS
<1>1. TypeOK'
  BY TypeStep DEF IInv
<1>2. ASSUME NEW r \in Requests PROVE JobInv(r)'
  <2>1. CASE Next
    BY <2>1, PostInv, TaskStepInv, TakeMessageInv, OutsideInv DEF Next
  <2>2. CASE UNCHANGED vars
    <3>1. r \in registered => r \in Marked
      BY DEF IInv, JobInv, VerifiedInv
    <3> QED BY <2>2, <3>1, Frame DEF IInv, vars, rows, queue
  <2> QED BY <2>1, <2>2
<1> QED BY <1>1, <1>2 DEF IInv

(* ... and holds before the first request.                                 *)
LEMMA InvInit == Init => IInv
<1> SUFFICES ASSUME Init PROVE IInv
  OBVIOUS
<1>1. ASSUME NEW r \in Requests PROVE JobInv(r)
  <2>1. /\ pc[r] = "idle" /\ job[r] = NoJob /\ result[r] = "none"
        /\ log[r] = <<>> /\ copies[r] = 0 /\ registered \subseteq Marked
        /\ \A w \in Workers : worker[w].job # r
    BY VerifyAssumption DEF Init, Idle
  <2>2. Len(<<>>) = 0 /\ NoJob.status = "absent"
    BY DEF NoJob
  <2> QED BY <2>1, <2>2 DEF JobInv, SenderInv, WaitingInv, TaskInv, ResultInv,
             MessageInv, BudgetInv, Pending, VerifiedInv
<1> QED BY <1>1, TypeInit DEF IInv

(* So it holds in every reachable state.                                   *)
THEOREM Invariance == Spec => []IInv
BY InvInit, InvStep, PTL DEF Spec

-----------------------------------------------------------------------------
(* HistoryAgreement: for any number of requests and workers, the history   *)
(* has the entry of a finished verification exactly once, and an entry     *)
(* without a success only while its task finishes or after its death.      *)
THEOREM HistoryAgrees == Spec => []HistoryAgreement
<1>1. ASSUME IInv PROVE HistoryAgreement
  <2>1. ASSUME NEW r \in Requests
        PROVE  /\ Len(log[r]) <= IF Once(r) THEN 1 ELSE 2
               /\ log[r] # <<>> => job[r] # NoJob
    <3>1. JobInv(r) /\ copies[r] \in Nat /\ Len(log[r]) \in Nat /\ NoJob.status = "absent"
      BY <1>1 DEF IInv, TypeOK, NoJob
    <3> QED BY <3>1 DEF JobInv, ResultInv, BudgetInv, MessageInv
  <2> QED BY <1>1, <2>1 DEF IInv, JobInv, ResultInv, HistoryAgreement
<1> QED BY <1>1, Invariance, PTL

(* VerifiedIsRegistered: whatever is delivered twice and whoever dies, a   *)
(* file is called verified only if its watermark has a token on the chain. *)
THEOREM VerifiedHasToken == Spec => []VerifiedIsRegistered
<1>1. IInv => VerifiedIsRegistered
  BY DEF IInv, JobInv, VerifiedInv, Known, VerifiedIsRegistered
<1> QED BY <1>1, Invariance, PTL

-----------------------------------------------------------------------------
(* A step that writes a job row is one of the lifecycle's actions.         *)
LEMMA StepImplements ==
    ASSUME IInv, Next, NEW r \in Requests, Once(r)
    PROVE  Lifecycle(r)!Next \/ UNCHANGED job[r]
<1>0. /\ TypeOK /\ JobInv(r) /\ job[r] \in JobRow /\ job[r].progress \in 0..100
  BY DEF IInv, TypeOK, JobRow
<1> SUFFICES ASSUME job'[r] # job[r]
             PROVE  Lifecycle(r)!Next
  OBVIOUS
<1>1. CASE CreateJob(r)
  <2>1. job[r] = NoJob /\ job'[r] = NewJob
    BY <1>0, <1>1 DEF CreateJob, JobInv, SenderInv, TypeOK
  <2> QED BY <2>1 DEF Lifecycle!Next, Lifecycle!Create, Lifecycle!NoJob,
         Lifecycle!NewJob, NoJob, NewJob
<1>2. CASE \E w \in Workers : TaskStep(w)
  <2>1. PICK w \in Workers : TaskStep(w)
    BY <1>2
  <2>2. r = worker[w].job
    BY <1>0, <2>1, TaskLeaves
  <2>3. worker[w] \in Task /\ TaskRows(r, worker[w]) /\ job \in [Requests -> JobRow]
    BY <1>0, <2>1, <2>2, BusyWorker, OwnTask DEF TypeOK
  <2>4. CASE MarkRunning(w)
    <3>1. job'[r] = Running(job[r], job[r].progress) /\ job[r].status = "queued"
      BY <2>2, <2>3, <2>4 DEF MarkRunning, TaskRows, NewJob
    <3> QED BY <3>1 DEF Lifecycle!Next, Lifecycle!Start, Lifecycle!Running, Running
  <2>5. CASE UpdateProgress(w)
    <3>1. PICK p \in 0..100, next \in TaskPc :
              /\ job' = [job EXCEPT ![r] = AtProgress(job[r], p)]
              /\ Reports(r, worker[w].pc, p, next)
      BY <2>2, <2>5, ReportsRise
    <3>2. /\ worker[w].pc # "loaded" /\ Reached(r, worker[w].pc) <= p
          /\ Reached(r, worker[w].pc) \in 0..100
      BY <3>1, ReachedRange DEF Reports
    <3>3. job[r].status = "running" /\ job[r].progress <= p
      <4>1. job[r].status = "running" /\ job[r].progress <= Reached(r, worker[w].pc)
        BY <2>3, <3>2 DEF TaskRows
      <4> QED BY <1>0, <3>2, <4>1
    <3>4. job'[r] = AtProgress(job[r], p)
      BY <2>3, <3>1
    <3> QED BY <1>0, <3>3, <3>4 DEF Lifecycle!Next, Lifecycle!Advance,
           Lifecycle!AtProgress, AtProgress
  <2>6. CASE Finish(w)
    <3>1. job'[r] = Succeeded(job[r]) /\ job[r].status = "running"
      BY <2>2, <2>3, <2>6 DEF Finish, TaskRows
    <3> QED BY <3>1 DEF Lifecycle!Next, Lifecycle!Succeed, Lifecycle!Succeeded, Succeeded
  <2>7. CASE FailJob(w)
    <3>1. job'[r] = Failed(job[r]) /\ job[r].status = "running"
      BY <2>2, <2>3, <2>7 DEF FailJob, TaskRows
    <3> QED BY <3>1 DEF Lifecycle!Next, Lifecycle!Fail, Lifecycle!Failed, Failed
  <2> QED BY <2>1, <2>4, <2>5, <2>6, <2>7 DEF TaskStep, Detect, LookUpToken,
             FindCandidate, AskFails, CreateLog, rows
<1>3. ~CreateJob(r) => \E w \in Workers : TaskStep(w)
  <2>1. ASSUME NEW q \in Requests, CreateJob(q) PROVE q = r
    BY <1>0, <2>1 DEF CreateJob, TypeOK
  <2> QED BY <2>1 DEF Next, Post, PostStep, Upload, Enqueue, SaveTaskId, Abort,
             Redeliver, Register, TakeMessage, Die, rows
<1> QED BY <1>1, <1>2, <1>3

(* ImplementsLifecycle: for any number of requests and workers, a          *)
(* verification delivered once starts once, never reports less progress    *)
(* than before, in either workflow, and never takes back its result.       *)
THEOREM LifecycleImplemented == Spec => ImplementsLifecycle
<1>1. IInv /\ [Next]_vars =>
        [\A r \in Requests :
            Once(r) => Lifecycle(r)!Next \/ UNCHANGED job[r]]_vars
  BY StepImplements
<1> QED BY <1>1, Invariance, PTL DEF Spec, ImplementsLifecycle
=============================================================================
