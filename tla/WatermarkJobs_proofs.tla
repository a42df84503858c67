------------------------ MODULE WatermarkJobs_proofs ------------------------
(***************************************************************************)
(* Proofs about WatermarkJobs, for any sets of requests, contents and      *)
(* workers, any number of second deliveries and of repeated analyses.      *)
(***************************************************************************)
EXTENDS WatermarkJobs, TLAPS

(* The task helpers of analysis/tasks.py keep an AIJob row well-formed; in *)
(* particular the progress stays within the range its column can hold.     *)
LEMMA RowsStayTyped ==
    /\ NoJob \in JobRow
    /\ NewJob \in JobRow
    /\ \A row \in JobRow, p \in Nat : AtProgress(row, p) \in JobRow
    /\ \A row \in JobRow, p \in 0..100 : Running(row, p) \in JobRow
    /\ \A row \in JobRow : Succeeded(row) \in JobRow
    /\ \A row \in JobRow : Failed(row) \in JobRow
<1>1. NoJob \in JobRow /\ NewJob \in JobRow
  BY DEF JobRow, JobStatus, NoJob, NewJob
<1>2. \A row \in JobRow, p \in Nat : AtProgress(row, p) \in JobRow
  BY DEF JobRow, JobStatus, AtProgress
<1>3. \A row \in JobRow, p \in 0..100 : Running(row, p) \in JobRow
  BY DEF JobRow, JobStatus, Running
<1>4. \A row \in JobRow : Succeeded(row) \in JobRow /\ Failed(row) \in JobRow
  BY DEF JobRow, JobStatus, Succeeded, Failed
<1> QED BY <1>1, <1>2, <1>3, <1>4

(* What each write does to the status and the progress.                    *)
LEMMA RowFields ==
    /\ \A row \in JobRow, p \in 0..100 :
          /\ AtProgress(row, p).status = row.status
          /\ AtProgress(row, p).progress = p
          /\ Running(row, p).status = "running"
          /\ Running(row, p).progress = IF p > 10 THEN p ELSE 10
    /\ \A row \in JobRow : /\ Succeeded(row).status = "success"
                           /\ Failed(row).status = "failure"
    /\ NewJob.status = "queued" /\ NewJob.progress = 5
    /\ NoJob.status = "absent"
<1>1. \A row \in JobRow, p \in 0..100 :
         AtProgress(row, p).status = row.status /\ AtProgress(row, p).progress = p
  BY DEF JobRow, AtProgress
<1>2. \A row \in JobRow, p \in 0..100 :
         /\ Running(row, p).status = "running"
         /\ Running(row, p).progress = IF p > 10 THEN p ELSE 10
  BY DEF Running
<1>3. \A row \in JobRow : /\ Succeeded(row).status = "success"
                          /\ Failed(row).status = "failure"
  BY DEF Succeeded, Failed
<1>4. /\ NewJob.status = "queued" /\ NewJob.progress = 5
      /\ NoJob.status = "absent"
  BY DEF NewJob, NoJob
<1> QED BY <1>1, <1>2, <1>3, <1>4

(* Every write of a task but _mark_job_success ...                         *)
TaskWrite(row, new) ==
    \/ new = row
    \/ \E p \in 0..100 : new = AtProgress(row, p) \/ new = Running(row, p)
    \/ new = Failed(row)

(* ... leaves a row that is there, and makes none a success.               *)
LEMMA TaskWrites ==
    ASSUME NEW row \in JobRow, NEW new, TaskWrite(row, new)
    PROVE  /\ new.status = "success" => row.status = "success"
           /\ row.status # "absent" => new.status # "absent"
<1>1. ASSUME NEW p \in 0..100, new = AtProgress(row, p)
      PROVE  new.status = row.status
  BY <1>1, RowFields
<1>2. ASSUME NEW p \in 0..100, new = Running(row, p)
      PROVE  new.status = "running"
  BY <1>2, RowFields
<1>3. CASE new = Failed(row)
  BY <1>3, RowFields
<1> QED BY <1>1, <1>2, <1>3 DEF TaskWrite

-----------------------------------------------------------------------------
(* A worker that takes a step has a task, and its task names a request.    *)
LEMMA BusyWorker ==
    ASSUME TypeOK, NEW w \in Workers, TaskStep(w) \/ Die(w)
    PROVE  /\ worker[w] \in Task
           /\ worker[w].job \in Requests
           /\ worker[w].progress \in 0..100
<1>1. worker[w].pc # "idle"
  BY DEF TaskStep, Die, MarkRunning, UpdateProgress, Claim, BuildSource,
         SourceMissing, Embed, EmbedFails, Release, Index, IndexFails, Withdraw,
         Finish, FailJob
<1>2. worker[w] \in Task
  BY <1>1 DEF TypeOK, Idle
<1> QED BY <1>2 DEF Task

(* Moving a task on, or ending it, keeps the workers well-typed.           *)
LEMMA TaskTyped ==
    ASSUME TypeOK, NEW w \in Workers, worker[w] \in Task
    PROVE  /\ \A next \in TaskPc :
                [worker EXCEPT ![w].pc = next] \in [Workers -> Task \cup {Idle}]
           /\ [worker EXCEPT ![w] = Idle] \in [Workers -> Task \cup {Idle}]
<1>1. ASSUME NEW next \in TaskPc
      PROVE  [worker EXCEPT ![w].pc = next] \in [Workers -> Task \cup {Idle}]
  <2>1. [worker[w] EXCEPT !.pc = next] \in Task
    BY DEF Task
  <2> QED BY <2>1 DEF TypeOK
<1> QED BY <1>1 DEF TypeOK

(* A task that moves on keeps everything but its place.                    *)
LEMMA TaskGotoFields ==
    ASSUME TypeOK, NEW w \in Workers, worker[w] \in Task, NEW next,
           TaskGoto(w, next)
    PROVE  /\ worker'[w].pc = next
           /\ worker'[w].job = worker[w].job
           /\ \A v \in Workers \ {w} : worker'[v] = worker[v]
BY DEF TypeOK, TaskGoto, Task

(* A worker whose task ended is on no job.                                 *)
LEMMA TaskEnds ==
    ASSUME TypeOK, NEW w \in Workers, worker' = [worker EXCEPT ![w] = Idle]
    PROVE  /\ worker'[w].pc = "idle"
           /\ \A r \in Requests : worker'[w].job # r
           /\ \A v \in Workers \ {w} : worker'[v] = worker[v]
BY WatermarkAssumption DEF TypeOK, Idle

(* What the steps of a task do to the worker that executes it, and the     *)
(* types of what they write.                                               *)
LEMMA TaskTypeStep ==
    ASSUME TypeOK, NEW w \in Workers, TaskStep(w) \/ Die(w),
           contentOf[worker[w].job] \in Contents
    PROVE  TypeOK'
<1> DEFINE r == worker[w].job
<1>0. /\ worker[w] \in Task
      /\ r \in Requests
      /\ worker[w].progress \in 0..100
      /\ ContentOf(w) \in Contents
  BY BusyWorker DEF ContentOf
<1> HIDE DEF r
<1>1. worker' \in [Workers -> Task \cup {Idle}]
  <2>1. \/ \E next \in TaskPc : TaskGoto(w, next)
        \/ worker' = [worker EXCEPT ![w] = Idle]
    BY DEF TaskStep, Die, MarkRunning, UpdateProgress, Claim, BuildSource,
         SourceMissing, Embed, EmbedFails, Release, Index, IndexFails, Withdraw,
         Finish, FailJob, TaskPc, Claiming
  <2> QED BY <1>0, <2>1, TaskTyped DEF TaskGoto
<1>2. job' \in [Requests -> JobRow]
  <2>1. \/ UNCHANGED job
        \/ \E row \in JobRow : job' = [job EXCEPT ![r] = row]
    <3>1. job[r] \in JobRow
      BY <1>0 DEF TypeOK
    <3>2. CASE MarkRunning(w)
      BY <1>0, <3>1, <3>2, RowsStayTyped DEF MarkRunning, r
    <3>3. CASE UpdateProgress(w)
      BY <3>1, <3>3, RowsStayTyped DEF UpdateProgress, r
    <3>4. CASE Finish(w)
      BY <3>1, <3>4, RowsStayTyped DEF Finish, r
    <3>5. CASE FailJob(w)
      BY <3>1, <3>5, RowsStayTyped DEF FailJob, r
    <3> QED BY <3>2, <3>3, <3>4, <3>5 DEF TaskStep, Die, Claim, BuildSource,
         SourceMissing, Embed, EmbedFails, Release, Index, IndexFails, Withdraw, rows
  <2> QED BY <2>1 DEF TypeOK
<1>3. stage' \in [Contents -> Stage]
  <2>1. UNCHANGED stage \/ \E s \in Stage : Watermark(w, s)
    BY DEF TaskStep, Die, MarkRunning, UpdateProgress, Claim, BuildSource,
         SourceMissing, Embed, EmbedFails, Release, Index, IndexFails, Withdraw,
         Finish, FailJob, Stage, rows
  <2> QED BY <2>1 DEF TypeOK, Watermark
<1>4. /\ lost' \in SUBSET Requests
      /\ stuck' \in SUBSET Contents
      /\ unusable' \in SUBSET Contents
      /\ UNCHANGED <<posts, decision, later, queue, rerun>>
  BY <1>0 DEF TypeOK, r, TaskStep, Die, MarkRunning, UpdateProgress, Claim, BuildSource,
         SourceMissing, Embed, EmbedFails, Release, Index, IndexFails, Withdraw,
         Finish, FailJob, rows, history
<1> QED BY <1>1, <1>2, <1>3, <1>4 DEF TypeOK, posts, queue

-----------------------------------------------------------------------------
(* The inductive invariant.  OneEmbedder alone is not inductive: a second  *)
(* worker is kept out of an embedding by "processing", and out of the      *)
(* index update that follows it by "applied", so the invariant says which  *)
(* of the two a worker at each place relies on.                            *)

Unsent == {"idle", "completed", "checking", "creating", "recorded"}

OnJob(r) == \E w \in Workers : worker[w].job = r

\* Nothing runs or waits for a request that has not published its message.
SenderInv(r) ==
    /\ pc[r] # "idle" => contentOf[r] \in Contents
    /\ pc[r] \in Unsent \ {"recorded"} => job[r].status = "absent"
    /\ pc[r] = "recorded" => Created(r)
    /\ pc[r] \in Unsent => copies[r] = 0 /\ ~OnJob(r)
    /\ copies[r] > 0 \/ OnJob(r) => Created(r)

Indexing(w, c) == worker[w].pc \in {"index", "withdraw"} /\ ContentOf(w) = c
Done(w, c)     == worker[w].pc \in {"p90", "finish"} /\ ContentOf(w) = c
Won(r, c)      == job[r].status = "success" /\ contentOf[r] = c
Works(w, c)    == Holds(w, c) \/ Indexing(w, c)

Delivered(c) == stage[c] = "applied" \/ c \in unusable

ClaimInv(c) ==
    c \notin rerun =>
        /\ stage[c] = "processing" <=> c \in stuck \/ \E w \in Workers : Holds(w, c)
        /\ c \in stuck => \A w \in Workers : ~Works(w, c)
        /\ \A v, w \in Workers : Works(v, c) /\ Works(w, c) => v = w
        /\ \A w \in Workers : Indexing(w, c) => stage[c] = "applied"
        /\ \A w \in Workers : Done(w, c) => Delivered(c)
        /\ \A r \in Requests : Won(r, c) => Delivered(c)

IInv == /\ TypeOK
        /\ \A r \in Requests : SenderInv(r)
        /\ \A c \in Contents : ClaimInv(c)

(* A content whose row did not move, and whose workers entered no place    *)
(* that needs another value of it, keeps its invariant.                    *)
LEMMA ClaimFrame ==
    ASSUME NEW c \in Contents, ClaimInv(c),
           stage'[c] = stage[c],
           c \in stuck' <=> c \in stuck,
           c \in unusable => c \in unusable',
           c \in rerun => c \in rerun',
           \A w \in Workers : Holds(w, c)' <=> Holds(w, c),
           \A w \in Workers : Indexing(w, c)' => Indexing(w, c),
           \A w \in Workers : Done(w, c)' => Done(w, c) \/ Delivered(c),
           \A r \in Requests : Won(r, c)' => Won(r, c) \/ Delivered(c)
    PROVE  ClaimInv(c)'
BY DEF ClaimInv, Works, Delivered

(* The content of a worker's task, and what else its step leaves alone.    *)
LEMMA TaskLeaves ==
    ASSUME IInv, NEW w \in Workers, TaskStep(w) \/ Die(w)
    PROVE  /\ ContentOf(w) \in Contents
           /\ UNCHANGED <<pc, contentOf, copies, redelivered, rerun>>
           /\ \A v \in Workers \ {w} : worker'[v] = worker[v]
           /\ \/ worker'[w].job = worker[w].job
              \/ worker'[w].pc = "idle" /\ \A r \in Requests : worker'[w].job # r
           /\ \A r \in Requests : r # worker[w].job => job'[r] = job[r]
           /\ \A c \in Contents : c # ContentOf(w) =>
                 /\ stage'[c] = stage[c]
                 /\ c \in stuck' <=> c \in stuck
                 /\ c \in unusable' <=> c \in unusable
<1> USE DEF IInv
<1>0. /\ worker[w] \in Task
      /\ worker[w].job \in Requests
      /\ worker[w].job = worker[w].job /\ OnJob(worker[w].job)
  BY BusyWorker DEF OnJob
<1>1. ContentOf(w) \in Contents
  BY <1>0 DEF SenderInv, ContentOf, Unsent
<1>2. UNCHANGED <<pc, contentOf, copies, redelivered, rerun>>
  BY DEF TaskStep, Die, MarkRunning, UpdateProgress, Claim, BuildSource,
         SourceMissing, Embed, EmbedFails, Release, Index, IndexFails, Withdraw,
         Finish, FailJob, posts, queue, history
<1>3. /\ \A v \in Workers \ {w} : worker'[v] = worker[v]
      /\ \/ worker'[w].job = worker[w].job
         \/ worker'[w].pc = "idle" /\ \A r \in Requests : worker'[w].job # r
  <2>1. (\E next : TaskGoto(w, next)) \/ worker' = [worker EXCEPT ![w] = Idle]
    BY DEF TaskStep, Die, MarkRunning, UpdateProgress, Claim, BuildSource,
         SourceMissing, Embed, EmbedFails, Release, Index, IndexFails, Withdraw,
         Finish, FailJob
  <2> QED BY <1>0, <2>1, TaskGotoFields, TaskEnds
<1>4. \A r \in Requests : r # worker[w].job => job'[r] = job[r]
  BY <1>0 DEF TypeOK, TaskStep, Die, MarkRunning, UpdateProgress, Claim, BuildSource,
         SourceMissing, Embed, EmbedFails, Release, Index, IndexFails, Withdraw,
         Finish, FailJob, rows
<1>5. \A c \in Contents : c # ContentOf(w) => stage'[c] = stage[c]
  <2>1. UNCHANGED stage \/ \E s : Watermark(w, s)
    BY DEF TaskStep, Die, MarkRunning, UpdateProgress, Claim, BuildSource,
         SourceMissing, Embed, EmbedFails, Release, Index, IndexFails, Withdraw,
         Finish, FailJob, rows
  <2> QED BY <1>1, <2>1 DEF Watermark, TypeOK
<1>6. \A c \in Contents : c # ContentOf(w) =>
        (c \in stuck' <=> c \in stuck) /\ (c \in unusable' <=> c \in unusable)
  BY DEF TaskStep, Die, MarkRunning, UpdateProgress, Claim, BuildSource,
         SourceMissing, Embed, EmbedFails, Release, Index, IndexFails, Withdraw,
         Finish, FailJob, history
<1> QED BY <1>1, <1>2, <1>3, <1>4, <1>5, <1>6

(* Every step of a task but the last of a successful one writes its row    *)
(* with one of the writes that make no success.                            *)
LEMMA OtherWrites ==
    ASSUME TypeOK, NEW w \in Workers, TaskStep(w) \/ Die(w), ~Finish(w)
    PROVE  TaskWrite(job[worker[w].job], job'[worker[w].job])
<1>1. worker[w].job \in Requests /\ worker[w].progress \in 0..100
  BY BusyWorker
<1> QED BY <1>1 DEF TypeOK, TaskWrite, TaskStep, Die, MarkRunning, UpdateProgress,
           Claim, BuildSource, SourceMissing, Embed, EmbedFails, Release, Index,
           IndexFails, Withdraw, FailJob, rows

(* A step of a task keeps the invariant of every request ...               *)
LEMMA TaskSender ==
    ASSUME IInv, NEW w \in Workers, TaskStep(w) \/ Die(w), NEW r \in Requests
    PROVE  SenderInv(r)'
<1>1. /\ UNCHANGED <<pc, contentOf, copies>>
      /\ OnJob(r)' => OnJob(r)
  BY TaskLeaves DEF OnJob
<1>2. job[r].status # "absent" <=> job'[r].status # "absent"
  <2>1. CASE r # worker[w].job
    BY <2>1, TaskLeaves
  <2>2. CASE r = worker[w].job
    <3>1. job[r] \in JobRow /\ job[r].status # "absent" /\ worker[w].progress \in 0..100
      BY <2>2, BusyWorker DEF IInv, TypeOK, SenderInv, OnJob, Created
    <3>2. CASE Finish(w)
      BY <2>2, <3>1, <3>2, RowFields DEF Finish, IInv, TypeOK
    <3>3. CASE ~Finish(w)
      BY <2>2, <3>1, <3>3, OtherWrites, TaskWrites DEF IInv
    <3> QED BY <3>1, <3>2, <3>3
  <2> QED BY <2>1, <2>2
<1>3. SenderInv(r)
  BY DEF IInv
<1> QED BY <1>1, <1>2, <1>3 DEF SenderInv, Created

(* ... and of every content but the one it works on.                       *)
LEMMA TaskOther ==
    ASSUME IInv, NEW w \in Workers, TaskStep(w) \/ Die(w),
           NEW c \in Contents, c # ContentOf(w)
    PROVE  ClaimInv(c)'
<1>1. /\ \A v \in Workers : Holds(v, c)' <=> Holds(v, c)
      /\ \A v \in Workers : Indexing(v, c)' <=> Indexing(v, c)
      /\ \A v \in Workers : Done(v, c)' <=> Done(v, c)
  BY TaskLeaves DEF Holds, Indexing, Done, ContentOf, Claiming
<1>2. \A r \in Requests : Won(r, c)' <=> Won(r, c)
  BY TaskLeaves DEF Won, ContentOf
<1>3. ClaimInv(c) /\ UNCHANGED rerun
  BY TaskLeaves DEF IInv
<1> QED BY <1>1, <1>2, <1>3, TaskLeaves, ClaimFrame

(* The content it works on, one step at a time.                            *)
LEMMA TaskOwn ==
    ASSUME IInv, NEW w \in Workers, TaskStep(w) \/ Die(w),
           NEW c \in Contents, c = ContentOf(w)
    PROVE  ClaimInv(c)'
<1>0. /\ worker[w] \in Task
      /\ worker[w].job \in Requests
      /\ UNCHANGED <<contentOf, rerun>>
      /\ \A v \in Workers \ {w} : worker'[v] = worker[v]
      /\ ClaimInv(c)
      /\ TypeOK
      /\ \A r \in Requests : r # worker[w].job => job'[r] = job[r]
      /\ worker[w].progress \in 0..100
      /\ job[worker[w].job] \in JobRow
      /\ stage \in [Contents -> Stage]
  BY BusyWorker, TaskLeaves DEF IInv, TypeOK
\* What c looks like from the other workers does not change.
<1>1. \A v \in Workers \ {w} : /\ Holds(v, c)' <=> Holds(v, c)
                               /\ Indexing(v, c)' <=> Indexing(v, c)
                               /\ Done(v, c)' <=> Done(v, c)
  BY <1>0 DEF Holds, Indexing, Done, ContentOf
<1>2. /\ Holds(w, c) <=> worker[w].pc \in Claiming
      /\ Indexing(w, c) <=> worker[w].pc \in {"index", "withdraw"}
      /\ Done(w, c) <=> worker[w].pc \in {"p90", "finish"}
  BY DEF Holds, Indexing, Done
<1>3. ASSUME NEW next, TaskGoto(w, next)
      PROVE  /\ Holds(w, c)' <=> next \in Claiming
             /\ Indexing(w, c)' <=> next \in {"index", "withdraw"}
             /\ Done(w, c)' <=> next \in {"p90", "finish"}
  BY <1>0, <1>3, TaskGotoFields DEF Holds, Indexing, Done, ContentOf, Claiming
<1>4. ASSUME worker' = [worker EXCEPT ![w] = Idle]
      PROVE  ~Holds(w, c)' /\ ~Indexing(w, c)' /\ ~Done(w, c)'
  BY <1>0, <1>4, TaskEnds DEF Holds, Indexing, Done, Claiming
<1>5. ASSUME ~Finish(w)
      PROVE  \A r \in Requests : Won(r, c)' => Won(r, c)
  <2>1. TaskWrite(job[worker[w].job], job'[worker[w].job])
    BY <1>5, OtherWrites DEF IInv
  <2>2. job'[worker[w].job].status = "success" => job[worker[w].job].status = "success"
    BY <1>0, <2>1, TaskWrites
  <2> QED BY <1>0, <2>2 DEF Won
<1> DEFINE Same == /\ stage'[c] = stage[c]
                   /\ c \in stuck' <=> c \in stuck
                   /\ c \in unusable' <=> c \in unusable
<1>6. CASE MarkRunning(w)
  <2>1. Same /\ TaskGoto(w, "p25") /\ worker[w].pc = "loaded" /\ ~Finish(w)
    BY <1>6 DEF MarkRunning, history, Finish
  <2> QED BY <1>0, <1>1, <1>2, <1>3, <1>5, <2>1, ClaimFrame DEF Claiming
<1>7. CASE UpdateProgress(w)
  <2>1. /\ Same /\ ~Finish(w)
        /\ \/ TaskGoto(w, "claim") /\ worker[w].pc = "p25"
           \/ TaskGoto(w, "finish") /\ worker[w].pc = "p90"
    BY <1>7 DEF UpdateProgress, history, Finish
  <2> QED BY <1>0, <1>1, <1>2, <1>3, <1>5, <2>1, ClaimFrame DEF Claiming
<1>8. CASE Claim(w)
  <2>1. worker[w].pc = "claim" /\ ~Finish(w) /\ UNCHANGED <<stuck, unusable>>
    BY <1>8 DEF Claim, history, Finish
  <2>2. CASE UNCHANGED stage
    <3>1. TaskGoto(w, "failJob") \/ (TaskGoto(w, "p90") /\ stage[c] = "applied")
      BY <1>0, <1>8, <2>2 DEF Claim, Watermark, TypeOK
    <3> QED BY <1>0, <1>1, <1>2, <1>3, <1>5, <2>1, <2>2, <3>1, ClaimFrame
            DEF Claiming, Delivered
  <2>3. CASE stage' # stage
    <3>1. /\ TaskGoto(w, "source")
          /\ stage[c] \in {"none", "bare"} /\ stage'[c] = "processing"
      BY <1>0, <1>8, <2>3 DEF Claim, Watermark
    <3>2. Holds(w, c)' /\ ~Indexing(w, c)' /\ ~Done(w, c)'
      BY <1>3, <3>1 DEF Claiming
    <3> QED BY <1>0, <1>1, <1>5, <2>1, <3>1, <3>2 DEF ClaimInv, Works, Delivered
  <2> QED BY <2>2, <2>3
<1>9. CASE BuildSource(w) \/ EmbedFails(w)
  <2>1. /\ Same /\ ~Finish(w)
        /\ worker[w].pc \in {"source", "embed"}
        /\ TaskGoto(w, "embed") \/ TaskGoto(w, "release")
    BY <1>9 DEF BuildSource, EmbedFails, rows, history, Finish
  <2> QED BY <1>0, <1>1, <1>2, <1>3, <1>5, <2>1, ClaimFrame DEF Claiming
<1>10. CASE SourceMissing(w)
  <2>1. /\ TaskGoto(w, "failJob") /\ worker[w].pc = "source" /\ ~Finish(w)
        /\ c \in stuck' /\ UNCHANGED <<stage, unusable>>
    BY <1>10 DEF SourceMissing, rows, Finish
  <2>2. ~Holds(w, c)' /\ ~Indexing(w, c)' /\ ~Done(w, c)' /\ Holds(w, c)
    BY <1>2, <1>3, <2>1 DEF Claiming
  <2> QED BY <1>0, <1>1, <1>5, <2>1, <2>2 DEF ClaimInv, Works, Delivered
<1>11. CASE Embed(w)
  <2>1. /\ worker[w].pc = "embed" /\ ~Finish(w) /\ UNCHANGED stuck
        /\ \/ TaskGoto(w, "index") /\ stage'[c] = "applied" /\ UNCHANGED unusable
           \/ TaskGoto(w, "p90") /\ stage'[c] = "bare" /\ c \in unusable'
    BY <1>0, <1>11 DEF Embed, Watermark, Finish
  <2>2. Holds(w, c) /\ ~Holds(w, c)'
    BY <1>2, <1>3, <2>1 DEF Claiming
  <2>3. /\ Indexing(w, c)' => stage'[c] = "applied"
        /\ Delivered(c)'
    BY <1>3, <2>1 DEF Delivered
  <2> QED BY <1>0, <1>1, <2>1, <2>2, <2>3 DEF ClaimInv, Works
<1>12. CASE Release(w) \/ Withdraw(w)
  <2>1. /\ TaskGoto(w, "failJob") /\ ~Finish(w) /\ UNCHANGED stuck
        /\ stage'[c] = "none"
        /\ \/ worker[w].pc = "release" /\ UNCHANGED unusable
           \/ worker[w].pc = "withdraw" /\ c \in unusable'
    BY <1>0, <1>12 DEF Release, Withdraw, Watermark, history, Finish
  <2>2. /\ Works(w, c)
        /\ ~Holds(w, c)' /\ ~Indexing(w, c)' /\ ~Done(w, c)'
    BY <1>2, <1>3, <2>1 DEF Claiming, Works
  <2>3. worker[w].pc = "release" => Holds(w, c)
    BY <1>2 DEF Claiming
  <2> QED BY <1>0, <1>1, <1>5, <2>1, <2>2, <2>3 DEF ClaimInv, Works, Delivered
<1>13. CASE Index(w) \/ IndexFails(w)
  <2>1. /\ Same /\ ~Finish(w)
        /\ worker[w].pc = "index"
        /\ TaskGoto(w, "p90") \/ TaskGoto(w, "withdraw")
    BY <1>13 DEF Index, IndexFails, rows, history, Finish
  <2>2. c \notin rerun => stage[c] = "applied"
    BY <1>0, <1>2, <2>1 DEF ClaimInv
  <2>3. CASE c \in rerun
    BY <1>0, <2>3 DEF ClaimInv
  <2>4. CASE c \notin rerun
    BY <1>0, <1>1, <1>2, <1>3, <1>5, <2>1, <2>2, <2>4, ClaimFrame
       DEF Claiming, Delivered
  <2> QED BY <2>3, <2>4
<1>14. CASE Finish(w)
  <2>1. /\ Same /\ worker[w].pc = "finish"
        /\ worker' = [worker EXCEPT ![w] = Idle]
    BY <1>14 DEF Finish, history
  <2>2. \A r \in Requests : Won(r, c)' => Won(r, c) \/ Done(w, c)
    BY <1>0, <1>2, <2>1 DEF Won
  <2>3. \A r \in Requests : c \notin rerun /\ Won(r, c)' => Delivered(c)
    BY <1>0, <2>2 DEF ClaimInv
  <2>4. CASE c \in rerun
    BY <1>0, <2>4 DEF ClaimInv
  <2>5. CASE c \notin rerun
    BY <1>0, <1>1, <1>2, <1>4, <2>1, <2>3, <2>5, ClaimFrame DEF Claiming
  <2> QED BY <2>4, <2>5
<1>15. CASE FailJob(w)
  <2>1. /\ Same /\ worker[w].pc = "failJob" /\ ~Finish(w)
        /\ worker' = [worker EXCEPT ![w] = Idle]
    BY <1>15 DEF FailJob, history, Finish
  <2> QED BY <1>0, <1>1, <1>2, <1>4, <1>5, <2>1, ClaimFrame DEF Claiming
<1>16. CASE Die(w)
  <2>1. /\ worker' = [worker EXCEPT ![w] = Idle]
        /\ UNCHANGED <<stage, job, unusable>>
        /\ c \in stuck' <=> c \in stuck \/ Holds(w, c)
    BY <1>2, <1>16 DEF Die, rows
  <2>2. \A r \in Requests : Won(r, c)' => Won(r, c)
    BY <1>0, <2>1 DEF Won
  <2>3. ~Holds(w, c)' /\ ~Indexing(w, c)' /\ ~Done(w, c)'
    BY <1>4, <2>1
  <2> QED BY <1>0, <1>1, <2>1, <2>2, <2>3 DEF ClaimInv, Works, Delivered
<1> QED BY <1>6, <1>7, <1>8, <1>9, <1>10, <1>11, <1>12, <1>13, <1>14, <1>15, <1>16
        DEF TaskStep

(* The steps of a request: its row, its message, its answer.               *)
LEMMA PostInv ==
    ASSUME IInv, NEW q \in Requests,
           (\E c \in Contents : Post(q, c)) \/ PostStep(q)
    PROVE  IInv'
<1> USE DEF IInv
<1>0. UNCHANGED <<decision, stage, redelivered, worker, stuck, unusable, rerun>>
  BY DEF Post, PostStep, LookUpCompleted, LookUpInFlight, AnswerWithNewest,
         CreateJob, Enqueue, SaveTaskId, Abort, rows, queue, history
<1>1. /\ \A r \in Requests \ {q} : /\ pc'[r] = pc[r]
                                   /\ contentOf'[r] = contentOf[r]
                                   /\ job'[r] = job[r]
                                   /\ copies'[r] = copies[r]
      /\ contentOf'[q] = contentOf[q] \/ pc[q] = "idle"
      /\ job'[q] = job[q] \/ (pc[q] = "creating" /\ job'[q] = NewJob)
  BY DEF TypeOK, Goto, Post, PostStep, LookUpCompleted, LookUpInFlight,
         AnswerWithNewest, CreateJob, Enqueue, SaveTaskId, Abort, rows, queue
<1>2. TypeOK'
  <2> USE DEF TypeOK, PostPc, Goto
  <2>1. CASE \E c \in Contents : Post(q, c)
    BY <2>1 DEF Post, rows, queue, history
  <2>2. ASSUME NEW S \in SUBSET Requests, NEW otherwise \in PostPc,
               AnswerWithNewest(q, S, otherwise)
        PROVE  TypeOK'
    BY <2>2 DEF AnswerWithNewest, rows, queue, history
  <2>3. CASE LookUpCompleted(q)
    <3>1. JobsOf(contentOf[q]) \subseteq Requests
      BY DEF JobsOf
    <3> QED BY <2>2, <2>3, <3>1 DEF LookUpCompleted
  <2>4. CASE LookUpInFlight(q)
    <3> DEFINE S == {t \in JobsOf(contentOf[q]) : job[t].status \in InFlight}
    <3>1. S \subseteq Requests
      BY DEF JobsOf
    <3>2. AnswerWithNewest(q, S, "creating")
      BY <2>4 DEF LookUpInFlight
    <3> HIDE DEF S
    <3> QED BY <2>2, <3>1, <3>2
  <2>5. CASE CreateJob(q)
    <3>1. later' \in SUBSET (Requests \X Requests)
      BY <2>5 DEF CreateJob
    <3>2. job' \in [Requests -> JobRow]
      BY <2>5, RowsStayTyped DEF CreateJob
    <3>3. pc' \in [Requests -> PostPc]
      BY <2>5 DEF CreateJob
    <3>4. UNCHANGED <<contentOf, reply, queue, history>>
      BY <2>5 DEF CreateJob
    <3> QED BY <1>0, <3>1, <3>2, <3>3, <3>4 DEF queue, history
  <2>6. CASE Enqueue(q) \/ SaveTaskId(q) \/ Abort(q)
    BY <2>6 DEF Enqueue, SaveTaskId, Abort, rows, queue, history
  <2> QED BY <2>1, <2>3, <2>4, <2>5, <2>6 DEF PostStep
<1>3. ASSUME NEW r \in Requests PROVE SenderInv(r)'
  <2>1. CASE r # q
    BY <1>0, <1>1, <2>1 DEF SenderInv, Created, OnJob
  <2>2. CASE r = q
    <3> USE <2>2 DEF Goto, TypeOK, SenderInv, Unsent
    <3>0. OnJob(q)' <=> OnJob(q)
      BY <1>0 DEF OnJob
    <3>1. CASE \E c \in Contents : Post(q, c)
      BY <3>0, <3>1 DEF Post, rows, queue, Created
    <3>2. CASE LookUpCompleted(q) \/ LookUpInFlight(q)
      BY <3>0, <3>2 DEF LookUpCompleted, LookUpInFlight, AnswerWithNewest, rows,
         queue, Created
    <3>3. CASE CreateJob(q)
      BY <3>0, <3>3, RowFields DEF CreateJob, queue, Created
    <3>4. CASE Enqueue(q)
      BY <3>0, <3>4 DEF Enqueue, rows, Created
    <3>5. CASE SaveTaskId(q) \/ Abort(q)
      BY <3>0, <3>5 DEF SaveTaskId, Abort, rows, queue, Created
    <3> QED BY <3>1, <3>2, <3>3, <3>4, <3>5 DEF PostStep
  <2> QED BY <2>1, <2>2
<1>4. ASSUME NEW c \in Contents PROVE ClaimInv(c)'
  <2>1. \A w \in Workers : worker[w].pc # "idle" =>
           /\ worker[w].job \in Requests
           /\ contentOf'[worker[w].job] = contentOf[worker[w].job]
    <3>1. ASSUME NEW w \in Workers, worker[w].pc # "idle"
          PROVE  worker[w].job \in Requests
      BY <3>1 DEF TypeOK, Task, Idle
    <3>2. ASSUME NEW w \in Workers, worker[w].job \in Requests
          PROVE  contentOf'[worker[w].job] = contentOf[worker[w].job]
      <4>1. pc[worker[w].job] # "idle"
        BY <3>2 DEF SenderInv, OnJob, Unsent
      <4> QED BY <1>1, <3>2, <4>1
    <3> QED BY <3>1, <3>2
  <2>2. /\ \A w \in Workers : Holds(w, c)' <=> Holds(w, c)
        /\ \A w \in Workers : Indexing(w, c)' <=> Indexing(w, c)
        /\ \A w \in Workers : Done(w, c)' <=> Done(w, c)
    BY <1>0, <2>1 DEF Holds, Indexing, Done, ContentOf, Claiming
  <2>3. \A r \in Requests : Won(r, c)' => Won(r, c)
    BY <1>1, RowFields DEF Won, SenderInv, Unsent
  <2> QED BY <1>0, <2>2, <2>3, ClaimFrame
<1> QED BY <1>2, <1>3, <1>4

(* The steps of a task.                                                    *)
LEMMA TaskInv ==
    ASSUME IInv, NEW w \in Workers, TaskStep(w) \/ Die(w)
    PROVE  IInv'
<1>1. TypeOK'
  BY TaskTypeStep, TaskLeaves DEF IInv, ContentOf
<1> QED BY <1>1, TaskSender, TaskOther, TaskOwn DEF IInv

(* A worker takes a message.                                               *)
LEMMA TakeInv ==
    ASSUME IInv, NEW w \in Workers, NEW q \in Requests, TakeMessage(w, q)
    PROVE  IInv'
<1> USE DEF IInv
<1>1. /\ UNCHANGED <<posts, rows, redelivered, history>>
      /\ worker[w].pc = "idle"
      /\ copies[q] > 0
      /\ copies' = [copies EXCEPT ![q] = copies[q] - 1]
      /\ worker' = [worker EXCEPT ![w] = Loaded(q)]
  BY DEF TakeMessage
<1>2. Loaded(q) \in Task
  BY DEF Loaded, Task, TaskPc, JobRow, TypeOK
<1>3. TypeOK'
  BY <1>1, <1>2 DEF TypeOK, posts, rows, history
<1>4. /\ \A v \in Workers \ {w} : worker'[v] = worker[v]
      /\ worker'[w].pc = "loaded" /\ worker'[w].job = q
  BY <1>1 DEF TypeOK, Loaded
<1>5. ASSUME NEW r \in Requests PROVE SenderInv(r)'
  <2>1. copies'[r] = copies[r] \/ (r = q /\ copies[q] > 0)
    BY <1>1 DEF TypeOK
  <2>2. OnJob(r)' => OnJob(r) \/ r = q
    BY <1>4 DEF OnJob
  <2>3. UNCHANGED <<pc, contentOf, job>>
    BY <1>1 DEF posts, rows
  <2>4. copies[r] \in Nat /\ copies'[r] \in Nat
    BY <1>3 DEF TypeOK
  <2> QED BY <1>1, <2>1, <2>2, <2>3, <2>4 DEF SenderInv, Created, Unsent
<1>6. ASSUME NEW c \in Contents PROVE ClaimInv(c)'
  <2>1. /\ \A v \in Workers : Holds(v, c)' <=> Holds(v, c)
        /\ \A v \in Workers : Indexing(v, c)' <=> Indexing(v, c)
        /\ \A v \in Workers : Done(v, c)' <=> Done(v, c)
    BY <1>1, <1>4 DEF Holds, Indexing, Done, ContentOf, Claiming, posts
  <2>2. \A r \in Requests : Won(r, c)' <=> Won(r, c)
    BY <1>1 DEF Won, posts, rows
  <2>3. UNCHANGED <<stage, stuck, unusable, rerun>>
    BY <1>1 DEF rows, history
  <2> QED BY <2>1, <2>2, <2>3, ClaimFrame
<1> QED BY <1>3, <1>5, <1>6

(* The broker and the writers outside the component.                       *)
LEMMA OutsideInv ==
    ASSUME IInv,
           \/ \E q \in Requests : Redeliver(q)
           \/ \E d \in Contents : Redecide(d) \/ Reanalyse(d)
    PROVE  IInv'
<1> USE DEF IInv
<1>1. /\ UNCHANGED <<pc, contentOf, job, worker, lost, stuck, unusable>>
      /\ \A r \in Requests : copies'[r] > 0 => copies[r] > 0
      /\ \A c \in Contents : stage'[c] = stage[c] \/ c \in rerun'
      /\ \A c \in rerun : c \in rerun'
  BY DEF TypeOK, Redeliver, Redecide, Reanalyse, posts, rows, queue, history
<1>2. TypeOK'
  <2>1. CASE \E q \in Requests : Redeliver(q)
    BY <2>1 DEF TypeOK, Redeliver, posts, rows, history
  <2>2. CASE \E d \in Contents : Redecide(d)
    BY <2>2 DEF TypeOK, Redecide, posts, queue, history
  <2>3. CASE \E d \in Contents : Reanalyse(d)
    BY <2>3 DEF TypeOK, Reanalyse, posts, queue, Stage
  <2> QED BY <2>1, <2>2, <2>3
<1>3. ASSUME NEW r \in Requests PROVE SenderInv(r)'
  <2>1. copies[r] = 0 => copies'[r] = 0
    BY <1>1, <1>2 DEF TypeOK
  <2> QED BY <1>1, <2>1 DEF SenderInv, Created, OnJob
<1>4. ASSUME NEW c \in Contents PROVE ClaimInv(c)'
  <2>1. /\ \A v \in Workers : Holds(v, c)' <=> Holds(v, c)
        /\ \A v \in Workers : Indexing(v, c)' <=> Indexing(v, c)
        /\ \A v \in Workers : Done(v, c)' <=> Done(v, c)
        /\ \A r \in Requests : Won(r, c)' <=> Won(r, c)
    BY <1>1 DEF Holds, Indexing, Done, ContentOf, Won
  <2>2. CASE c \in rerun'
    BY <2>2 DEF ClaimInv
  <2>3. CASE c \notin rerun'
    BY <1>1, <2>1, <2>3, ClaimFrame
  <2> QED BY <2>2, <2>3
<1> QED BY <1>2, <1>3, <1>4

(* Every step of a view, a task, a service call or a crash keeps it.       *)
LEMMA InvStep == IInv /\ [Next]_vars => IInv'
<1> SUFFICES ASSUME IInv, [Next]_vars PROVE IInv'
  OBVIOUS
<1>1. CASE Next
  BY <1>1, PostInv, TaskInv, TakeInv, OutsideInv DEF Next
<1>2. CASE UNCHANGED vars
  BY <1>2 DEF vars, posts, rows, queue, history, IInv, TypeOK, SenderInv, OnJob,
     ClaimInv, Works, Holds, Indexing, Done, Won, Delivered, ContentOf, Created
<1> QED BY <1>1, <1>2

(* It holds at first.                                                      *)
LEMMA InvInit == Init => IInv
<1> SUFFICES ASSUME Init PROVE IInv
  OBVIOUS
<1>1. TypeOK
  BY RowsStayTyped DEF Init, TypeOK, PostPc, Stage
<1>2. ASSUME NEW r \in Requests PROVE SenderInv(r)
  BY WatermarkAssumption DEF Init, SenderInv, OnJob, Unsent, NoJob, Idle
<1>3. ASSUME NEW c \in Contents PROVE ClaimInv(c)
  BY RowFields DEF Init, ClaimInv, Works, Holds, Indexing, Done, Won, Idle, Claiming, NoJob
<1> QED BY <1>1, <1>2, <1>3 DEF IInv

(* It always holds.                                                        *)
THEOREM Invariance == Spec => []IInv
BY InvInit, InvStep, PTL DEF Spec

-----------------------------------------------------------------------------
(* Every reachable state is well-typed.                                    *)
THEOREM TypeCorrect == Spec => []TypeOK
<1>1. IInv => TypeOK
  BY DEF IInv
<1> QED BY <1>1, Invariance, PTL

(* OneEmbedder: whatever the view lets through and the broker delivers     *)
(* twice, two workers never embed into one content at the same time.       *)
THEOREM SingleEmbedder == Spec => []OneEmbedder
<1>1. IInv => OneEmbedder
  BY DEF IInv, ClaimInv, Works, OneEmbedder
<1> QED BY <1>1, Invariance, PTL

(* ClaimAccounted: "processing" is stored exactly while a worker holds the *)
(* claim, or after one left it behind.                                     *)
THEOREM ClaimsAccounted == Spec => []ClaimAccounted
<1>1. IInv => ClaimAccounted
  BY DEF IInv, ClaimInv, ClaimAccounted
<1> QED BY <1>1, Invariance, PTL

(* SuccessMeansApplied: a successful job left a usable watermark, unless   *)
(* a named event took it away.                                             *)
THEOREM SuccessDelivers == Spec => []SuccessMeansApplied
<1>1. IInv => SuccessMeansApplied
  <2> SUFFICES ASSUME IInv, NEW r \in Requests, job[r].status = "success"
               PROVE  \/ stage[contentOf[r]] = "applied"
                      \/ contentOf[r] \in unusable \cup rerun
    BY DEF SuccessMeansApplied
  <2>1. contentOf[r] \in Contents
    BY DEF IInv, SenderInv, Unsent
  <2> QED BY <2>1 DEF IInv, ClaimInv, Won, Delivered
<1> QED BY <1>1, Invariance, PTL

(* MessageHasRow: a worker never looks up a job that is not committed.     *)
THEOREM MessagesNameRows == Spec => []MessageHasRow
<1>1. IInv => MessageHasRow
  BY DEF IInv, SenderInv, OnJob, MessageHasRow, Created, Unsent
<1> QED BY <1>1, Invariance, PTL

(* AppliedKept: of all the writers of the watermark field only the job     *)
(* whose own index update failed takes an applied watermark back.          *)
THEOREM AppliedStays == Spec => AppliedKept
<1>1. ASSUME IInv, Next, NEW c \in Contents,
             stage[c] = "applied", stage'[c] # "applied", c \notin rerun'
      PROVE  \E w \in Workers : worker[w].pc = "withdraw" /\ ContentOf(w) = c
  <2>1. c \notin rerun
    BY <1>1 DEF IInv, TypeOK, Next, Post, PostStep, LookUpCompleted, LookUpInFlight,
       AnswerWithNewest, CreateJob, Enqueue, SaveTaskId, Abort, Redeliver,
       TakeMessage, Redecide, Reanalyse, history, TaskStep, Die, MarkRunning,
       UpdateProgress, Claim, BuildSource, SourceMissing, Embed, EmbedFails,
       Release, Index, IndexFails, Withdraw, Finish, FailJob
  <2>2. \A w \in Workers : ~Holds(w, c)
    BY <1>1, <2>1 DEF IInv, ClaimInv
  <2>3. PICK w \in Workers : TaskStep(w)
    BY <1>1 DEF IInv, TypeOK, Next, Post, PostStep, LookUpCompleted, LookUpInFlight,
       AnswerWithNewest, CreateJob, Enqueue, SaveTaskId, Abort, Redeliver,
       TakeMessage, Redecide, Reanalyse, rows, Die
  <2>4. c = ContentOf(w)
    BY <1>1, <2>3, TaskLeaves
  <2>5. Claim(w) \/ Embed(w) \/ Release(w) \/ Withdraw(w)
    BY <1>1, <2>3 DEF TaskStep, MarkRunning, UpdateProgress, BuildSource,
       SourceMissing, EmbedFails, Index, IndexFails, Finish, FailJob, rows
  <2>6. ~Embed(w) /\ ~Release(w)
    BY <2>2, <2>4 DEF Embed, Release, Holds, Claiming
  <2>7. ~Claim(w)
    BY <1>1, <2>4 DEF Claim
  <2> QED BY <2>4, <2>5, <2>6, <2>7 DEF Withdraw
<1>2. IInv /\ [Next]_vars =>
        [\A c \in Contents :
           stage[c] = "applied" /\ stage'[c] # "applied"
               => \/ c \in rerun'
                  \/ \E w \in Workers :
                        worker[w].pc = "withdraw" /\ ContentOf(w) = c]_vars
  BY <1>1
<1> QED BY <1>2, Invariance, PTL DEF Spec, AppliedKept
-----------------------------------------------------------------------------
(* The refinement.  IInv says nothing about the progress of a job or about *)
(* how often it runs, since a second delivery may start it again; this     *)
(* invariant is about the jobs whose message was delivered once.           *)

\* What the row looks like at each place of the task.
RunRows(r, t) ==
    /\ t.pc = "loaded" => job[r] = NewJob /\ t.progress = 5
    /\ t.pc # "loaded" => job[r].status = "running"
    /\ t.pc = "p25" => job[r].progress <= 25
    /\ job[r].progress <= 90

OnceInv(r) ==
    /\ pc[r] \in Unsent \ {"recorded"} => job[r] = NoJob
    /\ Once(r) =>
         /\ pc[r] = "recorded" \/ copies[r] > 0 => job[r] = NewJob
         /\ copies[r] > 0 => copies[r] = 1 /\ ~OnJob(r)
         /\ \A w \in Workers : worker[w].job = r =>
               /\ \A v \in Workers : worker[v].job = r => v = w
               /\ RunRows(r, worker[w])

RunInv == \A r \in Requests : OnceInv(r)

(* A job that a step does not touch keeps its invariant.                   *)
LEMMA OnceFrame ==
    ASSUME NEW r \in Requests, OnceInv(r),
           job'[r] = job[r], copies'[r] = copies[r],
           r \in redelivered => r \in redelivered',
           pc'[r] = pc[r] \/ pc'[r] \notin Unsent,
           \A w \in Workers : worker'[w].job = r => worker'[w] = worker[w]
    PROVE  OnceInv(r)'
BY DEF OnceInv, Once, OnJob, RunRows, Unsent

(* A step of a task: its row follows its place.                            *)
LEMMA TaskOnce ==
    ASSUME IInv, RunInv, NEW w \in Workers, TaskStep(w) \/ Die(w),
           NEW r \in Requests
    PROVE  OnceInv(r)'
<1>0. /\ UNCHANGED <<pc, copies, redelivered>>
      /\ \A v \in Workers \ {w} : worker'[v] = worker[v]
      /\ OnceInv(r)
  BY TaskLeaves DEF RunInv
<1>1. CASE r # worker[w].job
  <2>1. job'[r] = job[r] /\ worker'[w].job # r
    BY <1>1, TaskLeaves
  <2> QED BY <1>0, <2>1, OnceFrame
<1>2. CASE r = worker[w].job /\ ~Once(r)
  <2>1. pc[r] \notin Unsent
    BY <1>2 DEF IInv, SenderInv, OnJob
  <2> QED BY <1>0, <1>2, <2>1 DEF OnceInv, Once
<1>3. CASE r = worker[w].job /\ Once(r)
  <2>1. /\ worker[w] \in Task
        /\ worker[w].progress \in 0..100
        /\ job \in [Requests -> JobRow]
        /\ job[r] \in JobRow
        /\ TypeOK
    BY BusyWorker DEF IInv, TypeOK
  <2>2. /\ pc[r] \notin Unsent
        /\ ~(copies[r] > 0)
        /\ \A v \in Workers : worker[v].job = r => v = w
        /\ RunRows(r, worker[w])
    BY <1>0, <1>3 DEF OnceInv, OnJob, IInv, SenderInv
  <2>3. ASSUME worker'[w].job = r => RunRows(r, worker[w])'
        PROVE  OnceInv(r)'
    BY <1>0, <1>3, <2>2, <2>3 DEF OnceInv, Once, Unsent
  <2>4. CASE MarkRunning(w)
    <3>1. /\ job' = [job EXCEPT ![r] = Running(job[r], worker[w].progress)]
          /\ worker'[w].pc = "p25"
          /\ worker[w].progress = 5
      BY <1>3, <2>1, <2>2, <2>4, TaskGotoFields DEF MarkRunning, RunRows
    <3>2. job'[r].status = "running" /\ job'[r].progress = 10
      BY <2>1, <3>1, RowFields
    <3> QED BY <2>3, <3>1, <3>2 DEF RunRows
  <2>5. CASE UpdateProgress(w)
    <3>1. PICK p \in {25, 90} :
            /\ job' = [job EXCEPT ![r] = AtProgress(job[r], p)]
            /\ worker'[w].pc \notin {"loaded", "p25"}
            /\ worker[w].pc # "loaded"
      BY <1>3, <2>1, <2>5, TaskGotoFields DEF UpdateProgress
    <3>2. job'[r].status = "running" /\ job'[r].progress = p
      BY <2>1, <2>2, <3>1, RowFields DEF RunRows
    <3> QED BY <2>3, <3>1, <3>2 DEF RunRows
  <2>6. CASE Finish(w) \/ FailJob(w) \/ Die(w)
    <3>1. worker' = [worker EXCEPT ![w] = Idle]
      BY <2>6 DEF Finish, FailJob, Die
    <3> QED BY <2>1, <2>3, <3>1, TaskEnds
  <2>7. CASE \/ Claim(w) \/ BuildSource(w) \/ SourceMissing(w) \/ Embed(w)
             \/ EmbedFails(w) \/ Release(w) \/ Index(w) \/ IndexFails(w)
             \/ Withdraw(w)
    <3>1. PICK next \in TaskPc \ {"loaded", "p25"} : TaskGoto(w, next)
      BY <2>7 DEF Claim, BuildSource, SourceMissing, Embed, EmbedFails, Release,
         Index, IndexFails, Withdraw, TaskPc, Claiming
    <3>2. worker'[w].pc \notin {"loaded", "p25"} /\ worker[w].pc # "loaded" /\ UNCHANGED job
      BY <2>1, <2>7, <3>1, TaskGotoFields DEF Claim, BuildSource, SourceMissing, Embed,
         EmbedFails, Release, Index, IndexFails, Withdraw, rows
    <3> QED BY <2>2, <2>3, <3>2 DEF RunRows
  <2> QED BY <2>4, <2>5, <2>6, <2>7 DEF TaskStep
<1> QED BY <1>1, <1>2, <1>3

(* The steps of a request: it has no row before it creates one, and no     *)
(* task before it publishes its message.                                   *)
LEMMA PostOnce ==
    ASSUME IInv, RunInv, NEW q \in Requests,
           (\E c \in Contents : Post(q, c)) \/ PostStep(q),
           NEW r \in Requests
    PROVE  OnceInv(r)'
<1>0. /\ UNCHANGED <<worker, redelivered>>
      /\ OnceInv(r) /\ SenderInv(r) /\ TypeOK
      /\ copies[r] \in Nat
  BY DEF RunInv, IInv, TypeOK, Post, PostStep, LookUpCompleted, LookUpInFlight,
     AnswerWithNewest, CreateJob, Enqueue, SaveTaskId, Abort, rows, queue
<1>1. CASE r # q
  <2>1. pc'[r] = pc[r] /\ job'[r] = job[r] /\ copies'[r] = copies[r]
    BY <1>0, <1>1 DEF TypeOK, Goto, Post, PostStep, LookUpCompleted, LookUpInFlight,
       AnswerWithNewest, CreateJob, Enqueue, SaveTaskId, Abort, rows, queue
  <2> QED BY <1>0, <2>1, OnceFrame
<1>2. CASE r = q
  <2>1. CASE CreateJob(q)
    <3>1. job'[r] = NewJob /\ pc'[r] = "recorded" /\ copies'[r] = 0 /\ ~OnJob(r)
      BY <1>0, <1>2, <2>1 DEF CreateJob, Goto, TypeOK, SenderInv, Unsent, queue
    <3> QED BY <1>0, <3>1 DEF OnceInv, OnJob
  <2>2. CASE Enqueue(q)
    <3>1. /\ pc[r] = "recorded" /\ pc'[r] = "enqueued"
          /\ copies[r] = 0 /\ copies'[r] = 1 /\ ~OnJob(r)
          /\ job'[r] = job[r]
      BY <1>0, <1>2, <2>2 DEF Enqueue, Goto, TypeOK, SenderInv, Unsent, rows
    <3> QED BY <1>0, <3>1 DEF OnceInv, Once, OnJob, Unsent
  <2>3. CASE ~CreateJob(q) /\ ~Enqueue(q)
    <3>1. job'[r] = job[r] /\ copies'[r] = copies[r]
      BY <1>2, <2>3 DEF Post, PostStep, LookUpCompleted, LookUpInFlight,
         AnswerWithNewest, SaveTaskId, Abort, rows, queue
    <3>2. \/ pc'[r] \notin Unsent
          \/ pc[r] \in Unsent \ {"recorded"} /\ pc'[r] # "recorded"
      BY <1>0, <1>2, <2>3 DEF Post, PostStep, LookUpCompleted, LookUpInFlight,
         AnswerWithNewest, SaveTaskId, Abort, Goto, TypeOK, Unsent
    <3> QED BY <1>0, <3>1, <3>2 DEF OnceInv, Once, OnJob, RunRows, Unsent
  <2> QED BY <2>1, <2>2, <2>3
<1> QED BY <1>1, <1>2

(* A worker takes the only message of a job it loads as the view created   *)
(* it.                                                                     *)
LEMMA TakeOnce ==
    ASSUME IInv, RunInv, NEW w \in Workers, NEW q \in Requests, TakeMessage(w, q),
           NEW r \in Requests
    PROVE  OnceInv(r)'
<1>0. /\ UNCHANGED <<pc, job, redelivered>>
      /\ copies' = [copies EXCEPT ![q] = copies[q] - 1] /\ copies[q] > 0
      /\ worker' = [worker EXCEPT ![w] = Loaded(q)]
      /\ OnceInv(r) /\ SenderInv(r) /\ TypeOK
  BY DEF TakeMessage, RunInv, IInv, posts, rows
<1>1. /\ \A v \in Workers \ {w} : worker'[v] = worker[v]
      /\ worker'[w] = [pc |-> "loaded", job |-> q, progress |-> job[q].progress]
  BY <1>0 DEF TypeOK, Loaded
<1>2. CASE r # q
  <2>1. copies'[r] = copies[r]
    BY <1>0, <1>2 DEF TypeOK
  <2> QED BY <1>0, <1>1, <1>2, <2>1, OnceFrame
<1>3. CASE r = q
  <2>1. pc[r] \notin Unsent
    BY <1>0, <1>3 DEF SenderInv
  <2>2. CASE Once(r)
    <3>1. copies[r] = 1 /\ job[r] = NewJob /\ ~OnJob(r)
      BY <1>0, <1>3, <2>2 DEF OnceInv
    <3>2. copies'[r] = 0
      BY <1>0, <1>3, <3>1 DEF TypeOK
    <3>3. RunRows(r, worker[w])'
      BY <1>0, <1>1, <1>3, <3>1, RowFields DEF RunRows
    <3> QED BY <1>0, <1>1, <1>3, <2>1, <3>1, <3>2, <3>3 DEF OnceInv, OnJob
  <2>3. CASE ~Once(r)
    BY <1>0, <2>1, <2>3 DEF OnceInv, Once
  <2> QED BY <2>2, <2>3
<1> QED BY <1>2, <1>3

(* Every step keeps the rows in step with their tasks.                     *)
LEMMA RunStep == IInv /\ RunInv /\ [Next]_vars => RunInv'
<1> SUFFICES ASSUME IInv, RunInv, [Next]_vars, NEW r \in Requests
             PROVE  OnceInv(r)'
  BY DEF RunInv
<1>1. CASE \E q \in Requests : Redeliver(q)
  <2>1. PICK q \in Requests : Redeliver(q)
    BY <1>1
  <2>2. UNCHANGED <<pc, job, worker>> /\ redelivered' = redelivered \cup {q}
    BY <2>1 DEF Redeliver, posts, rows
  <2>3. CASE r # q
    BY <2>1, <2>2, <2>3, OnceFrame DEF Redeliver, IInv, TypeOK, RunInv
  <2>4. CASE r = q
    BY <2>2, <2>4 DEF RunInv, OnceInv, Once
  <2> QED BY <2>3, <2>4
<1>2. CASE (\E d \in Contents : Redecide(d) \/ Reanalyse(d)) \/ UNCHANGED vars
  <2>1. UNCHANGED <<pc, job, worker, copies, redelivered>>
    BY <1>2 DEF Redecide, Reanalyse, posts, queue, rows, vars
  <2> QED BY <2>1, OnceFrame DEF RunInv
<1> QED BY <1>1, <1>2, TaskOnce, PostOnce, TakeOnce DEF Next

(* Both always hold.                                                       *)
THEOREM RunInvariance == Spec => [](IInv /\ RunInv)
<1>1. Init => RunInv
  BY WatermarkAssumption DEF Init, RunInv, OnceInv, OnJob, Idle, Once
<1> QED BY <1>1, InvInit, InvStep, RunStep, PTL DEF Spec

(* A step that writes a job row is one of the lifecycle's actions.         *)
LEMMA StepImplements ==
    ASSUME IInv, RunInv, Next, NEW r \in Requests, Once(r)
    PROVE  Lifecycle(r)!Next \/ UNCHANGED job[r]
<1> SUFFICES ASSUME job'[r] # job[r]
             PROVE  Lifecycle(r)!Next
  OBVIOUS
<1>0. OnceInv(r) /\ TypeOK
  BY DEF IInv, RunInv
<1>1. CASE CreateJob(r)
  <2>1. job[r] = NoJob /\ job'[r] = NewJob
    BY <1>0, <1>1 DEF CreateJob, OnceInv, Unsent, TypeOK
  <2> QED BY <2>1 DEF Lifecycle!Next, Lifecycle!Create, Lifecycle!NoJob,
         Lifecycle!NewJob, NoJob, NewJob
<1>2. CASE \E w \in Workers : TaskStep(w)
  <2>1. PICK w \in Workers : TaskStep(w)
    BY <1>2
  <2>2. r = worker[w].job
    BY <2>1, TaskLeaves
  <2>3. /\ RunRows(r, worker[w])
        /\ job[r] \in JobRow
        /\ job \in [Requests -> JobRow]
    BY <1>0, <2>2 DEF OnceInv, TypeOK
  <2>4. CASE MarkRunning(w)
    <3>1. job'[r] = Running(job[r], job[r].progress) /\ job[r].status = "queued"
      BY <2>2, <2>3, <2>4, RowFields DEF MarkRunning, RunRows
    <3> QED BY <3>1 DEF Lifecycle!Next, Lifecycle!Start, Lifecycle!Running, Running
  <2>5. CASE UpdateProgress(w)
    <3>1. PICK p \in {25, 90} :
            /\ worker[w].pc = IF p = 25 THEN "p25" ELSE "p90"
            /\ job'[r] = AtProgress(job[r], p)
      BY <2>2, <2>3, <2>5 DEF UpdateProgress
    <3>2. job[r].progress \in 0..100
      BY <2>3 DEF JobRow
    <3>3. job[r].status = "running" /\ job[r].progress <= p
      BY <2>3, <3>1, <3>2 DEF RunRows
    <3> QED BY <3>1, <3>2, <3>3 DEF Lifecycle!Next, Lifecycle!Advance,
           Lifecycle!AtProgress, AtProgress
  <2>6. CASE Finish(w)
    <3>1. job'[r] = Succeeded(job[r]) /\ job[r].status = "running"
      BY <2>2, <2>3, <2>6 DEF Finish, RunRows
    <3> QED BY <3>1 DEF Lifecycle!Next, Lifecycle!Succeed, Lifecycle!Succeeded, Succeeded
  <2>7. CASE FailJob(w)
    <3>1. job'[r] = Failed(job[r]) /\ job[r].status = "running"
      BY <2>2, <2>3, <2>7 DEF FailJob, RunRows
    <3> QED BY <3>1 DEF Lifecycle!Next, Lifecycle!Fail, Lifecycle!Failed, Failed
  <2> QED BY <2>1, <2>4, <2>5, <2>6, <2>7 DEF TaskStep, Claim, BuildSource,
             SourceMissing, Embed, EmbedFails, Release, Index, IndexFails, Withdraw, rows
<1> QED BY <1>0, <1>1, <1>2 DEF Next, Post, PostStep, LookUpCompleted, LookUpInFlight,
           AnswerWithNewest, CreateJob, Enqueue, SaveTaskId, Abort, Redeliver,
           TakeMessage, Die, Redecide, Reanalyse, TypeOK, rows

(* ImplementsLifecycle: for any number of requests, contents and workers,  *)
(* a watermark job whose message was delivered once is created once,       *)
(* starts once, never reports less progress, and keeps its result.         *)
THEOREM LifecycleImplemented == Spec => ImplementsLifecycle
<1>1. IInv /\ RunInv /\ [Next]_vars =>
        [\A r \in Requests :
            Once(r) => Lifecycle(r)!Next \/ UNCHANGED job[r]]_vars
  BY StepImplements
<1> QED BY <1>1, RunInvariance, PTL DEF Spec, ImplementsLifecycle
=============================================================================
