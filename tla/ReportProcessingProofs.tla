----------------------- MODULE ReportProcessingProofs -----------------------
(***************************************************************************)
(* Proofs about ReportProcessing, for every number of jobs, callers,       *)
(* workers and attempts, every lease and every delay.                      *)
(***************************************************************************)
EXTENDS ReportProcessing, TLAPS

\* The worker has claimed its job and not yet settled it.
ActiveAttempt(w) == worker[w].pc \in {"process", "settle"}

\* A worker that holds a message may still bring its job forward: it has not
\* claimed yet, or it holds the lease.
Drives(w, j) ==
    /\ J(w) = j
    /\ \/ worker[w].pc \in {"claim", "defer"}
       \/ ActiveAttempt(w) /\ worker[w].token = jobs[j].token

\* The lease token of a job is its attempt number, its output that of the last
\* attempt, and only committed jobs have messages.
JobInv(j) ==
    /\ jobs[j].status = "processing" => jobs[j].token = jobs[j].attempts
    /\ jobs[j].output = IF jobs[j].status = "completed" THEN jobs[j].attempts ELSE 0
    /\ queue[j] > 0 => jobs[j].status # "absent"

\* A request dispatches committed jobs only.
CallerInv(c) ==
    /\ \A j \in caller[c].todo : jobs[j].status # "absent"
    /\ caller[c].pc = "record" => caller[c].job \in caller[c].todo

\* An attempt under way holds the job's lease or has outlived its own.
WorkerInv(w) ==
    worker[w].pc # "idle" =>
        /\ jobs[J(w)].status # "absent"
        /\ worker[w].at <= clock
        /\ ActiveAttempt(w) =>
              /\ worker[w].token <= jobs[J(w)].attempts
              /\ \/ /\ jobs[J(w)].status = "processing"
                    /\ worker[w].token = jobs[J(w)].token
                    /\ jobs[J(w)].lease = worker[w].at + LeaseDuration
                 \/ worker[w].at + LeaseDuration <= clock

\* No two attempts under way share a token.
Distinct(v, w) ==
    v # w /\ J(v) = J(w) /\ ActiveAttempt(v) /\ ActiveAttempt(w) =>
        worker[v].token # worker[w].token

\* A job in processing has a message at the broker, or a worker that drives it.
Driven(j) ==
    jobs[j].status = "processing" /\ j \notin lost =>
        queue[j] > 0 \/ \E w \in Workers : Drives(w, j)

\* The inductive invariant.
ProcessingInv ==
    /\ TypeOK
    /\ \A j \in Jobs : JobInv(j)
    /\ \A c \in Callers : CallerInv(c)
    /\ \A w \in Workers : WorkerInv(w)
    /\ \A v, w \in Workers : Distinct(v, w)
    /\ \A j \in Jobs : Driven(j)

-----------------------------------------------------------------------------
(***************************************************************************)
(* Type correctness.                                                       *)
(***************************************************************************)

\* Attempt numbers, kept abstract below.
LEMMA AttemptNumbers ==
    /\ 0 \in Attempts /\ 1 \in Attempts
    /\ \A n \in Attempts : n \in Nat
    /\ \A n \in Attempts : ~(n >= MaxAttempts) => n + 1 \in Attempts
  BY ProcessingAssumption DEF Attempts

\* Fresh rows, callers and workers are well-formed.
LEMMA FreshTypes ==
    /\ Absent \in Job
    /\ clock \in Nat => NewJob \in Job
    /\ IdleCaller \in Caller
    /\ IdleWorker \in Worker
<1>1. AnyJob \in Jobs
  BY ProcessingAssumption DEF AnyJob
<1>2. 0 \in Attempts
  BY AttemptNumbers
<1>3. Absent \in Job
  BY <1>2 DEF Absent, Job
<1>4. clock \in Nat => NewJob \in Job
  BY <1>2 DEF NewJob, Absent, Job
<1>5. IdleCaller \in Caller
  BY <1>1 DEF IdleCaller, Caller
<1>6. IdleWorker \in Worker
  BY <1>1, <1>2 DEF IdleWorker, Worker
<1> QED
  BY <1>3, <1>4, <1>5, <1>6

\* What _terminal_failure writes.
LEMMA TerminalFailureEffect ==
    ASSUME NEW job \in Job
    PROVE  /\ TerminalFailure(job) \in Job
           /\ TerminalFailure(job).status = "failed"
           /\ TerminalFailure(job).output = job.output
           /\ TerminalFailure(job).attempts >= job.attempts
<1> DEFINE n == IF job.attempts = 0 THEN 1 ELSE job.attempts
<1>1. n \in Attempts /\ n >= job.attempts /\ 0 \in Attempts
  BY AttemptNumbers DEF Job
<1>2. TerminalFailure(job) = [job EXCEPT !.status = "failed", !.available = 0, !.token = 0,
                                         !.lease = 0, !.attempts = n]
  BY DEF TerminalFailure
<1> HIDE DEF n
<1>3. [job EXCEPT !.status = "failed", !.available = 0, !.token = 0, !.lease = 0,
                  !.attempts = n] \in Job
  BY <1>1 DEF Job
<1>4. /\ TerminalFailure(job).status = "failed"
      /\ TerminalFailure(job).output = job.output
      /\ TerminalFailure(job).attempts = n
  BY <1>2 DEF Job
<1> QED
  BY <1>1, <1>2, <1>3, <1>4

\* What claim_job writes when it grants the lease.
LEMMA ClaimedEffect ==
    ASSUME NEW job \in Job, NEW at \in Nat, ~Exhausted(job)
    PROVE  /\ Claimed(job, at) \in Job
           /\ Claimed(job, at).status = "processing"
           /\ Claimed(job, at).attempts = job.attempts + 1
           /\ Claimed(job, at).token = job.attempts + 1
           /\ Claimed(job, at).lease = at + LeaseDuration
           /\ Claimed(job, at).output = job.output
<1> DEFINE n == job.attempts + 1
           l == at + LeaseDuration
<1>1. n \in Attempts
  BY AttemptNumbers DEF Job, Exhausted
<1>2. l \in Nat
  BY ProcessingAssumption
<1>3. Claimed(job, at) = [job EXCEPT !.status = "processing", !.attempts = n, !.available = 0,
                                     !.token = n, !.lease = l]
  BY DEF Claimed
<1> HIDE DEF n, l
<1>4. [job EXCEPT !.status = "processing", !.attempts = n, !.available = 0,
                  !.token = n, !.lease = l] \in Job
  BY <1>1, <1>2 DEF Job
<1>5. /\ Claimed(job, at).status = "processing"
      /\ Claimed(job, at).attempts = n
      /\ Claimed(job, at).token = n
      /\ Claimed(job, at).lease = l
      /\ Claimed(job, at).output = job.output
  BY <1>3 DEF Job
<1> QED
  BY <1>3, <1>4, <1>5 DEF n, l

\* What complete_job and retry_job write.
LEMMA SettlementEffects ==
    ASSUME NEW job \in Job, NEW attempt \in Attempts, clock \in Nat
    PROVE  /\ Completed(job, attempt) \in Job
           /\ Completed(job, attempt).status = "completed"
           /\ Completed(job, attempt).attempts = job.attempts
           /\ Completed(job, attempt).output = attempt
           /\ Retried(job) \in Job
           /\ Retried(job).status \in {"failed", "queued"}
           /\ Retried(job).attempts >= job.attempts
           /\ Retried(job).output = job.output
<1>1. 0 \in Attempts /\ RetryDelay \in Nat
  BY AttemptNumbers, ProcessingAssumption
<1>2. /\ Completed(job, attempt) \in Job
      /\ Completed(job, attempt).status = "completed"
      /\ Completed(job, attempt).attempts = job.attempts
      /\ Completed(job, attempt).output = attempt
  BY <1>1 DEF Completed, Job
<1>3. CASE Exhausted(job)
  BY <1>2, <1>3, TerminalFailureEffect DEF Retried
<1>4. CASE ~Exhausted(job)
  <2> DEFINE n == clock + RetryDelay
  <2>1. n \in Nat /\ Retried(job) = [job EXCEPT !.status = "queued", !.available = n,
                                                !.token = 0, !.lease = 0]
    BY <1>1, <1>4 DEF Retried
  <2> HIDE DEF n
  <2>2. [job EXCEPT !.status = "queued", !.available = n, !.token = 0, !.lease = 0] \in Job
    BY <1>1, <2>1 DEF Job
  <2>3. /\ Retried(job).status = "queued"
        /\ Retried(job).attempts = job.attempts
        /\ Retried(job).output = job.output
    BY <2>1 DEF Job
  <2>4. job.attempts \in Nat
    BY AttemptNumbers DEF Job
  <2> QED
    BY <1>2, <2>1, <2>2, <2>3, <2>4
<1> QED
  BY <1>3, <1>4


\* What a worker's transaction may do to its job: nothing, claim it, find its
\* attempts exhausted, or settle it as the owner of the lease.
JobUpdate(w) ==
    \/ UNCHANGED jobs
    \/ /\ ~Unclaimable(jobs[J(w)], worker[w].at)
       /\ ~Exhausted(jobs[J(w)])
       /\ jobs' = [jobs EXCEPT ![J(w)] = Claimed(jobs[J(w)], worker[w].at)]
    \/ /\ ~Unclaimable(jobs[J(w)], worker[w].at)
       /\ jobs' = [jobs EXCEPT ![J(w)] = TerminalFailure(jobs[J(w)])]
    \/ /\ ActiveAttempt(w)
       /\ Owns(w)
       /\ jobs' = [jobs EXCEPT ![J(w)] = SettledJob(w)]

\* The job a settlement leaves.
LEMMA SettledJobEffect ==
    ASSUME TypeOK, NEW w \in Workers
    PROVE  /\ SettledJob(w) \in Job
           /\ SettledJob(w).status \in {"completed", "failed", "queued"}
           /\ SettledJob(w).attempts >= jobs[J(w)].attempts
           /\ \/ /\ SettledJob(w).status = "completed"
                 /\ SettledJob(w).attempts = jobs[J(w)].attempts
                 /\ SettledJob(w).output = worker[w].token
              \/ /\ SettledJob(w).status # "completed"
                 /\ SettledJob(w).output = jobs[J(w)].output
<1>1. /\ worker[w] \in Worker /\ worker[w].token \in Attempts
      /\ J(w) \in Jobs /\ jobs[J(w)] \in Job /\ clock \in Nat
      /\ jobs[J(w)].attempts \in Nat
  BY AttemptNumbers DEF TypeOK, Worker, J, Job
<1>2. CASE worker[w].outcome = "complete"
  BY <1>1, <1>2, SettlementEffects DEF SettledJob
<1>3. CASE worker[w].outcome = "fail"
  BY <1>1, <1>3, TerminalFailureEffect DEF SettledJob
<1>4. CASE worker[w].outcome \notin {"complete", "fail"}
  <2>1. SettledJob(w) = Retried(jobs[J(w)])
    BY <1>4 DEF SettledJob
  <2> QED
    BY <1>1, <2>1, SettlementEffects
<1> QED
  BY <1>2, <1>3, <1>4

\* A worker's transaction leaves well-formed jobs, and other jobs alone.
LEMMA JobUpdateType ==
    ASSUME TypeOK, NEW w \in Workers, JobUpdate(w)
    PROVE  /\ jobs' \in [Jobs -> Job]
           /\ \A j \in Jobs : j # J(w) => jobs'[j] = jobs[j]
<1>1. /\ worker[w].at \in Nat
      /\ J(w) \in Jobs /\ jobs[J(w)] \in Job /\ jobs \in [Jobs -> Job]
  BY DEF TypeOK, Worker, J
<1> QED
  BY <1>1, SettledJobEffect, TerminalFailureEffect, ClaimedEffect DEF JobUpdate

\* The actions of a worker that holds a message.
Holding(w) ==
    \/ ClaimJob(w) \/ Defer(w) \/ Process(w) \/ SettleJob(w)
    \/ DatabaseError(w) \/ WorkerLost(w) \/ TaskCrash(w)

\* Such a worker changes at most its own job, and leaves the callers alone.
LEMMA HoldingStep ==
    ASSUME NEW w \in Workers, Holding(w)
    PROVE  /\ JobUpdate(w)
           /\ worker[w].pc # "idle"
           /\ UNCHANGED <<caller, clock>>
<1>1. CASE ClaimJob(w)
  BY <1>1 DEF ClaimJob, At, JobUpdate
<1>2. CASE SettleJob(w)
  BY <1>2 DEF SettleJob, At, JobUpdate, ActiveAttempt
<1>3. CASE DatabaseError(w)
  BY <1>3 DEF DatabaseError, At, JobUpdate, ActiveAttempt
<1>4. CASE Defer(w) \/ Process(w) \/ WorkerLost(w) \/ TaskCrash(w)
  BY <1>4 DEF Defer, Process, WorkerLost, TaskCrash, At, JobUpdate
<1> QED
  BY <1>1, <1>2, <1>3, <1>4 DEF Holding

\* What such a worker becomes, and where its message goes.
LEMMA HoldingFrame ==
    ASSUME TypeOK, NEW w \in Workers, Holding(w)
    PROVE  /\ worker' \in [Workers -> Worker]
           /\ queue' \in [Jobs -> Nat]
           /\ lost' \subseteq Jobs
           /\ \A v \in Workers : v # w => worker'[v] = worker[v]
           /\ \A j \in Jobs : j # J(w) => queue'[j] = queue[j]
           /\ \A j \in Jobs : queue'[j] >= queue[j]
           /\ lost \subseteq lost'
<1>1. /\ worker \in [Workers -> Worker] /\ worker[w] \in Worker /\ J(w) \in Jobs
      /\ queue \in [Jobs -> Nat] /\ lost \subseteq Jobs
  BY DEF TypeOK, Worker, J
<1>2. ASSUME Ack(w) \/ Requeue(w)
      PROVE  /\ worker' \in [Workers -> Worker]
             /\ queue' \in [Jobs -> Nat]
             /\ \A v \in Workers : v # w => worker'[v] = worker[v]
             /\ \A j \in Jobs : j # J(w) => queue'[j] = queue[j]
             /\ \A j \in Jobs : queue'[j] >= queue[j]
  BY <1>1, <1>2, FreshTypes DEF Ack, Requeue
<1>3. CASE ClaimJob(w)
  <2>1. jobs[J(w)].attempts \in Attempts
    BY <1>1 DEF TypeOK, Job
  <2>2. ~Exhausted(jobs[J(w)]) => jobs[J(w)].attempts + 1 \in Attempts
    BY <2>1, AttemptNumbers DEF Exhausted
  <2>3. /\ worker' \in [Workers -> Worker]
        /\ \A v \in Workers : v # w => worker'[v] = worker[v]
    BY <1>1, <1>3, <2>2 DEF ClaimJob, Worker
  <2> QED
    BY <1>1, <1>3, <2>3 DEF ClaimJob
<1>4. CASE Process(w)
  <2>1. PICK outcome \in {"complete", "fail", "retry"} :
           worker' = [worker EXCEPT ![w].pc = "settle", ![w].outcome = outcome]
    BY <1>4 DEF Process
  <2>2. [worker[w] EXCEPT !.pc = "settle", !.outcome = outcome] \in Worker
    BY <1>1 DEF Worker
  <2>3. worker' = [worker EXCEPT ![w] = [worker[w] EXCEPT !.pc = "settle",
                                                         !.outcome = outcome]]
    BY <1>1, <2>1
  <2>4. UNCHANGED <<queue, lost>>
    BY <1>4 DEF Process
  <2> QED
    BY <1>1, <2>2, <2>3, <2>4
<1>5. CASE Defer(w) \/ SettleJob(w) \/ DatabaseError(w) \/ WorkerLost(w)
  BY <1>1, <1>2, <1>5 DEF Defer, SettleJob, DatabaseError, WorkerLost
<1>6. CASE TaskCrash(w)
  BY <1>1, <1>2, <1>6 DEF TaskCrash
<1> QED
  BY <1>3, <1>4, <1>5, <1>6 DEF Holding


\* The actions of a request in complete_batch.
Calling(c) == EnsureJobs(c) \/ Dispatch(c) \/ RecordDispatch(c) \/ CallerCrash(c)

\* What a request may do to a job: create it, or stamp its dispatch.
LEMMA CallingJobs ==
    ASSUME TypeOK, NEW c \in Callers, Calling(c), NEW j \in Jobs
    PROVE  /\ jobs' \in [Jobs -> Job]
           /\ \/ /\ jobs[j].status = "absent"
                 /\ jobs'[j] = NewJob
              \/ /\ jobs'[j].status = jobs[j].status
                 /\ jobs'[j] = [jobs[j] EXCEPT !.dispatched = jobs'[j].dispatched]
<1>1. /\ jobs \in [Jobs -> Job] /\ jobs[j] \in Job /\ clock \in Nat /\ NewJob \in Job
      /\ caller[c].job \in Jobs
      /\ jobs[j] = [jobs[j] EXCEPT !.dispatched = jobs[j].dispatched]
  BY FreshTypes DEF TypeOK, Caller, Job
<1>2. CASE EnsureJobs(c)
  <2>1. jobs' = Ensured
    BY <1>2 DEF EnsureJobs
  <2> QED
    BY <1>1, <2>1 DEF Ensured
<1>3. CASE RecordDispatch(c)
  <2>1. jobs' = [jobs EXCEPT ![caller[c].job] = [jobs[caller[c].job] EXCEPT !.dispatched = clock]]
    BY <1>1, <1>3 DEF RecordDispatch
  <2>2. ASSUME NEW i \in Jobs
        PROVE  /\ [jobs[i] EXCEPT !.dispatched = clock] \in Job
               /\ [jobs[i] EXCEPT !.dispatched = clock].status = jobs[i].status
               /\ [jobs[i] EXCEPT !.dispatched = clock].dispatched = clock
    BY <1>1 DEF Job
  <2> QED
    BY <1>1, <2>1, <2>2
<1>4. CASE UNCHANGED jobs
  BY <1>1, <1>4
<1> QED
  BY <1>2, <1>3, <1>4 DEF Calling, Dispatch, CallerCrash

\* What a request does to itself and to the queue; it leaves the workers alone.
LEMMA CallingFrame ==
    ASSUME TypeOK, NEW c \in Callers, Calling(c)
    PROVE  /\ caller' \in [Callers -> Caller]
           /\ queue' \in [Jobs -> Nat]
           /\ \A d \in Callers : d # c => caller'[d] = caller[d]
           /\ UNCHANGED <<worker, lost, clock>>
<1>1. /\ caller \in [Callers -> Caller] /\ caller[c] \in Caller
      /\ queue \in [Jobs -> Nat] /\ IdleCaller \in Caller
      /\ caller[c].todo \subseteq Jobs
  BY FreshTypes DEF TypeOK, Caller
<1>2. ASSUME NEW todo \in SUBSET Jobs, NEW pc \in {"idle", "dispatch"}
      PROVE  [IdleCaller EXCEPT !.pc = pc, !.todo = todo] \in Caller
  BY <1>1, <1>2 DEF Caller
<1>3. CASE EnsureJobs(c)
  <2> DEFINE due == {j \in Jobs : Due(Ensured[j])}
             pc == IF due = {} THEN "idle" ELSE "dispatch"
  <2>1. caller' = [caller EXCEPT ![c] = [IdleCaller EXCEPT !.pc = pc, !.todo = due]]
    BY <1>3 DEF EnsureJobs
  <2>2. due \in SUBSET Jobs /\ pc \in {"idle", "dispatch"}
    OBVIOUS
  <2>3. [IdleCaller EXCEPT !.pc = pc, !.todo = due] \in Caller
    BY <1>2, <2>2
  <2>4. queue' = queue /\ UNCHANGED <<worker, lost, clock>>
    BY <1>3 DEF EnsureJobs
  <2> DEFINE new == [IdleCaller EXCEPT !.pc = pc, !.todo = due]
  <2> HIDE DEF new
  <2>5. new \in Caller /\ caller' = [caller EXCEPT ![c] = new]
    BY <2>1, <2>3 DEF new
  <2> QED
    BY <1>1, <2>4, <2>5
<1>4. CASE RecordDispatch(c)
  <2> DEFINE rest == caller[c].todo \ {caller[c].job}
             pc == IF rest = {} THEN "idle" ELSE "dispatch"
  <2>1. caller' = [caller EXCEPT ![c] = [IdleCaller EXCEPT !.pc = pc, !.todo = rest]]
    BY <1>4 DEF RecordDispatch
  <2>2. rest \in SUBSET Jobs /\ pc \in {"idle", "dispatch"}
    BY <1>1
  <2>3. [IdleCaller EXCEPT !.pc = pc, !.todo = rest] \in Caller
    BY <1>2, <2>2
  <2>4. queue' = queue /\ UNCHANGED <<worker, lost, clock>>
    BY <1>4 DEF RecordDispatch
  <2> DEFINE new == [IdleCaller EXCEPT !.pc = pc, !.todo = rest]
  <2> HIDE DEF new
  <2>5. new \in Caller /\ caller' = [caller EXCEPT ![c] = new]
    BY <2>1, <2>3 DEF new
  <2> QED
    BY <1>1, <2>4, <2>5
<1>5. CASE Dispatch(c)
  <2>1. PICK j \in caller[c].todo :
           \/ /\ queue' = [queue EXCEPT ![j] = @ + 1]
              /\ \/ caller' = [caller EXCEPT ![c].pc = "record", ![c].job = j]
                 \/ caller' = [caller EXCEPT ![c] = IdleCaller]
           \/ caller' = [caller EXCEPT ![c] = IdleCaller] /\ UNCHANGED queue
    BY <1>5 DEF Dispatch
  <2>2. j \in Jobs
    BY <1>1
  <2>3. queue' \in [Jobs -> Nat]
    BY <1>1, <2>1, <2>2
  <2>4. [caller[c] EXCEPT !.pc = "record", !.job = j] \in Caller
    BY <1>1, <2>2 DEF Caller
  <2>5. \/ caller' = [caller EXCEPT ![c] = [caller[c] EXCEPT !.pc = "record", !.job = j]]
        \/ caller' = [caller EXCEPT ![c] = IdleCaller]
    BY <1>1, <2>1
  <2> QED
    BY <1>1, <1>5, <2>3, <2>4, <2>5 DEF Dispatch
<1>6. CASE CallerCrash(c)
  BY <1>1, <1>6 DEF CallerCrash
<1> QED
  BY <1>3, <1>4, <1>5, <1>6 DEF Calling

\* A delivered message.
LEMMA DeliverEffect ==
    ASSUME TypeOK, NEW w \in Workers, NEW j \in Jobs, Deliver(w, j)
    PROVE  /\ worker[w].pc = "idle" /\ queue[j] > 0
           /\ worker' \in [Workers -> Worker]
           /\ \A v \in Workers : v # w => worker'[v] = worker[v]
           /\ worker'[w].pc = "claim" /\ worker'[w].job = j /\ worker'[w].at = clock
           /\ queue' \in [Jobs -> Nat]
           /\ \A i \in Jobs : i # j => queue'[i] = queue[i]
           /\ UNCHANGED <<jobs, caller, lost, clock>>
<1>1. /\ worker \in [Workers -> Worker] /\ IdleWorker \in Worker
      /\ queue \in [Jobs -> Nat] /\ clock \in Nat
  BY FreshTypes DEF TypeOK
<1>2. [IdleWorker EXCEPT !.pc = "claim", !.job = j, !.at = clock] \in Worker
  BY <1>1 DEF Worker
<1>3. /\ [IdleWorker EXCEPT !.pc = "claim", !.job = j, !.at = clock].pc = "claim"
      /\ [IdleWorker EXCEPT !.pc = "claim", !.job = j, !.at = clock].job = j
      /\ [IdleWorker EXCEPT !.pc = "claim", !.job = j, !.at = clock].at = clock
  BY <1>1 DEF Worker
<1>4. worker' = [worker EXCEPT ![w] =
                    [IdleWorker EXCEPT !.pc = "claim", !.job = j, !.at = clock]]
  BY DEF Deliver
<1>5. queue' \in [Jobs -> Nat] /\ \A i \in Jobs : i # j => queue'[i] = queue[i]
  BY <1>1 DEF Deliver
<1> QED
  BY <1>1, <1>2, <1>3, <1>4, <1>5 DEF Deliver, At

\* The shape of a step.
LEMMA Steps ==
    ASSUME [Next]_vars
    PROVE  \/ \E c \in Callers : Calling(c)
           \/ \E w \in Workers : Holding(w)
           \/ \E w \in Workers, j \in Jobs : Deliver(w, j)
           \/ Tick
           \/ UNCHANGED vars
  BY DEF Next, Work, Calling, Holding

\* TypeOK is inductive.
LEMMA ProcessingTypeInductive ==
    ASSUME TypeOK, [Next]_vars
    PROVE  TypeOK'
<1>1. ASSUME NEW c \in Callers, Calling(c)
      PROVE  TypeOK'
  <2>1. jobs' \in [Jobs -> Job]
    BY <1>1, CallingJobs, ProcessingAssumption
  <2> QED
    BY <1>1, <2>1, CallingFrame DEF TypeOK
<1>2. ASSUME NEW w \in Workers, Holding(w)
      PROVE  TypeOK'
  BY <1>2, HoldingStep, HoldingFrame, JobUpdateType DEF TypeOK
<1>3. ASSUME NEW w \in Workers, NEW j \in Jobs, Deliver(w, j)
      PROVE  TypeOK'
  BY <1>3, DeliverEffect DEF TypeOK
<1>4. CASE Tick
  BY <1>4 DEF Tick, TypeOK
<1>5. CASE UNCHANGED vars
  BY <1>5 DEF vars, TypeOK
<1> QED
  BY <1>1, <1>2, <1>3, <1>4, <1>5, Steps

\* The initial state is well-formed.
LEMMA ProcessingTypeInit == Init => TypeOK
  BY FreshTypes DEF Init, TypeOK

\* Type correctness of the processing pipeline; in particular no job starts
\* more than max_attempts attempts.
THEOREM ProcessingTypeCorrect == Spec => []TypeOK
  BY ProcessingTypeInit, ProcessingTypeInductive, PTL DEF Spec


-----------------------------------------------------------------------------
(***************************************************************************)
(* The inductive invariant.                                                *)
(***************************************************************************)

\* A worker's transaction never uncreates a job or lowers its attempts, and
\* leaves the job consistent.
LEMMA JobUpdateEffect ==
    ASSUME ProcessingInv, NEW w \in Workers, JobUpdate(w), worker[w].pc # "idle",
           NEW j \in Jobs
    PROVE  /\ jobs[j].status # "absent" => jobs'[j].status # "absent"
           /\ jobs'[j].attempts >= jobs[j].attempts
           /\ jobs'[j].status = "processing" => jobs'[j].token = jobs'[j].attempts
           /\ jobs'[j].output = IF jobs'[j].status = "completed"
                                THEN jobs'[j].attempts ELSE 0
<1>1. /\ TypeOK /\ J(w) \in Jobs /\ jobs \in [Jobs -> Job] /\ worker[w].at \in Nat
      /\ jobs[j] \in Job /\ jobs[j].attempts \in Nat /\ JobInv(j) /\ WorkerInv(w)
  BY AttemptNumbers DEF ProcessingInv, TypeOK, Worker, J, Job
<1>2. CASE jobs'[j] = jobs[j]
  BY <1>1, <1>2 DEF JobInv
<1>3. CASE /\ j = J(w) /\ jobs'[j] = Claimed(jobs[j], worker[w].at)
           /\ ~Unclaimable(jobs[j], worker[w].at) /\ ~Exhausted(jobs[j])
  <2>1. jobs[j].output = 0
    BY <1>1, <1>3 DEF JobInv, Unclaimable, Terminal
  <2> QED
    BY <1>1, <1>3, <2>1, ClaimedEffect
<1>4. CASE /\ j = J(w) /\ jobs'[j] = TerminalFailure(jobs[j])
           /\ ~Unclaimable(jobs[j], worker[w].at)
  <2>1. jobs[j].output = 0
    BY <1>1, <1>4 DEF JobInv, Unclaimable, Terminal
  <2> QED
    BY <1>1, <1>4, <2>1, TerminalFailureEffect
<1>5. CASE j = J(w) /\ jobs'[j] = SettledJob(w) /\ Owns(w)
  <2>1. jobs[j].output = 0 /\ worker[w].token = jobs[j].attempts
    BY <1>1, <1>5 DEF JobInv, Owns
  <2> QED
    BY <1>1, <1>5, <2>1, SettledJobEffect
<1> QED
  BY <1>1, <1>2, <1>3, <1>4, <1>5 DEF JobUpdate

\* The attempts of the other workers: their lease still stands or has passed.
LEMMA OtherWorkers ==
    ASSUME ProcessingInv, NEW w \in Workers, Holding(w), NEW v \in Workers, v # w
    PROVE  WorkerInv(v)'
<1>1. /\ TypeOK /\ JobUpdate(w) /\ worker[w].pc # "idle" /\ UNCHANGED clock
      /\ worker'[v] = worker[v] /\ J(v)' = J(v)
      /\ \A j \in Jobs : j # J(w) => jobs'[j] = jobs[j]
  BY HoldingStep, HoldingFrame, JobUpdateType DEF ProcessingInv, J
<1>2. /\ J(v) \in Jobs /\ J(w) \in Jobs /\ jobs \in [Jobs -> Job] /\ clock \in Nat
      /\ worker[v].at \in Nat /\ worker[w].at \in Nat /\ worker[v].token \in Nat
      /\ jobs[J(v)].attempts \in Nat /\ jobs'[J(v)].attempts \in Nat
      /\ jobs[J(v)] \in Job /\ LeaseDuration \in Nat
  BY <1>1, JobUpdateType, AttemptNumbers, ProcessingAssumption DEF TypeOK, Worker, J, Job
<1>3. /\ WorkerInv(v) /\ WorkerInv(w) /\ Distinct(v, w)
  BY DEF ProcessingInv
<1>4. /\ jobs[J(v)].status # "absent" => jobs'[J(v)].status # "absent"
      /\ jobs'[J(v)].attempts >= jobs[J(v)].attempts
  BY <1>1, <1>2, JobUpdateEffect
<1>5. CASE jobs'[J(v)] = jobs[J(v)]
  BY <1>1, <1>3, <1>5 DEF WorkerInv, ActiveAttempt
<1>6. CASE jobs'[J(v)] # jobs[J(v)]
  <2>1. J(v) = J(w)
    BY <1>1, <1>2, <1>6
  <2>2. ASSUME worker[v].pc # "idle", ActiveAttempt(v)
        PROVE  worker[v].at + LeaseDuration <= clock
    <3>1. CASE ~Unclaimable(jobs[J(w)], worker[w].at)
      <4>1. jobs[J(v)].status = "processing" => jobs[J(v)].lease <= worker[w].at
        <5>1. jobs[J(v)].lease \in Nat
          BY <1>2 DEF Job
        <5> QED
          BY <1>2, <2>1, <3>1, <5>1 DEF Unclaimable
      <4>2. worker[w].at <= clock
        BY <1>1, <1>3 DEF WorkerInv
      <4> QED
        BY <1>2, <1>3, <2>2, <4>1, <4>2 DEF WorkerInv
    <3>2. CASE ActiveAttempt(w) /\ Owns(w)
      BY <1>3, <2>1, <2>2, <3>2 DEF WorkerInv, Distinct, Owns
    <3> QED
      BY <1>1, <1>6, <3>1, <3>2 DEF JobUpdate
  <2> QED
    BY <1>1, <1>2, <1>3, <1>4, <2>2 DEF WorkerInv, ActiveAttempt
<1> QED
  BY <1>5, <1>6

\* What the acting worker knows afterwards.
LEMMA ActingWorker ==
    ASSUME ProcessingInv, NEW w \in Workers, Holding(w)
    PROVE  /\ WorkerInv(w)'
           /\ worker'[w].pc # "idle" => J(w)' = J(w)
           /\ ActiveAttempt(w)' =>
                 \/ ActiveAttempt(w) /\ worker'[w].token = worker[w].token
                 \/ worker'[w].token = jobs[J(w)].attempts + 1
<1>1. /\ TypeOK /\ J(w) \in Jobs /\ jobs[J(w)] \in Job /\ worker[w] \in Worker
      /\ worker \in [Workers -> Worker] /\ jobs \in [Jobs -> Job] /\ worker[w].at \in Nat
      /\ WorkerInv(w)
  BY DEF ProcessingInv, TypeOK, Worker, J
<1>2. CASE worker'[w].pc = "idle"
  BY <1>2 DEF WorkerInv, ActiveAttempt
<1>3. CASE ClaimJob(w)
  <2>1. /\ worker[w].pc = "claim" /\ UNCHANGED clock
        /\ jobs[J(w)].status # "absent" /\ worker[w].at <= clock
    BY <1>1, <1>3 DEF ClaimJob, At, WorkerInv
  <2>2. CASE worker' = [worker EXCEPT ![w].pc = "defer"]
    <3>1. /\ worker'[w].pc = "defer" /\ worker'[w].at = worker[w].at
          /\ worker'[w].job = worker[w].job
      BY <1>1, <2>2 DEF Worker
    <3>2. jobs'[J(w)].status # "absent"
      BY <1>1, <1>3, <2>1, HoldingStep, JobUpdateEffect DEF Holding
    <3> QED
      BY <2>1, <3>1, <3>2 DEF WorkerInv, ActiveAttempt, J
  <2>3. CASE /\ ~Exhausted(jobs[J(w)])
             /\ jobs' = [jobs EXCEPT ![J(w)] = Claimed(jobs[J(w)], worker[w].at)]
             /\ worker' = [worker EXCEPT ![w].pc = "process",
                                         ![w].token = jobs[J(w)].attempts + 1]
    <3>1. /\ worker'[w].pc = "process" /\ worker'[w].at = worker[w].at
          /\ worker'[w].job = worker[w].job /\ worker'[w].token = jobs[J(w)].attempts + 1
      BY <1>1, <2>3 DEF Worker
    <3>2. jobs'[J(w)] = Claimed(jobs[J(w)], worker[w].at)
      BY <1>1, <2>3
    <3>3. J(w)' = J(w)
      BY <3>1 DEF J
    <3>4. jobs[J(w)].attempts \in Nat
      BY <1>1, AttemptNumbers DEF Job
    <3>5. WorkerInv(w)'
      BY <1>1, <2>1, <2>3, <3>1, <3>2, <3>3, <3>4, ClaimedEffect DEF WorkerInv, ActiveAttempt
    <3> QED
      BY <3>1, <3>3, <3>5
  <2> QED
    BY <1>3, <2>2, <2>3 DEF ClaimJob
<1>4. CASE Process(w)
  <2>1. PICK outcome \in {"complete", "fail", "retry"} :
           worker' = [worker EXCEPT ![w].pc = "settle", ![w].outcome = outcome]
    BY <1>4 DEF Process
  <2>2. /\ worker'[w].pc = "settle" /\ worker'[w].at = worker[w].at
        /\ worker'[w].job = worker[w].job /\ worker'[w].token = worker[w].token
    BY <1>1, <2>1 DEF Worker
  <2>3. worker[w].pc = "process" /\ UNCHANGED <<jobs, clock>>
    BY <1>4 DEF Process, At
  <2> QED
    BY <1>1, <2>2, <2>3 DEF WorkerInv, ActiveAttempt, J
<1>5. CASE Defer(w) \/ SettleJob(w) \/ DatabaseError(w) \/ WorkerLost(w) \/ TaskCrash(w)
  <2>1. worker' = [worker EXCEPT ![w] = IdleWorker]
    BY <1>5 DEF Defer, SettleJob, DatabaseError, WorkerLost, TaskCrash, Ack, Requeue
  <2>2. worker'[w].pc = "idle"
    BY <1>1, <2>1 DEF IdleWorker
  <2> QED
    BY <1>2, <2>2
<1> QED
  BY <1>3, <1>4, <1>5 DEF Holding


\* A job in processing keeps a message or a worker that can bring it forward.
LEMMA HoldingDriven ==
    ASSUME ProcessingInv, NEW w \in Workers, Holding(w), NEW j \in Jobs
    PROVE  Driven(j)'
<1> SUFFICES ASSUME jobs'[j].status = "processing", j \notin lost'
             PROVE  queue'[j] > 0 \/ \E v \in Workers : Drives(v, j)'
  BY DEF Driven
<1>1. /\ TypeOK /\ J(w) \in Jobs /\ jobs \in [Jobs -> Job] /\ jobs[J(w)] \in Job
      /\ worker \in [Workers -> Worker] /\ worker[w] \in Worker /\ worker[w].at \in Nat
      /\ queue \in [Jobs -> Nat]
      /\ Driven(j)
  BY DEF ProcessingInv, TypeOK, Worker, J
<1>2. /\ \A v \in Workers : v # w => worker'[v] = worker[v]
      /\ \A i \in Jobs : i # J(w) => queue'[i] = queue[i] /\ jobs'[i] = jobs[i]
      /\ queue'[j] >= queue[j] /\ queue' \in [Jobs -> Nat]
      /\ lost \subseteq lost'
  BY <1>1, HoldingStep, HoldingFrame, JobUpdateType
<1>3. ASSUME jobs'[j] = jobs[j],
             \A v \in Workers : Drives(v, j) => v # w \/ Drives(w, j)'
      PROVE  queue'[j] > 0 \/ \E v \in Workers : Drives(v, j)'
  <2>1. queue[j] > 0 \/ \E v \in Workers : Drives(v, j)
    BY <1>1, <1>2, <1>3 DEF Driven
  <2>2. CASE queue[j] > 0
    BY <1>1, <1>2, <2>2
  <2>3. ASSUME NEW v \in Workers, Drives(v, j)
        PROVE  \E u \in Workers : Drives(u, j)'
    <3>1. CASE v = w
      BY <1>3, <2>3, <3>1
    <3>2. CASE v # w
      <4>1. worker'[v] = worker[v]
        BY <1>2, <3>2
      <4>2. Drives(v, j)'
        BY <1>3, <2>3, <4>1 DEF Drives, ActiveAttempt, J
      <4> QED
        BY <4>2
    <3> QED
      BY <3>1, <3>2
  <2> QED
    BY <2>1, <2>2, <2>3
<1>4. CASE j # J(w)
  <2>1. jobs'[j] = jobs[j]
    BY <1>2, <1>4
  <2>2. \A v \in Workers : Drives(v, j) => v # w
    BY <1>4 DEF Drives
  <2> QED
    BY <1>3, <2>1, <2>2
<1>5. CASE j = J(w) /\ Requeue(w)
  BY <1>1, <1>5 DEF Requeue
<1>6. CASE j = J(w) /\ ClaimJob(w)
  <2>1. CASE worker' = [worker EXCEPT ![w].pc = "defer"]
    <3>1. worker'[w].pc = "defer" /\ worker'[w].job = worker[w].job
      BY <1>1, <2>1 DEF Worker
    <3>2. Drives(w, j)'
      BY <1>6, <3>1 DEF Drives, J
    <3> QED
      BY <3>2
  <2>2. CASE /\ ~Exhausted(jobs[J(w)])
             /\ jobs' = [jobs EXCEPT ![J(w)] = Claimed(jobs[J(w)], worker[w].at)]
             /\ worker' = [worker EXCEPT ![w].pc = "process",
                                         ![w].token = jobs[J(w)].attempts + 1]
    <3>1. /\ worker'[w].pc = "process" /\ worker'[w].job = worker[w].job
          /\ worker'[w].token = jobs[J(w)].attempts + 1
      BY <1>1, <2>2 DEF Worker
    <3>2. jobs'[j].token = jobs[J(w)].attempts + 1
      BY <1>1, <1>6, <2>2, ClaimedEffect
    <3>3. Drives(w, j)'
      BY <1>6, <3>1, <3>2 DEF Drives, ActiveAttempt, J
    <3> QED
      BY <3>3
  <2> QED
    BY <1>6, <2>1, <2>2 DEF ClaimJob
<1>7. CASE j = J(w) /\ Process(w)
  <2>1. PICK outcome \in {"complete", "fail", "retry"} :
           worker' = [worker EXCEPT ![w].pc = "settle", ![w].outcome = outcome]
    BY <1>7 DEF Process
  <2>2. /\ worker'[w].pc = "settle" /\ worker'[w].job = worker[w].job
        /\ worker'[w].token = worker[w].token
    BY <1>1, <2>1 DEF Worker
  <2>3. worker[w].pc = "process" /\ UNCHANGED jobs
    BY <1>7 DEF Process, At
  <2>4. Drives(w, j) => Drives(w, j)'
    BY <2>2, <2>3 DEF Drives, ActiveAttempt, J
  <2> QED
    BY <1>3, <2>3, <2>4
<1>8. CASE j = J(w) /\ SettleJob(w)
  <2>1. CASE Owns(w) /\ jobs' = [jobs EXCEPT ![J(w)] = SettledJob(w)]
    <3>1. jobs'[j].status \in {"completed", "failed", "queued"}
      BY <1>1, <1>8, <2>1, SettledJobEffect
    <3> QED
      BY <3>1
  <2>2. CASE ~Owns(w) /\ UNCHANGED jobs
    <3>1. ~Drives(w, j)
      BY <1>8, <2>2 DEF SettleJob, At, Drives, ActiveAttempt, Owns
    <3> QED
      BY <1>3, <2>2, <3>1
  <2> QED
    BY <1>8, <2>1, <2>2 DEF SettleJob
<1>9. CASE j = J(w) /\ (Defer(w) \/ DatabaseError(w) \/ WorkerLost(w) \/ TaskCrash(w))
  BY <1>5, <1>9 DEF Defer, Terminal, DatabaseError, WorkerLost, TaskCrash
<1> QED
  BY <1>4, <1>6, <1>7, <1>8, <1>9 DEF Holding

\* The steps of a worker that holds a message.
LEMMA HoldingInductive ==
    ASSUME ProcessingInv, NEW w \in Workers, Holding(w)
    PROVE  ProcessingInv'
<1>1. TypeOK /\ JobUpdate(w) /\ worker[w].pc # "idle" /\ UNCHANGED <<caller, clock>>
  BY HoldingStep DEF ProcessingInv
<1>2. /\ jobs' \in [Jobs -> Job] /\ queue' \in [Jobs -> Nat] /\ J(w) \in Jobs
      /\ \A j \in Jobs : j # J(w) => queue'[j] = queue[j]
      /\ \A v \in Workers : v # w => worker'[v] = worker[v]
  BY <1>1, JobUpdateType, HoldingFrame DEF TypeOK, Worker, J
<1>3. TypeOK'
  BY <1>1, JobUpdateType, HoldingFrame DEF TypeOK
<1>4. ASSUME NEW j \in Jobs
      PROVE  JobInv(j)'
  <2>1. queue'[j] > 0 => jobs[j].status # "absent"
    BY <1>1, <1>2 DEF ProcessingInv, JobInv, WorkerInv
  <2> QED
    BY <1>1, <2>1, JobUpdateEffect DEF JobInv
<1>5. ASSUME NEW c \in Callers
      PROVE  CallerInv(c)'
  <2>1. caller[c].todo \subseteq Jobs /\ CallerInv(c)
    BY <1>1 DEF ProcessingInv, TypeOK, Caller
  <2>2. \A j \in Jobs : jobs[j].status # "absent" => jobs'[j].status # "absent"
    BY <1>1, JobUpdateEffect
  <2> QED
    BY <1>1, <2>1, <2>2 DEF CallerInv
<1>6. ASSUME NEW v \in Workers
      PROVE  WorkerInv(v)'
  BY OtherWorkers, ActingWorker
<1>7. ASSUME NEW u \in Workers, NEW v \in Workers
      PROVE  Distinct(u, v)'
  <2>1. ASSUME NEW x \in Workers, x # w, J(x)' = J(w)', ActiveAttempt(x)', ActiveAttempt(w)'
        PROVE  worker'[x].token # worker'[w].token
    <3>1. worker'[x] = worker[x] /\ J(w)' = J(w) /\ J(x)' = J(x) /\ ActiveAttempt(x)
      BY <1>2, <2>1, ActingWorker DEF J, ActiveAttempt
    <3>2. /\ worker[x].token <= jobs[J(w)].attempts
          /\ worker[x].token \in Nat /\ jobs[J(w)].attempts \in Nat
      BY <1>1, <1>2, <2>1, <3>1, AttemptNumbers
         DEF ProcessingInv, WorkerInv, TypeOK, Worker, Job, ActiveAttempt
    <3>3. CASE ActiveAttempt(w) /\ worker'[w].token = worker[w].token
      BY <2>1, <3>1, <3>3 DEF ProcessingInv, Distinct
    <3>4. CASE worker'[w].token = jobs[J(w)].attempts + 1
      BY <3>1, <3>2, <3>4
    <3> QED
      BY <2>1, <3>3, <3>4, ActingWorker
  <2>2. CASE u = w \/ v = w
    BY <2>1, <2>2 DEF Distinct
  <2>3. CASE u # w /\ v # w
    <3>1. worker'[u] = worker[u] /\ worker'[v] = worker[v] /\ Distinct(u, v)
      BY <1>2, <2>3 DEF ProcessingInv
    <3> QED
      BY <3>1 DEF Distinct, ActiveAttempt, J
  <2> QED
    BY <2>2, <2>3
<1>8. \A j \in Jobs : Driven(j)'
  BY HoldingDriven
<1> QED
  BY <1>3, <1>4, <1>5, <1>6, <1>7, <1>8 DEF ProcessingInv


\* A request publishes only jobs it knows to be committed.
LEMMA CallingQueue ==
    ASSUME ProcessingInv, NEW c \in Callers, Calling(c)
    PROVE  /\ \A j \in Jobs : queue'[j] >= queue[j]
           /\ \A j \in Jobs : queue'[j] > 0 => queue[j] > 0 \/ j \in caller[c].todo
           /\ \A j \in caller'[c].todo : jobs'[j].status # "absent"
           /\ caller'[c].pc = "record" => caller'[c].job \in caller'[c].todo
<1>1. /\ TypeOK /\ CallerInv(c) /\ queue \in [Jobs -> Nat]
      /\ caller \in [Callers -> Caller] /\ caller[c] \in Caller /\ IdleCaller \in Caller
      /\ caller[c].todo \subseteq Jobs /\ caller[c].job \in Jobs
      /\ IdleCaller.todo = {} /\ IdleCaller.pc = "idle"
  BY FreshTypes DEF ProcessingInv, TypeOK, Caller, IdleCaller
<1>2. \A j \in Jobs : jobs[j].status # "absent" => jobs'[j].status # "absent"
  BY <1>1, CallingJobs
<1>3. CASE EnsureJobs(c)
  <2> DEFINE due == {j \in Jobs : Due(Ensured[j])}
             pc == IF due = {} THEN "idle" ELSE "dispatch"
  <2>1. /\ caller' = [caller EXCEPT ![c] = [IdleCaller EXCEPT !.pc = pc, !.todo = due]]
        /\ jobs' = Ensured /\ UNCHANGED queue
    BY <1>3 DEF EnsureJobs
  <2>2. due \subseteq Jobs /\ pc # "record"
    OBVIOUS
  <2>3. \A j \in Jobs : jobs'[j].status # "absent"
    BY <2>1 DEF Ensured, NewJob, Absent
  <2> HIDE DEF due, pc
  <2>4. caller'[c].todo = due /\ caller'[c].pc = pc
    BY <1>1, <2>1 DEF Caller
  <2> QED
    BY <1>1, <2>1, <2>2, <2>3, <2>4
<1>4. CASE RecordDispatch(c)
  <2> DEFINE rest == caller[c].todo \ {caller[c].job}
             pc == IF rest = {} THEN "idle" ELSE "dispatch"
  <2>1. /\ caller' = [caller EXCEPT ![c] = [IdleCaller EXCEPT !.pc = pc, !.todo = rest]]
        /\ UNCHANGED queue
    BY <1>4 DEF RecordDispatch
  <2>2. rest \subseteq caller[c].todo /\ pc # "record"
    OBVIOUS
  <2> HIDE DEF rest, pc
  <2>3. caller'[c].todo = rest /\ caller'[c].pc = pc
    BY <1>1, <2>1 DEF Caller
  <2> QED
    BY <1>1, <1>2, <2>1, <2>2, <2>3 DEF CallerInv
<1>5. CASE Dispatch(c)
  <2>1. PICK j \in caller[c].todo :
           \/ /\ queue' = [queue EXCEPT ![j] = @ + 1]
              /\ \/ caller' = [caller EXCEPT ![c].pc = "record", ![c].job = j]
                 \/ caller' = [caller EXCEPT ![c] = IdleCaller]
           \/ caller' = [caller EXCEPT ![c] = IdleCaller] /\ UNCHANGED queue
    BY <1>5 DEF Dispatch
  <2>2. /\ \A i \in Jobs : queue'[i] >= queue[i]
        /\ \A i \in Jobs : queue'[i] > 0 => queue[i] > 0 \/ i = j
    BY <1>1, <2>1
  <2>3. \/ caller'[c].todo = {} /\ caller'[c].pc = "idle"
        \/ caller'[c].todo = caller[c].todo /\ caller'[c].job = j
    BY <1>1, <2>1 DEF Caller
  <2> QED
    BY <1>1, <1>2, <2>1, <2>2, <2>3 DEF CallerInv
<1>6. CASE CallerCrash(c)
  <2>1. caller'[c].todo = {} /\ caller'[c].pc = "idle" /\ UNCHANGED queue
    BY <1>1, <1>6 DEF CallerCrash
  <2> QED
    BY <1>1, <2>1
<1> QED
  BY <1>3, <1>4, <1>5, <1>6 DEF Calling

\* The steps of an API request.
LEMMA CallingInductive ==
    ASSUME ProcessingInv, NEW c \in Callers, Calling(c)
    PROVE  ProcessingInv'
<1>1. /\ TypeOK /\ UNCHANGED <<worker, lost, clock>>
      /\ \A d \in Callers : d # c => caller'[d] = caller[d]
      /\ queue' \in [Jobs -> Nat] /\ queue \in [Jobs -> Nat]
  BY CallingFrame DEF ProcessingInv, TypeOK
<1>2. TypeOK'
  <2>1. jobs' \in [Jobs -> Job]
    BY <1>1, CallingJobs, ProcessingAssumption
  <2> QED
    BY <1>1, <2>1, CallingFrame DEF TypeOK
<1>3. ASSUME NEW j \in Jobs
      PROVE  \/ /\ jobs[j].status = "absent" /\ jobs'[j].status = "queued"
                /\ jobs'[j].output = 0
             \/ /\ jobs'[j].status = jobs[j].status /\ jobs'[j].attempts = jobs[j].attempts
                /\ jobs'[j].token = jobs[j].token /\ jobs'[j].lease = jobs[j].lease
                /\ jobs'[j].output = jobs[j].output
  <2>1. CASE jobs[j].status = "absent" /\ jobs'[j] = NewJob
    BY <2>1 DEF NewJob, Absent
  <2>2. CASE jobs'[j] = [jobs[j] EXCEPT !.dispatched = jobs'[j].dispatched]
    <3>1. jobs[j] \in Job
      BY <1>1 DEF TypeOK
    <3> DEFINE d == jobs'[j].dispatched
    <3>2. jobs'[j] = [jobs[j] EXCEPT !.dispatched = d]
      BY <2>2
    <3> HIDE DEF d
    <3> QED
      BY <3>1, <3>2 DEF Job
  <2> QED
    BY <1>1, <2>1, <2>2, CallingJobs
<1>4. ASSUME NEW j \in Jobs
      PROVE  JobInv(j)'
  <2>1. queue'[j] > 0 => jobs[j].status # "absent"
    BY <1>1, CallingQueue DEF ProcessingInv, JobInv, CallerInv
  <2>2. JobInv(j)
    BY DEF ProcessingInv
  <2> QED
    BY <1>3, <2>1, <2>2 DEF JobInv
<1>5. ASSUME NEW d \in Callers
      PROVE  CallerInv(d)'
  <2>1. CASE d = c
    BY <2>1, CallingQueue DEF CallerInv
  <2>2. CASE d # c
    <3>1. caller'[d] = caller[d] /\ CallerInv(d) /\ caller[d].todo \subseteq Jobs
      BY <1>1, <2>2 DEF ProcessingInv, TypeOK, Caller
    <3>2. \A j \in Jobs : jobs[j].status # "absent" => jobs'[j].status # "absent"
      BY <1>3
    <3> QED
      BY <3>1, <3>2 DEF CallerInv
  <2> QED
    BY <2>1, <2>2
<1>6. ASSUME NEW w \in Workers
      PROVE  WorkerInv(w)'
  <2>1. WorkerInv(w) /\ J(w) \in Jobs /\ J(w)' = J(w)
    BY <1>1 DEF ProcessingInv, TypeOK, Worker, J
  <2> QED
    BY <1>1, <1>3, <2>1 DEF WorkerInv, ActiveAttempt
<1>7. \A v, w \in Workers : Distinct(v, w)'
  BY <1>1 DEF ProcessingInv, Distinct, ActiveAttempt, J
<1>8. ASSUME NEW j \in Jobs
      PROVE  Driven(j)'
  <2>1. Driven(j) /\ queue'[j] >= queue[j] /\ queue[j] \in Nat /\ queue'[j] \in Nat
    BY <1>1, CallingQueue DEF ProcessingInv
  <2>2. \A w \in Workers : jobs'[j].token = jobs[j].token /\ Drives(w, j) => Drives(w, j)'
    BY <1>1 DEF Drives, ActiveAttempt, J
  <2>3. jobs'[j].status = "processing" =>
           jobs[j].status = "processing" /\ jobs'[j].token = jobs[j].token
    BY <1>3
  <2> QED
    BY <1>1, <2>1, <2>2, <2>3 DEF Driven
<1> QED
  BY <1>2, <1>4, <1>5, <1>6, <1>7, <1>8 DEF ProcessingInv

\* A delivery hands the message from the broker to a worker.
LEMMA DeliverInductive ==
    ASSUME ProcessingInv, NEW w \in Workers, NEW i \in Jobs, Deliver(w, i)
    PROVE  ProcessingInv'
<1>1. /\ TypeOK /\ UNCHANGED <<jobs, caller, lost, clock>>
      /\ worker[w].pc = "idle" /\ queue[i] > 0
      /\ \A v \in Workers : v # w => worker'[v] = worker[v]
      /\ worker'[w].pc = "claim" /\ worker'[w].job = i /\ worker'[w].at = clock
      /\ \A j \in Jobs : j # i => queue'[j] = queue[j]
      /\ clock \in Nat
  BY DeliverEffect DEF ProcessingInv, TypeOK
<1>2. TypeOK'
  BY <1>1, DeliverEffect DEF TypeOK
<1>3. \A j \in Jobs : JobInv(j)'
  BY <1>1 DEF ProcessingInv, JobInv
<1>4. \A c \in Callers : CallerInv(c)'
  BY <1>1 DEF ProcessingInv, CallerInv
<1>5. ASSUME NEW v \in Workers
      PROVE  WorkerInv(v)'
  <2>1. CASE v = w
    BY <1>1, <2>1 DEF ProcessingInv, JobInv, WorkerInv, ActiveAttempt, J
  <2>2. CASE v # w
    <3>1. worker'[v] = worker[v] /\ WorkerInv(v)
      BY <1>1, <2>2 DEF ProcessingInv
    <3> QED
      BY <1>1, <3>1 DEF WorkerInv, ActiveAttempt, J
  <2> QED
    BY <2>1, <2>2
<1>6. ASSUME NEW u \in Workers, NEW v \in Workers
      PROVE  Distinct(u, v)'
  <2>1. CASE u = w \/ v = w
    BY <1>1, <2>1 DEF Distinct, ActiveAttempt
  <2>2. CASE u # w /\ v # w
    <3>1. worker'[u] = worker[u] /\ worker'[v] = worker[v] /\ Distinct(u, v)
      BY <1>1, <2>2 DEF ProcessingInv
    <3> QED
      BY <3>1 DEF Distinct, ActiveAttempt, J
  <2> QED
    BY <2>1, <2>2
<1>7. ASSUME NEW j \in Jobs
      PROVE  Driven(j)'
  <2>1. CASE j = i
    <3>1. Drives(w, j)'
      BY <1>1, <2>1 DEF Drives, J
    <3> QED
      BY <3>1 DEF Driven
  <2>2. CASE j # i
    <3>1. Driven(j) /\ queue'[j] = queue[j]
      BY <1>1, <2>2 DEF ProcessingInv
    <3>2. ASSUME NEW v \in Workers, Drives(v, j)
          PROVE  Drives(v, j)'
      <4>1. v # w
        BY <1>1, <3>2 DEF Drives, ActiveAttempt
      <4>2. worker'[v] = worker[v]
        BY <1>1, <4>1
      <4> QED
        BY <1>1, <3>2, <4>2 DEF Drives, ActiveAttempt, J
    <3> QED
      BY <1>1, <3>1, <3>2 DEF Driven
  <2> QED
    BY <2>1, <2>2
<1> QED
  BY <1>2, <1>3, <1>4, <1>5, <1>6, <1>7 DEF ProcessingInv

\* Nothing depends on the clock standing still.
LEMMA TickInductive ==
    ASSUME ProcessingInv, UNCHANGED <<jobs, queue, caller, worker, lost>>,
           clock' = clock \/ clock' = clock + 1
    PROVE  ProcessingInv'
<1>1. TypeOK /\ TypeOK' /\ clock \in Nat
  BY DEF ProcessingInv, TypeOK
<1>2. ASSUME NEW w \in Workers
      PROVE  WorkerInv(w)'
  <2>1. WorkerInv(w) /\ worker[w].at \in Nat /\ LeaseDuration \in Nat /\ J(w)' = J(w)
    BY <1>1, ProcessingAssumption DEF ProcessingInv, TypeOK, Worker, J
  <2> QED
    BY <1>1, <2>1 DEF WorkerInv, ActiveAttempt
<1>3. /\ \A j \in Jobs : JobInv(j)' /\ Driven(j)'
      /\ \A c \in Callers : CallerInv(c)'
      /\ \A v, w \in Workers : Distinct(v, w)'
  BY DEF ProcessingInv, JobInv, Driven, Drives, CallerInv, Distinct, ActiveAttempt, J
<1> QED
  BY <1>1, <1>2, <1>3 DEF ProcessingInv

\* The inductive invariant holds of every behaviour of the pipeline.
THEOREM ProcessingInvariant == Spec => []ProcessingInv
<1>1. Init => ProcessingInv
  <2> SUFFICES ASSUME Init PROVE ProcessingInv
    OBVIOUS
  <2>1. /\ \A j \in Jobs : jobs[j] = Absent /\ queue[j] = 0
        /\ \A c \in Callers : caller[c] = IdleCaller
        /\ \A w \in Workers : worker[w] = IdleWorker
    BY DEF Init
  <2>2. Absent.status = "absent" /\ Absent.output = 0
    BY DEF Absent
  <2>3. ASSUME NEW j \in Jobs
        PROVE  JobInv(j) /\ Driven(j)
    <3>1. jobs[j].status = "absent" /\ jobs[j].output = 0 /\ queue[j] = 0
      BY <2>1, <2>2
    <3> QED
      BY <3>1 DEF JobInv, Driven
  <2>4. \A c \in Callers : CallerInv(c)
    BY <2>1 DEF CallerInv, IdleCaller
  <2>5. \A w \in Workers : WorkerInv(w) /\ ~ActiveAttempt(w)
    BY <2>1 DEF WorkerInv, IdleWorker, ActiveAttempt
  <2> QED
    BY <2>3, <2>4, <2>5, ProcessingTypeInit DEF ProcessingInv, Distinct
<1>2. ProcessingInv /\ [Next]_vars => ProcessingInv'
  BY Steps, CallingInductive, HoldingInductive, DeliverInductive, TickInductive DEF Tick, vars
<1> QED
  BY <1>1, <1>2, PTL DEF Spec

-----------------------------------------------------------------------------
(***************************************************************************)
(* What follows.                                                           *)
(***************************************************************************)

\* No broker message and no worker ever names a job that is not committed.
THEOREM ProcessingPublishesDurably == Spec => []PublishedIsDurable
<1>1. ProcessingInv => PublishedIsDurable
  BY DEF ProcessingInv, JobInv, WorkerInv, PublishedIsDurable, At
<1> QED
  BY <1>1, ProcessingInvariant, PTL

\* Two workers never process a job under live leases, for any number of
\* workers, duplicates and faults.
THEOREM ProcessingLeaseIsExclusive == Spec => []ExclusiveLease
<1>1. ProcessingInv => ExclusiveLease
  <2> SUFFICES ASSUME ProcessingInv, NEW v \in Workers, NEW w \in Workers,
                      v # w, J(v) = J(w), At(v, "process"), At(w, "process"),
                      worker[v].at + LeaseDuration > clock,
                      worker[w].at + LeaseDuration > clock
               PROVE  FALSE
    BY DEF ExclusiveLease
  <2>1. /\ WorkerInv(v) /\ WorkerInv(w) /\ Distinct(v, w)
        /\ clock \in Nat /\ worker[v].at \in Nat /\ worker[w].at \in Nat
        /\ LeaseDuration \in Nat
    BY ProcessingAssumption DEF ProcessingInv, TypeOK, Worker
  <2> QED
    BY <2>1 DEF WorkerInv, Distinct, ActiveAttempt, At
<1> QED
  BY <1>1, ProcessingInvariant, PTL

\* A completed job records the artifacts of its last attempt.
THEOREM ProcessingOutputOfLastAttempt == Spec => []OutputOfLastAttempt
<1>1. ProcessingInv => OutputOfLastAttempt
  BY DEF ProcessingInv, JobInv, OutputOfLastAttempt
<1> QED
  BY <1>1, ProcessingInvariant, PTL

\* A job in processing never loses its last message, unless a task crashed.
THEOREM ProcessingNeverStrands == Spec => []NotStranded
<1>1. ProcessingInv => NotStranded
  BY DEF ProcessingInv, Driven, Drives, ActiveAttempt, NotStranded, At
<1> QED
  BY <1>1, ProcessingInvariant, PTL

\* A settled job keeps its outcome.
THEOREM ProcessingTerminalIsFinal == Spec => TerminalIsFinal
<1>1. ASSUME TypeOK, [Next]_vars, NEW j \in Jobs, Terminal(jobs[j])
      PROVE  jobs'[j] = [jobs[j] EXCEPT !.dispatched = jobs'[j].dispatched]
  <2>1. jobs[j] \in Job /\ jobs[j] = [jobs[j] EXCEPT !.dispatched = jobs[j].dispatched]
    BY <1>1 DEF TypeOK, Job
  <2>2. CASE jobs'[j] = jobs[j]
    BY <2>1, <2>2
  <2>3. ASSUME NEW c \in Callers, Calling(c)
        PROVE  jobs'[j] = [jobs[j] EXCEPT !.dispatched = jobs'[j].dispatched]
    BY <1>1, <2>3, CallingJobs DEF Terminal
  <2>4. ASSUME NEW w \in Workers, Holding(w)
        PROVE  jobs'[j] = jobs[j]
    <3>1. JobUpdate(w) /\ \A i \in Jobs : i # J(w) => jobs'[i] = jobs[i]
      BY <1>1, <2>4, HoldingStep, JobUpdateType
    <3> QED
      BY <1>1, <3>1 DEF JobUpdate, Unclaimable, Owns, Terminal
  <2> QED
    BY <1>1, <2>2, <2>3, <2>4, Steps DEF Deliver, Tick, vars
<1>2. TypeOK /\ [Next]_vars =>
         [\A j \in Jobs : Terminal(jobs[j]) =>
              jobs'[j] = [jobs[j] EXCEPT !.dispatched = jobs'[j].dispatched]]_vars
  BY <1>1
<1> QED
  BY <1>2, ProcessingTypeCorrect, PTL DEF Spec, TerminalIsFinal


=============================================================================
