-------------------------- MODULE ReportProcessing ---------------------------
(***************************************************************************)
(* Durable report processing: ReportProcessingService                      *)
(* (app/services/processing.py), the Celery dispatcher and the worker task *)
(* (app/workers/tasks.py), for the verified uploads of one batch.          *)
(*                                                                         *)
(* API requests that complete the batch create its jobs in one committed   *)
(* transaction and then publish a broker message for each job that is due. *)
(* Workers take messages, claim the job under a lease, process the report  *)
(* and settle the job; every one of these is a transaction of its own in a *)
(* fresh session.  Messages are delivered at least once: the task is       *)
(* acknowledged late, a lost worker's message is requeued, and a task that *)
(* cannot finish republishes itself with self.retry.  A message may be     *)
(* delivered before its countdown has passed; the claim then defers it.    *)
(*                                                                         *)
(* A claim draws a fresh uuid4 lease token and increments attempt_count,   *)
(* so the attempt number stands for the token.                             *)
(***************************************************************************)
EXTENDS Integers

CONSTANTS
    Jobs,                \* one per verified upload of the batch
    Callers,             \* API requests in complete_batch
    Workers,             \* Celery worker slots
    MaxAttempts,         \* max_attempts of a job
    LeaseDuration,       \* REPORT_PROCESSING_LEASE_DURATION
    RetryDelay,          \* REPORT_PROCESSING_INFRASTRUCTURE_RETRY_DELAY
    RedispatchInterval,  \* REPORT_PROCESSING_REDISPATCH_INTERVAL
    MaxClock,            \* bound: the clock stops here
    MaxQueued,           \* bound: messages of one job waiting at the broker
    FaultHorizon,        \* bound: no fault after this tick
    Never                \* last_dispatched_at IS NULL

ASSUME ProcessingAssumption ==
    /\ Jobs # {}
    /\ MaxAttempts \in Nat \ {0}
    /\ LeaseDuration \in Nat \ {0}
    /\ RetryDelay \in Nat
    /\ RedispatchInterval \in Nat
    /\ {MaxClock, MaxQueued, FaultHorizon} \subseteq Nat
    /\ Never \notin Int

VARIABLES
    jobs,     \* ReportProcessingJob rows
    queue,    \* number of messages of each job waiting at the broker
    caller,   \* API requests in dispatch_due_jobs
    worker,   \* workers and the unacknowledged message each holds
    lost,     \* history: jobs a message of which was dropped by a crashed task
    clock

vars == <<jobs, queue, caller, worker, lost, clock>>

-----------------------------------------------------------------------------

\* Numbers of attempts and, as a claim's token, of the attempt; 0 is no token.
Attempts == 0..MaxAttempts

Job == [status     : {"absent", "queued", "processing", "completed", "failed"},
        attempts   : Attempts,
        available  : Nat,                  \* 0 is NULL
        dispatched : Nat \cup {Never},     \* last_dispatched_at
        token      : Attempts,       \* 0 is NULL
        lease      : Nat,                  \* 0 is NULL
        output     : Attempts]       \* attempt whose artifacts are recorded

Caller == [pc : {"idle", "dispatch", "record"}, todo : SUBSET Jobs, job : Jobs]

Worker == [pc      : {"idle", "claim", "defer", "process", "settle"},
           job     : Jobs,
           at      : Nat,                  \* claimed_at
           token   : Attempts,       \* claim.lease_token
           outcome : {"none", "complete", "fail", "retry"}]

TypeOK ==
    /\ jobs \in [Jobs -> Job]
    /\ queue \in [Jobs -> Nat]
    /\ caller \in [Callers -> Caller]
    /\ worker \in [Workers -> Worker]
    /\ lost \subseteq Jobs
    /\ clock \in Nat

AnyJob == CHOOSE j \in Jobs : TRUE

Absent == [status |-> "absent", attempts |-> 0, available |-> 0,
           dispatched |-> Never, token |-> 0, lease |-> 0, output |-> 0]

IdleCaller == [pc |-> "idle", todo |-> {}, job |-> AnyJob]

IdleWorker == [pc |-> "idle", job |-> AnyJob, at |-> 0, token |-> 0, outcome |-> "none"]

Init ==
    /\ jobs = [j \in Jobs |-> Absent]
    /\ queue = [j \in Jobs |-> 0]
    /\ caller = [c \in Callers |-> IdleCaller]
    /\ worker = [w \in Workers |-> IdleWorker]
    /\ lost = {}
    /\ clock = 0

-----------------------------------------------------------------------------
(***************************************************************************)
(* API requests.                                                           *)
(***************************************************************************)

NewJob == [Absent EXCEPT !.status = "queued", !.available = clock]

Ensured == [j \in Jobs |-> IF jobs[j].status = "absent" THEN NewJob ELSE jobs[j]]

Due(job) ==
    /\ job.status = "queued"
    /\ job.available <= clock
    /\ job.dispatched = Never \/ job.dispatched + RedispatchInterval <= clock

\* ensure_jobs_for_uploads and the commit of complete_batch, under the batch's
\* row lock.  The request keeps the job objects, so what dispatch_due_jobs
\* later reads of them is what they were here.
EnsureJobs(c) ==
    /\ caller[c].pc = "idle"
    /\ jobs' = Ensured
    /\ LET due == {j \in Jobs : Due(Ensured[j])} IN
       caller' = [caller EXCEPT ![c] =
           [IdleCaller EXCEPT !.pc = IF due = {} THEN "idle" ELSE "dispatch", !.todo = due]]
    /\ UNCHANGED <<queue, worker, lost, clock>>

\* dispatcher.dispatch: the message is published, or the broker fails, with or
\* without having taken the message, and the request ends.
Dispatch(c) ==
    /\ caller[c].pc = "dispatch"
    /\ \E j \in caller[c].todo :
          \/ /\ queue[j] < MaxQueued
             /\ queue' = [queue EXCEPT ![j] = @ + 1]
             /\ \/ caller' = [caller EXCEPT ![c].pc = "record", ![c].job = j]
                \/ caller' = [caller EXCEPT ![c] = IdleCaller]
          \/ /\ caller' = [caller EXCEPT ![c] = IdleCaller]
             /\ UNCHANGED queue
    /\ UNCHANGED <<jobs, worker, lost, clock>>

RecordDispatch(c) ==
    LET rest == caller[c].todo \ {caller[c].job} IN
    /\ caller[c].pc = "record"
    /\ jobs' = [jobs EXCEPT ![caller[c].job].dispatched = clock]
    /\ caller' = [caller EXCEPT ![c] =
           [IdleCaller EXCEPT !.pc = IF rest = {} THEN "idle" ELSE "dispatch", !.todo = rest]]
    /\ UNCHANGED <<queue, worker, lost, clock>>

\* The API process dies, or the transaction that records the dispatch fails.
CallerCrash(c) ==
    /\ caller[c].pc # "idle"
    /\ caller' = [caller EXCEPT ![c] = IdleCaller]
    /\ UNCHANGED <<jobs, queue, worker, lost, clock>>

-----------------------------------------------------------------------------
(***************************************************************************)
(* Workers.                                                                *)
(***************************************************************************)

\* Faults of storage, database and workers happen up to FaultHorizon.
Faulty == clock <= FaultHorizon

J(w) == worker[w].job

At(w, pc) == worker[w].pc = pc

Terminal(job) == job.status \in {"completed", "failed"}

\* The message is acknowledged, or republished by self.retry.
Ack(w) == worker' = [worker EXCEPT ![w] = IdleWorker] /\ UNCHANGED queue

Requeue(w) ==
    /\ worker' = [worker EXCEPT ![w] = IdleWorker]
    /\ queue' = [queue EXCEPT ![J(w)] = @ + 1]

Deliver(w, j) ==
    /\ At(w, "idle")
    /\ queue[j] > 0
    /\ queue' = [queue EXCEPT ![j] = @ - 1]
    /\ worker' = [worker EXCEPT ![w] =
           [IdleWorker EXCEPT !.pc = "claim", !.job = j, !.at = clock]]
    /\ UNCHANGED <<jobs, caller, lost, clock>>

TerminalFailure(job) ==
    [job EXCEPT !.status = "failed", !.available = 0, !.token = 0, !.lease = 0,
                !.attempts = IF @ = 0 THEN 1 ELSE @]

Claimed(job, at) ==
    [job EXCEPT !.status = "processing", !.attempts = @ + 1, !.available = 0,
                !.token = job.attempts + 1, !.lease = at + LeaseDuration]

\* Faulty variants of Unclaimable: a live lease is ignored; no lease expires.
UnclaimableIgnoringLease(job, at) ==
    Terminal(job) \/ (job.status = "queued" /\ job.available > at)

UnclaimableForever(job, at) ==
    Terminal(job) \/ job.status = "processing" \/ job.available > at

\* claim_job sends the task away without touching the job.
Unclaimable(job, at) ==
    \/ Terminal(job)
    \/ job.status = "processing" /\ job.lease > at
    \/ job.status = "queued" /\ job.available > at

Exhausted(job) == job.attempts >= MaxAttempts

\* claim_job.  An upload that is verified stays so, hence the branch for an
\* invalid source state is not taken.
ClaimJob(w) ==
    LET job == jobs[J(w)] IN
    /\ At(w, "claim")
    /\ \/ /\ Unclaimable(job, worker[w].at)
          /\ worker' = [worker EXCEPT ![w].pc = "defer"]
          /\ UNCHANGED jobs
       \/ /\ ~Unclaimable(job, worker[w].at)
          /\ Exhausted(job)
          /\ jobs' = [jobs EXCEPT ![J(w)] = TerminalFailure(job)]
          /\ worker' = [worker EXCEPT ![w].pc = "defer"]
       \/ /\ ~Unclaimable(job, worker[w].at)
          /\ ~Exhausted(job)
          /\ jobs' = [jobs EXCEPT ![J(w)] = Claimed(job, worker[w].at)]
          /\ worker' = [worker EXCEPT ![w].pc = "process", ![w].token = job.attempts + 1]
    /\ UNCHANGED <<queue, caller, lost, clock>>

\* Faulty variant: a message that cannot be used now is dropped.
DeferDropped(w) ==
    /\ At(w, "defer")
    /\ Ack(w)
    /\ UNCHANGED <<jobs, caller, lost, clock>>

\* claim_retry_delay: a second transaction decides whether the message is
\* still of use.
Defer(w) ==
    /\ At(w, "defer")
    /\ IF Terminal(jobs[J(w)]) THEN Ack(w) ELSE Requeue(w)
    /\ UNCHANGED <<jobs, caller, lost, clock>>

\* ReportArtifactProcessor.process: artifacts written, a terminal failure (or
\* an unexpected exception, which is treated as one) or a retryable failure,
\* that is a storage fault.
Process(w) ==
    /\ At(w, "process")
    /\ \E outcome \in {"complete", "fail", "retry"} :
          /\ outcome = "retry" => Faulty
          /\ worker' = [worker EXCEPT ![w].pc = "settle", ![w].outcome = outcome]
    /\ UNCHANGED <<jobs, queue, caller, lost, clock>>

\* Faulty variants of Owns: the token, or also the status, is not compared.
OwnsAnyLease(w) == jobs[J(w)].status = "processing"

OwnsAnything(w) == jobs[J(w)].status # "absent"

\* _locked_processing_job: the lease token fences the settlement.
Owns(w) == jobs[J(w)].status = "processing" /\ jobs[J(w)].token = worker[w].token

Retried(job) ==
    IF Exhausted(job) THEN TerminalFailure(job)
    ELSE [job EXCEPT !.status = "queued", !.available = clock + RetryDelay,
                     !.token = 0, !.lease = 0]

Completed(job, attempt) ==
    [job EXCEPT !.status = "completed", !.available = 0, !.token = 0, !.lease = 0,
                !.output = attempt]

\* What complete_job, fail_job or retry_job makes of the job.
SettledJob(w) ==
    LET job == jobs[J(w)] IN
    CASE worker[w].outcome = "complete" -> Completed(job, worker[w].token)
      [] worker[w].outcome = "fail"     -> TerminalFailure(job)
      [] OTHER                          -> Retried(job)

SettleJob(w) ==
    /\ At(w, "settle")
    /\ \/ /\ Owns(w)
          /\ jobs' = [jobs EXCEPT ![J(w)] = SettledJob(w)]
          /\ IF Terminal(SettledJob(w)) THEN Ack(w) ELSE Requeue(w)
       \/ /\ ~Owns(w)
          /\ Ack(w)
          /\ UNCHANGED jobs
    /\ UNCHANGED <<caller, lost, clock>>

-----------------------------------------------------------------------------
(***************************************************************************)
(* Faults.                                                                 *)
(***************************************************************************)

\* SQLAlchemyError in a transaction of the task: nothing was committed, or the
\* commit took effect and its acknowledgement was lost.  The task is retried.
DatabaseError(w) ==
    /\ Faulty
    /\ \/ At(w, "claim") \/ At(w, "defer") \/ At(w, "settle")
    /\ \/ UNCHANGED jobs
       \/ /\ At(w, "claim")
          /\ ~Unclaimable(jobs[J(w)], worker[w].at) /\ ~Exhausted(jobs[J(w)])
          /\ jobs' = [jobs EXCEPT ![J(w)] = Claimed(jobs[J(w)], worker[w].at)]
       \/ /\ At(w, "claim")
          /\ ~Unclaimable(jobs[J(w)], worker[w].at) /\ Exhausted(jobs[J(w)])
          /\ jobs' = [jobs EXCEPT ![J(w)] = TerminalFailure(jobs[J(w)])]
       \/ /\ At(w, "settle")
          /\ Owns(w)
          /\ jobs' = [jobs EXCEPT ![J(w)] = SettledJob(w)]
    /\ Requeue(w)
    /\ UNCHANGED <<caller, lost, clock>>

\* The worker process dies: task_acks_late and task_reject_on_worker_lost put
\* its message back.
WorkerLost(w) ==
    /\ Faulty
    /\ ~At(w, "idle")
    /\ Requeue(w)
    /\ UNCHANGED <<jobs, caller, lost, clock>>

\* Any other exception escapes the task (report_processing_task_crashed), and
\* Celery acknowledges the failed task: the message is gone.
TaskCrash(w) ==
    /\ Faulty
    /\ ~At(w, "idle")
    /\ Ack(w)
    /\ lost' = lost \cup {J(w)}
    /\ UNCHANGED <<jobs, caller, clock>>

\* The faults end with the retries they caused (of interest only where
\* FaultHorizon is below MaxClock).
Tick ==
    /\ clock < MaxClock
    /\ clock = FaultHorizon => \A w \in Workers : worker[w].outcome # "retry"
    /\ clock' = clock + 1
    /\ UNCHANGED <<jobs, queue, caller, worker, lost>>

-----------------------------------------------------------------------------

Work(w) ==
    \/ \E j \in Jobs : Deliver(w, j)
    \/ ClaimJob(w) \/ Defer(w) \/ Process(w) \/ SettleJob(w)

Next ==
    \/ \E c \in Callers : EnsureJobs(c) \/ Dispatch(c) \/ RecordDispatch(c) \/ CallerCrash(c)
    \/ \E w \in Workers : Work(w) \/ DatabaseError(w) \/ WorkerLost(w) \/ TaskCrash(w)
    \/ Tick

Spec == Init /\ [][Next]_vars

\* Workers keep consuming and their steps end (S3 and database calls carry
\* timeouts), and time passes.  Nothing is asked of the API's clients.
Fairness ==
    /\ \A w \in Workers : WF_vars(Work(w))
    /\ WF_vars(Tick)

FairSpec == Spec /\ Fairness

-----------------------------------------------------------------------------
(***************************************************************************)
(* Properties.                                                             *)
(***************************************************************************)

\* README.md, "Each verified file now receives one durable job before broker
\* publication": whatever dies when, a message names a committed job.
PublishedIsDurable ==
    /\ \A j \in Jobs : queue[j] > 0 => jobs[j].status # "absent"
    /\ \A w \in Workers : ~At(w, "idle") => jobs[J(w)].status # "absent"

\* Two workers never process the same job under live leases, however often the
\* message is duplicated, requeued or deferred.
ExclusiveLease ==
    \A v, w \in Workers :
        /\ v # w /\ J(v) = J(w)
        /\ At(v, "process") /\ At(w, "process")
        => ~(worker[v].at + LeaseDuration > clock /\ worker[w].at + LeaseDuration > clock)

\* The artifacts a completed job refers to are those of its last attempt: a
\* worker whose lease was taken over cannot settle the job with its own.
OutputOfLastAttempt ==
    \A j \in Jobs :
        jobs[j].output = IF jobs[j].status = "completed" THEN jobs[j].attempts ELSE 0

\* A job in processing cannot be redriven through the API, so its message must
\* survive: unless a task crashed it is at the broker or with a worker.
NotStranded ==
    \A j \in Jobs :
        jobs[j].status = "processing" /\ j \notin lost =>
            queue[j] > 0 \/ \E w \in Workers : ~At(w, "idle") /\ J(w) = j

\* README.md, "duplicate delivery does not rewrite completed jobs": of a
\* settled job only last_dispatched_at may change.
TerminalIsFinal ==
    [][\A j \in Jobs : Terminal(jobs[j]) =>
           jobs'[j] = [jobs[j] EXCEPT !.dispatched = jobs'[j].dispatched]]_vars

\* A job with a message at the broker is eventually settled, unless a task
\* crashed: attempt_count bounds the retries, expired leases are taken over.
JobSettles ==
    \A j \in Jobs : queue[j] > 0 ~> Terminal(jobs[j]) \/ j \in lost

=============================================================================
