------------------------------- MODULE Uploads -------------------------------
(***************************************************************************)
(* One batch of report uploads: the rows in PostgreSQL, the versions that  *)
(* clients post to S3 with their presigned forms, and the requests that    *)
(* complete the batch.                                                     *)
(*                                                                         *)
(* complete_batch keeps the batch's row locked while it inspects, reads    *)
(* and deletes objects, and S3 is not part of its transaction: a deletion  *)
(* is done whether or not the verdict is committed, and a deletion whose   *)
(* answer is lost may still happen later.  Clients go on posting, and an   *)
(* operator may suspend the versioning of the bucket, which the service    *)
(* checks only once per S3_BUCKET_SECURITY_CACHE_SECONDS.                  *)
(***************************************************************************)
EXTENDS Integers

CONSTANTS FileCount,      \* files of the batch
          Requests,       \* concurrent calls of complete_batch
          MaxPosts,       \* bound: posts of all files together
          Lifetime,       \* from create_batch to expires_at
          Slack,          \* a form is signed, and its transfer ends, after that
          CacheTime,      \* S3_BUCKET_SECURITY_CACHE_SECONDS
          FaultHorizon,   \* bound: the last instant of a fault
          MaxClock        \* bound: the last instant

ASSUME UploadsAssumption ==
    /\ FileCount \in Nat \ {0} /\ MaxPosts \in Nat
    /\ Lifetime \in Nat \ {0} /\ Slack \in Nat /\ CacheTime \in Nat
    /\ FaultHorizon \in Nat /\ MaxClock \in Nat

VARIABLES clock,
          batch,       \* the row of report_upload_batches
          uploads,     \* the rows of report_uploads, by batch_position
          jobs,        \* files that have a row in report_processing_jobs
          store,       \* the versions S3 holds under each file's key
          posts,       \* posts so far, which number the versions
          versioned,   \* versioning of the bucket is enabled
          checked,     \* _security_checked_at
          req,         \* calls of complete_batch
          flying       \* deletions whose answer was lost and that may still happen

vars == <<clock, batch, uploads, jobs, store, posts, versioned, checked, req, flying>>

Files == 1..FileCount

\* The identifier of the version that S3 keeps, and overwrites, while
\* versioning is suspended.
Null == 0

Versions == Null..MaxPosts

\* What inspection and reading will say: "headers" differ from the presigned
\* form, "content" is suspicious or of another length.
Qualities == {"sound", "headers", "content"}

Batch == [status : {"none", "pending", "complete", "partial", "rejected", "expired"},
          expires : Nat]

\* version is storage_version_id; for a rejected file, whose column is NULL,
\* it remembers the version inspected (history).
Upload == [status : {"pending", "uploaded", "rejected", "expired"}, version : Versions]

\* stamp orders the versions of a key, 0 when there is none.
Object == [stamp : Nat, quality : Qualities, at : Nat]

\* rows are the ReportUpload objects of the session.
Request == [pc      : {"idle", "head", "read", "delete", "commit"},
            now     : Nat,
            next    : Files,
            version : Versions,
            verdict : {"none", "rejected", "expired"},
            rows    : [Files -> Upload]]

TypeOK ==
    /\ clock \in Nat
    /\ batch \in Batch
    /\ uploads \in [Files -> Upload]
    /\ jobs \subseteq Files
    /\ store \in [Files -> [Versions -> Object]]
    /\ posts \in 0..MaxPosts
    /\ versioned \in BOOLEAN
    /\ checked \in Int
    /\ req \in [Requests -> Request]
    /\ flying \subseteq Files \X Versions

NewUploads == [u \in Files |-> [status |-> "pending", version |-> Null]]

Idle == [pc |-> "idle", now |-> 0, next |-> 1, version |-> Null, verdict |-> "none",
         rows |-> NewUploads]

Init ==
    /\ clock = 0
    /\ batch = [status |-> "none", expires |-> 0]
    /\ uploads = NewUploads
    /\ jobs = {}
    /\ store = [u \in Files |-> [v \in Versions |->
                  [stamp |-> 0, quality |-> "sound", at |-> 0]]]
    /\ posts = 0
    /\ versioned = TRUE
    /\ checked = -CacheTime
    /\ req = [r \in Requests |-> Idle]
    /\ flying = {}

-----------------------------------------------------------------------------
(***************************************************************************)
(* S3, its clients and its operator (external).                            *)
(***************************************************************************)

Present(u) == {v \in Versions : store[u][v].stamp # 0}

\* The version that a HEAD without version id sees.
IsLatest(u, v) ==
    /\ v \in Present(u)
    /\ \A w \in Present(u) : store[u][w].stamp <= store[u][v].stamp

Removed(u, v) == [store EXCEPT ![u][v].stamp = 0]

\* A presigned form may be used any number of times until it expires, also
\* when the batch is settled.
Post(u, quality) ==
    LET new == [stamp |-> posts + 1, quality |-> quality, at |-> clock] IN
    /\ batch.status # "none" /\ clock <= batch.expires + Slack
    /\ posts < MaxPosts
    /\ posts' = posts + 1
    /\ store' = [store EXCEPT ![u] =
                   [@ EXCEPT ![IF versioned THEN posts + 1 ELSE Null] = new]]
    /\ UNCHANGED <<clock, batch, uploads, jobs, versioned, checked, req, flying>>

SetVersioning(on) ==
    /\ versioned # on
    /\ on \/ clock <= FaultHorizon
    /\ versioned' = on
    /\ UNCHANGED <<clock, batch, uploads, jobs, store, posts, checked, req, flying>>

LateDelete ==
    /\ \E d \in flying : /\ store' = Removed(d[1], d[2])
                         /\ flying' = flying \ {d}
    /\ UNCHANGED <<clock, batch, uploads, jobs, posts, versioned, checked, req>>

\* The bound leaves room for the life of a batch.
Tick ==
    /\ clock < MaxClock
    /\ batch.status = "none" => clock + Lifetime < MaxClock
    /\ clock' = clock + 1
    /\ UNCHANGED <<batch, uploads, jobs, store, posts, versioned, checked, req, flying>>

-----------------------------------------------------------------------------
(***************************************************************************)
(* The service.                                                            *)
(***************************************************************************)

\* The check of this process is recent enough to be trusted.
RecentlyChecked == clock - checked < CacheTime

\* ensure_bucket_security returns.
EnsureBucketSecurity ==
    \/ RecentlyChecked /\ UNCHANGED checked
    \/ ~RecentlyChecked /\ versioned /\ checked' = clock

\* create_batch: batch and uploads are committed together once every form is
\* signed.  A refused file, a failing S3 or a failing commit leaves nothing.
CreateBatch ==
    /\ batch.status = "none"
    /\ EnsureBucketSecurity
    /\ batch' = [status |-> "pending", expires |-> clock + Lifetime]
    /\ uploads' = NewUploads
    /\ UNCHANGED <<clock, jobs, store, posts, versioned, req, flying>>

\* Faulty variant: the batch is read without FOR UPDATE.
UnlockedAlways == TRUE

\* _locked_batch: the row lock is held from the first step to the commit.
Unlocked == \A r \in Requests : req[r].pc = "idle"

Begin(r) ==
    /\ batch.status # "none"
    /\ req[r].pc = "idle" /\ Unlocked
    /\ IF batch.status = "pending"
       THEN /\ EnsureBucketSecurity
            /\ req' = [req EXCEPT ![r] = [Idle EXCEPT !.pc = "head", !.now = clock,
                                                      !.rows = uploads]]
       ELSE /\ req' = [req EXCEPT ![r] = [Idle EXCEPT !.pc = "commit", !.rows = uploads]]
            /\ UNCHANGED checked
    /\ UNCHANGED <<clock, batch, uploads, jobs, store, posts, versioned, flying>>

\* The next file, or the end of the loop.
Goes(r, rows) ==
    LET next == req[r].next IN
    req' = [req EXCEPT ![r] =
              IF next = FileCount THEN [@ EXCEPT !.pc = "commit", !.rows = rows]
              ELSE [@ EXCEPT !.pc = "head", !.next = next + 1, !.rows = rows]]

Settles(r, status, v) ==
    Goes(r, [req[r].rows EXCEPT ![req[r].next] = [status |-> status, version |-> v]])

\* Faulty variant: a missing object is left pending for good.
OverdueNever(r) == FALSE

\* now was taken before the first file was inspected.
Overdue(r) == req[r].now >= batch.expires

\* S3ObjectNotFoundError.
NotFound(r) ==
    IF Overdue(r) THEN Settles(r, "expired", Null) ELSE Goes(r, req[r].rows)

\* _object_rejection_code, as the status it leads to.  The comparisons of size,
\* type and policy come before that of the time.
HeaderVerdict(u, v) ==
    IF store[u][v].quality = "headers" THEN "rejected"
    ELSE IF store[u][v].at > batch.expires THEN "expired"
    ELSE "none"

\* validate_report_content and the comparison of the length read.
Suspicious(u, v) == store[u][v].quality = "content"

\* Faulty variant: any version is good enough.
ImmutableUnchecked(v) == TRUE

\* The version has an identifier of its own.
Immutable(v) == v # Null

Reject(r, v, verdict) ==
    req' = [req EXCEPT ![r] =
              [@ EXCEPT !.pc = "delete", !.version = v, !.verdict = verdict]]

\* head_object and what follows from it; without an immutable version the
\* request ends with S3BucketSecurityError and is rolled back.
Head(r) ==
    LET u == req[r].next IN
    /\ req[r].pc = "head"
    /\ \/ req[r].rows[u].status # "pending" /\ Goes(r, req[r].rows)
       \/ req[r].rows[u].status = "pending" /\ Present(u) = {} /\ NotFound(r)
       \/ /\ req[r].rows[u].status = "pending"
          /\ \E v \in Versions :
               /\ IsLatest(u, v)
               /\ \/ ~Immutable(v) /\ req' = [req EXCEPT ![r] = Idle]
                  \/ /\ Immutable(v) /\ HeaderVerdict(u, v) # "none"
                     /\ Reject(r, v, HeaderVerdict(u, v))
                  \/ /\ Immutable(v) /\ HeaderVerdict(u, v) = "none"
                     /\ req' = [req EXCEPT ![r] = [@ EXCEPT !.pc = "read", !.version = v]]
    /\ UNCHANGED <<clock, batch, uploads, jobs, store, posts, versioned, checked, flying>>

\* read_object of the version inspected, and the checks of its content.
Read(r) ==
    LET u == req[r].next
        v == req[r].version IN
    /\ req[r].pc = "read"
    /\ \/ v \notin Present(u) /\ NotFound(r)
       \/ v \in Present(u) /\ Suspicious(u, v) /\ Reject(r, v, "rejected")
       \/ v \in Present(u) /\ ~Suspicious(u, v) /\ Settles(r, "uploaded", v)
    /\ UNCHANGED <<clock, batch, uploads, jobs, store, posts, versioned, checked, flying>>

\* _reject_object: S3 deletes the version, then the row is rejected.
Delete(r) ==
    /\ req[r].pc = "delete"
    /\ store' = Removed(req[r].next, req[r].version)
    /\ Settles(r, req[r].verdict, req[r].version)
    /\ UNCHANGED <<clock, batch, uploads, jobs, posts, versioned, checked, flying>>

\* Faulty variant: the failure of the deletion is swallowed.
DeleteLostIgnored(r) ==
    /\ req[r].pc = "delete"
    /\ Settles(r, req[r].verdict, req[r].version)
    /\ UNCHANGED <<clock, batch, uploads, jobs, store, posts, versioned, checked, flying>>

\* The deletion fails or the process dies in it; S3 may have got it.
DeleteLost(r) ==
    /\ req[r].pc = "delete" /\ clock <= FaultHorizon
    /\ flying' = flying \cup {<<req[r].next, req[r].version>>}
    /\ req' = [req EXCEPT ![r] = Idle]
    /\ UNCHANGED <<clock, batch, uploads, jobs, store, posts, versioned, checked>>

\* Faulty variant: one verified file settles the batch.
BatchStatusEager(rows) ==
    IF \E u \in Files : rows[u].status = "uploaded" THEN "complete" ELSE "pending"

BatchStatus(rows) ==
    LET Has(status) == \E u \in Files : rows[u].status = status
        All(status) == \A u \in Files : rows[u].status = status
    IN  IF Has("pending") THEN "pending"
        ELSE IF All("uploaded") THEN "complete"
        ELSE IF Has("uploaded") THEN "partial"
        ELSE IF All("expired") THEN "expired"
        ELSE "rejected"

Uploaded(rows) == {u \in Files : rows[u].status = "uploaded"}

\* The end of complete_batch: the rows, the status of the batch and the jobs
\* of the verified files, in one commit.
Commit(r) ==
    LET rows == req[r].rows
        status == IF batch.status = "pending" THEN BatchStatus(rows) ELSE batch.status
    IN
    /\ req[r].pc = "commit"
    /\ uploads' = rows
    /\ batch' = [batch EXCEPT !.status = status]
    /\ jobs' = IF status = "pending" THEN jobs ELSE jobs \cup Uploaded(rows)
    /\ req' = [req EXCEPT ![r] = Idle]
    /\ UNCHANGED <<clock, store, posts, versioned, checked, flying>>

\* S3StorageError, a failing commit or the death of the process: rollback.
Fail(r) ==
    /\ req[r].pc # "idle" /\ clock <= FaultHorizon
    /\ req' = [req EXCEPT ![r] = Idle]
    /\ UNCHANGED <<clock, batch, uploads, jobs, store, posts, versioned, checked, flying>>

\* What a call does while nothing fails.
Step(r) == Begin(r) \/ Head(r) \/ Read(r) \/ Delete(r) \/ Commit(r)

Next ==
    \/ CreateBatch
    \/ \E u \in Files, q \in Qualities : Post(u, q)
    \/ \E on \in BOOLEAN : SetVersioning(on)
    \/ LateDelete
    \/ Tick
    \/ \E r \in Requests : Step(r) \/ DeleteLost(r) \/ Fail(r)

\* Time passes, the operator repairs the bucket, and the client repeats
\* complete until the batch is settled; nothing else in the code would.
Fairness ==
    /\ WF_vars(Tick)
    /\ WF_vars(SetVersioning(TRUE))
    /\ \A r \in Requests : WF_vars(Step(r))

Spec == Init /\ [][Next]_vars

FairSpec == Spec /\ Fairness

-----------------------------------------------------------------------------
(***************************************************************************)
(* Properties.                                                             *)
(***************************************************************************)

\* A verified file can be read for good: its version is still there, cannot be
\* overwritten, was posted in time and is what the checks passed, whatever
\* clients post and whatever deletions of other requests arrive late.
VerifiedIsReadable ==
    \A u \in Files : uploads[u].status = "uploaded" =>
       LET v == uploads[u].version IN
       /\ v \in Present(u)
       /\ store[u][v].quality = "sound"
       /\ store[u][v].at <= batch.expires

\* The version for which a file was rejected is gone ("Rejected object versions
\* are deleted"), and never comes back.
RejectedIsRemoved ==
    \A u \in Files : uploads[u].status = "rejected" =>
       uploads[u].version # Null /\ uploads[u].version \notin Present(u)

\* Batch, files and jobs change together: the batch is pending as long as a file
\* is, its result is the files', and exactly the verified files of a settled
\* batch have a job.
BatchSettledTogether ==
    batch.status # "none" =>
       /\ batch.status = "pending" <=> \E u \in Files : uploads[u].status = "pending"
       /\ batch.status = "complete" <=> \A u \in Files : uploads[u].status = "uploaded"
       /\ batch.status = "expired" <=> \A u \in Files : uploads[u].status = "expired"
       /\ batch.status = "rejected" => jobs = {}
       /\ jobs = IF batch.status = "pending" THEN {} ELSE Uploaded(uploads)

\* A file's verdict and a batch's result are final, and so is a job.
VerdictIsFinal ==
    [][/\ \A u \in Files : uploads[u].status # "pending" => uploads'[u] = uploads[u]
       /\ batch.status \notin {"none", "pending"} => batch' = batch
       /\ jobs \subseteq jobs']_vars

\* A batch does not stay pending, although verdicts may be rolled back after
\* their objects are deleted - unless the object in the way has no immutable
\* version, which complete_batch refuses on every call.
BatchSettles ==
    batch.status = "pending"
    ~> \/ batch.status # "pending"
       \/ \E u \in Files : uploads[u].status = "pending" /\ IsLatest(u, Null)

=============================================================================
