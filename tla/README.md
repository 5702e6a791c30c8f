# A TLA+ verification of the Spike backend

The backend sells AI answers and report dashboards to small businesses: an HTTP
API over PostgreSQL, a Celery worker, Redis, S3, Gemini and Stripe. Its source is
under `app/`. Everything that can go wrong in it goes wrong *between*
transactions: two requests with one idempotency key, a worker that outlives its
lease, a webhook that overtakes another. These modules model those parts, TLC
checks them on small instances, and TLAPS proves their main properties for every
value of the constants.

## 1. Inventory

### 1.1 Parts of the system

| Part | State | Operations | Interacts with | Hard because |
|---|---|---|---|---|
| **AI credit ledger** `services/ai_credits.py`, `services/admin_ai_credits.py` | an account per billing period with `limit_value`, `reserved_count`, `consumed_count`; a ledger entry per idempotency key; append-only adjustments | reserve, consume, release, adjust | reads subscription and entitlements; settled by AI execution | concurrent reservation of the last credit, plan change or renewal between two transactions, adjustments racing reservations |
| **AI execution** `services/ai_execution.py`, `services/ai_conversations.py`, `services/gemini_gateway.py` | a message per idempotency key with status, link to its ledger entry, processing token and lease; replies | submit, reserve, claim, call Gemini, complete, fail, recover | writes ledger rows by code of its own | six transactions per request with a long provider call between, replays, crashes, leases, objects loaded before a lock |
| **Report processing** `services/processing.py`, `services/processing_dispatch.py`, `services/processing_artifacts.py`, `workers/tasks.py` | a job per verified upload with status, attempts, lease and token; broker messages | ensure jobs, dispatch, claim, defer, process, retry, fail, complete | created by uploads, read by dashboards | duplicate, late and lost deliveries, lease takeover, faults between publish and record, failed commits |
| **Subscription mirror** `services/billing.py` (webhooks, synchroniser, lifecycle) | the Subscription row, trial grants, invoices, processed event ids | process an event, sync a snapshot, record an invoice, cancel and resume | Stripe; feeds the ledger's entitlements | events in any order and more than once, snapshots fetched before the lock, fail-closed rule |
| **Checkout** `services/billing.py` (CheckoutService) | Checkout rows `pending`, `open`, `complete`, `expired` | create, expire, complete | Stripe Checkout sessions, webhooks | local expiry against a late completion, retried creation |
| **Uploads** `services/uploads.py`, `services/s3_storage.py` | batches and uploads, S3 object versions, the cached check of the bucket | create a batch, verify, reject, complete | creates jobs | S3 is not transactional: a deletion outlives a rollback, clients go on posting, the check of the bucket is stale |
| **Sessions and credentials** `services/auth.py`, `services/account_security.py`, `services/email_two_step.py` | users, refresh token families, one-time codes, challenges, `auth_session_version` | register, verify, login, refresh, reset, change, two-step, delete account | every request | rotation races, attempt counters, revocation against a refresh under way |
| **Administration** `services/admin*.py` | audit records, suspended users | suspend, reactivate, adjust | sessions, ledger | last administrator, revocation |
| **Subscription access** `services/subscriptions.py` | none | evaluate access, effective entitlements | read by ledger and dashboards | period boundaries |
| **Dashboards and snapshots** `services/dashboards.py`, `services/dashboard_snapshots.py` | dashboards, immutable numbered snapshots and their sources, one analysis per snapshot | create under a plan limit, change, delete, materialize, analyse | jobs' artifacts, subscription, AI conversations | limit under concurrency, a dashboard that changes while its reports are read, races on number, replay and analysis |
| **Dashboard insights** `services/dashboard_insights.py` | an accumulator per materialization | validate a profile, observe a row, render | fed by snapshots, shown in dashboards and to AI | rows stream past once, in the order of random identifiers; repeated, overlapping and missing values |
| **Businesses and profiles, tenancy** | business, profile | onboarding | everything is scoped by business | unique constraints |
| **Rate limiting** `services/rate_limit.py` | Redis counters | increment and expire | API | two commands, no transaction |
| **PDF, report parser, e-mail, metrics, API handlers** | none | computation, formatting, I/O | - | sequential |

What makes each correct: the ledger never charges twice nor over the ceiling; a
message, its reply and its charge settle together and once; a job is processed by
one worker at a time, settled by the last attempt only and never forgotten; the
mirror ends as Stripe has it and grants nothing it should not; a Checkout yields
at most one paid subscription; an upload that was verified stays readable, and one
that was rejected is gone; a snapshot is of its dashboard as it is and of exactly the
reports its insights name, and the figures in it are those of the rows, whatever
order they are read in; a revoked session stays revoked; limits hold under
concurrency.

### 1.2 Objects that outlive their lock

`db/session.py` builds sessions with `expire_on_commit=False`. A `SELECT ... FOR
UPDATE` of a row that the session has loaded before locks the row and returns the
object *with the attributes it already has*; only a rollback expires them, and only
`dashboard_snapshots.py` asks for `populate_existing`. Most of the findings below come
from this, or from data fetched before a lock; the models carry it as the field
`copy` of a request or handler.

## 2. Modules

| Module | Models | Runs | Proofs |
|---|---|---|---|
| `AICreditLedger` | the ledger; also the abstract specification of what execution may do to it | `MCLedger` | `AIExecutionProofs` |
| `AIExecution` (extends the ledger) | concurrent requests of `execute` | `MCExecution`, `MCOrphan` | `AIExecutionProofs` |
| `ReportProcessing` | jobs, dispatch, broker, workers | `MCProcessing` | `ReportProcessingProofs` |
| `StripeSync` | Stripe, webhooks, mirror, invoices, cancel and resume | `MCSync`, `MCMirror` | `StripeSyncProofs` |
| `Checkout` | attempts, the call to Stripe, local expiry, Checkout webhooks | `MCCheckout`, `MCPayable` | `CheckoutProofs` |
| `Sessions` | codes, logins, refresh rotation, challenges, credential changes, suspension | `MCSessions` | `SessionsProofs` |
| `SessionRegistry` | the abstract specification that `Sessions` implements | (through `Sessions`) | `SessionsProofs` |
| `Uploads` | one batch, its files, the versions in S3, calls of `complete_batch` | `MCUploads` | `UploadsProofs` |
| `Dashboards` | the dashboards of a business, concurrent requests on them and on their snapshots | `MCDashboards` | `DashboardsProofs` |
| `SnapshotLog` | the abstract specification that `Dashboards` implements | (through `Dashboards`) | `DashboardsProofs` |
| `Insights` | the calculation of a dashboard's figures | `MCInsights` | `InsightsProofs` |

`MCLedger`, `MCExecution`, `MCProcessing`, `MCSync`, `MCCheckout`, `MCSessions`, `MCUploads`,
`MCDashboards` and `MCInsights` are the TLC instances. Each definition's source lines are in `PROJECT.json`, "map". Definitions named as
faulty variants are not part of the models: each is a plausible bug of the
definition it precedes, and TLC finds the property it is paired with in
`PROJECT.json` violated when it takes that definition's place.

### 2.1 `AICreditLedger`

`sub` is what `get_current`, `evaluate_access` and `effective_entitlements` say at
the moment; `accounts`, `entries` and `adjustments` are the tables. `Reserve`,
`Consume`, `Release` and `Adjust` are the service methods. Each is one transaction
that locks the subscription, entry and account rows before it decides, so each is
one step; a transaction that raises leaves no trace and is no step.
`SyncSubscription` is everything that changes the subscription (renewal, upgrade,
downgrade, cancellation), at any time.

### 2.2 `AIExecution`

A request is a process with a program counter over the transactions of `execute`:
`submit`, `reserve`, then `mark` (the pre-reservation failure) or `claim`, then
`recover`, `generate`, `complete` and `fail`. `Start` is a client calling, or
replaying, a key. `Row(r)` is the message as the request sees it: its `copy`, unless
a rollback expired that. `at` is the time the request took before it waited for the
lock. The settlements of `_complete_claim` and `_fail_claim` are written out beside
`AICreditService` in the code, and so they are here; `ImplementsLedger` says that
they nevertheless are the ledger's transactions. `Crash` ends a request between any
two transactions. `_complete_claim` has early returns for a message that was settled
or taken over; they read the request's own object, which is always pending with its
own token there, so no action takes them: a takeover is noticed by the ledger entry
or by the unique reply (`Persistable`).

### 2.3 `ReportProcessing`

`EnsureJobs`, `Dispatch` and `RecordDispatch` are the end of `complete_batch`: commit
of the jobs, publication (which may fail after the broker has taken the message),
and the record of it. `Deliver`, `ClaimJob`, `Defer`, `Process` and `SettleJob` are a
worker's task; a `retry` republishes the message before it acknowledges its own.
`DatabaseError` is a failing claim or settlement, committed or not; `WorkerLost`
the death of a worker (Celery requeues its message, `task_acks_late`); `TaskCrash` an
exception that escapes the task, which acknowledges the message. `lost` records the
latter, because the code has no way back from it (section 5).

### 2.4 `StripeSync`

`remote`, `bill` and `events` belong to Stripe and are external: every change of the
subscription or the invoice emits an event; events are delivered until they are
acknowledged, in any order. A handler receives an event (`Receive`, the insert that
claims its id), fetches the subscription (`Retrieve`, `RetrieveFails`) unless the
event is `customer.subscription.deleted`, and applies the snapshot under the row's
lock (`SyncAttached`), or finds the row by the Checkout metadata and attaches it
(`SyncUnattached`, `Write`), or refuses it (`SyncRefused`). A Price is that of the plan
the metadata name, that of another plan, or not configured: the second is refused
whether the row is attached or not (`billing.py:735`, `755`), the third closes an attached
row and is refused for an unattached one (`Refuses`). `Apply` writes through the object the handler holds,
column by column (`Written`), drops the trial grants, records the invoice and commits
with the event id. `ChangeStarts`, `ChangeCalled`, `ChangeRefused` and `ChangeApplied`
are cancel and resume, which keep the row locked over the call to Stripe.

Of an event only what handlers use is kept; the times of events matter among invoice
events alone, so only those advance the clock. The metadata keep the plan code that the
Checkout left there and belong to the row. History: `asof` is the last event at the time a
snapshot was taken, `newest` the latest of these among the snapshots written to the row,
and `overtaken` that the last write of the row came after one from a later snapshot
or went through an object that was no longer the row (`Overtaken`). Nothing but the
property `MirrorConvergesUnlessOvertaken` reads them. The end of a subscription changes
its status only. Assumption on Stripe: an invoice goes draft (or starts as), open, and then to one of the
final statuses; an uncollectible one may be paid or voided later, not within the
same second.

### 2.5 `Checkout`

One business whose subscription is not attached yet; an attempt per idempotency key.
`Prepare` and `Resume` are the first transaction of `create` (local expiry of stale
attempts, then a new attempt or the existing one), `CallAnswered`, `CallRejected` and
`CallLost` the call to Stripe, `Store` and `ExpireRejected` the second transaction, which
works on the object the first one loaded (`copy`). The user's row lock and the unique
indexes make the first transaction one step: a loser of a race on a key or on the one
open attempt ends as if it had come second. Requests that are refused change nothing
and are no steps. `stripe`, `Pay` and `SessionExpires` are external: Stripe keeps the
first answer to an idempotency key and refuses other parameters, and since `expires_at`
is among them a retry replays the answer only within the same second (`asked`).
`CheckoutCompleted`, `CheckoutExpired` and `SubscriptionSynced` are the webhooks, in any
order and at any time; their concurrent handling is in `StripeSync`. A session counts as
payable once its URL has been returned to the owner. An ended subscription, after which a
new one may be bought, is left out.

Requests of one key may overlap in any way (`KeyOf` gives a key several slots). History:
`undone` is set when a write through a stale `copy` takes back a recorded payment or
expires an attempt another request has opened (`TakesBack`); no action reads it.

### 2.6 `Sessions` and `SessionRegistry`

One customer: the row of `users`, the unused code of each kind, the challenges and the
token pairs (a row of `refresh_tokens` and the two JWTs made with it). `Authenticate` is
`get_current_user`; from then on the request holds the User object it read (`req.user`),
and every locking SELECT of that request returns it. `Probe` is the `session.get` that
loads a challenge before the lock (`req.copy`). A login has no object yet and sees the
locked row. `ResetPassword`, `Suspend`, `ChangeAccount`, `ConfirmEmailChange` and
`ConfirmSetting` pass their checks and begin to write; `Commit` ends each of them:
`Changed` is the object as the operation leaves it, `Flush` writes the columns that
differ from what was loaded. Between the two, a refresh may insert its row: the UPDATE
that revokes the refresh tokens does not see rows committed after it began, so a row
may survive it (`late`), and only the session version refuses that token later. Lock
modes matter here: the INSERT's foreign key waits for `FOR UPDATE`, and not for the
`FOR NO KEY UPDATE` of the reset (`LocksForUpdate`). The other operations lock the user
from their check to their commit and are one step. A refusal, a rollback, the victim of
a deadlock and a lost connection are `Abort`.

Passwords, codes and addresses are right or wrong; a code may be found expired at any
time; the cooldown, during which nothing is written, is no step. History: `epoch` counts
committed revocations, `grant` is the epoch in which the password behind a token was
checked, `stepped` whether a challenge was answered, `root` the login a chain of
refreshes goes back to, `lost` that some request wrote a version computed from an
object another revocation had overtaken.

`SessionRegistry` has no versions, rows or requests: a token pair is open, spent by a
refresh or closed, a right password is waiting for a code or not, and `Revoke` closes
everything at once and begins a new period; a deletion is a revocation after which nothing opens.
`ImplementsRegistry` maps a pair by what `get_current_user` and the refresh would say of
it, so that a row the UPDATE missed is closed by its session version. Once a version is
lost everything counts as closed, and the registry says nothing of tokens any more.

### 2.7 `Uploads`

One batch. `batch`, `uploads` and `jobs` are rows of PostgreSQL; `store` is the bucket: for
each file's key the versions that were posted, numbered by `posts`, with `stamp` their
order (0: not there) and version `Null` the one S3 keeps and overwrites while versioning
is suspended. Clients post with their form until it expires, also after the verdict
(`Post`); an operator suspends and enables versioning (`SetVersioning`). `CreateBatch` is
`create_batch`, one transaction once the bucket was found secure. `complete_batch` holds
the row lock of the batch over all its calls of S3: `Begin` locks, checks the bucket (or
trusts the check of the last `CacheTime`) and takes `now`; for each pending file `Head`
inspects the latest version, `Read` reads exactly that version, `Delete` removes one that
is refused; `Commit` writes rows, status and jobs. A failing deletion (`DeleteLost`) may
still happen at any later time (`LateDelete`), and a rollback (`Fail`) brings no object
back. Headers and content of a version are sound or not (`Qualities`): each validator
only says so. A version's quality and age decide the verdict as in
`_object_rejection_code`: mismatches first, then lateness.

### 2.8 `Dashboards` and `SnapshotLog`

The requests of one business, as processes that stop where the code waits between reads
and writes. `Create` locks the subscription and counts, `CreateCommit` inserts. `Change`
loads the row without a lock, `ChangeCommit` writes the attributes that differ from the
loaded ones. `Delete` cascades to snapshots and conversations. `materialize` is `Capture`
(what it reads of dashboard and jobs before it closes its transaction), `Lock` (after the
artifacts are read: lock the row with `populate_existing`, compare it with what was
captured, lock the jobs, read the latest snapshot) and `Insert` (replay, or the next
version). `Analyse` and `AnalyseCommit` are `get_or_create_dashboard_analysis`, whose race
the partial unique index decides (`Duplicate`). `rev` is `updated_at`: it changes with
every change, so that a dashboard that was changed and changed back is still noticed.
A payload is the definition and the set of its sources, because the artifacts of a
completed job never change; equal payloads are equal hashes. The subscription changes
under its lock (`SyncSubscription`) or runs out under anybody's (`Expire`).

`SnapshotLog` has no requests: a dashboard is created below the limit, changed, removed
and materialized atomically, and a snapshot shows the dashboard of that moment.
`ImplementsLog` maps `rows` without `rev`, `snapshots` and the limit to it, and is
both a property of the run and a theorem.

### 2.9 `Insights`

One materialization: reports are read in turn (`ReadProfile`, `ReadRow`, `EndOfReport`),
each row goes through `observe` (`RowErrors`, `Observed`), and `Render` computes what the
snapshot shows. `acc` has the dictionaries of the accumulator: counts and totals, amounts
by field and period, by field and dimension, and by all three; distinct labels; the sheet
that owns a measure and period; status updates. A row with several faults raises one of
several errors, because `_NUMERIC_FIELDS` has no order. A decimal is an integer; a
quotient is kept as numerator and denominator, so nothing is rounded; periods are
numbered as `_period_sort_key` sorts them; labels are short, `Long` or absent, numbers
integers, `Text` or absent. The four status fields are one. `rows` is history, and
the properties are stated over it as a bag, without the accumulator.

## 3. Runs

| Run | Instance | Distinct states | Shows |
|---|---|---|---|
| `MCLedger` | 3 keys, 2 periods, limits 1, 2 and none, 2 adjustments of -1 or 1 | 117,540 | counters count the entries, no account over its ceiling, the ceiling is a base limit plus the adjustments, entries settle once, usage grows only within the limit in force |
| `MCExecution` | 1 key whose message is grounded or not, 2 requests, limit 0 or 1, 1 adjustment, 3 instants, lease of 1 tick, crashes up to tick 1, fairness | 491,544 | reply, message and charge settle together; the credit of a claim is held while it is pending and back once it failed; outcomes are final; the ledger is implemented; a pending message is settled |
| `MCProcessing` | 1 job, 2 callers, 2 workers, 2 attempts, lease of 2 ticks, 2 queued messages, faults up to tick 1, fairness | 960,580 | leases exclude, only the last attempt settles, settled jobs stay, no job in processing is forgotten, a job with a message is settled |
| `MCSync` | 2 concurrent handlers, 3 events, 3 kinds of Price, fairness | 750,390 | in any order of delivery the invoice ends as Stripe has it, and the row too unless its last write was overtaken; a trial grant never outlives the trial; every event is processed unless what Stripe has is refused |
| `MCCheckout` | 2 keys, 3 requests of which two share a key and overlap, sessions of 2 ticks, calls up to tick 3 of 5, fairness | 278,988 | until a stale request takes back what another recorded: one payable session at a time, no attempt after a reported payment, payments recorded for good; always: no lockout |
| `MCSessions` | 2 requests, 3 token pairs, 2 challenges of 1 attempt, 2 revocations | 2.2 million | unless a version was lost: no accepted session is older than the last revocation, two-step is enforced, and `SessionRegistry` is implemented, so that what a revocation closes stays closed and a deleted account opens nothing; always: one live refresh token per login |
| `MCUploads` | 2 files, 2 calls, 2 posts, forms valid 1 tick and 1 more, check cached for 1 tick, faults up to tick 1 of 2, fairness | 336,630 | verified versions stay, rejected ones are gone, batch, files and jobs agree, verdicts are final, the batch is settled |
| `MCDashboards` | 2 dashboards, 1 title, 2 jobs, 2 requests, limits 0 and 1, 2 versions, 2 changes, symmetric jobs and requests | 493,556 | one analysis per snapshot, the limit, and the refinement of `SnapshotLog`: versions without gap or echo, of the dashboard as it is and the sources it maps |
| `MCInsights` | 2 reports, 5 rows of up to 13, each type of dashboard, windows and limits of 2 to 8 | 105,737 | refusals do not depend on order, sums are those of the rows, parts add up to the whole, forecast, signals and advice follow from the rows |

The type invariants, `PublishedIsDurable` of `ReportProcessing`, `DeletedStaysClosed` of
`Sessions`, and `VersionsDense`, `NoEcho` and `MappedSources` of `Dashboards` are theorems (section 6) and no run repeats
them; `Insights` has its `TypeOK` inside `AccumulatorsFaithful`.

Bounds. A race on a key, a takeover or a duplicate needs two actors; a third adds
no new conflict between a transaction and the state another one left. A lease of one
tick (two for jobs) is taken, runs out and is taken over within the clock's bound;
two attempts are the first and the last. Three keys let one account hold a reserved,
a consumed and a released entry at once, two periods an entry of a closed one. Three
events let an invoice that is already open be written off and paid, and two changes of the
subscription overtake each other and its first event. Two handlers are one that has
fetched and one that writes between that fetch and its write; a third can only repeat
either. Mirror, grants and invoices are proved for any number of handlers and events.
Attempts at a challenge are counted and no property depends on the count, so one is
enough. Two keys are two attempts in conflict; two requests of one key are a
call and its retry while the first is still under way, and the other key's request is
the attempt that takes their place; sessions of two ticks are paid, expire and are replaced before the last call. Three token pairs are a login, its
refresh and another login; two revocations one that overtakes the other. Two posts are a
version that is inspected and one that takes its place; one tick of cache is a check
that is trusted after versioning was suspended. Two dashboards at a limit of 1 are a race
for the last place; two changes lead a mapping away and back; titles behave like
mappings, so one is enough; no limit at all is covered by the proofs. Two versions are a
first snapshot and its successor. Five rows reach every limit of `MCInsights` but not all
at once, and its window of 2 and list of 3 stand for the code's 3 and 20; all of its
properties are proved for any rows and limits. `MaxTokens`,
`MaxChallenges`, `MaxEpoch`, `MaxClock`, `MaxQueued`, `MaxEvents`, `LastCall`, `MaxPosts`,
`MaxVersion`, `MaxRev`, `MaxRows`, `CrashHorizon` and `FaultHorizon` are the bounds; all
stand in guards. Where clock
and horizon bound a liveness run, faults end before the clock does.

Fairness. `AIExecution`: a request that has not crashed goes on (the provider call
has a timeout), time passes, and the client replays a key that is pending - without
the last nothing in the code would resume an abandoned message. `ReportProcessing`:
workers run and time passes; nothing is asked of clients. `StripeSync`: strong
fairness of each kind of step of the handlers together, because calls and transactions may
fail but not for ever, and of delivery, because Stripe redelivers; the owner's requests, which
hold the row lock, end at some time. `Checkout`: time passes, a request ends or dies,
Stripe repeats webhooks, and the owner tries a key again whose attempt is unsettled.
`Uploads`: time passes, the operator enables versioning again (until then every new call
is refused once the cached check is old), a call of `complete_batch` goes on and the client
repeats it - no sweep settles a batch the client forgets. `Dashboards` and `Insights` have
safety properties only and assume none.

Deadlock is checked everywhere but in `StripeSync` and `Checkout`, where nothing is left
to do once the subscription is canceled, or attached, and the events are processed, and
in `Insights`, where a calculation ends.

## 4. Findings

Each is a run that TLC ends with a counterexample, against a sentence of the
repository's README or the name of a test.

* `MCOrphan`. "entries transition from reserved to either consumed or released". One
  request is refused by `reserve` (the limit was 0), the plan changes, its rival
  reserves, the first then marks the message failed, the rival finds a failed
  message and leaves. The reservation stays for the rest of the period.
* `MCMirror`. "webhook delivery order does not become the source of truth" (line 3684). A
  handler of the first event fetches the subscription; it ends, and another handler
  processes that event and writes its snapshot; the first handler then writes the older one,
  because the snapshot is fetched before the row is locked and carries no order
  (`billing.py:1252`, `779`). Every event is processed and the row has a live subscription.
* `MCPayable`. "A second open Checkout is rejected to prevent duplicate paid
  subscriptions" (line 646). A request prepares an attempt and its call is rejected; a retry
  with the same key, begun before that, is answered and opens the attempt; the first
  then expires it, because its object still says pending without a session
  (`billing.py:413`). A third request with a new key finds nothing in progress, and the
  owner holds two payable sessions.

## 5. What the properties leave open

* The README says "A recoverable database lease ensures only one active provider call
  owns an idempotent request" (line 2921). In `AIExecution` two requests may call Gemini for
  one key at once: the second submitted before the first one claimed, so its copy of the
  message has no token and it claims too (`ai_execution.py:717`). The key is not
  charged twice all the same (`SettledTogether`), but if both calls fail the later failure
  replaces the error code of the earlier one.
* `MirrorConvergesUnlessOvertaken` says nothing of a row whose last write was overtaken;
  `MCMirror` shows why. The next event of the subscription repairs it, if there is one.
* After a Price change between two configured plans that leaves the plan code in the
  metadata behind, every later event of the subscription is refused, its end included, and
  so is cancelling through the application, although Stripe has taken it
  (`billing.py:735`). The row keeps what it had. `EventsProcessed` excepts exactly this,
  and an unattached subscription whose Price or status is not known
  (`[]Refuses(remote)`, eventually).
* `OnePayableUnlessUndone`, `RefusedOncePaid` and `PaidIsRecorded` say nothing once a request
  has taken back, through the object it had loaded, what an overlapping request of its key
  or a webhook had recorded: `ExpireRejected` can expire an open attempt and also a
  completed one, and `Store` can set a completed one back to open; then the payment is no
  longer in the row and does not keep another attempt out. `MCPayable` shows the first.
* A batch stays pending, with every call refused, once the latest version of a pending file
  is the `null` version of a suspended bucket, even after versioning is enabled again and
  the forms have expired: `S3BucketSecurityError` comes before expiry is looked at
  (`uploads.py:676`). `BatchSettles` excepts that case.
* Deleting a dashboard cascades to the conversation and the messages of its analyses
  (`models/ai.py:383`, `457`). If AI execution is between reserve and settlement, it finds
  no message afterwards (`ai_execution.py:851`, `907`) and leaves the entry reserved for the
  rest of the period. `Dashboards` deletes the analysis and `AIExecution` has no deletion; no
  property covers the two together.
* A rejected file's version is deleted, other versions a client posted under its key are not;
  nobody reads them (`RejectedIsRemoved` is about the version inspected).
* A job whose task crashed with an escaping exception stays in `processing` for
  ever: dispatch only takes queued jobs. `NotStranded` and `JobSettles` exclude such
  jobs by `lost`.
* A pending message is settled only if its client comes back (`PendingIsSettled`).
* A session paid at the last moment, whose webhooks both arrive after its local expiry,
  does not keep a second attempt out: `RefusedOncePaid` begins with the first webhook.
  Both payments are then recorded, and the second subscription is never attached.
* A login challenge may open two sessions: `session.get` loads it before the user lock, so
  two verifications that both loaded it find it unused. `MCSessions` contains these
  behaviours; the session version still fences both sessions.
* The README says of a password change "Every previously issued access token also becomes
  invalid immediately" (line 417). `auth_session_version += 1` adds to the value that
  `get_current_user` loaded before the row was locked (`account_security.py:311`). A
  request to change the password authenticates at version 0 and waits; a suspension
  commits version 1; the account is reactivated and a session opened at version 1; the
  request then writes 0 + 1, and the session opened before the password change is still
  accepted: `NoOldSession` of `Sessions` fails in the instance of `MCSessions`. So
  `NoOldSessionUnlessLost`, `TwoStepEnforced`, `DeletedStaysClosed` and the refinement of
  `SessionRegistry` say nothing once a version is lost like that.

## 6. Proofs

TLAPS checks every step; nothing is assumed but the `ASSUME`s of the modules
(finite `Keys`, natural limits and durations, the special values distinct), which
TLC evaluates on every run. No theorem limits how requests, workers or handlers overlap. The
numbers of keys, periods, requests, jobs, workers,
handlers, attempts and events are arbitrary.

* **Ledger.** `LedgerInv` adds two facts to types, `Conservation` and `Ceiling`: an
  entry names an account that exists (`Charged`), and an account not opened has no
  usage (`Dormant`). Without the first, settling an entry might decrement a counter
  that does not count it. `Conservation` is about cardinalities: each transaction
  moves one key from one set to another, so the lemmas on adding and removing one
  element carry it. `SettlesOnce` and `ReservesWithinLimit` are step properties.
  `LimitsMaterialized` needs a theory of sums: a stored limit changes only when reserve or
  adjust recompute it, and a row that adjust appends adds its delta to the sum of its period
  and leaves the other sums alone.
* **Execution.** First `ExecutionImplementsLedger`: initial states are the ledger's,
  and every step of a request is a ledger transaction or leaves the ledger alone. So
  everything proved of the ledger holds of execution. Then `ExecutionInv`, which ties a
  message to its entry (`MessageInv`) and says what a request knows at each point
  (`RequestInv`): for instance that the message of a request in `generate` is linked.
  The copies a request holds may be stale in every way these facts allow, so the
  theorems hold for the code as it is and not only with refreshed objects.
* **Processing.** `ProcessingInv` says that a job's token is its attempt number, that an
  attempt under way either holds the job's lease or has outlived it (`WorkerInv`), that no
  two attempts share a token, and that a job in processing is driven by a message or
  a worker (`Driven`). Exclusive leases, output of the last attempt, finality, durable
  publication and no stranding follow.
* **Stripe.** `SyncInv` needs little: `GrantOnlyOnTrial` is inductive, but the reason is not
  obvious. A handler writes the status only if it differs from its stale object; if it
  does not, the grant survives only on a row that is still on its trial, which is the
  induction hypothesis. `InvoiceFollowsStripe` is about order: of two events of the invoice
  the earlier emitted precedes in the order that `_upsert_invoice` compares, by time and then
  by rank of the status (`EventsOrdered`), Stripe's state is that of the last one (`BillAnnounced`), and
  the row records a processed event that no processed one follows (`InvoiceLatest`); once all
  are processed the two are the same event. `MirrorFollowsStripe` is about age: a snapshot
  taken after the last event of the subscription is what Stripe has (`SnapshotInv`,
  `AnswerInv`), and the newest snapshot written is no older than any processed event
  (`CoveredInv`), because a handler fetches after it has received. So once all events
  are processed the newest snapshot is current, and a last write that was not overtaken
  left it in the row, whole (`RowInv`). Cancelling, resuming, refusals, lost calls and
  crashes keep that.
* **Checkout.** `CheckoutInv` says that at most one row is in progress, that the owner has the
  URL of a session exactly if its row has it, that webhooks tell the truth, and that a
  request under way has loaded a pending row (`RequestInv`) - not that the row still is
  pending, since requests overlap. Until something is undone, a payable session is an open
  row with the expiry Stripe has (`RowInv`): local expiry never touches it, and a stale
  write that did would be `TakesBack`. The unique index does the rest (`OneSession`).
  `PaymentInv` adds that a paid session's attempt is complete as soon as one of its two
  webhooks has been processed, and that no step takes that back without setting `undone`; so no
  attempt begins afterwards (`NoSecondPurchase`).
* **Sessions.** `SessionsInv` says that, until one is lost, the session version counts the
  revocations, and that a token pair and a login challenge carry the count of their password
  check (`FenceInv`). Which rows of `refresh_tokens` the UPDATE misses is then irrelevant,
  and so are the locks: `RevocationIsComplete`, `TwoStepIsEnforced` and `DeletionIsFinal`
  need neither. `RotationIsExclusive` is the other way round: it rests on the lock of the
  refresh token (`OneRefresher`), not on versions, and so holds even after a lost one.
  `SessionsImplementRegistry` maps every transaction to a step of the registry or to none.
  A `Commit` that advances the version closes every pair and every challenge in that same
  step, because none carries a version above the count (`FenceInv`, `ChallengeInv`); a
  commit that does not advance it changes nothing the registry sees. So the two JWTs of a
  pair that was closed are refused for good (`RevokedStaysClosed`).
* **Uploads.** The invariant says that the rows a call holds are justified by what S3 has
  (`Justified`), that versions are numbered by posts, and that a deletion on its way is of a
  version that was refused (`FlyingRefused`). The key to all of it is one fact about every
  step, `Kept`: a version with an identifier of its own never changes its content, and
  disappears only by a deletion that named it as refused. So a verdict outlives whatever
  clients, the operator and lost deletions do, and a refused version cannot be one that
  another call has verified (`VerifiedStaysReadable`, `RejectedStaysRemoved`). The lock
  (`OneRequest`) gives `VerdictsAreFinal` and `BatchAgrees`.
* **Dashboards.** The invariant says what a request knows: under the lock of the
  subscription that usage is below the limit (`CreateInv`), without a lock only what it
  captured (`CapturedInv`), under the row's lock that the row is the captured one and which
  version is the latest (`InsertInv`), and of an analysis that its snapshot is still there
  or the dashboard gone for good (`AnalyseInv`). `DashboardsImplementLog` then maps `Insert`
  to the atomic `Materialize`; the comparison under the lock is the step that makes it true.
  `NoLimit`, changes back and forth, and any number of dashboards, jobs and requests are covered.
* **Insights.** Periods, labels, points and sheets in the accumulator are described by the
  positions of the rows that put them there (`AccInv`). A row is then refused exactly if it
  does not fit the rows before it (`RowFits`), and rows fit one after the other exactly if they are
  `Consistent` together, which mentions no order (`VerdictIsOrderFree`). `SumsAreFaithful` adds that
  each amount is the sum over the rows that give it (`AmountInv`), `PartsAddUp` that for each
  dimension the labels share out the total and the points each period (`PartsInv`), because a
  row of the outflow field without one of its dimensions has been refused. `ForecastFollowsCash`
  is a telescoping sum: the mean of the last changes is the change since the first of the
  recent periods, which ranks identify in the order of periods. `SignalsFollowRows` has three
  parts. A period is in the list exactly if it is notable by its own total: its place
  is the number of notable periods ahead of it, each with the signals it contributes, and the list
  breaks off at its limit and not before (`AnomaliesListed`, `ListIsComplete`, by counting). Totals
  and shares of labels are sums over rows (`RowsAddUp`, `LabelRowsAddUp`), hence so are risks
  (`RisksFollowRows`). And what the advice cites is in the snapshot (`EvidenceKnown`). Any number of reports, rows,
  sheets, labels and periods, and any window and limits; `InsightsAssumption` says what cells may
  hold.

Sums over sets and folds over sequences are inductions over data. The library's induction
theorems cannot be used, since they take the property as an operator; here it is given as
a set of natural numbers that contains 0 and the successor of each member (`SetInduction`,
from the well-foundedness of `<`). By it the recursion behind `MapThenSumSet` has a solution
whose order of summation does not matter (`SumsInAnyOrder`), a finite set of periods has a
largest element and takes every rank (`MaxExists`, `RanksTaken`), and changes telescope
(`ChangesTelescope`).

Only model-checked: the liveness properties (`PendingIsSettled`, `JobSettles`,
`EventsProcessed`, `PaidIsRecorded`, `LockoutEnds`, `BatchSettles`: fairness and ENABLED are out of
the prover's reach). The modules have no recursive operators.

## 7. Plan

Next, in this order:

1. Deletion of a dashboard composed with `AIExecution`: whether a reserved credit survives
   the message it was reserved for (section 5).
2. Redelivery by the broker's visibility timeout while the first worker still runs. The claim
   treats it like the duplicates that `MCProcessing` has.
3. `Access`: period boundaries of `evaluate_access` as pure operators against a reference.
4. The guard of the last administrator with several accounts
   (`account_security.py:323`), and rate limiting (INCR and EXPIRE are two commands,
   `rate_limit.py:23`).

## 8. Not modelled

* PDF, e-mail, metrics, logging, configuration: formatting, input and output, observation;
  no state the other parts depend on.
* The report parser: a sequential parser whose result is one of the three outcomes of
  `ReportProcessing`'s `Process`; its content is what `Insights` reads as rows.
* API handlers and schemas: each calls one service and translates its exceptions; their
  rollbacks are the `Fail` and `Abort` actions.
* Businesses, profiles and tenancy: one transaction under unique constraints, and a filter
  on every query. Every module is about one business.
