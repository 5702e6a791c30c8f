---------------------------- MODULE AIExecution -----------------------------
(***************************************************************************)
(* AIExecutionService.execute (app/services/ai_execution.py) together with *)
(* AIConversationService.submit_user_message: concurrent HTTP requests of  *)
(* one business that persist a user message, reserve a credit, claim the   *)
(* message under a lease, call Gemini and settle message and credit.       *)
(*                                                                         *)
(* A request is a process whose steps are the transactions of execute; a   *)
(* crash (process death, lost connection, unexpected exception) may end it *)
(* between any two.  Requests with the same idempotency key race.          *)
(*                                                                         *)
(* Each request owns one SQLAlchemy session built with                     *)
(* expire_on_commit=False, and holds on to the message object it loaded    *)
(* first (submission.user_message).  A later SELECT ... FOR UPDATE of the  *)
(* same row locks the row but returns that object from the session's       *)
(* identity map with the attributes it already has; only a rollback        *)
(* expires them.  "copy" is that object.                                  *)
(***************************************************************************)
EXTENDS AICreditLedger

CONSTANTS
    Requests,          \* HTTP request slots; also the uuid4 tokens they draw
    ProviderErrors,    \* classified failures of the provider call
    LeaseDuration,     \* processing lease, in clock ticks
    MaxClock,          \* bound: the clock stops here
    CrashHorizon,      \* bound: no crash after this tick
    NoToken,           \* processing_token IS NULL
    NoError,           \* error_code IS NULL
    Expired            \* the message object was expired by a rollback

ReservationErrors == {"subscription_required", "subscription_inactive",
                      "entitlement_denied", "credit_limit_reached",
                      "execution_integrity"}

ErrorCodes == ReservationErrors \cup ProviderErrors \cup {"persistence_failure"}

ASSUME ExecutionAssumption ==
    /\ LeaseDuration \in Nat \ {0}
    /\ MaxClock \in Nat
    /\ CrashHorizon \in Nat
    /\ NoToken \notin Requests
    /\ NoError \notin ErrorCodes

VARIABLES
    messages,   \* AIMessage rows of role user, one per idempotency key
    replies,    \* number of AIMessage rows of role assistant that answer a key
    req,        \* the running requests
    clock

vars == <<sub, accounts, entries, adjustments, messages, replies, req, clock>>

-----------------------------------------------------------------------------

Message == [status : {"absent", "pending", "completed", "failed"},
            linked : BOOLEAN,                       \* credit_ledger_entry_id set
            token  : Requests \cup {NoToken},
            lease  : Nat,                           \* 0 is NULL
            error  : ErrorCodes \cup {NoError},
            grounded : BOOLEAN]       \* the conversation's snapshot is there and valid

Request == [pc   : {"idle", "submit", "reserve", "claim", "recover", "mark",
                    "generate", "complete", "fail"},
            key  : Keys,
            at   : Nat,                             \* checked_at
            copy : Message \cup {Expired},
            resv : LedgerStatus,                    \* reservation.status
            err  : ErrorCodes \cup {NoError}]

TypeOK ==
    /\ LedgerTypeOK
    /\ messages \in [Keys -> Message]
    /\ replies \in [Keys -> Nat]
    /\ req \in [Requests -> Request]
    /\ clock \in Nat

NewMessage(status, grounded) ==
    [status |-> status, linked |-> FALSE, token |-> NoToken,
     lease |-> 0, error |-> NoError, grounded |-> grounded]

Idle(k) == [pc |-> "idle", key |-> k, at |-> 0, copy |-> Expired,
            resv |-> "none", err |-> NoError]

Init ==
    /\ LedgerInit
    /\ messages = [k \in Keys |-> NewMessage("absent", TRUE)]
    /\ replies = [k \in Keys |-> 0]
    /\ \E k \in Keys : req = [r \in Requests |-> Idle(k)]
    /\ clock = 0

-----------------------------------------------------------------------------

K(r) == req[r].key

\* The message attributes a locking SELECT gives request r.
Row(r) ==
    IF req[r].copy = Expired THEN messages[K(r)] ELSE req[r].copy

At(r, pc) == req[r].pc = pc

Goto(r, pc) == req' = [req EXCEPT ![r].pc = pc]

\* A rollback expires the session's objects.
RollbackTo(r, pc, error) ==
    req' = [req EXCEPT ![r].pc = pc, ![r].err = error, ![r].copy = Expired]

\* The request answers its client and its session is closed.
Finish(r) == req' = [req EXCEPT ![r] = Idle(K(r))]

SetMessage(k, row) == messages' = [messages EXCEPT ![k] = row]

Settled(row, status, error) ==
    [row EXCEPT !.status = status, !.token = NoToken, !.lease = 0, !.error = error]

\* A client sends a request or retries one; checked_at is taken on entry.
Start(r, k) ==
    /\ At(r, "idle")
    /\ req' = [req EXCEPT ![r] = [Idle(k) EXCEPT !.pc = "submit", !.at = clock]]
    /\ UNCHANGED <<ledgerVars, messages, replies, clock>>

\* submit_user_message: insert the message, or load the one the key names; a
\* settled one is answered at once (_existing_result).
Submit(r) ==
    LET row == messages[K(r)] IN
    /\ At(r, "submit")
    /\ \/ /\ row.status = "absent"
          /\ \E grounded \in BOOLEAN :
                LET new == NewMessage("pending", grounded) IN
                /\ SetMessage(K(r), new)
                /\ req' = [req EXCEPT ![r].pc = "reserve", ![r].copy = new]
       \/ /\ row.status = "pending"
          /\ req' = [req EXCEPT ![r].pc = "reserve", ![r].copy = row]
          /\ UNCHANGED messages
       \/ /\ row.status \in {"completed", "failed"}
          /\ Finish(r)
          /\ UNCHANGED messages
    /\ UNCHANGED <<ledgerVars, replies, clock>>

ReservationError ==
    CASE sub.status = "none"     -> "subscription_required"
      [] sub.status = "inactive" -> "subscription_inactive"
      [] sub.status = "active" /\ ~sub.enabled -> "entitlement_denied"
      [] OTHER -> IF EffectiveLimit(sub.limit, sub.period) \in Nat
                  THEN "credit_limit_reached" ELSE "execution_integrity"

\* AICreditService.reserve: a new reservation, the replay of an existing one,
\* or a classified failure, whose rollback expires the message object.
ReserveCredit(r) ==
    /\ At(r, "reserve")
    /\ \/ /\ Reserve(K(r))
          /\ req' = [req EXCEPT ![r].pc = "claim", ![r].resv = "reserved"]
       \/ /\ entries[K(r)].status # "none"
          /\ req' = [req EXCEPT ![r].pc = "claim", ![r].resv = entries[K(r)].status]
          /\ UNCHANGED ledgerVars
       \/ /\ entries[K(r)].status = "none"
          /\ ~Reservable
          /\ RollbackTo(r, "mark", ReservationError)
          /\ UNCHANGED ledgerVars
    /\ UNCHANGED <<messages, replies, clock>>

\* Faulty variant: any message is failed.
UnclaimedAnything(row) == row.status # "absent"

Unclaimed(row) == row.status = "pending" /\ ~row.linked

\* _mark_pre_reservation_failure, always after a rollback: an unclaimed
\* pending message fails; anything else is left alone.
MarkPreReservationFailure(r) ==
    LET row == Row(r) IN
    /\ At(r, "mark")
    /\ IF Unclaimed(row)
       THEN SetMessage(K(r), Settled(row, "failed", req[r].err))
       ELSE UNCHANGED messages
    /\ Finish(r)
    /\ UNCHANGED <<ledgerVars, replies, clock>>

-----------------------------------------------------------------------------
(***************************************************************************)
(* _claim.  The grounding context is checked before anything else; then    *)
(* the status, the reservation and the lease of the message object.        *)
(***************************************************************************)

\* Faulty variant: a lease never ends.
LeaseForever(r) == Row(r).token # NoToken

LeaseActive(r) == Row(r).token # NoToken /\ Row(r).lease > req[r].at

\* Faulty variant: a live lease is taken for an integrity error.
ClaimRefusedWhenLeased(r) ==
    /\ At(r, "claim")
    /\ LeaseActive(r)
    /\ RollbackTo(r, "recover", "execution_integrity")
    /\ UNCHANGED <<ledgerVars, messages, replies, clock>>

\* AIExecutionIntegrityError, rolled back.
ClaimRefused(r) ==
    /\ At(r, "claim")
    /\ \/ ~messages[K(r)].grounded
       \/ Row(r).status = "pending" /\ req[r].resv # "reserved"
    /\ RollbackTo(r, "recover", "execution_integrity")
    /\ UNCHANGED <<ledgerVars, messages, replies, clock>>

\* The message is settled, or another request's lease is live.
ClaimAnswered(r) ==
    /\ At(r, "claim")
    /\ messages[K(r)].grounded
    /\ \/ Row(r).status \in {"completed", "failed"}
       \/ req[r].resv = "reserved" /\ LeaseActive(r)
    /\ Finish(r)
    /\ UNCHANGED <<ledgerVars, messages, replies, clock>>

\* Token and lease are written to the row.  If the row is no longer pending,
\* ck_ai_messages_status_fields rejects the token and the request ends in an
\* unclassified error.
ClaimTaken(r) ==
    LET Leased(row) == [row EXCEPT !.linked = TRUE, !.token = r,
                                   !.lease = req[r].at + LeaseDuration]
    IN  /\ At(r, "claim")
        /\ messages[K(r)].grounded
        /\ Row(r).status = "pending"
        /\ req[r].resv = "reserved"
        /\ ~LeaseActive(r)
        /\ \/ /\ messages[K(r)].status = "pending"
              /\ SetMessage(K(r), Leased(messages[K(r)]))
              /\ req' = [req EXCEPT ![r].pc = "generate", ![r].copy = Leased(Row(r))]
           \/ /\ messages[K(r)].status # "pending"
              /\ Finish(r)
              /\ UNCHANGED messages
        /\ UNCHANGED <<ledgerVars, replies, clock>>

\* The handler of a refused claim: release the reservation, then mark the
\* message.  A consumed entry raises AICreditStateConflictError, which is
\* logged and ends the request.
RecoverRefusedClaim(r) ==
    /\ At(r, "recover")
    /\ \/ Release(K(r)) /\ Goto(r, "mark")
       \/ entries[K(r)].status = "released" /\ Goto(r, "mark") /\ UNCHANGED ledgerVars
       \/ entries[K(r)].status = "consumed" /\ Finish(r) /\ UNCHANGED ledgerVars
    /\ UNCHANGED <<messages, replies, clock>>

-----------------------------------------------------------------------------

\* The provider call, outside any transaction: a usable response, or a failure
\* (gateway error, oversized response, malformed dashboard analysis).
Generate(r) ==
    /\ At(r, "generate")
    /\ \/ Goto(r, "complete")
       \/ \E e \in ProviderErrors : req' = [req EXCEPT ![r].pc = "fail", ![r].err = e]
    /\ UNCHANGED <<ledgerVars, messages, replies, clock>>

\* The request still owns the claim as far as its message object says.
OwnsClaim(r) == Row(r).status = "pending" /\ Row(r).token = r /\ Row(r).linked

\* Faulty variant: neither the entry nor an existing reply is checked.
PersistableUnchecked(k) == messages[k].status # "failed"

\* The settlement can be written: the entry is reserved, no reply exists
\* (uq_ai_messages_business_conversation_reply) and the row carries no error
\* (ck_ai_messages_status_fields).
Persistable(k) == Holds(k) /\ replies[k] = 0 /\ messages[k].status # "failed"

\* Faulty variant: the reservation stays in the account.
ReleaseCreditEntryOnly(k) ==
    /\ accounts' = accounts
    /\ entries' = [entries EXCEPT ![k].status = "released"]

\* The settlements of entry and account written out in this service.
ConsumeCredit(k) ==
    /\ accounts' = [accounts EXCEPT ![entries[k].account] = Consumed(@)]
    /\ entries' = [entries EXCEPT ![k].status = "consumed"]

ReleaseCredit(k) ==
    /\ accounts' = [accounts EXCEPT ![entries[k].account] = Released(@)]
    /\ entries' = [entries EXCEPT ![k].status = "released"]

\* _complete_claim: reply, message, entry and account in one transaction.  Its
\* early returns for a settled or taken-over message read the request's own
\* object, which ClaimTaken left pending with this request's token, so no
\* request reaches them (OwnsClaim holds at "complete"); a claim that was taken
\* over is detected by Persistable.
CompleteClaim(r) ==
    /\ At(r, "complete")
    /\ OwnsClaim(r)
    /\ Persistable(K(r))
    /\ replies' = [replies EXCEPT ![K(r)] = @ + 1]
    /\ SetMessage(K(r), Settled(messages[K(r)], "completed", NoError))
    /\ ConsumeCredit(K(r))
    /\ Finish(r)
    /\ UNCHANGED <<sub, adjustments, clock>>

\* AIExecutionIntegrityError: rolled back, then _fail_claim is tried.
CompleteRefused(r) ==
    /\ At(r, "complete")
    /\ OwnsClaim(r)
    /\ ~Persistable(K(r))
    /\ RollbackTo(r, "fail", "persistence_failure")
    /\ UNCHANGED <<ledgerVars, messages, replies, clock>>

\* _fail_claim: refund the reservation and fail the message.  An entry that is
\* already released is tolerated; a consumed one raises and rolls back.
FailClaim(r) ==
    /\ At(r, "fail")
    /\ OwnsClaim(r)
    /\ \/ Holds(K(r)) /\ ReleaseCredit(K(r)) /\ UNCHANGED <<sub, adjustments>>
       \/ entries[K(r)].status = "released" /\ UNCHANGED ledgerVars
    /\ SetMessage(K(r), Settled(messages[K(r)], "failed", req[r].err))
    /\ Finish(r)
    /\ UNCHANGED <<replies, clock>>

FailSuperseded(r) ==
    /\ At(r, "fail")
    /\ ~OwnsClaim(r) \/ entries[K(r)].status = "consumed"
    /\ Finish(r)
    /\ UNCHANGED <<ledgerVars, messages, replies, clock>>

-----------------------------------------------------------------------------

\* The request dies between two transactions.
Crash(r) ==
    /\ ~At(r, "idle")
    /\ clock <= CrashHorizon
    /\ Finish(r)
    /\ UNCHANGED <<ledgerVars, messages, replies, clock>>

Tick ==
    /\ clock < MaxClock
    /\ clock' = clock + 1
    /\ UNCHANGED <<ledgerVars, messages, replies, req>>

\* Adjustments and billing run beside the requests.
Ledger ==
    /\ \/ \E key \in AdjKeys, delta \in Deltas : Adjust(key, delta)
       \/ SyncSubscription
    /\ UNCHANGED <<messages, replies, req, clock>>

Step(r) ==
    \/ Submit(r) \/ ReserveCredit(r) \/ MarkPreReservationFailure(r)
    \/ ClaimRefused(r) \/ ClaimAnswered(r) \/ ClaimTaken(r) \/ RecoverRefusedClaim(r)
    \/ Generate(r)
    \/ CompleteClaim(r) \/ CompleteRefused(r)
    \/ FailClaim(r) \/ FailSuperseded(r)

Next ==
    \/ \E r \in Requests : Step(r) \/ Crash(r) \/ \E k \in Keys : Start(r, k)
    \/ Tick
    \/ Ledger

Spec == Init /\ [][Next]_vars

\* A request that has not crashed runs on (the provider call is bounded by
\* gemini_request_timeout_seconds, row locks by the transactions above), time
\* passes, and the client replays a key it has no final answer for.
Fairness ==
    /\ \A r \in Requests : WF_vars(Step(r))
    /\ \A k \in Keys : WF_vars(\E r \in Requests : messages[k].status = "pending" /\ Start(r, k))
    /\ WF_vars(Tick)

FairSpec == Spec /\ Fairness

-----------------------------------------------------------------------------
(***************************************************************************)
(* Properties.                                                             *)
(***************************************************************************)

\* Response, message completion and charge are one: a message is completed
\* exactly when its credit is consumed and it has exactly one reply, however
\* many requests raced for it.
SettledTogether ==
    \A k \in Keys :
        /\ messages[k].status = "completed" <=> entries[k].status = "consumed"
        /\ replies[k] = IF messages[k].status = "completed" THEN 1 ELSE 0

\* The credit of a claimed message follows it: it stays reserved while the message
\* is pending, whatever retries, recoveries and late requests do, and has been
\* released once the message has failed.
CreditFollowsClaim ==
    \A k \in Keys : messages[k].linked =>
        /\ messages[k].status = "pending" => entries[k].status = "reserved"
        /\ messages[k].status = "failed" => entries[k].status = "released"

\* A completed message never changes again and a failed one stays failed.
OutcomeIsFinal ==
    [][\A k \in Keys :
           /\ messages[k].status = "completed" => messages'[k] = messages[k]
           /\ messages[k].status = "failed" => messages'[k].status = "failed"]_vars

\* Whatever the requests do to the ledger is one of the ledger's transactions:
\* the settlements inlined in ai_execution.py implement AICreditService.
ImplementsLedger == LedgerSpec

\* If the client keeps replaying the key, a pending message is settled, also
\* after crashes: the lease of a dead request expires and a replay takes over.
PendingIsSettled ==
    \A k \in Keys :
        messages[k].status = "pending" ~> messages[k].status \in {"completed", "failed"}

\* tests/integration/test_milestone5_conversations.py:250: "pre reservation
\* failures create no ledger": once no request works on the key, a message
\* that failed before it was claimed holds no reservation.
NoOrphanReservation ==
    \A k \in Keys :
        /\ messages[k].status = "failed"
        /\ \A r \in Requests : K(r) = k => At(r, "idle")
        => entries[k].status # "reserved"

=============================================================================
