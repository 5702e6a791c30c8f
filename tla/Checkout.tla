------------------------------ MODULE Checkout -------------------------------
(***************************************************************************)
(* CheckoutService.create and the webhooks that settle a Checkout          *)
(* (app/services/billing.py), for one business with a subscription that is *)
(* not attached to Stripe yet.                                             *)
(*                                                                         *)
(* A request prepares an attempt in one transaction, asks Stripe for a     *)
(* Checkout Session outside any transaction and stores the answer in a     *)
(* second one.  The owner may pay a session as soon as its URL has been    *)
(* returned; Stripe announces payment and expiry by webhooks that arrive   *)
(* in any order and at any time.                                           *)
(*                                                                         *)
(* The session is built with expire_on_commit=False, so the second         *)
(* transaction locks the row but works on the object the first one loaded; *)
(* "copy" is that object.  Nothing keeps two requests of one key apart     *)
(* between the two transactions.                                           *)
(***************************************************************************)
EXTENDS Integers, FiniteSets

CONSTANTS
    Keys,            \* Idempotency-Key values; one attempt per key
    Requests,        \* request slots; a slot is used again for retries
    KeyOf,           \* the key a slot sends
    SessionLength,   \* stripe_checkout_session_minutes, in clock ticks
    MaxClock,        \* bound: the clock stops here
    LastCall,        \* bound: no request turns to Stripe after this tick
    NoKey            \* stripe_subscription_id of the subscription IS NULL

ASSUME CheckoutAssumption ==
    /\ KeyOf \in [Requests -> Keys]
    /\ SessionLength \in Nat \ {0}
    /\ MaxClock \in Nat
    /\ LastCall \in Nat
    /\ NoKey \notin Keys

VARIABLES
    checkouts,   \* BillingCheckoutSession rows, by key
    attached,    \* the key whose Stripe subscription the subscription has
    stripe,      \* the Checkout Sessions at Stripe, by idempotency key
    urls,        \* keys whose checkout_url has been returned to the owner
    events,      \* webhooks Stripe has yet to see acknowledged
    req,         \* the running requests
    clock,
    undone       \* history: a stale object has taken back what was recorded

vars == <<checkouts, attached, stripe, urls, events, req, clock, undone>>

-----------------------------------------------------------------------------

Row == [status  : {"none", "pending", "open", "complete", "expired"},
        url     : BOOLEAN,                  \* checkout_url set
        expires : Nat]

Remote == [status  : {"none", "open", "paid", "expired"},
           asked   : Nat,                   \* stands for the parameters sent
           expires : Nat]

Request == [pc     : {"idle", "call", "store", "reject"},
            now    : Nat,
            copy   : Row,
            answer : Nat]                   \* expires_at of the answer

Event == [kind : {"completed", "subscription", "expired"}, key : Keys]

TypeOK ==
    /\ checkouts \in [Keys -> Row]
    /\ attached \in Keys \cup {NoKey}
    /\ stripe \in [Keys -> Remote]
    /\ urls \subseteq Keys
    /\ events \subseteq Event
    /\ req \in [Requests -> Request]
    /\ clock \in Nat
    /\ undone \in BOOLEAN

NoRow == [status |-> "none", url |-> FALSE, expires |-> 0]

Idle == [pc |-> "idle", now |-> 0, copy |-> NoRow, answer |-> 0]

Init ==
    /\ checkouts = [k \in Keys |-> NoRow]
    /\ attached = NoKey
    /\ stripe = [k \in Keys |-> [status |-> "none", asked |-> 0, expires |-> 0]]
    /\ urls = {}
    /\ events = {}
    /\ req = [r \in Requests |-> Idle]
    /\ clock = 0
    /\ undone = FALSE

-----------------------------------------------------------------------------
(***************************************************************************)
(* The first transaction.                                                  *)
(***************************************************************************)

K(r) == KeyOf[r]

At(r, pc) == req[r].pc = pc

Finish(r) == req' = [req EXCEPT ![r] = Idle]

InProgress(row) == row.status \in {"pending", "open"}

\* Faulty variant: attempts never expire locally.
NeverStale(row) == row

\* Faulty variant: an attempt expires while its session can be paid.
StaleEarly(row) ==
    IF InProgress(row) /\ row.expires <= clock + 1
    THEN [row EXCEPT !.status = "expired"] ELSE row

\* _expire_stale_attempts.
Fresh(row) ==
    IF InProgress(row) /\ row.expires <= clock THEN [row EXCEPT !.status = "expired"] ELSE row

Call(r, row) ==
    /\ clock <= LastCall
    /\ req' = [req EXCEPT ![r] = [pc |-> "call", now |-> clock, copy |-> row, answer |-> 0]]

\* _prepare_attempt of a key that has an attempt: a pending one is tried again,
\* any other is returned as it is.
Resume(r) ==
    LET row == Fresh(checkouts[K(r)]) IN
    /\ At(r, "idle")
    /\ checkouts[K(r)].status # "none"
    /\ checkouts' = [k \in Keys |-> Fresh(checkouts[k])]
    /\ \/ row.status = "pending" /\ Call(r, row) /\ UNCHANGED urls
       \/ /\ row.status # "pending"
          /\ urls' = IF row.url THEN urls \cup {K(r)} ELSE urls
          /\ UNCHANGED req
    /\ UNCHANGED <<attached, stripe, events, clock, undone>>

\* Faulty variant: a completed Checkout does not count until it is attached.
AdmissibleUnlessAttached(k) ==
    /\ checkouts[k].status = "none"
    /\ \A j \in Keys : ~InProgress(Fresh(checkouts[j]))
    /\ attached = NoKey

\* A new attempt is refused while another is in progress, once the subscription
\* is attached, and while a completed Checkout waits to be attached.  The last
\* two rules cannot tell two attempts of this subscription apart.
Admissible(k) ==
    /\ checkouts[k].status = "none"
    /\ \A j \in Keys : ~InProgress(Fresh(checkouts[j])) /\ checkouts[j].status # "complete"
    /\ attached = NoKey

\* _prepare_attempt of a new key.  A refusal rolls everything back.
Prepare(r) ==
    LET row == [status |-> "pending", url |-> FALSE, expires |-> clock + SessionLength] IN
    /\ At(r, "idle")
    /\ Admissible(K(r))
    /\ checkouts' = [[k \in Keys |-> Fresh(checkouts[k])] EXCEPT ![K(r)] = row]
    /\ Call(r, row)
    /\ UNCHANGED <<attached, stripe, urls, events, clock, undone>>

-----------------------------------------------------------------------------
(***************************************************************************)
(* The call.  Stripe keeps the answer to an idempotency key; a second call *)
(* with other parameters is an error, and expires_at makes the parameters  *)
(* depend on the second of the request.                                    *)
(***************************************************************************)

Created(r) ==
    /\ stripe[K(r)].status = "none"
    /\ req[r].now + SessionLength > clock
    /\ stripe' = [stripe EXCEPT ![K(r)] =
          [status |-> "open", asked |-> req[r].now, expires |-> req[r].now + SessionLength]]

\* Stripe creates the session, or repeats its answer to the same call.
CallAnswered(r) ==
    /\ At(r, "call")
    /\ \/ Created(r)
       \/ stripe[K(r)].status # "none" /\ stripe[K(r)].asked = req[r].now /\ UNCHANGED stripe
    /\ req' = [req EXCEPT ![r].pc = "store", ![r].answer = stripe'[K(r)].expires]
    /\ UNCHANGED <<checkouts, attached, urls, events, clock, undone>>

\* StripeCheckoutRejectedError: no session was created by this call.
CallRejected(r) ==
    /\ At(r, "call")
    /\ stripe[K(r)].status = "none"
    /\ req' = [req EXCEPT ![r].pc = "reject"]
    /\ UNCHANGED <<checkouts, attached, stripe, urls, events, clock, undone>>

\* The answer is lost after the session was created.  (A call that fails
\* without effect, also for its parameters, is Crash.)
CallLost(r) ==
    /\ At(r, "call")
    /\ Created(r)
    /\ Finish(r)
    /\ UNCHANGED <<checkouts, attached, urls, events, clock, undone>>

\* The request ends without another transaction.
Crash(r) ==
    /\ ~At(r, "idle")
    /\ Finish(r)
    /\ UNCHANGED <<checkouts, attached, stripe, urls, events, clock, undone>>

-----------------------------------------------------------------------------
(***************************************************************************)
(* The second transaction.                                                 *)
(***************************************************************************)

\* A payment is taken back, or the URL the owner has been given.
TakesBack(old, new) ==
    \/ old.status = "complete" /\ new.status # "complete"
    \/ old.status = "open" /\ new.status = "expired"

Record(r, row) ==
    /\ checkouts' = [checkouts EXCEPT ![K(r)] = row]
    /\ undone' = (undone \/ TakesBack(checkouts[K(r)], row))

\* The status is the one of the object; only a change to it is written.
Stored(r) ==
    [status  |-> IF req[r].copy.status = "pending" THEN "open" ELSE checkouts[K(r)].status,
     url     |-> TRUE,
     expires |-> req[r].answer]

\* uq_billing_checkout_one_open_per_business lets one attempt be in progress;
\* otherwise the commit fails and the request ends in an error.
Store(r) ==
    /\ At(r, "store")
    /\ IF \E k \in Keys \ {K(r)} : InProgress(Stored(r)) /\ InProgress(checkouts[k])
       THEN UNCHANGED <<checkouts, urls, undone>>
       ELSE /\ Record(r, Stored(r))
            /\ urls' = urls \cup {K(r)}
    /\ Finish(r)
    /\ UNCHANGED <<attached, stripe, events, clock>>

\* _expire_rejected_attempt.
ExpireRejected(r) ==
    /\ At(r, "reject")
    /\ IF req[r].copy.status = "pending" /\ ~req[r].copy.url
       THEN Record(r, [checkouts[K(r)] EXCEPT !.status = "expired", !.expires = clock])
       ELSE UNCHANGED <<checkouts, undone>>
    /\ Finish(r)
    /\ UNCHANGED <<attached, stripe, urls, events, clock>>

-----------------------------------------------------------------------------
(***************************************************************************)
(* Stripe and its webhooks.                                                *)
(***************************************************************************)

Payable(k) == k \in urls /\ stripe[k].status = "open" /\ stripe[k].expires > clock

\* The owner pays; the session becomes a subscription.
Pay(k) ==
    /\ Payable(k)
    /\ stripe' = [stripe EXCEPT ![k].status = "paid"]
    /\ events' = events \cup [kind : {"completed", "subscription"}, key : {k}]
    /\ UNCHANGED <<checkouts, attached, urls, req, clock, undone>>

SessionExpires(k) ==
    /\ stripe[k].status = "open"
    /\ stripe[k].expires <= clock
    /\ stripe' = [stripe EXCEPT ![k].status = "expired"]
    /\ events' = events \cup {[kind |-> "expired", key |-> k]}
    /\ UNCHANGED <<checkouts, attached, urls, req, clock, undone>>

\* Faulty variant: an attempt that has expired locally stays expired.
CompletedUnlessExpired(row) ==
    IF row.status = "expired" THEN row ELSE [row EXCEPT !.status = "complete"]

Completed(row) == [row EXCEPT !.status = "complete"]

\* checkout.session.completed: _complete_checkout.
CheckoutCompleted(k) ==
    LET event == [kind |-> "completed", key |-> k] IN
    /\ event \in events
    /\ events' = events \ {event}
    /\ checkouts' = [checkouts EXCEPT ![k] = Completed(@)]
    /\ UNCHANGED <<attached, stripe, urls, req, clock, undone>>

\* checkout.session.expired: _complete_checkout.
CheckoutExpired(k) ==
    LET event == [kind |-> "expired", key |-> k] IN
    /\ event \in events
    /\ events' = events \ {event}
    /\ checkouts' = IF checkouts[k].status = "complete" THEN checkouts
                    ELSE [checkouts EXCEPT ![k].status = "expired"]
    /\ UNCHANGED <<attached, stripe, urls, req, clock, undone>>

\* A subscription event: sync attaches the subscription and completes the
\* attempt.  A second Stripe subscription is refused each time it arrives.
SubscriptionSynced(k) ==
    LET event == [kind |-> "subscription", key |-> k] IN
    /\ event \in events
    /\ attached \in {NoKey, k}
    /\ events' = events \ {event}
    /\ attached' = k
    /\ checkouts' = [checkouts EXCEPT ![k] = Completed(@)]
    /\ UNCHANGED <<stripe, urls, req, clock, undone>>

Tick ==
    /\ clock < MaxClock
    /\ clock' = clock + 1
    /\ UNCHANGED <<checkouts, attached, stripe, urls, events, req, undone>>

-----------------------------------------------------------------------------

Step(r) == CallAnswered(r) \/ CallRejected(r) \/ CallLost(r) \/ Store(r) \/ ExpireRejected(r)

Webhook(k) == CheckoutCompleted(k) \/ CheckoutExpired(k) \/ SubscriptionSynced(k)

Next ==
    \/ \E r \in Requests : Prepare(r) \/ Resume(r) \/ Step(r) \/ Crash(r)
    \/ \E k \in Keys : Pay(k) \/ SessionExpires(k) \/ Webhook(k)
    \/ Tick

Spec == Init /\ [][Next]_vars

\* Time passes, a request that has not crashed runs on (calls to Stripe are
\* bounded by the client's timeout), Stripe repeats a webhook until it is
\* acknowledged, and an owner without a session tries the key again.
Fairness ==
    /\ WF_vars(Tick)
    /\ \A r \in Requests : WF_vars(Resume(r)) /\ WF_vars(Step(r) \/ Crash(r))
    /\ \A k \in Keys : WF_vars(CheckoutCompleted(k)) /\ WF_vars(SubscriptionSynced(k))

FairSpec == Spec /\ Fairness

-----------------------------------------------------------------------------
(***************************************************************************)
(* Properties.                                                             *)
(***************************************************************************)

\* README.md:646: "A second open Checkout is rejected to prevent duplicate paid
\* subscriptions": the owner never has two sessions that could both be paid.
OnePayable == \A j, k \in Keys : Payable(j) /\ Payable(k) => j = k

\* The promise of README.md:646 holds of every history in which no request took
\* back, through the object it had loaded, what another had recorded.
OnePayableUnlessUndone == ~undone => OnePayable

\* "Checkout finished but the authoritative subscription webhook has not
\* attached its state yet.  Refuse a second paid subscription"
\* (_prepare_attempt): once a webhook has reported a payment no attempt begins,
\* unless a stale request has taken the report back.
RefusedOncePaid ==
    [][\A k \in Keys :
           ~undone /\ checkouts[k].status = "none" /\ checkouts'[k].status # "none" =>
               \A j \in Keys :
                   stripe[j].status = "paid" =>
                       [kind : {"completed", "subscription"}, key : {j}] \subseteq events]_vars

\* A payment is recorded, also one whose webhook comes after the attempt has
\* expired locally, and for good as long as no stale request takes it back.
PaidIsRecorded ==
    \A k \in Keys :
        stripe[k].status = "paid" ~> [](checkouts[k].status = "complete" \/ undone)

\* README.md:647: "Pending operations receive a bounded expiry before the Stripe
\* request, so an interrupted network call cannot lock the tenant out".
LockoutEnds == \A k \in Keys : checkouts[k].status = "pending" ~> checkouts[k].status # "pending"

=============================================================================
