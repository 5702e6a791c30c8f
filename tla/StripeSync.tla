----------------------------- MODULE StripeSync ------------------------------
(***************************************************************************)
(* The local mirror of one Stripe subscription and of one of its invoices: *)
(* StripeWebhookService, SubscriptionSynchronizer and                      *)
(* SubscriptionLifecycleService (app/services/billing.py).                 *)
(*                                                                         *)
(* Stripe owns the subscription.  Every change is announced by an event,   *)
(* delivered at least once, in any order, until it is acknowledged.  A     *)
(* handler claims the event id, fetches the subscription from Stripe and   *)
(* only then locks the local row and writes the snapshot, in one           *)
(* transaction.  The insert that claims the id makes a second delivery of  *)
(* the same event wait for the first, and a rollback undoes it.            *)
(*                                                                         *)
(* A handler of an invoice event has loaded the local row before it asks   *)
(* Stripe.  The locking SELECT that follows returns that object with the   *)
(* attributes it has, and SQLAlchemy writes the columns whose value        *)
(* differs from what was loaded; "copy" is that object.                    *)
(***************************************************************************)
EXTENDS Integers, Sequences

CONSTANTS
    Handlers,      \* webhook deliveries being processed at a time
    LiveStatuses,  \* Stripe statuses of a subscription that has not ended
    MaxEvents,     \* bound: number of events Stripe emits
    NoRow          \* no object

ASSUME SyncAssumption ==
    /\ {"trialing", "active"} \subseteq LiveStatuses
    /\ "canceled" \notin LiveStatuses
    /\ MaxEvents \in Nat \ {0}
    /\ NoRow \notin [attached : BOOLEAN, plan : BOOLEAN,
                     status : LiveStatuses \cup {"canceled", "incomplete"}, cancel : BOOLEAN]
    /\ NoRow \notin [status : LiveStatuses \cup {"canceled"}, cancel : BOOLEAN,
                     price : {"plan", "other", "unknown"}]

VARIABLES
    remote,    \* the subscription at Stripe
    bill,      \* the status of the invoice at Stripe
    events,    \* the events Stripe has emitted; the index is the event id
    row,       \* the Subscription row
    trial,     \* the trial SubscriptionEntitlement rows exist
    invoice,   \* the BillingInvoice row
    done,      \* StripeWebhookEvent rows: ids of the processed events
    handler,   \* running webhook handlers
    change,    \* the cancel or resume request that holds the row lock
    newest,    \* history: of the snapshots written to the row, the last event of the newest
    overtaken  \* history: the last write of the row came too late

history == <<newest, overtaken>>

vars == <<remote, bill, events, row, trial, invoice, done, handler, change, history>>

-----------------------------------------------------------------------------

\* The Price is the one configured for the Plan that the Checkout left in the
\* metadata, the one of another Plan, or not configured; a status that is not
\* supported is treated like the last.
Remote == [status : LiveStatuses \cup {"canceled"}, cancel : BOOLEAN,
           price  : {"plan", "other", "unknown"}]

BillStatus == {"none", "draft", "open", "paid", "uncollectible", "void"}

\* What a handler uses of an event: the subscription it carries only when that
\* has ended, the status of the invoice and the time only of an invoice event.
Event == [kind : {"updated", "deleted", "invoice"}, time : Nat,
          object : Remote \cup {NoRow}, bill : BillStatus]

Row == [attached : BOOLEAN,                       \* stripe_subscription_id set
        plan     : BOOLEAN,                       \* plan_id set
        status   : LiveStatuses \cup {"canceled", "incomplete"},
        cancel   : BOOLEAN]                       \* cancel_at_period_end

Invoice == [status : BillStatus, time : Nat]      \* "none": no row

Handler == [pc    : {"idle", "retrieve", "sync", "write"},
            event : 0..MaxEvents,
            snap  : Remote \cup {NoRow},
            copy  : Row \cup {NoRow},
            asof  : 0..MaxEvents]    \* history: the last event when snap was taken

Change == [pc : {"idle", "call", "apply"}, cancel : BOOLEAN, snap : Remote \cup {NoRow},
           asof : 0..MaxEvents]

TypeOK ==
    /\ remote \in Remote
    /\ bill \in BillStatus
    /\ events \in Seq(Event) /\ Len(events) <= MaxEvents
    /\ row \in Row
    /\ trial \in BOOLEAN
    /\ invoice \in Invoice
    /\ done \subseteq 1..Len(events)
    /\ handler \in [Handlers -> Handler]
    /\ change \in Change
    /\ newest \in 0..Len(events)
    /\ overtaken \in BOOLEAN

IdleHandler == [pc |-> "idle", event |-> 0, snap |-> NoRow, copy |-> NoRow, asof |-> 0]

IdleChange == [pc |-> "idle", cancel |-> FALSE, snap |-> NoRow, asof |-> 0]

\* The subscription has just been created from a Checkout of a business on its
\* trial and nothing of it has reached the local row; or that event has been
\* processed, and the first invoice has just been finalised.
Init ==
    /\ remote \in [status : {"trialing", "active"}, cancel : {FALSE}, price : {"plan"}]
    /\ \/ /\ bill = "none"
          /\ events = <<[kind |-> "updated", time |-> 0, object |-> NoRow, bill |-> "none"]>>
          /\ row = [attached |-> FALSE, plan |-> FALSE, status |-> "trialing", cancel |-> FALSE]
          /\ trial = TRUE
       \/ /\ bill = "open"
          /\ events = <<[kind |-> "invoice", time |-> 0, object |-> NoRow, bill |-> "open"]>>
          /\ row = [attached |-> TRUE, plan |-> TRUE, status |-> remote.status, cancel |-> FALSE]
          /\ trial = (remote.status = "trialing")
    /\ invoice = [status |-> "none", time |-> 0]
    /\ done = {}
    /\ handler = [h \in Handlers |-> IdleHandler]
    /\ change = IdleChange
    /\ newest = 0
    /\ overtaken = FALSE

-----------------------------------------------------------------------------
(***************************************************************************)
(* Stripe.                                                                 *)
(***************************************************************************)

\* Events carry a time in seconds: two of them may carry the same.
Emit(kind, object, status, elapsed) ==
    /\ Len(events) < MaxEvents
    /\ events' = Append(events, [kind |-> kind, object |-> object, bill |-> status,
                                 time |-> events[Len(events)].time + elapsed])

\* The subscription changes; its end changes the status only and is the last change.
RemoteChanges ==
    /\ remote.status # "canceled"
    /\ \E new \in Remote \ {remote} :
          /\ new.status = "canceled" => new = [remote EXCEPT !.status = "canceled"]
          /\ remote' = new
          /\ IF new.status = "canceled"
             THEN Emit("deleted", new, "none", 0)
             ELSE Emit("updated", NoRow, "none", 0)
    /\ UNCHANGED <<bill, row, trial, invoice, done, handler, change, history>>

\* What may become of an invoice.  The first one of a subscription is finalised
\* as it is created, later ones are drafts at first.  An uncollectible one may still be paid or
\* voided, by a later decision and so not within the same second.
BillSuccessors(status) ==
    CASE status = "none"          -> {"draft", "open"}
      [] status = "draft"         -> {"open"}
      [] status = "open"          -> {"paid", "uncollectible", "void"}
      [] status = "uncollectible" -> {"paid", "void"}
      [] OTHER                    -> {}

BillChanges ==
    /\ \E new \in BillSuccessors(bill), elapsed \in 0..1 :
          /\ bill = "uncollectible" => elapsed = 1
          /\ bill' = new
          /\ Emit("invoice", NoRow, new, elapsed)
    /\ UNCHANGED <<remote, row, trial, invoice, done, handler, change, history>>

-----------------------------------------------------------------------------
(***************************************************************************)
(* Webhook handlers.                                                       *)
(***************************************************************************)

At(h, pc) == handler[h].pc = pc

E(h) == events[handler[h].event]

Rollback(h) == handler' = [handler EXCEPT ![h] = IdleHandler]

\* process and _claim_event: a processed id is answered as a duplicate, one
\* that another handler is working on makes this one wait.
Receive(h, e) ==
    /\ At(h, "idle")
    /\ e \notin done
    /\ \A other \in Handlers : handler[other].event # e
    /\ handler' = [handler EXCEPT ![h] =
          [event |-> e,
           pc    |-> IF events[e].kind = "deleted" THEN "sync" ELSE "retrieve",
           snap  |-> events[e].object,
           asof  |-> IF events[e].kind = "deleted" THEN e ELSE 0,
           copy  |-> IF events[e].kind = "invoice" /\ row.attached THEN row ELSE NoRow]]
    /\ UNCHANGED <<remote, bill, events, row, trial, invoice, done, change, history>>

Retrieve(h) ==
    /\ At(h, "retrieve")
    /\ handler' = [handler EXCEPT ![h].pc = "sync", ![h].snap = remote,
                                         ![h].asof = Len(events)]
    /\ UNCHANGED <<remote, bill, events, row, trial, invoice, done, change, history>>

\* StripeGatewayError: an invoice whose subscription is attached is recorded
\* without a snapshot; anything else is rolled back and delivered again.
RetrieveFails(h) ==
    /\ At(h, "retrieve")
    /\ IF handler[h].copy # NoRow
       THEN handler' = [handler EXCEPT ![h].pc = "sync"]
       ELSE Rollback(h)
    /\ UNCHANGED <<remote, bill, events, row, trial, invoice, done, change, history>>

\* Faulty variant: an unknown Price or status keeps the plan.
SyncedKeepingPlan(snap) ==
    [attached |-> TRUE, plan |-> TRUE,
     status |-> IF snap.price = "plan" THEN snap.status ELSE "active", cancel |-> snap.cancel]

\* What sync makes of the row; _fail_closed if Price or status is unknown.
Synced(snap) ==
    [attached |-> TRUE, plan |-> (snap.price = "plan"),
     status |-> IF snap.price = "plan" THEN snap.status ELSE "incomplete", cancel |-> snap.cancel]

\* StripeWebhookDataError: the Price belongs to another Plan than the metadata
\* name, or an unattached subscription has a Price or a status not known.
Refuses(snap) == IF row.attached THEN snap.price = "other" ELSE snap.price # "plan"

\* Faulty variant: the trial grant outlives the trial.
GrantKept(snap) == trial

GrantAfter(snap) == trial /\ snap.price = "plan" /\ snap.status = "trialing"

\* The unit of work writes the attributes that differ from the loaded ones.
Written(copy, new) ==
    [field \in DOMAIN new |-> IF new[field] = copy[field] THEN row[field] ELSE new[field]]

Rank(status) ==
    CASE status = "draft" -> 0 [] status = "open" -> 1 [] OTHER -> 2

\* Faulty variant: only the status counts.
SupersededByRank(event) == invoice.status # "none" /\ Rank(event.bill) < Rank(invoice.status)

\* _upsert_invoice ignores an event older than what the row records, or of the
\* same second and an earlier status.
Superseded(event) ==
    /\ invoice.status # "none"
    /\ \/ event.time < invoice.time
       \/ event.time = invoice.time /\ Rank(event.bill) < Rank(invoice.status)

\* Faulty variant: the commit does not mark the event as processed.
CommitUnmarked(h) ==
    /\ invoice' = IF E(h).kind = "invoice" /\ ~Superseded(E(h))
                  THEN [status |-> E(h).bill, time |-> E(h).time]
                  ELSE invoice
    /\ UNCHANGED done
    /\ Rollback(h)

\* The invoice is recorded and the event marked as processed, with the commit.
Commit(h) ==
    /\ invoice' = IF E(h).kind = "invoice" /\ ~Superseded(E(h))
                  THEN [status |-> E(h).bill, time |-> E(h).time]
                  ELSE invoice
    /\ done' = done \cup {handler[h].event}
    /\ Rollback(h)

\* History: the write is too late if the row has been written since the object
\* was loaded, or from a snapshot taken after a later event of the subscription.
Overtaken(copy, asof) == copy # row \/ \E e \in (asof + 1)..newest : events[e].kind # "invoice"

Apply(h, copy) ==
    /\ row' = Written(copy, Synced(handler[h].snap))
    /\ trial' = GrantAfter(handler[h].snap)
    /\ newest' = IF handler[h].asof > newest THEN handler[h].asof ELSE newest
    /\ overtaken' = Overtaken(copy, handler[h].asof)
    /\ Commit(h)

\* sync of an attached row, under its lock.
SyncAttached(h) ==
    /\ At(h, "sync")
    /\ handler[h].snap # NoRow
    /\ row.attached
    /\ change.pc = "idle"
    /\ ~Refuses(handler[h].snap)
    /\ Apply(h, IF handler[h].copy = NoRow THEN row ELSE handler[h].copy)
    /\ UNCHANGED <<remote, bill, events, change>>

\* sync raises; nothing is recorded and Stripe delivers the event again.
SyncRefused(h) ==
    /\ At(h, "sync")
    /\ handler[h].snap # NoRow
    /\ row.attached => change.pc = "idle"
    /\ Refuses(handler[h].snap)
    /\ Rollback(h)
    /\ UNCHANGED <<remote, bill, events, row, trial, invoice, done, change, history>>

\* An invoice without a snapshot touches the subscription no further.
SyncSkipped(h) ==
    /\ At(h, "sync")
    /\ handler[h].snap = NoRow
    /\ Commit(h)
    /\ UNCHANGED <<remote, bill, events, row, trial, change, history>>

\* The row is found through the Checkout metadata and loaded without a lock.
SyncUnattached(h) ==
    /\ At(h, "sync")
    /\ handler[h].snap # NoRow
    /\ ~row.attached
    /\ ~Refuses(handler[h].snap)
    /\ handler' = [handler EXCEPT ![h].pc = "write", ![h].copy = row]
    /\ UNCHANGED <<remote, bill, events, row, trial, invoice, done, change, history>>

Write(h) ==
    /\ At(h, "write")
    /\ change.pc = "idle"
    /\ Apply(h, handler[h].copy)
    /\ UNCHANGED <<remote, bill, events, change>>

\* The process dies or the transaction fails; Stripe delivers the event again.
HandlerFails(h) ==
    /\ ~At(h, "idle")
    /\ Rollback(h)
    /\ UNCHANGED <<remote, bill, events, row, trial, invoice, done, change, history>>

-----------------------------------------------------------------------------
(***************************************************************************)
(* set_cancel_at_period_end: the row lock is held over the call to Stripe. *)
(***************************************************************************)

ChangeStarts(cancel) ==
    /\ change.pc = "idle"
    /\ row.attached
    /\ row.status # "canceled"
    /\ row.cancel # cancel
    /\ change' = [IdleChange EXCEPT !.pc = "call", !.cancel = cancel]
    /\ UNCHANGED <<remote, bill, events, row, trial, invoice, done, handler, history>>

\* Stripe takes the change and answers with the subscription, or the answer is
\* lost; a canceled subscription is refused.
ChangeCalled ==
    /\ change.pc = "call"
    /\ remote.status # "canceled"
    /\ LET new == [remote EXCEPT !.cancel = change.cancel] IN
       /\ remote' = new
       /\ IF new = remote
          THEN UNCHANGED events
          ELSE Emit("updated", NoRow, "none", 0)
       /\ \/ change' = [change EXCEPT !.pc = "apply", !.snap = new, !.asof = Len(events')]
          \/ change' = IdleChange
    /\ UNCHANGED <<bill, row, trial, invoice, done, handler, history>>

ChangeRefused ==
    /\ change.pc = "call"
    /\ change' = IdleChange
    /\ UNCHANGED <<remote, bill, events, row, trial, invoice, done, handler, history>>

\* The answer is written, or sync raises and nothing is.
ChangeApplied ==
    /\ change.pc = "apply"
    /\ IF Refuses(change.snap)
       THEN UNCHANGED <<row, trial, history>>
       ELSE /\ row' = Synced(change.snap)
            /\ trial' = GrantAfter(change.snap)
            /\ newest' = IF change.asof > newest THEN change.asof ELSE newest
            /\ overtaken' = Overtaken(row, change.asof)
    /\ change' = IdleChange
    /\ UNCHANGED <<remote, bill, events, invoice, done, handler>>

-----------------------------------------------------------------------------

Sync(h) == SyncAttached(h) \/ SyncRefused(h) \/ SyncSkipped(h) \/ SyncUnattached(h)

Process(h) ==
    \/ Retrieve(h)
    \/ Sync(h)
    \/ Write(h)

Next ==
    \/ RemoteChanges \/ BillChanges
    \/ \E h \in Handlers :
          \/ \E e \in 1..Len(events) : Receive(h, e)
          \/ Process(h) \/ RetrieveFails(h) \/ HandlerFails(h)
    \/ \E cancel \in BOOLEAN : ChangeStarts(cancel)
    \/ ChangeCalled \/ ChangeRefused \/ ChangeApplied

Spec == Init /\ [][Next]_vars

\* Stripe delivers what is not acknowledged again and again, handlers and requests
\* run on, neither calls to Stripe nor transactions fail for ever, and the owner
\* does not ask for cancel and resume for ever.
Fairness ==
    /\ SF_vars(\E h \in Handlers, e \in 1..Len(events) : Receive(h, e))
    /\ SF_vars(\E h \in Handlers : Retrieve(h))
    /\ SF_vars(\E h \in Handlers : Sync(h))
    /\ SF_vars(\E h \in Handlers : Write(h))
    /\ WF_vars(ChangeRefused \/ ChangeApplied)
    /\ <>[][~ \E cancel \in BOOLEAN : ChangeStarts(cancel)]_vars

FairSpec == Spec /\ Fairness

-----------------------------------------------------------------------------
(***************************************************************************)
(* Properties.                                                             *)
(***************************************************************************)

Quiescent ==
    /\ done = 1..Len(events)
    /\ \A h \in Handlers : At(h, "idle")
    /\ change.pc = "idle"

\* README.md:3684, "webhook delivery order does not become the source of truth",
\* and "fail-closed rather than retaining its previous entitlements": once every
\* event has been processed the row says what Stripe says, and a Price or status
\* that is not known has no plan.
MirrorConverges ==
    Quiescent =>
        /\ row.attached
        /\ row.cancel = remote.cancel
        /\ row.plan = (remote.price = "plan")
        /\ row.status = IF remote.price = "plan" THEN remote.status ELSE "incomplete"

\* The promise of README.md:3684 holds, for concurrent handlers, if only the last
\* write of the row was not overtaken: by a write from a later snapshot, or by
\* any write since the object it went through had been loaded.
MirrorConvergesUnlessOvertaken == ~overtaken => MirrorConverges

\* README.md, "so a stale draft/open event cannot regress": whatever the order
\* of deliveries, once every event has been processed the invoice row has the
\* status the invoice has at Stripe.
InvoiceConverges == Quiescent => invoice.status = bill

\* A trial grant, which would override the entitlements of the plan, exists
\* only as long as the row is on its trial.
GrantOnlyOnTrial == trial => row.status = "trialing"

\* Every event is processed in the end, after failed calls, crashes and
\* rollbacks, unless what Stripe has is refused each time it arrives.
EventsProcessed == <>[](done = 1..Len(events)) \/ <>[]Refuses(remote)

=============================================================================
