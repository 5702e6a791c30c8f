-------------------------- MODULE StripeSyncProofs ---------------------------
(***************************************************************************)
(* Proofs about StripeSync, for any number of concurrent webhook handlers  *)
(* and any number of events.                                               *)
(***************************************************************************)
EXTENDS StripeSync, TLAPS

-----------------------------------------------------------------------------
(***************************************************************************)
(* The operators of the row.                                               *)
(***************************************************************************)

\* sync and _fail_closed make a row of every snapshot Stripe can answer.
LEMMA SyncedType ==
    ASSUME NEW snap \in Remote
    PROVE  Synced(snap) \in Row
BY DEF Synced, Remote, Row

\* Writing only the attributes that differ from a loaded object yields a row:
\* each column comes from the new attributes or stays as it is in the table.
LEMMA WrittenType ==
    ASSUME row \in Row, NEW copy \in Row, NEW new \in Row
    PROVE  /\ Written(copy, new) \in Row
           /\ Written(copy, new).status =
                 IF new.status = copy.status THEN row.status ELSE new.status
<1>1. DOMAIN new = {"attached", "plan", "status", "cancel"}
  BY DEF Row
<1>2. Written(copy, new) =
         [attached |-> IF new.attached = copy.attached THEN row.attached ELSE new.attached,
          plan     |-> IF new.plan = copy.plan THEN row.plan ELSE new.plan,
          status   |-> IF new.status = copy.status THEN row.status ELSE new.status,
          cancel   |-> IF new.cancel = copy.cancel THEN row.cancel ELSE new.cancel]
  BY <1>1 DEF Written
<1>3. QED
  BY <1>2 DEF Row

\* The snapshot a handler applies and the object it writes through are both
\* there once it has reached the row; no snapshot is of a time to come.
HandlerReady ==
    \A h \in Handlers :
        /\ At(h, "write") => handler[h].snap # NoRow /\ handler[h].copy # NoRow
        /\ ~At(h, "idle") => handler[h].event \in 1..Len(events)
        /\ handler[h].asof <= Len(events)

\* The owner's request has an answer of Stripe to apply.
ChangeReady ==
    /\ change.pc = "apply" => change.snap # NoRow
    /\ change.asof <= Len(events)

\* The inductive invariant: trial grants need no more than themselves, but each
\* step writes typed attributes only if the handler that takes it has them.
SyncInv == TypeOK /\ HandlerReady /\ ChangeReady /\ GrantOnlyOnTrial

-----------------------------------------------------------------------------
(***************************************************************************)
(* Steps shared by the actions.                                            *)
(***************************************************************************)

\* A rollback leaves a typed, idle handler and touches no other.
LEMMA RollbackKeeps ==
    ASSUME TypeOK, HandlerReady, NEW h \in Handlers, Rollback(h), UNCHANGED events
    PROVE  handler' \in [Handlers -> Handler] /\ HandlerReady'
BY SyncAssumption DEF TypeOK, HandlerReady, Rollback, IdleHandler, Handler, At

\* A handler that goes on with the event and the object it has.
LEMMA GoesOn ==
    ASSUME TypeOK, HandlerReady, NEW h \in Handlers, ~At(h, "idle"), NEW new \in Handler,
           new.pc # "write", new.event = handler[h].event, new.asof <= Len(events),
           handler' = [handler EXCEPT ![h] = new], UNCHANGED events
    PROVE  handler' \in [Handlers -> Handler] /\ HandlerReady'
BY DEF TypeOK, HandlerReady, At

\* The commit of a handler records a typed invoice and a known event.
LEMMA CommitKeeps ==
    ASSUME TypeOK, HandlerReady, NEW h \in Handlers, ~At(h, "idle"), Commit(h), UNCHANGED events
    PROVE  /\ handler' \in [Handlers -> Handler] /\ HandlerReady'
           /\ invoice' \in Invoice
           /\ done' \subseteq 1..Len(events)
<1>1. handler' \in [Handlers -> Handler] /\ HandlerReady'
  BY RollbackKeeps DEF Commit
<1>2. handler[h].event \in 1..Len(events)
  BY DEF HandlerReady
<1>3. E(h) \in Event
  BY <1>2 DEF E, TypeOK
<1>4. invoice' \in Invoice
  BY <1>3 DEF Commit, Event, Invoice, TypeOK
<1>5. QED
  BY <1>1, <1>2, <1>4 DEF Commit, TypeOK

\* Whatever object the handler writes through, the row it leaves is typed and a
\* grant survives only on a row that is on its trial.
LEMMA ApplyKeeps ==
    ASSUME TypeOK, HandlerReady, GrantOnlyOnTrial,
           NEW h \in Handlers, NEW copy \in Row, ~At(h, "idle"),
           handler[h].snap # NoRow, Apply(h, copy), UNCHANGED events
    PROVE  /\ handler' \in [Handlers -> Handler] /\ HandlerReady'
           /\ invoice' \in Invoice
           /\ done' \subseteq 1..Len(events)
           /\ row' \in Row /\ trial' \in BOOLEAN
           /\ newest' \in 0..Len(events) /\ overtaken' \in BOOLEAN
           /\ GrantOnlyOnTrial'
<1> DEFINE snap == handler[h].snap
<1>1. snap \in Remote
  BY DEF TypeOK, Handler
<1>2. /\ row' \in Row
      /\ row'.status = IF Synced(snap).status = copy.status
                       THEN row.status ELSE Synced(snap).status
  BY <1>1, SyncedType, WrittenType DEF Apply, TypeOK
<1>3. trial' \in BOOLEAN
  BY DEF Apply, GrantAfter, TypeOK
<1>4. ASSUME trial'
      PROVE  row'.status = "trialing"
  BY <1>1, <1>2, <1>4 DEF Apply, GrantAfter, GrantOnlyOnTrial, Synced
<1>5. newest' \in 0..Len(events) /\ overtaken' \in BOOLEAN
  BY DEF Apply, Overtaken, TypeOK, Handler, HandlerReady
<1>6. QED
  BY <1>2, <1>3, <1>4, <1>5, CommitKeeps DEF Apply, GrantOnlyOnTrial

-----------------------------------------------------------------------------
(***************************************************************************)
(* The invariant.                                                          *)
(***************************************************************************)

\* An event is appended with its fields typed; earlier ones keep their index.
LEMMA EmitKeeps ==
    ASSUME TypeOK, events # << >>, NEW kind \in {"updated", "deleted", "invoice"},
           NEW object \in Remote \cup {NoRow}, NEW status \in BillStatus,
           NEW elapsed \in 0..1, Emit(kind, object, status, elapsed)
    PROVE  /\ events' \in Seq(Event) /\ Len(events') <= MaxEvents
           /\ Len(events') = Len(events) + 1
<1>1. events[Len(events)] \in Event
  BY DEF TypeOK
<1> DEFINE new == [kind |-> kind, object |-> object, bill |-> status,
                   time |-> events[Len(events)].time + elapsed]
<1>2. new \in Event
  BY <1>1 DEF Event
<1>3. events' = Append(events, new)
  BY DEF Emit
<1> HIDE DEF new
<1>4. QED
  BY <1>2, <1>3, SyncAssumption DEF Emit, TypeOK

\* Stripe's own changes add an event and leave the local side alone.
LEMMA StripeKeeps ==
    ASSUME SyncInv, events # << >>, RemoteChanges \/ BillChanges
    PROVE  SyncInv' /\ events' # << >>
<1> USE DEF SyncInv
<1>1. CASE RemoteChanges
  <2>1. PICK new \in Remote :
          /\ remote' = new
          /\ \/ Emit("deleted", new, "none", 0)
             \/ Emit("updated", NoRow, "none", 0)
    BY <1>1 DEF RemoteChanges
  <2>2. /\ events' \in Seq(Event) /\ Len(events') <= MaxEvents
        /\ Len(events') = Len(events) + 1
    BY <2>1, EmitKeeps DEF BillStatus
  <2>3. QED
    BY <1>1, <2>1, <2>2 DEF RemoteChanges, TypeOK, HandlerReady, ChangeReady,
                            Handler, Change, GrantOnlyOnTrial, history, At
<1>2. CASE BillChanges
  <2>1. PICK new \in BillSuccessors(bill), elapsed \in 0..1 :
          bill' = new /\ Emit("invoice", NoRow, new, elapsed)
    BY <1>2 DEF BillChanges
  <2>2. new \in BillStatus
    BY <2>1 DEF BillSuccessors, BillStatus, TypeOK
  <2>3. /\ events' \in Seq(Event) /\ Len(events') <= MaxEvents
        /\ Len(events') = Len(events) + 1
    BY <2>1, <2>2, EmitKeeps
  <2>4. QED
    BY <1>2, <2>1, <2>2, <2>3 DEF BillChanges, TypeOK, HandlerReady, ChangeReady,
                                  Handler, Change, GrantOnlyOnTrial, history, At
<1>3. QED
  BY <1>1, <1>2

\* The steps of a webhook handler.
LEMMA HandlerKeeps ==
    ASSUME SyncInv, events # << >>, NEW h \in Handlers,
           \/ \E e \in 1..Len(events) : Receive(h, e)
           \/ Process(h) \/ RetrieveFails(h) \/ HandlerFails(h)
    PROVE  SyncInv' /\ events' # << >>
<1> USE DEF SyncInv
<1>1. ASSUME NEW e \in 1..Len(events), Receive(h, e)
      PROVE  SyncInv' /\ events' # << >>
  <2> DEFINE new == [event |-> e,
                     pc    |-> IF events[e].kind = "deleted" THEN "sync" ELSE "retrieve",
                     snap  |-> events[e].object,
                     asof  |-> IF events[e].kind = "deleted" THEN e ELSE 0,
                     copy  |-> IF events[e].kind = "invoice" /\ row.attached THEN row ELSE NoRow]
  <2>1. events[e] \in Event /\ e \in 0..MaxEvents /\ 0 \in 0..MaxEvents
    BY SyncAssumption DEF TypeOK
  <2>2. new \in Handler /\ new.pc # "write" /\ new.event = e /\ new.asof <= Len(events)
    BY <2>1 DEF Event, Handler, TypeOK
  <2>3. handler' = [handler EXCEPT ![h] = new]
    BY <1>1 DEF Receive
  <2> HIDE DEF new
  <2>4. handler' \in [Handlers -> Handler] /\ HandlerReady'
    BY <1>1, <2>2, <2>3 DEF Receive, TypeOK, HandlerReady, At
  <2>5. QED
    BY <1>1, <2>4 DEF Receive, TypeOK, ChangeReady, GrantOnlyOnTrial, history
<1>2. CASE Retrieve(h)
  <2> DEFINE new == [handler[h] EXCEPT !.pc = "sync", !.snap = remote, !.asof = Len(events)]
  <2>a. /\ handler[h] \in Handler /\ remote \in Remote /\ handler \in [Handlers -> Handler]
        /\ Len(events) \in 0..MaxEvents
    BY SyncAssumption DEF TypeOK
  <2>b. new \in Handler /\ new.pc # "write" /\ new.event = handler[h].event
        /\ new.asof <= Len(events)
    <3>1. PICK n \in 0..MaxEvents : n = Len(events) /\ n <= Len(events)
      BY <2>a
    <3>2. new = [handler[h] EXCEPT !.pc = "sync", !.snap = remote, !.asof = n]
      BY <3>1
    <3> HIDE DEF new
    <3>3. new = [pc |-> "sync", event |-> handler[h].event, snap |-> remote,
                 copy |-> handler[h].copy, asof |-> n]
      BY <2>a, <3>2 DEF Handler
    <3> QED
      BY <2>a, <3>1, <3>3 DEF Handler
  <2>c. handler' = [handler EXCEPT ![h] = new] /\ UNCHANGED events /\ ~At(h, "idle")
    BY <1>2, <2>a DEF Retrieve, At
  <2>1. handler' \in [Handlers -> Handler] /\ HandlerReady'
    <3> HIDE DEF new
    <3> QED
      BY <2>b, <2>c, GoesOn
  <2>2. QED
    BY <1>2, <2>1 DEF Retrieve, TypeOK, ChangeReady, GrantOnlyOnTrial, history
<1>3. CASE RetrieveFails(h)
  <2>1. handler' \in [Handlers -> Handler] /\ HandlerReady'
    <3>1. CASE handler[h].copy # NoRow
      <4> DEFINE new == [handler[h] EXCEPT !.pc = "sync"]
      <4>1. /\ handler[h] \in Handler /\ handler \in [Handlers -> Handler]
            /\ handler[h].asof <= Len(events)
        BY DEF TypeOK, HandlerReady
      <4>2. new \in Handler /\ new.pc # "write" /\ new.event = handler[h].event
            /\ new.asof <= Len(events)
        BY <4>1 DEF Handler
      <4>3. handler' = [handler EXCEPT ![h] = new] /\ UNCHANGED events /\ ~At(h, "idle")
        BY <1>3, <3>1, <4>1 DEF RetrieveFails, At
      <4> HIDE DEF new
      <4> QED
        BY <4>2, <4>3, GoesOn
    <3>2. CASE handler[h].copy = NoRow
      BY <1>3, <3>2, RollbackKeeps DEF RetrieveFails
    <3>3. QED
      BY <3>1, <3>2
  <2>2. QED
    BY <1>3, <2>1 DEF RetrieveFails, TypeOK, ChangeReady, GrantOnlyOnTrial, history
<1>4. CASE SyncAttached(h)
  <2>1. PICK copy \in Row : Apply(h, copy)
    BY <1>4 DEF SyncAttached, TypeOK, Handler
  <2>2. QED
    BY <1>4, <2>1, ApplyKeeps DEF SyncAttached, TypeOK, ChangeReady, At
<1>5. CASE SyncSkipped(h)
  BY <1>5, CommitKeeps DEF SyncSkipped, TypeOK, ChangeReady, GrantOnlyOnTrial, history, At
<1>6. CASE SyncUnattached(h)
  <2> DEFINE new == [handler[h] EXCEPT !.pc = "write", !.copy = row]
  <2>1. handler' \in [Handlers -> Handler] /\ HandlerReady'
    <3>1. /\ handler[h] \in Handler /\ row \in Row /\ row # NoRow
          /\ handler[h].asof <= Len(events)
      BY SyncAssumption DEF TypeOK, Row, HandlerReady
    <3>2. /\ new \in Handler
          /\ new.pc = "write" /\ new.copy = row /\ new.asof = handler[h].asof
          /\ new.snap = handler[h].snap /\ new.event = handler[h].event
      BY <3>1 DEF Handler
    <3>3. handler' = [handler EXCEPT ![h] = new]
      BY <1>6 DEF SyncUnattached, TypeOK
    <3> HIDE DEF new
    <3> QED
      BY <1>6, <3>1, <3>2, <3>3 DEF SyncUnattached, TypeOK, HandlerReady, At
  <2>2. QED
    BY <1>6, <2>1 DEF SyncUnattached, TypeOK, ChangeReady, GrantOnlyOnTrial, history
<1>7. CASE Write(h)
  <2>1. handler[h].copy \in Row /\ handler[h].snap # NoRow
    BY <1>7 DEF Write, TypeOK, Handler, HandlerReady
  <2>2. QED
    BY <1>7, <2>1, ApplyKeeps DEF Write, TypeOK, ChangeReady, At
<1>8. CASE HandlerFails(h)
  BY <1>8, RollbackKeeps DEF HandlerFails, TypeOK, ChangeReady, GrantOnlyOnTrial, history
<1>9. CASE SyncRefused(h)
  BY <1>9, RollbackKeeps DEF SyncRefused, TypeOK, ChangeReady, GrantOnlyOnTrial, history, At
<1> QED
  BY <1>1, <1>2, <1>3, <1>4, <1>5, <1>6, <1>7, <1>8, <1>9 DEF Process, Sync

\* The steps of a cancel or resume request.
LEMMA ChangeKeeps ==
    ASSUME SyncInv, events # << >>,
           \/ \E cancel \in BOOLEAN : ChangeStarts(cancel)
           \/ ChangeCalled \/ ChangeRefused \/ ChangeApplied
    PROVE  SyncInv' /\ events' # << >>
<1> USE DEF SyncInv
<1>1. ASSUME NEW cancel \in BOOLEAN, ChangeStarts(cancel)
      PROVE  SyncInv' /\ events' # << >>
  <2>1. change' = [pc |-> "call", cancel |-> cancel, snap |-> NoRow, asof |-> 0]
    BY <1>1 DEF ChangeStarts, IdleChange
  <2>2. change' \in Change /\ change'.asof = 0 /\ change'.pc = "call"
    BY <2>1, SyncAssumption DEF Change
  <2>3. ChangeReady'
    <3>1. Len(events) \in Nat
      BY DEF TypeOK
    <3>2. events' = events
      BY <1>1 DEF ChangeStarts
    <3> QED
      BY <2>2, <3>1, <3>2 DEF ChangeReady
  <2> QED
    BY <1>1, <2>2, <2>3 DEF ChangeStarts, TypeOK, HandlerReady, GrantOnlyOnTrial, history, At
<1>2. CASE ChangeCalled
  <2> DEFINE new == [remote EXCEPT !.cancel = change.cancel]
  <2>1. new \in Remote
    BY DEF TypeOK, Remote, Change
  <2>2. remote' = new
    BY <1>2 DEF ChangeCalled
  <2>3. \/ UNCHANGED events
        \/ Emit("updated", NoRow, "none", 0)
    BY <1>2 DEF ChangeCalled
  <2>4. /\ events' \in Seq(Event) /\ Len(events') <= MaxEvents
        /\ Len(events') >= Len(events) /\ events' # << >>
    <3>1. CASE UNCHANGED events
      BY <3>1 DEF TypeOK
    <3>2. CASE Emit("updated", NoRow, "none", 0)
      BY <3>2, EmitKeeps DEF BillStatus, TypeOK
    <3>3. QED
      BY <2>3, <3>1, <3>2
  <2>5. \/ change' = [change EXCEPT !.pc = "apply", !.snap = new, !.asof = Len(events')]
        \/ change' = IdleChange
    BY <1>2 DEF ChangeCalled
  <2> HIDE DEF new
  <2>6. NoRow \notin Remote
    BY SyncAssumption DEF Remote
  <2>7. change' \in Change /\ ChangeReady'
    <3>1. CASE change' = [change EXCEPT !.pc = "apply", !.snap = new, !.asof = Len(events')]
      <4>1. PICK n \in 0..MaxEvents : n = Len(events') /\ n <= Len(events')
        BY <2>4, SyncAssumption
      <4>2. change \in Change
        BY DEF TypeOK
      <4>3. change' = [pc |-> "apply", cancel |-> change.cancel, snap |-> new, asof |-> n]
        BY <3>1, <4>1, <4>2 DEF Change
      <4> QED
        BY <2>1, <2>6, <4>1, <4>2, <4>3 DEF Change, ChangeReady
    <3>2. CASE change' = IdleChange
      BY <2>4, <3>2, SyncAssumption DEF IdleChange, Change, ChangeReady
    <3>3. QED
      BY <2>5, <3>1, <3>2
  <2>8. /\ done' \subseteq 1..Len(events') /\ HandlerReady'
        /\ newest' \in 0..Len(events') /\ overtaken' \in BOOLEAN
    BY <1>2, <2>4 DEF ChangeCalled, TypeOK, HandlerReady, Handler, history, At
  <2>9. QED
    BY <1>2, <2>1, <2>2, <2>4, <2>7, <2>8 DEF ChangeCalled, TypeOK, GrantOnlyOnTrial
<1>3. CASE ChangeRefused
  BY <1>3, SyncAssumption DEF ChangeRefused, IdleChange, TypeOK, Change, ChangeReady,
                              HandlerReady, GrantOnlyOnTrial, history, At
<1>4. CASE ChangeApplied
  <2>1. change.snap \in Remote
    BY <1>4 DEF ChangeApplied, ChangeReady, TypeOK, Change
  <2>2. row' \in Row /\ trial' \in BOOLEAN
    BY <1>4, <2>1, SyncedType DEF ChangeApplied, GrantAfter, TypeOK
  <2>3. GrantOnlyOnTrial'
    <3>1. CASE UNCHANGED <<row, trial>>
      BY <3>1 DEF GrantOnlyOnTrial
    <3>2. CASE row' = Synced(change.snap) /\ trial' = GrantAfter(change.snap)
      BY <2>1, <3>2 DEF GrantAfter, GrantOnlyOnTrial, Synced
    <3> QED
      BY <1>4, <3>1, <3>2 DEF ChangeApplied
  <2>4. newest' \in 0..Len(events) /\ overtaken' \in BOOLEAN
    <3>1. newest \in 0..Len(events) /\ overtaken \in BOOLEAN /\ change.asof \in 0..Len(events)
      BY DEF ChangeReady, TypeOK, Change
    <3>2. CASE UNCHANGED history
      BY <3>1, <3>2 DEF history
    <3>3. CASE /\ newest' = IF change.asof > newest THEN change.asof ELSE newest
               /\ overtaken' = Overtaken(row, change.asof)
      BY <3>1, <3>3 DEF Overtaken
    <3> QED
      BY <1>4, <3>2, <3>3 DEF ChangeApplied
  <2>5. change' \in Change /\ ChangeReady'
    BY <1>4, SyncAssumption DEF ChangeApplied, IdleChange, Change, ChangeReady, TypeOK
  <2>6. QED
    BY <1>4, <2>2, <2>3, <2>4, <2>5 DEF ChangeApplied, TypeOK, HandlerReady, At
<1>5. QED
  BY <1>1, <1>2, <1>3, <1>4

\* SyncInv and the first event hold initially and every step keeps them.
THEOREM SyncInvariant == Spec => [](SyncInv /\ events # << >>)
<1>1. Init => SyncInv /\ events # << >>
  <2> SUFFICES ASSUME Init PROVE SyncInv /\ events # << >>
    OBVIOUS
  <2>1. IdleHandler \in Handler /\ IdleChange \in Change
    BY SyncAssumption DEF IdleHandler, Handler, IdleChange, Change
  <2>2. events \in Seq(Event) /\ Len(events) = 1
    <3>1. PICK e : e \in Event /\ events = <<e>>
      BY DEF Init, Event, BillStatus
    <3> QED
      BY <3>1
  <2>3. /\ remote \in Remote /\ bill \in BillStatus /\ row \in Row
        /\ invoice \in Invoice /\ trial \in BOOLEAN
    <3>1. remote \in Remote /\ bill \in BillStatus /\ invoice \in Invoice
      BY SyncAssumption DEF Init, Remote, BillStatus, Invoice
    <3>2. PICK s \in LiveStatuses, b \in BOOLEAN :
                row = [attached |-> b, plan |-> b, status |-> s, cancel |-> FALSE]
      <4>1. remote.status \in LiveStatuses /\ "trialing" \in LiveStatuses
        BY SyncAssumption DEF Init
      <4> QED
        BY <4>1, Zenon DEF Init
    <3>3. row \in Row
      BY <3>2 DEF Row
    <3>4. trial \in BOOLEAN
      BY Zenon DEF Init
    <3> QED
      BY <3>1, <3>3, <3>4
  <2>4. TypeOK
    <3>1. newest \in 0..Len(events) /\ overtaken \in BOOLEAN /\ done \subseteq 1..Len(events)
      <4>1. newest = 0 /\ done = {}
        BY DEF Init
      <4>2. overtaken \in BOOLEAN
        BY Zenon DEF Init
      <4> QED
        BY <2>2, <4>1, <4>2
    <3>2. handler \in [Handlers -> Handler] /\ change \in Change
      BY <2>1 DEF Init
    <3> QED
      BY <2>2, <2>3, <3>1, <3>2, SyncAssumption DEF TypeOK
  <2>5. HandlerReady /\ ChangeReady
    BY <2>2 DEF Init, HandlerReady, ChangeReady, IdleHandler, IdleChange, At
  <2>6. \/ row.status = "trialing"
        \/ row.status = remote.status /\ (trial = (remote.status = "trialing"))
    BY DEF Init
  <2>7. GrantOnlyOnTrial
    BY <2>6, Zenon DEF GrantOnlyOnTrial
  <2>8. QED
    BY <2>2, <2>4, <2>5, <2>7 DEF SyncInv
<1>2. SyncInv /\ events # << >> /\ [Next]_vars => (SyncInv /\ events # << >>)'
  <2> SUFFICES ASSUME SyncInv, events # << >>, [Next]_vars
               PROVE  SyncInv' /\ events' # << >>
    OBVIOUS
  <2>1. CASE RemoteChanges \/ BillChanges
    BY <2>1, StripeKeeps
  <2>2. ASSUME NEW h \in Handlers,
               \/ \E e \in 1..Len(events) : Receive(h, e)
               \/ Process(h) \/ RetrieveFails(h) \/ HandlerFails(h)
        PROVE  SyncInv' /\ events' # << >>
    BY <2>2, HandlerKeeps
  <2>3. CASE \/ \E cancel \in BOOLEAN : ChangeStarts(cancel)
             \/ ChangeCalled \/ ChangeRefused \/ ChangeApplied
    BY <2>3, ChangeKeeps
  <2>4. CASE UNCHANGED vars
    BY <2>4 DEF vars, history, SyncInv, TypeOK, HandlerReady, ChangeReady, GrantOnlyOnTrial, At
  <2>5. QED
    BY <2>1, <2>2, <2>3, <2>4 DEF Next
<1>3. QED
  BY <1>1, <1>2, PTL DEF Spec

\* Webhook handlers and requests only ever store values of the columns' types:
\* the status is a supported one whatever Stripe answers.
THEOREM SyncTypeCorrect == Spec => []TypeOK
BY SyncInvariant, PTL DEF SyncInv

\* A trial grant never outlives the trial, whichever snapshots the handlers
\* hold, in whatever order they write them, and through whatever stale object.
THEOREM GrantEndsWithTrial == Spec => []GrantOnlyOnTrial
BY SyncInvariant, PTL DEF SyncInv

-----------------------------------------------------------------------------
(***************************************************************************)
(* The invoice.  Its events are totally ordered by time and rank, the row  *)
(* is the greatest of those processed, and Stripe's status that of the     *)
(* greatest of all.                                                        *)
(***************************************************************************)

IsInvoice(i) == i \in 1..Len(events) /\ events[i].kind = "invoice"

\* The order in which _upsert_invoice compares events.
Precedes(a, b) == a.time < b.time \/ (a.time = b.time /\ Rank(a.bill) < Rank(b.bill))

\* Of two invoice events the earlier emitted one precedes.
EventsOrdered ==
    /\ \A i, j \in 1..Len(events) : i < j => events[i].time <= events[j].time
    /\ \A i, j \in 1..Len(events) :
          i < j /\ IsInvoice(i) /\ IsInvoice(j) => Precedes(events[i], events[j])

\* Stripe has the invoice as the last event about it says.
BillAnnounced ==
    /\ \A i \in 1..Len(events) : IsInvoice(i) => events[i].bill # "none"
    /\ bill = "none" => \A i \in 1..Len(events) : ~IsInvoice(i)
    /\ bill # "none" => \E i \in 1..Len(events) :
          /\ IsInvoice(i) /\ events[i].bill = bill
          /\ \A j \in 1..Len(events) : IsInvoice(j) => j <= i

\* The row records a processed event that no processed event follows.
InvoiceLatest ==
    /\ invoice.status = "none" => \A i \in done : ~IsInvoice(i)
    /\ invoice.status # "none" => \E i \in done :
          /\ IsInvoice(i)
          /\ invoice.status = events[i].bill /\ invoice.time = events[i].time
          /\ \A j \in done : IsInvoice(j) => ~Precedes(events[i], events[j])

InvoiceInv == EventsOrdered /\ BillAnnounced /\ InvoiceLatest

\* Events have times, and their statuses ranks.
LEMMA EventTypes ==
    ASSUME TypeOK, NEW i \in 1..Len(events)
    PROVE  events[i] \in Event /\ events[i].time \in Nat /\ Rank(events[i].bill) \in Int
<1>1. events[i] \in Event
  BY DEF TypeOK
<1> QED
  BY <1>1 DEF Event, Rank

\* What Emit does to the events, by index.
LEMMA EmitAppends ==
    ASSUME TypeOK, events # << >>, NEW kind, NEW object, NEW status, NEW elapsed \in 0..1,
           Emit(kind, object, status, elapsed)
    PROVE  /\ Len(events) \in Nat \ {0} /\ Len(events') = Len(events) + 1
           /\ \A i \in 1..Len(events) : events'[i] = events[i]
           /\ events'[Len(events')].kind = kind /\ events'[Len(events')].bill = status
           /\ events'[Len(events')].object = object
           /\ events'[Len(events')].time = events[Len(events)].time + elapsed
<1> DEFINE new == [kind |-> kind, object |-> object, bill |-> status,
                   time |-> events[Len(events)].time + elapsed]
<1>1. events' = Append(events, new)
  BY DEF Emit
<1>2. events \in Seq(Event) /\ Len(events) \in Nat \ {0}
  BY DEF TypeOK
<1>3. Len(events') = Len(events) + 1 /\ events'[Len(events) + 1] = new
      /\ \A i \in 1..Len(events) : events'[i] = events[i]
  <2> HIDE DEF new
  <2> QED
    BY <1>1, <1>2
<1> QED
  BY <1>2, <1>3

\* Events that are added leave the order of the earlier ones and the row alone.
LEMMA EmitKeepsOrder ==
    ASSUME TypeOK, events # << >>, InvoiceInv, NEW kind, NEW object, NEW status,
           NEW elapsed \in 0..1, Emit(kind, object, status, elapsed), UNCHANGED <<invoice, done>>
    PROVE  /\ \A i \in 1..Len(events) : IsInvoice(i)' <=> IsInvoice(i)
           /\ \A i \in 1..Len(events') :
                 i = Len(events) + 1 => (IsInvoice(i)' <=> kind = "invoice")
           /\ \A i, j \in 1..Len(events') : i < j => events'[i].time <= events'[j].time
           /\ InvoiceLatest'
<1>1. /\ Len(events) \in Nat \ {0} /\ Len(events') = Len(events) + 1
      /\ \A i \in 1..Len(events) : events'[i] = events[i] /\ events[i].time \in Nat
      /\ events'[Len(events')].kind = kind
      /\ events'[Len(events')].time = events[Len(events)].time + elapsed
      /\ done \subseteq 1..Len(events)
  BY EmitAppends, EventTypes DEF TypeOK
<1>2. /\ \A i \in 1..Len(events) : IsInvoice(i)' <=> IsInvoice(i)
      /\ \A i \in 1..Len(events') : i = Len(events) + 1 => (IsInvoice(i)' <=> kind = "invoice")
  BY <1>1 DEF IsInvoice
<1>3. ASSUME NEW i \in 1..Len(events'), NEW j \in 1..Len(events'), i < j
      PROVE  events'[i].time <= events'[j].time
  <2>1. i \in 1..Len(events) /\ events'[i] = events[i] /\ events[i].time <= events[Len(events)].time
    BY <1>1, <1>3 DEF InvoiceInv, EventsOrdered
  <2>2. CASE j \in 1..Len(events)
    BY <1>1, <1>3, <2>1, <2>2 DEF InvoiceInv, EventsOrdered
  <2>3. CASE j = Len(events')
    BY <1>1, <2>1, <2>3
  <2> QED
    BY <1>1, <2>2, <2>3
<1>4. InvoiceLatest'
  <2>1. \A i \in done : (IsInvoice(i)' <=> IsInvoice(i)) /\ events'[i] = events[i]
    BY <1>1, <1>2
  <2> QED
    BY <2>1 DEF InvoiceInv, InvoiceLatest, Precedes
<1> QED
  BY <1>2, <1>3, <1>4

\* The subscription's events are not about the invoice.
LEMMA OtherEventKeepsInvoice ==
    ASSUME TypeOK, events # << >>, InvoiceInv, NEW kind, NEW object,
           kind # "invoice", Emit(kind, object, "none", 0), UNCHANGED <<bill, invoice, done>>
    PROVE  InvoiceInv'
<1>1. /\ Len(events) \in Nat \ {0} /\ Len(events') = Len(events) + 1
      /\ \A i \in 1..Len(events) : events'[i] = events[i]
  BY EmitAppends
<1>2. /\ \A i \in 1..Len(events) : IsInvoice(i)' <=> IsInvoice(i)
      /\ \A i \in 1..Len(events') : i = Len(events) + 1 => ~IsInvoice(i)'
      /\ \A i, j \in 1..Len(events') : i < j => events'[i].time <= events'[j].time
      /\ InvoiceLatest'
  BY EmitKeepsOrder
<1>3. \A i \in 1..Len(events') : IsInvoice(i)' => i \in 1..Len(events) /\ IsInvoice(i)
  BY <1>1, <1>2
<1>4. EventsOrdered'
  BY <1>1, <1>2, <1>3 DEF InvoiceInv, EventsOrdered, Precedes
<1>5. BillAnnounced'
  <2>1. CASE bill = "none"
    BY <1>1, <1>3, <2>1 DEF InvoiceInv, BillAnnounced
  <2>2. CASE bill # "none"
    <3>1. PICK i \in 1..Len(events) :
             /\ IsInvoice(i) /\ events[i].bill = bill
             /\ \A j \in 1..Len(events) : IsInvoice(j) => j <= i
      BY <2>2 DEF InvoiceInv, BillAnnounced
    <3>2. i \in 1..Len(events') /\ IsInvoice(i)' /\ events'[i].bill = bill
          /\ \A j \in 1..Len(events') : IsInvoice(j)' => j <= i
      BY <1>1, <1>2, <1>3, <3>1
    <3>3. \A j \in 1..Len(events') : IsInvoice(j)' => events'[j].bill # "none"
      BY <1>1, <1>3 DEF InvoiceInv, BillAnnounced
    <3> QED
      BY <2>2, <3>2, <3>3 DEF BillAnnounced
  <2> QED
    BY <2>1, <2>2
<1> QED
  BY <1>2, <1>4, <1>5 DEF InvoiceInv

\* A change of the invoice outranks what was, or comes at a later second.
LEMMA BillEventKeepsInvoice ==
    ASSUME TypeOK, events # << >>, InvoiceInv, BillChanges
    PROVE  InvoiceInv'
<1>1. PICK new \in BillSuccessors(bill), elapsed \in 0..1 :
         /\ bill = "uncollectible" => elapsed = 1
         /\ bill' = new
         /\ Emit("invoice", NoRow, new, elapsed)
  BY DEF BillChanges
<1>2. /\ new \in BillStatus /\ new # "none"
      /\ bill \notin {"none", "uncollectible"} => Rank(bill) < Rank(new)
  BY <1>1 DEF BillSuccessors, BillStatus, TypeOK, Rank
<1>3. UNCHANGED <<invoice, done>>
  BY DEF BillChanges
<1>a. /\ Len(events) \in Nat \ {0} /\ Len(events') = Len(events) + 1
      /\ \A i \in 1..Len(events) : events'[i] = events[i]
      /\ events'[Len(events')].bill = new
      /\ events'[Len(events')].time = events[Len(events)].time + elapsed
  BY <1>1, EmitAppends
<1>b. PICK n \in Nat : n = Len(events')
  BY <1>a
<1>4. /\ Len(events) \in Nat \ {0} /\ n = Len(events) + 1
      /\ \A i \in 1..Len(events) : events'[i] = events[i] /\ events[i].time \in Nat
      /\ events'[n].bill = new /\ events'[n].time = events[Len(events)].time + elapsed
  BY <1>a, <1>b, EventTypes
<1>5. /\ \A i \in 1..Len(events) : IsInvoice(i)' <=> IsInvoice(i)
      /\ IsInvoice(n)'
      /\ \A i, j \in 1..n : i < j => events'[i].time <= events'[j].time
      /\ InvoiceLatest'
  BY <1>1, <1>3, <1>4, <1>b, EmitKeepsOrder
<1>6. ASSUME NEW i \in 1..Len(events), IsInvoice(i)
      PROVE  Precedes(events[i], events'[n])
  <2>1. bill # "none"
    BY <1>6 DEF InvoiceInv, BillAnnounced
  <2>2. PICK l \in 1..Len(events) :
           /\ IsInvoice(l) /\ events[l].bill = bill
           /\ \A j \in 1..Len(events) : IsInvoice(j) => j <= l
    BY <2>1 DEF InvoiceInv, BillAnnounced
  <2>3. events[l].time <= events[Len(events)].time
    BY <1>4, <2>2 DEF InvoiceInv, EventsOrdered
  <2>4. Precedes(events[l], events'[n])
    BY <1>1, <1>2, <1>4, <2>1, <2>2, <2>3 DEF Precedes
  <2>5. i = l \/ Precedes(events[i], events[l])
    BY <1>4, <1>6, <2>2 DEF InvoiceInv, EventsOrdered
  <2>6. /\ events[i].time \in Nat /\ events[l].time \in Nat /\ events'[n].time \in Nat
        /\ Rank(events[i].bill) \in Int /\ Rank(events[l].bill) \in Int
        /\ Rank(events'[n].bill) \in Int
    BY <1>4, <2>2 DEF Rank
  <2> QED
    BY <2>4, <2>5, <2>6 DEF Precedes
<1>7. EventsOrdered'
  <2>1. ASSUME NEW i \in 1..n, NEW j \in 1..n, i < j, IsInvoice(i)', IsInvoice(j)'
        PROVE  Precedes(events'[i], events'[j])
    <3>1. i \in 1..Len(events) /\ IsInvoice(i) /\ events'[i] = events[i]
      BY <1>4, <1>5, <2>1
    <3>2. CASE j = n
      BY <1>6, <3>1, <3>2
    <3>3. CASE j \in 1..Len(events)
      BY <1>4, <1>5, <2>1, <3>1, <3>3 DEF InvoiceInv, EventsOrdered
    <3> QED
      BY <1>4, <3>2, <3>3
  <2>2. \A i, j \in 1..n : i < j /\ IsInvoice(i)' /\ IsInvoice(j)' =>
                             Precedes(events'[i], events'[j])
    BY <2>1
  <2> QED
    BY <1>5, <1>b, <2>2 DEF EventsOrdered, Precedes
<1>8. BillAnnounced'
  <2>1. \A i \in 1..n : IsInvoice(i)' => events'[i].bill # "none"
    BY <1>2, <1>4, <1>5 DEF InvoiceInv, BillAnnounced
  <2>2. n \in 1..n /\ \A j \in 1..n : j <= n
    BY <1>4
  <2> QED
    BY <1>1, <1>2, <1>4, <1>5, <1>b, <2>1, <2>2 DEF BillAnnounced
<1> QED
  BY <1>5, <1>7, <1>8 DEF InvoiceInv

\* Whichever event a handler commits, the row is then the greatest processed.
LEMMA CommitKeepsInvoice ==
    ASSUME TypeOK, HandlerReady, InvoiceInv, NEW h \in Handlers, ~At(h, "idle"), Commit(h),
           UNCHANGED <<events, bill>>
    PROVE  InvoiceInv'
<1> DEFINE e == handler[h].event
<1>1. /\ e \in 1..Len(events) /\ done' = done \cup {e} /\ E(h) = events[e]
      /\ \A i \in 1..Len(events) : events[i].time \in Nat /\ Rank(events[i].bill) \in Int
      /\ done \subseteq 1..Len(events)
  BY EventTypes DEF HandlerReady, Commit, E, TypeOK
<1>2. EventsOrdered' /\ BillAnnounced'
  BY DEF InvoiceInv, EventsOrdered, BillAnnounced, IsInvoice, Precedes
<1>3. \A i : IsInvoice(i)' <=> IsInvoice(i)
  BY DEF IsInvoice
<1>4. InvoiceLatest'
  <2>1. CASE ~IsInvoice(e)
    <3>1. invoice' = invoice
      BY <1>1, <2>1 DEF Commit, IsInvoice
    <3> QED
      BY <1>1, <1>3, <2>1, <3>1 DEF InvoiceInv, InvoiceLatest, Precedes
  <2>2. CASE IsInvoice(e) /\ Superseded(events[e])
    <3>1. invoice' = invoice /\ invoice.status # "none"
      BY <1>1, <2>2 DEF Commit, Superseded
    <3>2. PICK i \in done :
             /\ IsInvoice(i)
             /\ invoice.status = events[i].bill /\ invoice.time = events[i].time
             /\ \A j \in done : IsInvoice(j) => ~Precedes(events[i], events[j])
      BY <3>1 DEF InvoiceInv, InvoiceLatest
    <3>3. ~Precedes(events[i], events[e])
      <4>1. Precedes(events[e], events[i])
        BY <2>2, <3>2 DEF Superseded, Precedes
      <4> QED
        BY <1>1, <3>2, <4>1 DEF Precedes
    <3>4. \A j \in done' : IsInvoice(j) => ~Precedes(events[i], events[j])
      BY <1>1, <3>2, <3>3
    <3> QED
      BY <1>1, <1>3, <3>1, <3>2, <3>4 DEF InvoiceLatest, Precedes
  <2>3. CASE IsInvoice(e) /\ ~Superseded(events[e])
    <3>1. invoice' = [status |-> events[e].bill, time |-> events[e].time]
      BY <1>1, <2>3 DEF Commit, IsInvoice
    <3>2. events[e].bill # "none"
      BY <1>1, <2>3 DEF InvoiceInv, BillAnnounced
    <3>3. ASSUME NEW j \in done', IsInvoice(j) PROVE ~Precedes(events[e], events[j])
      <4>1. CASE j = e
        BY <1>1, <4>1 DEF Precedes
      <4>2. CASE j \in done
        <5>1. invoice.status # "none"
          BY <3>3, <4>2 DEF InvoiceInv, InvoiceLatest
        <5>2. PICK i \in done :
                 /\ IsInvoice(i)
                 /\ invoice.status = events[i].bill /\ invoice.time = events[i].time
                 /\ \A k \in done : IsInvoice(k) => ~Precedes(events[i], events[k])
          BY <5>1 DEF InvoiceInv, InvoiceLatest
        <5>3. ~Precedes(events[e], events[i])
          BY <2>3, <5>1, <5>2 DEF Superseded, Precedes
        <5>4. ~Precedes(events[i], events[j])
          BY <3>3, <4>2, <5>2
        <5>5. {i, j, e} \subseteq 1..Len(events)
          BY <1>1, <4>2, <5>2
        <5> HIDE DEF e
        <5> QED
          BY <1>1, <5>3, <5>4, <5>5, SMTT(30) DEF Precedes
      <4> QED
        BY <1>1, <4>1, <4>2
    <3> QED
      BY <1>1, <1>3, <2>3, <3>1, <3>2, <3>3 DEF InvoiceLatest, Precedes
  <2> QED
    BY <2>1, <2>2, <2>3
<1> QED
  BY <1>2, <1>4 DEF InvoiceInv

\* Steps that leave events, the invoice and what is processed alone.
LEMMA InvoiceStutter ==
    ASSUME InvoiceInv, UNCHANGED <<events, bill, invoice, done>>
    PROVE  InvoiceInv'
BY DEF InvoiceInv, EventsOrdered, BillAnnounced, InvoiceLatest, IsInvoice, Precedes

LEMMA InvoiceInductive ==
    ASSUME SyncInv, events # << >>, InvoiceInv, [Next]_vars
    PROVE  InvoiceInv'
<1> USE DEF SyncInv
<1>1. CASE RemoteChanges
  BY <1>1, OtherEventKeepsInvoice DEF RemoteChanges
<1>2. CASE BillChanges
  BY <1>2, BillEventKeepsInvoice
<1>3. ASSUME NEW h \in Handlers, SyncAttached(h) \/ SyncSkipped(h) \/ Write(h)
      PROVE  InvoiceInv'
  BY <1>3, CommitKeepsInvoice DEF SyncAttached, SyncSkipped, Write, Apply, At
<1>4. ASSUME NEW h \in Handlers,
             \/ \E e \in 1..Len(events) : Receive(h, e)
             \/ Retrieve(h) \/ SyncRefused(h) \/ SyncUnattached(h)
             \/ RetrieveFails(h) \/ HandlerFails(h)
      PROVE  InvoiceInv'
  BY <1>4, InvoiceStutter DEF Receive, Retrieve, SyncRefused, SyncUnattached, RetrieveFails,
                              HandlerFails
<1>5. CASE ChangeCalled
  <2>1. CASE UNCHANGED events
    BY <1>5, <2>1, InvoiceStutter DEF ChangeCalled
  <2>2. CASE Emit("updated", NoRow, "none", 0)
    BY <1>5, <2>2, OtherEventKeepsInvoice DEF ChangeCalled
  <2> QED
    BY <1>5, <2>1, <2>2 DEF ChangeCalled
<1>6. CASE \/ \E cancel \in BOOLEAN : ChangeStarts(cancel)
           \/ ChangeRefused \/ ChangeApplied \/ UNCHANGED vars
  BY <1>6, InvoiceStutter DEF ChangeStarts, ChangeRefused, ChangeApplied, vars
<1> QED
  BY <1>1, <1>2, <1>3, <1>4, <1>5, <1>6 DEF Next, Process, Sync

\* For any number of handlers, events and changes of the invoice, in whatever
\* order they are delivered: once every event has been processed, the row has
\* the status the invoice has at Stripe.
THEOREM InvoiceFollowsStripe == Spec => []InvoiceConverges
<1>1. Init => InvoiceInv
  <2> SUFFICES ASSUME Init PROVE InvoiceInv
    OBVIOUS
  <2>1. PICK e : /\ events = <<e>> /\ e.time = 0 /\ e.bill = bill
                 /\ e.kind = IF bill = "none" THEN "updated" ELSE "invoice"
    BY DEF Init
  <2>2. Len(events) = 1 /\ events[1] = e
    BY <2>1
  <2>3. EventsOrdered /\ BillAnnounced
    BY <2>1, <2>2 DEF EventsOrdered, BillAnnounced, IsInvoice
  <2>4. InvoiceLatest
    BY DEF Init, InvoiceLatest
  <2> QED
    BY <2>3, <2>4 DEF InvoiceInv
<1>2. SyncInv /\ events # << >> /\ InvoiceInv /\ [Next]_vars => InvoiceInv'
  BY InvoiceInductive
<1>3. SyncInv /\ InvoiceInv => InvoiceConverges
  <2> SUFFICES ASSUME SyncInv, InvoiceInv, Quiescent PROVE invoice.status = bill
    BY DEF InvoiceConverges
  <2>1. done = 1..Len(events)
    BY DEF Quiescent
  <2>2. CASE bill = "none"
    BY <2>1, <2>2 DEF InvoiceInv, BillAnnounced, InvoiceLatest
  <2>3. CASE bill # "none"
    <3>1. PICK l \in 1..Len(events) :
             /\ IsInvoice(l) /\ events[l].bill = bill
             /\ \A j \in 1..Len(events) : IsInvoice(j) => j <= l
      BY <2>3 DEF InvoiceInv, BillAnnounced
    <3>2. PICK i \in 1..Len(events) :
             /\ IsInvoice(i) /\ invoice.status = events[i].bill
             /\ ~Precedes(events[i], events[l])
      BY <2>1, <3>1 DEF InvoiceInv, InvoiceLatest
    <3>3. i = l
      BY <3>1, <3>2 DEF InvoiceInv, EventsOrdered
    <3> QED
      BY <3>1, <3>2, <3>3
  <2> QED
    BY <2>2, <2>3
<1> QED
  BY <1>1, <1>2, <1>3, SyncInvariant, PTL DEF Spec

-----------------------------------------------------------------------------
(***************************************************************************)
(* The subscription.  A snapshot taken after the last of the               *)
(* subscription's events is what Stripe has.  The newest snapshot written  *)
(* is no older than any processed event, so once all are processed it is   *)
(* such a one; the row holds it unless the last write was overtaken.       *)
(***************************************************************************)

\* The subscription has not changed since event n was emitted.
Current(n) == \A e \in 1..Len(events) : e > n => events[e].kind = "invoice"

\* Only the event that ends a subscription carries it, and it then never changes.
DeletedInv ==
    \A e \in 1..Len(events) :
       IF events[e].kind = "deleted"
       THEN events[e].object = remote /\ remote.status = "canceled"
       ELSE events[e].object = NoRow

\* What a handler has fetched is no older than the event it processes, and what
\* Stripe has if that has not changed since; only invoices go on without.
SnapshotInv ==
    \A h \in Handlers :
       /\ At(h, "retrieve") => handler[h].snap = NoRow
       /\ At(h, "retrieve") /\ handler[h].copy # NoRow => E(h).kind = "invoice"
       /\ At(h, "sync") /\ handler[h].snap = NoRow => E(h).kind = "invoice"
       /\ handler[h].pc \in {"sync", "write"} /\ handler[h].snap # NoRow =>
             /\ Current(handler[h].asof) => handler[h].snap = remote
             /\ E(h).kind # "invoice" => handler[h].event <= handler[h].asof

AnswerInv == change.pc = "apply" /\ Current(change.asof) => change.snap = remote

\* The newest snapshot written covers every processed event.
CoveredInv == \A e \in done : events[e].kind # "invoice" => e <= newest

RowInv == ~overtaken /\ Current(newest) => row = Synced(remote)

MirrorInv == DeletedInv /\ SnapshotInv /\ AnswerInv /\ CoveredInv /\ RowInv

\* Writing through an object equal to the row stores the new row.
LEMMA WrittenWhole ==
    ASSUME row \in Row, NEW new \in Row
    PROVE  Written(row, new) = new
<1>1. DOMAIN new = {"attached", "plan", "status", "cancel"}
  BY DEF Row
<1>2. Written(row, new) =
         [attached |-> IF new.attached = row.attached THEN row.attached ELSE new.attached,
          plan     |-> IF new.plan = row.plan THEN row.plan ELSE new.plan,
          status   |-> IF new.status = row.status THEN row.status ELSE new.status,
          cancel   |-> IF new.cancel = row.cancel THEN row.cancel ELSE new.cancel]
  BY <1>1 DEF Written
<1>3. new = [attached |-> new.attached, plan |-> new.plan, status |-> new.status,
             cancel |-> new.cancel]
  BY DEF Row
<1> QED
  BY <1>2, <1>3 DEF Row

\* A write that was not overtaken, of a snapshot that covers event e: whatever
\* is current after it was current when the snapshot was taken.
LEMMA WriteKeepsRow ==
    ASSUME NEW asof \in Nat, newest \in Nat, ~Overtaken(row, asof),
           newest' = IF asof > newest THEN asof ELSE newest,
           UNCHANGED events, Current(newest)'
    PROVE  Current(asof)
BY DEF Current, Overtaken

\* A change of the subscription makes every snapshot that was taken obsolete.
LEMMA RemoteKeepsMirror ==
    ASSUME SyncInv, events # << >>, MirrorInv, remote.status # "canceled",
           NEW kind \in {"updated", "deleted"}, NEW object,
           Emit(kind, object, "none", 0),
           IF kind = "deleted" THEN object = remote' /\ remote'.status = "canceled"
                               ELSE object = NoRow,
           UNCHANGED <<row, done, handler, history>>
    PROVE  /\ DeletedInv' /\ SnapshotInv' /\ CoveredInv' /\ RowInv'
           /\ \A n \in 0..Len(events) : ~Current(n)'
<1> USE DEF SyncInv
<1>1. /\ Len(events) \in Nat \ {0} /\ Len(events') = Len(events) + 1
      /\ \A i \in 1..Len(events) : events'[i] = events[i]
      /\ events'[Len(events')].kind = kind /\ events'[Len(events')].object = object
  BY EmitAppends
<1>2. \A n \in 0..Len(events) : ~Current(n)'
  BY <1>1 DEF Current
<1>3. DeletedInv'
  BY <1>1 DEF MirrorInv, DeletedInv
<1>4. newest \in 0..Len(events) /\ done \subseteq 1..Len(events)
  BY DEF TypeOK
<1>5. CoveredInv'
  BY <1>1, <1>4 DEF MirrorInv, CoveredInv, history
<1>6. RowInv'
  BY <1>2, <1>4 DEF RowInv, history
<1>7. ASSUME NEW h \in Handlers
      PROVE  /\ handler[h].asof \in 0..Len(events)
             /\ ~At(h, "idle") => E(h)' = E(h)
  BY <1>1 DEF HandlerReady, TypeOK, Handler, E
<1>8. SnapshotInv'
  BY <1>2, <1>7 DEF MirrorInv, SnapshotInv, At
<1> QED
  BY <1>2, <1>3, <1>5, <1>6, <1>8

\* The steps of a handler that leave the row and its event's claim open.
LEMMA HandlerKeepsMirror ==
    ASSUME SyncInv, events # << >>, MirrorInv, NEW h \in Handlers,
           \/ \E e \in 1..Len(events) : Receive(h, e)
           \/ Retrieve(h) \/ RetrieveFails(h) \/ SyncRefused(h) \/ SyncUnattached(h)
           \/ HandlerFails(h)
    PROVE  MirrorInv'
<1> USE DEF SyncInv
<1>0. /\ UNCHANGED <<remote, events, row, done, change>> /\ UNCHANGED history
      /\ handler \in [Handlers -> Handler] /\ handler[h] \in Handler
      /\ \A g \in Handlers : g # h => handler'[g] = handler[g]
  BY DEF Receive, Retrieve, RetrieveFails, SyncRefused, SyncUnattached, HandlerFails, Rollback,
         TypeOK
<1>1. DeletedInv' /\ AnswerInv' /\ CoveredInv' /\ RowInv'
  BY <1>0 DEF MirrorInv, DeletedInv, AnswerInv, CoveredInv, RowInv, Current, Synced, history
<1> DEFINE Good(g) ==
       /\ At(g, "retrieve") => handler[g].snap = NoRow
       /\ At(g, "retrieve") /\ handler[g].copy # NoRow => E(g).kind = "invoice"
       /\ At(g, "sync") /\ handler[g].snap = NoRow => E(g).kind = "invoice"
       /\ handler[g].pc \in {"sync", "write"} /\ handler[g].snap # NoRow =>
             /\ Current(handler[g].asof) => handler[g].snap = remote
             /\ E(g).kind # "invoice" => handler[g].event <= handler[g].asof
<1>2. Good(h)
  BY DEF MirrorInv, SnapshotInv
<1>3. Good(h)' => SnapshotInv'
  BY <1>0 DEF MirrorInv, SnapshotInv, At, E, Current
<1>4. CASE Rollback(h)
  <2>1. handler'[h] = IdleHandler
    BY <1>0, <1>4 DEF Rollback
  <2>2. Good(h)'
    BY <2>1 DEF IdleHandler, At
  <2> QED
    BY <1>1, <1>3, <2>2 DEF MirrorInv
<1>5. ASSUME NEW e \in 1..Len(events), Receive(h, e) PROVE MirrorInv'
  <2>1. handler'[h] = [event |-> e,
           pc    |-> IF events[e].kind = "deleted" THEN "sync" ELSE "retrieve",
           snap  |-> events[e].object,
           asof  |-> IF events[e].kind = "deleted" THEN e ELSE 0,
           copy  |-> IF events[e].kind = "invoice" /\ row.attached THEN row ELSE NoRow]
    BY <1>0, <1>5 DEF Receive
  <2>2. remote \in Remote /\ NoRow \notin Remote
    BY SyncAssumption DEF TypeOK, Remote
  <2>3. E(h)' = events[e]
    BY <1>0, <2>1 DEF E
  <2>4. Good(h)'
    BY <1>0, <2>1, <2>2, <2>3 DEF MirrorInv, DeletedInv, At
  <2> QED
    BY <1>1, <1>3, <2>4 DEF MirrorInv
<1>6. CASE Retrieve(h)
  <2>1. /\ handler'[h].pc = "sync" /\ handler'[h].snap = remote
        /\ handler'[h].asof = Len(events) /\ handler'[h].event = handler[h].event
    BY <1>0, <1>6 DEF Retrieve, Handler
  <2>2. remote # NoRow /\ handler[h].event <= Len(events)
    BY <1>6, SyncAssumption DEF TypeOK, Remote, HandlerReady, Retrieve, At
  <2>3. Good(h)'
    BY <1>0, <2>1, <2>2 DEF At
  <2> QED
    BY <1>1, <1>3, <2>3 DEF MirrorInv
<1>7. CASE RetrieveFails(h) /\ handler[h].copy # NoRow
  <2>1. /\ At(h, "retrieve")
        /\ handler'[h].pc = "sync" /\ handler'[h].snap = handler[h].snap
        /\ handler'[h].event = handler[h].event
    BY <1>0, <1>7 DEF RetrieveFails, Handler
  <2>2. E(h)' = E(h)
    BY <1>0, <2>1 DEF E
  <2>3. Good(h)'
    BY <1>2, <1>7, <2>1, <2>2 DEF At
  <2> QED
    BY <1>1, <1>3, <2>3 DEF MirrorInv
<1>8. CASE SyncUnattached(h)
  <2>1. /\ At(h, "sync") /\ handler[h].snap # NoRow
        /\ handler'[h].pc = "write" /\ handler'[h].snap = handler[h].snap
        /\ handler'[h].asof = handler[h].asof /\ handler'[h].event = handler[h].event
    BY <1>0, <1>8 DEF SyncUnattached, Handler
  <2>2. E(h)' = E(h) /\ (Current(handler[h].asof)' <=> Current(handler[h].asof))
    BY <1>0, <2>1 DEF E, Current
  <2>3. Good(h)'
    BY <1>0, <1>2, <2>1, <2>2 DEF At, Current
  <2> QED
    BY <1>1, <1>3, <2>3 DEF MirrorInv
<1> QED
  BY <1>4, <1>5, <1>6, <1>7, <1>8 DEF RetrieveFails, SyncRefused, HandlerFails

\* A commit covers its event; the row it leaves is what Stripe has, unless the
\* write was overtaken or the subscription has changed since.
LEMMA CommitKeepsMirror ==
    ASSUME SyncInv, events # << >>, MirrorInv, NEW h \in Handlers,
           SyncAttached(h) \/ SyncSkipped(h) \/ Write(h)
    PROVE  MirrorInv'
<1> USE DEF SyncInv
<1> DEFINE e == handler[h].event
<1> DEFINE asof == handler[h].asof
<1>0. /\ UNCHANGED <<remote, events, change>>
      /\ done' = done \cup {e} /\ handler' = [handler EXCEPT ![h] = IdleHandler]
      /\ handler \in [Handlers -> Handler] /\ handler[h] \in Handler /\ row \in Row
      /\ handler[h].pc \in {"sync", "write"}
      /\ e \in 1..Len(events) /\ asof \in Nat /\ newest \in Nat
      /\ done \subseteq 1..Len(events)
  BY DEF SyncAttached, SyncSkipped, Write, Apply, Commit, Rollback, TypeOK, At, Handler,
         HandlerReady
<1>1. \A n : Current(n)' <=> Current(n)
  BY <1>0 DEF Current
<1>2. DeletedInv' /\ AnswerInv'
  BY <1>0, <1>1 DEF MirrorInv, DeletedInv, AnswerInv
<1>3. SnapshotInv'
  <2>1. /\ handler'[h] = IdleHandler
        /\ \A g \in Handlers : g # h => handler'[g] = handler[g]
    BY <1>0
  <2> QED
    BY <1>0, <1>1, <2>1 DEF MirrorInv, SnapshotInv, IdleHandler, At, E
<1>4. CASE SyncSkipped(h)
  <2>1. events[e].kind = "invoice" /\ UNCHANGED row /\ UNCHANGED history
    BY <1>4 DEF SyncSkipped, MirrorInv, SnapshotInv, E
  <2>2. CoveredInv'
    BY <1>0, <2>1 DEF MirrorInv, CoveredInv, history
  <2>3. RowInv'
    BY <1>0, <1>1, <2>1 DEF MirrorInv, RowInv, Synced, history
  <2> QED
    BY <1>2, <1>3, <2>2, <2>3 DEF MirrorInv
<1>5. CASE SyncAttached(h) \/ Write(h)
  <2>1. PICK copy \in Row : Apply(h, copy)
    BY <1>0, <1>5 DEF SyncAttached, Write, Handler, HandlerReady, At
  <2>2. /\ row' = Written(copy, Synced(handler[h].snap))
        /\ newest' = IF asof > newest THEN asof ELSE newest
        /\ overtaken' = Overtaken(copy, asof)
    BY <2>1 DEF Apply
  <2>3. /\ handler[h].snap # NoRow
        /\ Current(asof) => handler[h].snap = remote
        /\ events[e].kind # "invoice" => e <= asof
    BY <1>0, <1>5 DEF SyncAttached, Write, HandlerReady, MirrorInv, SnapshotInv, At, E
  <2>4. CoveredInv'
    BY <1>0, <2>2, <2>3 DEF MirrorInv, CoveredInv
  <2>5. ASSUME ~overtaken', Current(newest)' PROVE row' = Synced(remote)
    <3>1. copy = row /\ ~Overtaken(row, asof)
      BY <2>2, <2>5 DEF Overtaken
    <3>2. handler[h].snap = remote
      BY <1>0, <2>2, <2>3, <2>5, <3>1, WriteKeepsRow
    <3>3. Synced(remote) \in Row
      BY SyncedType DEF TypeOK
    <3> QED
      BY <1>0, <2>2, <3>1, <3>2, <3>3, WrittenWhole
  <2>6. RowInv'
    BY <1>0, <2>5 DEF RowInv, Synced
  <2> QED
    BY <1>2, <1>3, <2>4, <2>6 DEF MirrorInv
<1> QED
  BY <1>4, <1>5

\* Cancel and resume: the answer is what Stripe has until it changes again.
LEMMA ChangeKeepsMirror ==
    ASSUME SyncInv, events # << >>, MirrorInv,
           \/ \E cancel \in BOOLEAN : ChangeStarts(cancel)
           \/ ChangeCalled \/ ChangeRefused \/ ChangeApplied
    PROVE  MirrorInv'
<1> USE DEF SyncInv
<1>0. /\ newest \in Nat /\ change.asof \in Nat /\ Len(events) \in Nat
      /\ change \in Change /\ remote \in Remote /\ row \in Row
  BY DEF TypeOK, Change
<1>1. CASE (\E cancel \in BOOLEAN : ChangeStarts(cancel)) \/ ChangeRefused
  <2>1. UNCHANGED <<remote, events, row, done, handler>> /\ UNCHANGED history
    BY <1>1 DEF ChangeStarts, ChangeRefused
  <2>2. change'.pc # "apply"
    <3>1. CASE ChangeRefused
      BY <3>1 DEF ChangeRefused, IdleChange
    <3>2. CASE \E cancel \in BOOLEAN : ChangeStarts(cancel)
      <4>1. PICK cancel \in BOOLEAN :
              change' = [IdleChange EXCEPT !.pc = "call", !.cancel = cancel]
        BY <3>2 DEF ChangeStarts
      <4> QED
        BY <4>1 DEF IdleChange
    <3> QED
      BY <1>1, <3>1, <3>2
  <2> QED
    BY <2>1, <2>2 DEF MirrorInv, DeletedInv, SnapshotInv, AnswerInv, CoveredInv, RowInv, Current,
                      Synced, At, E, history
<1>2. CASE ChangeCalled
  <2> DEFINE new == [remote EXCEPT !.cancel = change.cancel]
  <2>1. /\ remote' = new /\ remote.status # "canceled"
        /\ UNCHANGED <<row, done, handler>> /\ UNCHANGED history
        /\ \/ change' = [change EXCEPT !.pc = "apply", !.snap = new, !.asof = Len(events')]
           \/ change' = IdleChange
    BY <1>2 DEF ChangeCalled
  <2> HIDE DEF new
  <2>2. AnswerInv'
    <3>1. CASE change' = [change EXCEPT !.pc = "apply", !.snap = new, !.asof = Len(events')]
      BY <1>0, <2>1, <3>1 DEF AnswerInv, Change
    <3>2. CASE change' = IdleChange
      BY <3>2 DEF AnswerInv, IdleChange
    <3> QED
      BY <2>1, <3>1, <3>2
  <2>3. CASE new = remote /\ UNCHANGED events
    BY <2>1, <2>2, <2>3 DEF MirrorInv, DeletedInv, SnapshotInv, CoveredInv, RowInv, Current,
                            Synced, At, E, history
  <2>4. CASE Emit("updated", NoRow, "none", 0)
    BY <2>1, <2>2, <2>4, RemoteKeepsMirror DEF MirrorInv
  <2> QED
    BY <1>2, <2>3, <2>4 DEF ChangeCalled, new
<1>3. CASE ChangeApplied
  <2>1. UNCHANGED <<remote, events, done, handler>> /\ change'.pc = "idle" /\ change.pc = "apply"
    BY <1>3 DEF ChangeApplied, IdleChange
  <2>2. DeletedInv' /\ SnapshotInv' /\ AnswerInv'
    BY <2>1 DEF MirrorInv, DeletedInv, SnapshotInv, AnswerInv, Current, At, E
  <2>3. CASE UNCHANGED row /\ UNCHANGED history
    BY <2>1, <2>2, <2>3 DEF MirrorInv, CoveredInv, RowInv, Current, Synced, history
  <2>4. CASE /\ row' = Synced(change.snap)
             /\ newest' = IF change.asof > newest THEN change.asof ELSE newest
             /\ overtaken' = Overtaken(row, change.asof)
    <3>1. CoveredInv'
      <4>1. newest' >= newest /\ done \subseteq 1..Len(events)
        BY <1>0, <2>4 DEF TypeOK
      <4> QED
        BY <1>0, <2>1, <2>4, <4>1 DEF MirrorInv, CoveredInv
    <3>2. ~overtaken' /\ Current(newest)' => change.snap = remote
      BY <1>0, <2>1, <2>4, WriteKeepsRow DEF MirrorInv, AnswerInv
    <3>3. RowInv'
      BY <2>1, <2>4, <3>2 DEF RowInv, Synced
    <3> QED
      BY <2>2, <3>1, <3>3 DEF MirrorInv
  <2> QED
    BY <1>3, <2>3, <2>4 DEF ChangeApplied
<1> QED
  BY <1>1, <1>2, <1>3

LEMMA MirrorInductive ==
    ASSUME SyncInv, events # << >>, MirrorInv, [Next]_vars
    PROVE  MirrorInv'
<1> USE DEF SyncInv
<1>1. CASE RemoteChanges
  <2>1. PICK new \in Remote : /\ remote' = new
                              /\ IF new.status = "canceled"
                                 THEN Emit("deleted", new, "none", 0)
                                 ELSE Emit("updated", NoRow, "none", 0)
    BY <1>1 DEF RemoteChanges
  <2>2. /\ remote.status # "canceled" /\ UNCHANGED <<row, done, handler, history>>
        /\ UNCHANGED change
    BY <1>1 DEF RemoteChanges
  <2>3. /\ DeletedInv' /\ SnapshotInv' /\ CoveredInv' /\ RowInv'
        /\ \A n \in 0..Len(events) : ~Current(n)'
    <3>1. CASE new.status = "canceled"
      BY <2>1, <2>2, <3>1, RemoteKeepsMirror
    <3>2. CASE new.status # "canceled"
      BY <2>1, <2>2, <3>2, RemoteKeepsMirror
    <3> QED
      BY <3>1, <3>2
  <2>4. change.asof \in 0..Len(events)
    BY DEF ChangeReady, TypeOK, Change
  <2> QED
    BY <2>2, <2>3, <2>4 DEF MirrorInv, AnswerInv
<1>2. CASE BillChanges
  <2>1. PICK new \in BillStatus, elapsed \in 0..1 : Emit("invoice", NoRow, new, elapsed)
    BY <1>2 DEF BillChanges, BillSuccessors, TypeOK, BillStatus
  <2>2. /\ Len(events) \in Nat \ {0} /\ Len(events') = Len(events) + 1
        /\ \A i \in 1..Len(events) : events'[i] = events[i]
        /\ events'[Len(events')].kind = "invoice" /\ events'[Len(events')].object = NoRow
    BY <2>1, EmitAppends
  <2>3. UNCHANGED <<remote, row, done, handler, change>> /\ UNCHANGED history
    BY <1>2 DEF BillChanges
  <2>4. \A n : Current(n)' => Current(n)
    BY <2>2 DEF Current
  <2>5. DeletedInv' /\ AnswerInv' /\ RowInv'
    BY <2>2, <2>3, <2>4 DEF MirrorInv, DeletedInv, AnswerInv, RowInv, Synced, history
  <2>6. CoveredInv'
    BY <2>2, <2>3 DEF MirrorInv, CoveredInv, TypeOK, history
  <2>7. SnapshotInv'
    <3>1. \A h \in Handlers : ~At(h, "idle") => E(h)' = E(h)
      BY <2>2, <2>3 DEF HandlerReady, E
    <3> QED
      BY <2>3, <2>4, <3>1 DEF MirrorInv, SnapshotInv, At
  <2> QED
    BY <2>5, <2>6, <2>7 DEF MirrorInv
<1>3. ASSUME NEW h \in Handlers,
             \/ \E e \in 1..Len(events) : Receive(h, e)
             \/ Process(h) \/ RetrieveFails(h) \/ HandlerFails(h)
      PROVE  MirrorInv'
  BY <1>3, HandlerKeepsMirror, CommitKeepsMirror DEF Process, Sync
<1>4. CASE \/ \E cancel \in BOOLEAN : ChangeStarts(cancel)
           \/ ChangeCalled \/ ChangeRefused \/ ChangeApplied
  BY <1>4, ChangeKeepsMirror
<1>5. CASE UNCHANGED vars
  BY <1>5 DEF vars, history, MirrorInv, DeletedInv, SnapshotInv, AnswerInv, CoveredInv, RowInv,
              Current, Synced, At, E
<1> QED
  BY <1>1, <1>2, <1>3, <1>4, <1>5 DEF Next

\* For any number of concurrent handlers and of events, lost calls and crashes,
\* and an owner who cancels and resumes meanwhile: once every event has been
\* processed the row says what Stripe says, unless the last write of the row
\* came after one from a later snapshot or through an object no longer current.
THEOREM MirrorFollowsStripe == Spec => []MirrorConvergesUnlessOvertaken
<1>1. Init => MirrorInv
  <2> SUFFICES ASSUME Init PROVE MirrorInv
    OBVIOUS
  <2>e. PICK e : events = <<e>> /\ e.object = NoRow /\ e.kind # "deleted"
    BY DEF Init
  <2>0. /\ done = {} /\ handler = [h \in Handlers |-> IdleHandler] /\ change = IdleChange
        /\ Len(events) = 1 /\ events[1].object = NoRow /\ events[1].kind # "deleted"
        /\ newest = 0
    BY <2>e DEF Init
  <2>1. DeletedInv /\ SnapshotInv /\ AnswerInv /\ CoveredInv
    BY <2>0 DEF DeletedInv, SnapshotInv, AnswerInv, CoveredInv, IdleHandler, IdleChange, At
  <2>2. CASE events[1].kind = "updated"
    <3>1. ~Current(newest)
      BY <2>0, <2>2 DEF Current
    <3> QED
      BY <2>1, <3>1 DEF MirrorInv, RowInv
  <2>3. CASE row = [attached |-> TRUE, plan |-> TRUE, status |-> remote.status, cancel |-> FALSE]
    <3>1. remote.price = "plan" /\ remote.cancel = FALSE
      BY DEF Init
    <3>2. row = Synced(remote)
      BY <2>3, <3>1 DEF Synced
    <3> QED
      BY <2>1, <3>2 DEF MirrorInv, RowInv
  <2> QED
    BY <2>2, <2>3 DEF Init
<1>2. SyncInv /\ events # << >> /\ MirrorInv /\ [Next]_vars => MirrorInv'
  BY MirrorInductive
<1>3. SyncInv /\ MirrorInv => MirrorConvergesUnlessOvertaken
  <2> SUFFICES ASSUME SyncInv, MirrorInv, ~overtaken, Quiescent
               PROVE  /\ row.attached /\ row.cancel = remote.cancel
                      /\ row.plan = (remote.price = "plan")
                      /\ row.status = IF remote.price = "plan" THEN remote.status ELSE "incomplete"
    BY DEF MirrorConvergesUnlessOvertaken, MirrorConverges
  <2>1. Current(newest)
    BY DEF Quiescent, Current, MirrorInv, CoveredInv, SyncInv, TypeOK
  <2> QED
    BY <2>1 DEF MirrorInv, RowInv, Synced
<1> QED
  BY <1>1, <1>2, <1>3, SyncInvariant, PTL DEF Spec

=============================================================================
