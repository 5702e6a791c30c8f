--------------------------- MODULE CheckoutProofs ----------------------------
(***************************************************************************)
(* The owner never holds two sessions that could both be paid and no       *)
(* attempt begins once a payment has been reported, in every history in    *)
(* which no request has taken back through its stale object what another   *)
(* had recorded: for any keys, requests that overlap in any way and any    *)
(* session length.  The invariant says that a session that can be paid is  *)
(* an open row with the expiry Stripe has, and that at most one row is in  *)
(* progress; a request that is under way knows that its attempt exists and *)
(* that the answer it holds is the one Stripe keeps for the key.           *)
(***************************************************************************)
EXTENDS Checkout, TLAPS

\* uq_billing_checkout_one_open_per_business.
OneInProgress ==
    \A j, k \in Keys : InProgress(checkouts[j]) /\ InProgress(checkouts[k]) => j = k

\* What a row says of its session.
RowInv(k) ==
    /\ checkouts[k].url <=> k \in urls
    /\ checkouts[k].status \in {"none", "pending"} => ~checkouts[k].url
    /\ k \in urls => stripe[k].status # "none"
    /\ ~undone /\ Payable(k) =>
          checkouts[k].status = "open" /\ checkouts[k].expires = stripe[k].expires

\* Webhooks tell the truth.
EventInv(e) == stripe[e.key].status = IF e.kind = "expired" THEN "expired" ELSE "paid"

\* What a request under way knows.
RequestInv(r) ==
    /\ ~At(r, "idle") => req[r].copy.status = "pending" /\ checkouts[K(r)].status # "none"
    /\ At(r, "store") => stripe[K(r)].status # "none" /\ req[r].answer = stripe[K(r)].expires

CheckoutInv ==
    /\ TypeOK
    /\ OneInProgress
    /\ \A k \in Keys : RowInv(k)
    /\ \A e \in events : EventInv(e)
    /\ \A r \in Requests : RequestInv(r)

-----------------------------------------------------------------------------

LEMMA FreshRow ==
    ASSUME NEW row \in Row, clock \in Nat
    PROVE  /\ Fresh(row) \in Row
           /\ Fresh(row).url = row.url
           /\ Fresh(row).expires = row.expires
           /\ InProgress(Fresh(row)) => InProgress(row) /\ Fresh(row) = row
           /\ row.expires > clock => Fresh(row) = row
           /\ row.status = "none" <=> Fresh(row).status = "none"
           /\ Fresh(row).status = "pending" => row.status = "pending"
BY DEF Fresh, InProgress, Row

LEMMA KeyType == ASSUME NEW r \in Requests PROVE K(r) \in Keys
BY CheckoutAssumption DEF K

LEMMA IdleType == Idle \in Request /\ NoRow \in Row
BY DEF Idle, NoRow, Request, Row

LEMMA CreatedType ==
    ASSUME TypeOK, NEW r \in Requests, Created(r)
    PROVE  stripe' \in [Keys -> Remote]
<1> DEFINE new == [status |-> "open", asked |-> req[r].now,
                   expires |-> req[r].now + SessionLength]
<1>1. req[r].now \in Nat /\ SessionLength \in Nat
  BY CheckoutAssumption DEF TypeOK, Request
<1>2. new \in Remote
  BY <1>1 DEF Remote
<1>3. stripe' = [stripe EXCEPT ![K(r)] = new]
  BY DEF Created
<1> HIDE DEF new
<1> QED
  BY <1>2, <1>3, KeyType DEF TypeOK

LEMMA CallType ==
    ASSUME TypeOK, NEW r \in Requests, NEW row \in Row, Call(r, row)
    PROVE  req' \in [Requests -> Request]
BY DEF Call, TypeOK, Request

\* Every step keeps the types.
LEMMA TypeStep == TypeOK /\ [Next]_vars => TypeOK'
<1> SUFFICES ASSUME TypeOK, [Next]_vars PROVE TypeOK'
  OBVIOUS
<1> USE CheckoutAssumption
<1>1. ASSUME NEW r \in Requests, Resume(r) PROVE TypeOK'
  <2>1. checkouts' \in [Keys -> Row]
    BY <1>1, FreshRow DEF Resume, TypeOK
  <2>2. req' \in [Requests -> Request]
    <3>1. Fresh(checkouts[K(r)]) \in Row
      BY FreshRow, KeyType DEF TypeOK
    <3> QED
      BY <1>1, <3>1, CallType DEF Resume, TypeOK
  <2> QED
    BY <1>1, <2>1, <2>2, KeyType DEF Resume, TypeOK
<1>2. ASSUME NEW r \in Requests, Prepare(r) PROVE TypeOK'
  <2> DEFINE row == [status |-> "pending", url |-> FALSE, expires |-> clock + SessionLength]
  <2>1. row \in Row
    BY DEF Row, TypeOK
  <2>2. checkouts' = [[k \in Keys |-> Fresh(checkouts[k])] EXCEPT ![K(r)] = row]
    BY <1>2 DEF Prepare
  <2>3. checkouts' \in [Keys -> Row]
    BY <2>1, <2>2, FreshRow DEF TypeOK
  <2>4. req' \in [Requests -> Request]
    BY <1>2, <2>1, CallType DEF Prepare
  <2> QED
    BY <1>2, <2>3, <2>4 DEF Prepare, TypeOK
<1>3. ASSUME NEW r \in Requests, CallAnswered(r) PROVE TypeOK'
  <2>1. stripe' \in [Keys -> Remote]
    BY <1>3, CreatedType DEF CallAnswered, TypeOK
  <2> DEFINE new == [req[r] EXCEPT !.pc = "store", !.answer = stripe'[K(r)].expires]
  <2>3. stripe'[K(r)].expires \in Nat
    BY <2>1, KeyType DEF Remote
  <2>4. req \in [Requests -> Request] /\ req[r] \in Request
    BY DEF TypeOK
  <2>5. new \in Request
    BY <2>3, <2>4 DEF Request
  <2>6. req' = [req EXCEPT ![r] = new]
    BY <1>3, <2>4 DEF CallAnswered
  <2>2. req' \in [Requests -> Request]
    <3> HIDE DEF new
    <3> QED
      BY <2>4, <2>5, <2>6
  <2> QED
    BY <1>3, <2>1, <2>2 DEF CallAnswered, TypeOK
<1>4. ASSUME NEW r \in Requests, CallRejected(r) \/ CallLost(r) \/ Crash(r) PROVE TypeOK'
  <2>1. stripe' \in [Keys -> Remote]
    BY <1>4, CreatedType DEF CallRejected, CallLost, Crash, TypeOK
  <2>2. req' \in [Requests -> Request]
    BY <1>4, IdleType DEF CallRejected, CallLost, Crash, Finish, TypeOK, Request
  <2> QED
    BY <1>4, <2>1, <2>2 DEF CallRejected, CallLost, Crash, TypeOK
<1>5. ASSUME NEW r \in Requests, Store(r) PROVE TypeOK'
  <2>1. Stored(r) \in Row
    BY KeyType DEF Stored, TypeOK, Row, Request
  <2> QED
    BY <1>5, <2>1, KeyType, IdleType DEF Store, Record, TakesBack, Finish, TypeOK
<1>6. ASSUME NEW r \in Requests, ExpireRejected(r) PROVE TypeOK'
  <2>1. [checkouts[K(r)] EXCEPT !.status = "expired", !.expires = clock] \in Row
    BY KeyType DEF TypeOK, Row
  <2> QED
    BY <1>6, <2>1, KeyType, IdleType DEF ExpireRejected, Record, TakesBack, Finish, TypeOK
<1>7. ASSUME NEW k \in Keys, Pay(k) \/ SessionExpires(k) PROVE TypeOK'
  <2>0. \A status \in {"paid", "expired"} :
            [stripe EXCEPT ![k].status = status] \in [Keys -> Remote]
    <3>1. \A status \in {"paid", "expired"} : [stripe[k] EXCEPT !.status = status] \in Remote
      BY DEF TypeOK, Remote
    <3> QED
      BY <3>1 DEF TypeOK
  <2>1. stripe' \in [Keys -> Remote]
    BY <1>7, <2>0 DEF Pay, SessionExpires
  <2>2. /\ [kind : {"completed", "subscription"}, key : {k}] \subseteq Event
        /\ [kind |-> "expired", key |-> k] \in Event
    BY DEF Event
  <2>3. events' \subseteq Event
    BY <1>7, <2>2 DEF Pay, SessionExpires, TypeOK
  <2> QED
    BY <1>7, <2>1, <2>3 DEF Pay, SessionExpires, TypeOK
<1>8. ASSUME NEW k \in Keys, Webhook(k) PROVE TypeOK'
  <2>1. Completed(checkouts[k]) \in Row
    BY DEF Completed, TypeOK, Row
  <2> QED
    BY <1>8, <2>1 DEF Webhook, CheckoutCompleted, CheckoutExpired, SubscriptionSynced, TypeOK, Row
<1>9. CASE Tick
  BY <1>9 DEF Tick, TypeOK
<1>10. CASE UNCHANGED vars
  BY <1>10 DEF vars, TypeOK
<1> QED
  BY <1>1, <1>2, <1>3, <1>4, <1>5, <1>6, <1>7, <1>8, <1>9, <1>10 DEF Next, Step

LEMMA InitType == Init => TypeOK
<1> SUFFICES ASSUME Init PROVE TypeOK
  OBVIOUS
<1>1. stripe \in [Keys -> Remote]
  BY DEF Init, Remote
<1>2. checkouts \in [Keys -> Row] /\ req \in [Requests -> Request]
  BY IdleType DEF Init
<1> QED
  BY <1>1, <1>2 DEF Init, TypeOK

\* Whatever the overlap of requests, the state is well-formed.
THEOREM CheckoutTypeCorrect == Spec => []TypeOK
  BY InitType, TypeStep, PTL DEF Spec

-----------------------------------------------------------------------------

\* A step that leaves alone the rows, URLs, sessions, events and clock, and of
\* the requests changes one.
LEMMA RequestStep ==
    ASSUME CheckoutInv, TypeOK', NEW r \in Requests, RequestInv(r)',
           UNCHANGED <<checkouts, urls, stripe, events, clock, undone>>,
           \A s \in Requests : s # r => req'[s] = req[s]
    PROVE  CheckoutInv'
<1>1. \A k \in Keys : RowInv(k)'
  BY DEF CheckoutInv, RowInv, Payable
<1>2. OneInProgress' /\ \A e \in events' : EventInv(e)'
  BY DEF CheckoutInv, OneInProgress, InProgress, EventInv
<1>3. \A s \in Requests : RequestInv(s)'
  BY DEF CheckoutInv, RequestInv, At, K
<1> QED
  BY <1>1, <1>2, <1>3 DEF CheckoutInv

\* Local expiry does not touch a session that can be paid.
LEMMA FreshRows ==
    ASSUME CheckoutInv, NEW k \in Keys
    PROVE  /\ ~undone /\ Payable(k) => Fresh(checkouts[k]) = checkouts[k]
           /\ Fresh(checkouts[k]).url <=> k \in urls
           /\ Fresh(checkouts[k]).status \in {"none", "pending"} => k \notin urls
<1>1. checkouts[k] \in Row /\ clock \in Nat /\ RowInv(k) /\ stripe[k] \in Remote
  BY DEF CheckoutInv, TypeOK
<1> QED
  BY <1>1, FreshRow DEF RowInv, Payable, Remote

LEMMA PrepareInductive ==
    ASSUME CheckoutInv, TypeOK', NEW r \in Requests, Prepare(r)
    PROVE  CheckoutInv'
<1> DEFINE row == [status |-> "pending", url |-> FALSE, expires |-> clock + SessionLength]
<1>0. /\ K(r) \in Keys /\ clock \in Nat
      /\ \A k \in Keys : checkouts[k] \in Row
      /\ checkouts[K(r)].status = "none" /\ RowInv(K(r))
      /\ UNCHANGED <<urls, stripe, events, clock, undone>>
  BY KeyType DEF CheckoutInv, TypeOK, Prepare, Admissible
<1>1. /\ checkouts'[K(r)] = row
      /\ \A k \in Keys : k # K(r) => checkouts'[k] = Fresh(checkouts[k])
  BY <1>0 DEF Prepare
<1>2. K(r) \notin urls
  BY <1>0 DEF RowInv
<1>3. OneInProgress'
  BY <1>0, <1>1 DEF OneInProgress, Prepare, Admissible
<1>4. ASSUME NEW k \in Keys PROVE RowInv(k)'
  <2>1. CASE k = K(r)
    BY <1>0, <1>1, <1>2, <2>1 DEF RowInv, Payable
  <2>2. CASE k # K(r)
    BY <1>0, <1>1, <2>2, FreshRows DEF RowInv, Payable, CheckoutInv
  <2> QED
    BY <2>1, <2>2
<1>5. \A e \in events' : EventInv(e)'
  BY <1>0 DEF CheckoutInv, EventInv
<1>6. ASSUME NEW s \in Requests PROVE RequestInv(s)'
  <2>1. CASE s = r
    BY <1>0, <1>1, <1>2, <2>1 DEF Prepare, Call, RequestInv, At, K, CheckoutInv, TypeOK
  <2>2. CASE s # r
    <3>1. req'[s] = req[s] /\ K(s) \in Keys /\ RequestInv(s)
      BY <2>2, KeyType DEF Prepare, Call, CheckoutInv, TypeOK
    <3>3. checkouts[K(s)].status # "none" => checkouts'[K(s)].status # "none"
      BY <1>0, <1>1, <3>1, FreshRow
    <3> QED
      BY <1>0, <3>1, <3>3 DEF RequestInv, At, K
  <2> QED
    BY <2>1, <2>2
<1> QED
  BY <1>3, <1>4, <1>5, <1>6 DEF CheckoutInv

LEMMA ResumeInductive ==
    ASSUME CheckoutInv, TypeOK', NEW r \in Requests, Resume(r)
    PROVE  CheckoutInv'
<1>0. /\ K(r) \in Keys /\ clock \in Nat
      /\ \A k \in Keys : checkouts[k] \in Row /\ checkouts'[k] = Fresh(checkouts[k])
      /\ checkouts[K(r)].status # "none"
      /\ UNCHANGED <<stripe, events, clock, undone>>
  BY KeyType DEF CheckoutInv, TypeOK, Resume
<1>1. urls' = urls
  BY <1>0, FreshRows DEF Resume
<1>2. OneInProgress'
  BY <1>0, FreshRow DEF OneInProgress, CheckoutInv
<1>3. ASSUME NEW k \in Keys PROVE RowInv(k)'
  BY <1>0, <1>1, FreshRows DEF RowInv, Payable, CheckoutInv
<1>4. \A e \in events' : EventInv(e)'
  BY <1>0 DEF CheckoutInv, EventInv
<1>5. ASSUME NEW s \in Requests PROVE RequestInv(s)'
  <2>0. K(s) \in Keys /\ RequestInv(s) /\ req[s] \in Request
    BY KeyType DEF CheckoutInv, TypeOK
  <2>1. checkouts[K(s)].status # "none" => checkouts'[K(s)].status # "none"
    BY <1>0, <2>0, FreshRow
  <2>2. CASE req'[s] = req[s]
    BY <1>0, <1>1, <2>0, <2>1, <2>2 DEF RequestInv, At, K
  <2>3. CASE s = r /\ Fresh(checkouts[K(r)]).status = "pending"
    <3>1. req'[r] = [pc |-> "call", now |-> clock, copy |-> Fresh(checkouts[K(r)]), answer |-> 0]
      BY <2>3 DEF Resume, Call, CheckoutInv, TypeOK
    <3> QED
      BY <1>0, <1>1, <2>1, <2>3, <3>1 DEF RequestInv, At, K
  <2> QED
    BY <2>2, <2>3 DEF Resume, Call, CheckoutInv, TypeOK
<1> QED
  BY <1>1, <1>2, <1>3, <1>4, <1>5 DEF CheckoutInv

\* The call: Stripe may create a session nobody has the URL of.
LEMMA CallInductive ==
    ASSUME CheckoutInv, TypeOK', NEW r \in Requests,
           CallAnswered(r) \/ CallRejected(r) \/ CallLost(r) \/ Crash(r)
    PROVE  CheckoutInv'
<1>0. /\ K(r) \in Keys /\ RequestInv(r)
      /\ req[r] \in Request /\ req[r].pc # "idle"
      /\ UNCHANGED <<checkouts, urls, events, clock, undone>>
  BY KeyType DEF CheckoutInv, TypeOK, RequestInv, CallAnswered, CallRejected, CallLost, Crash, At
<1>1. /\ \A s \in Requests : s # r => req'[s] = req[s]
      /\ \A k \in Keys : k # K(r) => stripe'[k] = stripe[k]
      /\ stripe[K(r)].status # "none" => stripe'[K(r)] = stripe[K(r)]
  BY <1>0 DEF CallAnswered, CallRejected, CallLost, Crash, Created, Finish, CheckoutInv, TypeOK
<1>2. RequestInv(r)'
  <2>1. CASE CallAnswered(r)
    <3>1. req'[r].pc = "store" /\ req'[r].copy = req[r].copy
          /\ req'[r].answer = stripe'[K(r)].expires
      BY <2>1, <1>0 DEF CallAnswered, CheckoutInv, TypeOK, Request
    <3>2. stripe'[K(r)].status # "none"
      BY <2>1, <1>0 DEF CallAnswered, Created, CheckoutInv, TypeOK
    <3> QED
      BY <1>0, <3>1, <3>2 DEF RequestInv, At, K
  <2>2. CASE CallRejected(r)
    <3>1. req'[r].pc = "reject" /\ req'[r].copy = req[r].copy
      BY <2>2, <1>0 DEF CallRejected, CheckoutInv, TypeOK, Request
    <3> QED
      BY <1>0, <3>1 DEF RequestInv, At, K
  <2>3. CASE CallLost(r) \/ Crash(r)
    <3>1. req'[r].pc = "idle"
      BY <2>3 DEF CallLost, Crash, Finish, Idle, CheckoutInv, TypeOK
    <3> QED
      BY <3>1 DEF RequestInv, At
  <2> QED
    BY <2>1, <2>2, <2>3
<1>3. ASSUME NEW s \in Requests PROVE RequestInv(s)'
  <2>1. CASE s # r
    <3>1. K(s) \in Keys
      BY KeyType
    <3>2. stripe[K(s)].status # "none" => stripe'[K(s)] = stripe[K(s)]
      BY <1>1, <3>1
    <3> QED
      BY <1>0, <1>1, <2>1, <3>1, <3>2 DEF CheckoutInv, RequestInv, At, K
  <2> QED
    BY <1>2, <2>1
<1>4. ASSUME NEW k \in Keys PROVE RowInv(k)'
  <2>1. RowInv(k) /\ (k \in urls => stripe'[k] = stripe[k])
    BY <1>0, <1>1 DEF CheckoutInv, RowInv
  <2> QED
    BY <1>0, <2>1 DEF RowInv, Payable
<1>5. ASSUME NEW e \in events' PROVE EventInv(e)'
  <2>1. e \in events /\ e.key \in Keys /\ EventInv(e)
    BY <1>0 DEF CheckoutInv, TypeOK, Event
  <2>2. stripe[e.key].status # "none"
    BY <2>1 DEF EventInv
  <2> QED
    BY <1>1, <2>1, <2>2 DEF EventInv
<1>6. OneInProgress'
  BY <1>0 DEF CheckoutInv, OneInProgress
<1> QED
  BY <1>3, <1>4, <1>5, <1>6 DEF CheckoutInv

LEMMA StoreInductive ==
    ASSUME CheckoutInv, TypeOK', NEW r \in Requests, Store(r)
    PROVE  CheckoutInv'
<1>0. /\ K(r) \in Keys /\ RequestInv(r) /\ At(r, "store") /\ ~At(r, "idle")
      /\ req'[r].pc = "idle"
      /\ \A s \in Requests : s # r => req'[s] = req[s]
      /\ UNCHANGED <<stripe, events, clock>>
  BY KeyType DEF CheckoutInv, TypeOK, Store, Finish, Idle, At
<1>1. RequestInv(r)'
  BY <1>0 DEF RequestInv, At
<1>2. CASE UNCHANGED <<checkouts, urls, undone>>
  BY <1>0, <1>1, <1>2, RequestStep
<1>3. CASE /\ Record(r, Stored(r))
           /\ urls' = urls \cup {K(r)}
           /\ ~ \E k \in Keys \ {K(r)} : InProgress(Stored(r)) /\ InProgress(checkouts[k])
  <2>1. Stored(r) = [status |-> "open", url |-> TRUE, expires |-> stripe[K(r)].expires]
    BY <1>0 DEF Stored, RequestInv
  <2>2. /\ checkouts'[K(r)] = Stored(r)
        /\ \A k \in Keys : k # K(r) => checkouts'[k] = checkouts[k]
        /\ ~undone' => ~undone
    BY <1>0, <1>3 DEF CheckoutInv, TypeOK, Record
  <2>3. OneInProgress'
    BY <1>3, <2>1, <2>2 DEF OneInProgress, InProgress, CheckoutInv
  <2>4. ASSUME NEW k \in Keys PROVE RowInv(k)'
    BY <1>0, <1>3, <2>1, <2>2 DEF CheckoutInv, RowInv, RequestInv, Payable
  <2>5. \A e \in events' : EventInv(e)'
    BY <1>0 DEF CheckoutInv, EventInv
  <2>6. ASSUME NEW s \in Requests, s # r PROVE RequestInv(s)'
    <3>1. K(s) \in Keys
      BY KeyType
    <3>2. checkouts[K(s)].status # "none" => checkouts'[K(s)].status # "none"
      BY <2>1, <2>2, <3>1
    <3> QED
      BY <1>0, <2>6, <3>1, <3>2 DEF CheckoutInv, RequestInv, At, K
  <2> QED
    BY <1>1, <2>3, <2>4, <2>5, <2>6 DEF CheckoutInv
<1> QED
  BY <1>2, <1>3 DEF Store

LEMMA ExpireRejectedInductive ==
    ASSUME CheckoutInv, TypeOK', NEW r \in Requests, ExpireRejected(r)
    PROVE  CheckoutInv'
<1>0. /\ K(r) \in Keys /\ RequestInv(r) /\ ~At(r, "idle") /\ checkouts[K(r)] \in Row
      /\ req'[r].pc = "idle"
      /\ \A s \in Requests : s # r => req'[s] = req[s]
      /\ UNCHANGED <<stripe, events, clock, urls>>
  BY KeyType DEF CheckoutInv, TypeOK, ExpireRejected, Finish, Idle, At
<1>1. RequestInv(r)'
  BY <1>0 DEF RequestInv, At
<1>2. CASE UNCHANGED <<checkouts, undone>>
  BY <1>0, <1>1, <1>2, RequestStep
<1>3. CASE Record(r, [checkouts[K(r)] EXCEPT !.status = "expired", !.expires = clock])
  <2>1. /\ checkouts'[K(r)].status = "expired" /\ checkouts'[K(r)].url = checkouts[K(r)].url
        /\ \A k \in Keys : k # K(r) => checkouts'[k] = checkouts[k]
        /\ ~undone' => ~undone /\ checkouts[K(r)].status # "open"
    BY <1>0, <1>3 DEF CheckoutInv, TypeOK, Row, Record, TakesBack
  <2>2. OneInProgress'
    BY <2>1 DEF OneInProgress, InProgress, CheckoutInv
  <2>3. ASSUME NEW k \in Keys PROVE RowInv(k)'
    <3>1. CASE k = K(r)
      BY <1>0, <2>1, <3>1 DEF CheckoutInv, RowInv, Payable, RequestInv
    <3>2. CASE k # K(r)
      BY <1>0, <2>1, <3>2 DEF CheckoutInv, RowInv, Payable
    <3> QED
      BY <3>1, <3>2
  <2>4. \A e \in events' : EventInv(e)'
    BY <1>0 DEF CheckoutInv, EventInv
  <2>5. ASSUME NEW s \in Requests, s # r PROVE RequestInv(s)'
    <3>1. K(s) \in Keys
      BY KeyType
    <3>2. checkouts[K(s)].status # "none" => checkouts'[K(s)].status # "none"
      BY <2>1, <3>1
    <3> QED
      BY <1>0, <2>5, <3>1, <3>2 DEF CheckoutInv, RequestInv, At, K
  <2> QED
    BY <1>1, <2>2, <2>3, <2>4, <2>5 DEF CheckoutInv
<1> QED
  BY <1>2, <1>3 DEF ExpireRejected

\* Stripe settles a session and says so.
LEMMA SettleInductive ==
    ASSUME CheckoutInv, TypeOK', NEW k \in Keys, Pay(k) \/ SessionExpires(k)
    PROVE  CheckoutInv'
<1>0. /\ UNCHANGED <<checkouts, urls, req, clock, undone>>
      /\ \A j \in Keys : j # k => stripe'[j] = stripe[j]
      /\ stripe[k].status = "open" /\ stripe'[k].expires = stripe[k].expires
      /\ stripe'[k].status \in {"paid", "expired"}
      /\ \A e \in events' : e \in events \/ (e.key = k /\
            stripe'[k].status = IF e.kind = "expired" THEN "expired" ELSE "paid")
  <2>0. stripe \in [Keys -> Remote] /\ stripe[k] \in Remote
    BY DEF CheckoutInv, TypeOK
  <2>1. CASE Pay(k)
    BY <2>0, <2>1 DEF Pay, Payable, Remote
  <2>2. CASE SessionExpires(k)
    BY <2>0, <2>2 DEF SessionExpires, Remote
  <2> QED
    BY <2>1, <2>2
<1>1. OneInProgress'
  BY <1>0 DEF CheckoutInv, OneInProgress
<1>2. ASSUME NEW j \in Keys PROVE RowInv(j)'
  BY <1>0 DEF CheckoutInv, RowInv, Payable
<1>3. ASSUME NEW e \in events' PROVE EventInv(e)'
  <2>1. CASE e \in events
    <3>1. EventInv(e) /\ e.key \in Keys
      BY <2>1 DEF CheckoutInv, TypeOK, Event
    <3>2. e.key # k
      BY <1>0, <3>1 DEF EventInv
    <3> QED
      BY <1>0, <3>1, <3>2 DEF EventInv
  <2>2. CASE e \notin events
    BY <1>0, <2>2 DEF EventInv
  <2> QED
    BY <2>1, <2>2
<1>4. ASSUME NEW r \in Requests PROVE RequestInv(r)'
  <2>1. RequestInv(r) /\ K(r) \in Keys
    BY KeyType DEF CheckoutInv
  <2> QED
    BY <1>0, <2>1 DEF RequestInv, At, K
<1> QED
  BY <1>1, <1>2, <1>3, <1>4 DEF CheckoutInv

\* A webhook changes only rows whose session is settled.
LEMMA WebhookInductive ==
    ASSUME CheckoutInv, TypeOK', NEW k \in Keys, Webhook(k)
    PROVE  CheckoutInv'
<1>0. /\ UNCHANGED <<stripe, urls, req, clock, undone>>
      /\ events' \subseteq events
      /\ \A j \in Keys : j # k => checkouts'[j] = checkouts[j]
      /\ checkouts'[k].url = checkouts[k].url
      /\ checkouts'[k].status \in {"complete", "expired"}
  BY DEF Webhook, CheckoutCompleted, CheckoutExpired, SubscriptionSynced, Completed,
         CheckoutInv, TypeOK, Row
<1>1. stripe[k].status # "open"
  <2>1. \E e \in events : e.key = k
    BY DEF Webhook, CheckoutCompleted, CheckoutExpired, SubscriptionSynced
  <2> QED
    BY <2>1 DEF CheckoutInv, EventInv
<1>2. OneInProgress'
  BY <1>0 DEF CheckoutInv, OneInProgress, InProgress
<1>3. ASSUME NEW j \in Keys PROVE RowInv(j)'
  BY <1>0, <1>1 DEF CheckoutInv, RowInv, Payable
<1>4. \A e \in events' : EventInv(e)'
  BY <1>0 DEF CheckoutInv, EventInv
<1>5. ASSUME NEW r \in Requests PROVE RequestInv(r)'
  <2>1. RequestInv(r) /\ K(r) \in Keys
    BY KeyType DEF CheckoutInv
  <2> QED
    BY <1>0, <2>1 DEF RequestInv, At, K
<1> QED
  BY <1>2, <1>3, <1>4, <1>5 DEF CheckoutInv

LEMMA TickInductive ==
    ASSUME CheckoutInv, TypeOK', Tick \/ UNCHANGED vars
    PROVE  CheckoutInv'
<1>0. /\ UNCHANGED <<checkouts, stripe, urls, events, req, undone>>
      /\ clock' \in Nat /\ clock \in Nat /\ clock' >= clock
  BY DEF Tick, vars, CheckoutInv, TypeOK
<1>1. ASSUME NEW k \in Keys PROVE RowInv(k)'
  <2>1. Payable(k)' => Payable(k)
    BY <1>0 DEF Payable, CheckoutInv, TypeOK, Remote
  <2> QED
    BY <1>0, <2>1 DEF CheckoutInv, RowInv
<1>2. OneInProgress' /\ (\A e \in events' : EventInv(e)')
  BY <1>0 DEF CheckoutInv, OneInProgress, EventInv
<1>3. \A r \in Requests : RequestInv(r)'
  BY <1>0 DEF CheckoutInv, RequestInv, At
<1> QED
  BY <1>1, <1>2, <1>3 DEF CheckoutInv

\* The invariant holds of every behaviour, however requests overlap.
THEOREM CheckoutInvariant == Spec => []CheckoutInv
<1>1. Init => CheckoutInv
  <2> SUFFICES ASSUME Init PROVE CheckoutInv
    OBVIOUS
  <2>1. TypeOK
    BY InitType
  <2>2. \A k \in Keys : RowInv(k) /\ ~InProgress(checkouts[k])
    BY DEF Init, RowInv, Payable, NoRow, InProgress
  <2>3. \A r \in Requests : RequestInv(r)
    BY DEF Init, RequestInv, At, Idle
  <2> QED
    BY <2>1, <2>2, <2>3 DEF CheckoutInv, OneInProgress, Init
<1>2. CheckoutInv /\ [Next]_vars => CheckoutInv'
  <2> SUFFICES ASSUME CheckoutInv, [Next]_vars PROVE CheckoutInv'
    OBVIOUS
  <2>1. TypeOK'
    BY TypeStep DEF CheckoutInv
  <2> QED
    BY <2>1, PrepareInductive, ResumeInductive, CallInductive, StoreInductive,
       ExpireRejectedInductive, SettleInductive, WebhookInductive, TickInductive DEF Next, Step
<1> QED
  BY <1>1, <1>2, PTL DEF Spec

\* Two sessions that could both be paid are never in the owner's hands, unless a
\* request that overlaps another of its key has taken back through its stale
\* object what the other had recorded.
THEOREM OneSession == Spec => []OnePayableUnlessUndone
<1>1. CheckoutInv => OnePayableUnlessUndone
  BY DEF CheckoutInv, OnePayableUnlessUndone, OnePayable, OneInProgress, RowInv, InProgress
<1> QED
  BY <1>1, CheckoutInvariant, PTL

-----------------------------------------------------------------------------
(***************************************************************************)
(* Payments.                                                               *)
(***************************************************************************)

Announced(k) == [kind : {"completed", "subscription"}, key : {k}]

\* A session belongs to an attempt; a payment of which a webhook has been
\* processed is recorded, unless it has been taken back.
PaymentInv(k) ==
    /\ stripe[k].status # "none" => checkouts[k].status # "none"
    /\ ~undone /\ stripe[k].status = "paid" /\ ~(Announced(k) \subseteq events) =>
          checkouts[k].status = "complete"

\* A step that changes neither sessions nor events, and of the rows none that is
\* complete, unless it says so.
LEMMA PaymentStep ==
    ASSUME NEW k \in Keys, PaymentInv(k), UNCHANGED <<stripe, events>>,
           undone => undone',
           checkouts[k].status # "none" => checkouts'[k].status # "none",
           ~undone' /\ checkouts[k].status = "complete" => checkouts'[k].status = "complete"
    PROVE  PaymentInv(k)'
BY DEF PaymentInv, Announced

\* Local expiry leaves recorded payments recorded; storing an answer and expiring
\* a rejected attempt do, or the history shows it.
LEMMA RequestKeepsPayments ==
    ASSUME CheckoutInv, NEW k \in Keys, PaymentInv(k), NEW r \in Requests,
           Prepare(r) \/ Resume(r) \/ Store(r) \/ ExpireRejected(r)
    PROVE  PaymentInv(k)'
<1>1. /\ checkouts[k] \in Row /\ K(r) \in Keys /\ RequestInv(r) /\ clock \in Nat
      /\ checkouts \in [Keys -> Row]
  BY KeyType DEF CheckoutInv, TypeOK
<1>2. Fresh(checkouts[k]).status \in {"none", "complete"} <=>
         checkouts[k].status \in {"none", "complete"}
  BY <1>1 DEF Fresh, InProgress, Row
<1>3. checkouts[k].status \in {"none", "complete"} => Fresh(checkouts[k]) = checkouts[k]
  BY DEF Fresh, InProgress
<1>4. CASE Prepare(r)
  <2>1. checkouts'[k] = IF k = K(r) THEN [status |-> "pending", url |-> FALSE,
                                          expires |-> clock + SessionLength]
                        ELSE Fresh(checkouts[k])
    BY <1>1, <1>4 DEF Prepare
  <2>2. k = K(r) => checkouts[k].status = "none"
    BY <1>4 DEF Prepare, Admissible
  <2> QED
    BY <1>2, <1>3, <1>4, <2>1, <2>2, PaymentStep DEF Prepare
<1>5. CASE Resume(r)
  <2>1. checkouts'[k] = Fresh(checkouts[k])
    BY <1>5 DEF Resume
  <2> QED
    BY <1>2, <1>3, <1>5, <2>1, PaymentStep DEF Resume
<1>6. CASE Store(r)
  <2>1. Stored(r).status = "open"
    BY <1>1, <1>6 DEF Store, Stored, RequestInv, At
  <2>2. \/ checkouts'[k] = checkouts[k] /\ (undone => undone')
        \/ /\ k = K(r) /\ checkouts'[k].status = "open"
           /\ undone' = (undone \/ TakesBack(checkouts[k], checkouts'[k]))
    BY <1>1, <1>6, <2>1 DEF Store, Record
  <2>3. UNCHANGED <<stripe, events>>
    BY <1>6 DEF Store
  <2> QED
    BY <2>2, <2>3, PaymentStep DEF TakesBack
<1>7. CASE ExpireRejected(r)
  <2>1. [checkouts[K(r)] EXCEPT !.status = "expired", !.expires = clock].status = "expired"
    BY <1>1 DEF Row
  <2>2. \/ checkouts'[k] = checkouts[k] /\ (undone => undone')
        \/ /\ k = K(r) /\ checkouts'[k].status = "expired"
           /\ undone' = (undone \/ TakesBack(checkouts[k], checkouts'[k]))
    BY <1>1, <1>7, <2>1 DEF ExpireRejected, Record
  <2>3. UNCHANGED <<stripe, events>>
    BY <1>7 DEF ExpireRejected
  <2> QED
    BY <2>2, <2>3, PaymentStep DEF TakesBack
<1> QED
  BY <1>4, <1>5, <1>6, <1>7

\* Calls create sessions for attempts that exist.
LEMMA CallKeepsPayments ==
    ASSUME CheckoutInv, NEW k \in Keys, PaymentInv(k), NEW r \in Requests,
           CallAnswered(r) \/ CallRejected(r) \/ CallLost(r) \/ Crash(r)
    PROVE  PaymentInv(k)'
<1>1. K(r) \in Keys /\ RequestInv(r) /\ stripe \in [Keys -> Remote]
  BY KeyType DEF CheckoutInv, TypeOK
<1>2. UNCHANGED <<checkouts, events, undone>>
  BY DEF CallAnswered, CallRejected, CallLost, Crash
<1>3. CASE UNCHANGED stripe
  BY <1>2, <1>3, PaymentStep
<1>4. CASE Created(r) /\ ~At(r, "idle")
  <2>1. stripe'[k] = stripe[k] \/ (k = K(r) /\ stripe'[k].status = "open")
    BY <1>1, <1>4 DEF Created
  <2> QED
    BY <1>1, <1>2, <1>4, <2>1 DEF PaymentInv, Announced, RequestInv
<1> QED
  BY <1>3, <1>4 DEF CallAnswered, CallRejected, CallLost, Crash, At

\* A payment announces itself twice, and either webhook records it.
LEMMA WebhookKeepsPayments ==
    ASSUME CheckoutInv, NEW k \in Keys, PaymentInv(k), NEW j \in Keys,
           Pay(j) \/ SessionExpires(j) \/ Webhook(j)
    PROVE  PaymentInv(k)'
<1>1. /\ stripe \in [Keys -> Remote] /\ stripe[k] \in Remote /\ checkouts \in [Keys -> Row]
      /\ checkouts[k] \in Row /\ \A e \in events : e \in Event /\ EventInv(e)
  BY DEF CheckoutInv, TypeOK
<1>2. CASE Pay(j)
  <2>1. CASE k = j
    BY <1>1, <1>2, <2>1 DEF Pay, Payable, PaymentInv, Announced, Remote
  <2>2. CASE k # j
    <3>1. stripe'[k] = stripe[k] /\ UNCHANGED <<checkouts, undone>> /\ events \subseteq events'
      BY <1>1, <1>2, <2>2 DEF Pay
    <3> QED
      BY <3>1 DEF PaymentInv
  <2> QED
    BY <2>1, <2>2
<1>3. CASE SessionExpires(j)
  <2>1. UNCHANGED <<checkouts, undone>> /\ events \subseteq events'
    BY <1>3 DEF SessionExpires
  <2>2. stripe'[k] = stripe[k]
        \/ (stripe[k].status = "open" /\ stripe'[k].status = "expired")
    BY <1>1, <1>3 DEF SessionExpires, Remote
  <2> QED
    BY <2>1, <2>2 DEF PaymentInv
<1>4. CASE CheckoutCompleted(j) \/ SubscriptionSynced(j)
  <2>1. UNCHANGED <<stripe, undone>>
    BY <1>4 DEF CheckoutCompleted, SubscriptionSynced
  <2>2. CASE k = j
    <3>1. checkouts'[k].status = "complete"
      BY <1>1, <1>4, <2>2 DEF CheckoutCompleted, SubscriptionSynced, Completed, Row
    <3> QED
      BY <2>1, <3>1 DEF PaymentInv
  <2>3. CASE k # j
    <3>1. checkouts'[k] = checkouts[k]
      BY <1>1, <1>4, <2>3 DEF CheckoutCompleted, SubscriptionSynced
    <3>2. Announced(k) \subseteq events => Announced(k) \subseteq events'
      BY <1>4, <2>3 DEF CheckoutCompleted, SubscriptionSynced, Announced
    <3> QED
      BY <2>1, <3>1, <3>2 DEF PaymentInv
  <2> QED
    BY <2>2, <2>3
<1>5. CASE CheckoutExpired(j)
  <2>1. UNCHANGED <<stripe, undone>>
    BY <1>5 DEF CheckoutExpired
  <2>2. Announced(k) \subseteq events => Announced(k) \subseteq events'
    BY <1>5 DEF CheckoutExpired, Announced
  <2>3. stripe[j].status = "expired"
    <3>1. [kind |-> "expired", key |-> j] \in events
      BY <1>5 DEF CheckoutExpired
    <3> QED
      BY <1>1, <3>1 DEF EventInv
  <2>4. checkouts'[k] = checkouts[k] \/ (k = j /\ checkouts'[k].status = "expired")
    BY <1>1, <1>5 DEF CheckoutExpired, Row
  <2> QED
    BY <2>1, <2>2, <2>3, <2>4 DEF PaymentInv
<1> QED
  BY <1>2, <1>3, <1>4, <1>5 DEF Webhook

\* Every step keeps what is known of payments.
LEMMA PaymentsInductive ==
    ASSUME CheckoutInv, [Next]_vars, NEW k \in Keys, PaymentInv(k)
    PROVE  PaymentInv(k)'
<1>1. CASE Tick \/ UNCHANGED vars
  BY <1>1, PaymentStep DEF Tick, vars
<1>2. CASE \E r \in Requests : Prepare(r) \/ Resume(r) \/ Step(r) \/ Crash(r)
  BY <1>2, RequestKeepsPayments, CallKeepsPayments DEF Step
<1>3. CASE \E j \in Keys : Pay(j) \/ SessionExpires(j) \/ Webhook(j)
  BY <1>3, WebhookKeepsPayments
<1> QED
  BY <1>1, <1>2, <1>3 DEF Next

\* Sessions, payments and their webhooks stay tied to the attempts they are of.
THEOREM PaymentInvariant == Spec => [](CheckoutInv /\ \A k \in Keys : PaymentInv(k))
<1>1. Init => \A k \in Keys : PaymentInv(k)
  BY DEF Init, PaymentInv
<1>2. /\ CheckoutInv /\ (\A k \in Keys : PaymentInv(k)) /\ [Next]_vars
      => (\A k \in Keys : PaymentInv(k))'
  BY PaymentsInductive
<1> QED
  BY <1>1, <1>2, CheckoutInvariant, PTL DEF Spec

\* An attempt begins only in Prepare, which refuses it as soon as a webhook has
\* reported any payment.
LEMMA BeginsUnpaid ==
    ASSUME CheckoutInv, \A j \in Keys : PaymentInv(j), [Next]_vars, NEW k \in Keys,
           ~undone, checkouts[k].status = "none", checkouts'[k].status # "none", NEW j \in Keys,
           stripe[j].status = "paid"
    PROVE  Announced(j) \subseteq events
<1>1. checkouts \in [Keys -> Row] /\ checkouts[k] \in Row
  BY DEF CheckoutInv, TypeOK
<1>2. ASSUME NEW r \in Requests, Prepare(r) PROVE Announced(j) \subseteq events
  BY <1>2 DEF Prepare, Admissible, PaymentInv
<1>3. ASSUME NEW r \in Requests, Resume(r) PROVE FALSE
  BY <1>1, <1>3 DEF Resume, Fresh, InProgress
<1>4. ASSUME NEW r \in Requests, Store(r) \/ ExpireRejected(r) PROVE FALSE
  <2>1. RequestInv(r) /\ ~At(r, "idle") /\ K(r) \in Keys
    BY <1>4, KeyType DEF CheckoutInv, Store, ExpireRejected, At
  <2>2. k # K(r)
    BY <2>1 DEF RequestInv
  <2> QED
    BY <1>1, <1>4, <2>1, <2>2 DEF Store, ExpireRejected, Record
<1>5. ASSUME NEW i \in Keys, Webhook(i) PROVE FALSE
  <2>1. stripe[i].status # "none"
    BY <1>5 DEF Webhook, CheckoutCompleted, CheckoutExpired, SubscriptionSynced, CheckoutInv,
                EventInv
  <2>2. i # k
    BY <2>1 DEF PaymentInv
  <2> QED
    BY <1>1, <1>5, <2>2 DEF Webhook, CheckoutCompleted, CheckoutExpired, SubscriptionSynced
<1>6. CASE UNCHANGED checkouts
  BY <1>6
<1> QED
  BY <1>2, <1>3, <1>4, <1>5, <1>6 DEF Next, Step, CallAnswered, CallRejected, CallLost, Crash,
     Pay, SessionExpires, Tick, vars

\* No attempt begins once a webhook has reported a payment, for any number of
\* keys and requests, unless a stale request has taken the report back.
THEOREM NoSecondPurchase == Spec => RefusedOncePaid
<1>1. /\ CheckoutInv /\ (\A k \in Keys : PaymentInv(k)) /\ [Next]_vars
      => [\A k \in Keys :
            ~undone /\ checkouts[k].status = "none" /\ checkouts'[k].status # "none" =>
               \A j \in Keys :
                   stripe[j].status = "paid" =>
                       [kind : {"completed", "subscription"}, key : {j}] \subseteq events]_vars
  BY BeginsUnpaid DEF Announced
<1> QED
  BY <1>1, PaymentInvariant, PTL DEF Spec, RefusedOncePaid

=============================================================================
