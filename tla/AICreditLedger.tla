--------------------------- MODULE AICreditLedger ---------------------------
(***************************************************************************)
(* The AI credit ledger of one business: AICreditService                   *)
(* (app/services/ai_credits.py) and AdminAICreditService.adjust            *)
(* (app/services/admin_ai_credits.py).                                     *)
(*                                                                         *)
(* A credit account exists per subscription period.  A request reserves    *)
(* one credit under its idempotency key, and the reservation is later      *)
(* consumed or released.  Administrators move the ceiling of the current   *)
(* period with append-only adjustment rows.                                *)
(*                                                                         *)
(* Every action is one PostgreSQL transaction.  Each takes row locks       *)
(* (SELECT ... FOR UPDATE on the subscription, the entry and the account)  *)
(* before it reads what it decides on and re-checks the idempotency key    *)
(* under the subscription lock, so a transaction is one atomic step.       *)
(* Transactions that raise are rolled back and leave no trace.             *)
(***************************************************************************)
EXTENDS Integers, FiniteSets, FiniteSetsExt

CONSTANTS
    Keys,        \* idempotency keys of reservations
    Periods,     \* subscription periods; each has at most one credit account
    AdjKeys,     \* idempotency keys of administrative adjustments
    BaseLimits,  \* values of the ai_full_responses entitlement's limit_value
    Deltas,      \* adjustment deltas
    NoLimit,     \* limit_value IS NULL: an unlimited entitlement
    NoAccount    \* account of a reservation that does not exist

ASSUME LedgerAssumption ==
    /\ IsFiniteSet(Keys)
    /\ BaseLimits \subseteq Nat \cup {NoLimit}
    /\ Deltas \subseteq Int \ {0}
    /\ NoLimit \notin Int
    /\ NoAccount \notin Periods

VARIABLES
    sub,          \* the current subscription, as evaluated for this request
    accounts,     \* AICreditAccount rows
    entries,      \* AICreditLedgerEntry rows
    adjustments   \* AICreditAdjustmentLedgerEntry rows

ledgerVars == <<sub, accounts, entries, adjustments>>

-----------------------------------------------------------------------------

LedgerStatus == {"none", "reserved", "consumed", "released"}

\* What get_current + evaluate_access + effective_entitlements say: "none" is
\* no current subscription, "inactive" one whose access is not active.
Subscription == [status  : {"none", "inactive", "active"},
                 period  : Periods,
                 enabled : BOOLEAN,
                 limit   : BaseLimits]

Account == [open     : BOOLEAN,
            limit    : Nat \cup {NoLimit},
            reserved : Nat,
            consumed : Nat]

Entry == [status : LedgerStatus, account : Periods \cup {NoAccount}]

Adjustment == [key : AdjKeys, account : Periods, delta : Deltas]

LedgerTypeOK ==
    /\ sub \in Subscription
    /\ accounts \in [Periods -> Account]
    /\ entries \in [Keys -> Entry]
    /\ adjustments \subseteq Adjustment

NoRow == [open |-> FALSE, limit |-> NoLimit, reserved |-> 0, consumed |-> 0]

LedgerInit ==
    /\ sub \in Subscription
    /\ accounts = [p \in Periods |-> NoRow]
    /\ entries = [k \in Keys |-> [status |-> "none", account |-> NoAccount]]
    /\ adjustments = {}

-----------------------------------------------------------------------------

Used(account) == account.reserved + account.consumed

NewAccount == [open |-> TRUE, limit |-> sub.limit, reserved |-> 0, consumed |-> 0]

\* The account of the current period, created on first use.
CurrentAccount == IF accounts[sub.period].open THEN accounts[sub.period] ELSE NewAccount

AdjustmentTotal(p) ==
    MapThenSumSet(LAMBDA a : a.delta, {a \in adjustments : a.account = p})

\* The base limit plus every adjustment of the account.
EffectiveLimit(base, p) ==
    IF base = NoLimit THEN NoLimit ELSE base + AdjustmentTotal(p)

Entitled == sub.status = "active" /\ sub.enabled

\* Faulty variants of Affordable: the last credit is given out twice; the
\* ceiling of an earlier transaction is trusted.
AffordableOffByOne(limit) == limit \in Nat /\ Used(CurrentAccount) <= limit

AffordableStale(limit) ==
    CurrentAccount.limit \in Nat => Used(CurrentAccount) < CurrentAccount.limit

\* A negative effective limit raises AICreditIntegrityError.
Affordable(limit) == limit \in Nat /\ Used(CurrentAccount) < limit

Reservable ==
    /\ Entitled
    /\ sub.limit = NoLimit \/ Affordable(EffectiveLimit(sub.limit, sub.period))

\* Faulty variant: the adjustments are left out of the materialized limit.
ChargedIgnoringAdjustments ==
    [CurrentAccount EXCEPT !.limit = sub.limit, !.reserved = @ + 1]

\* The current account with one more reservation and its limit materialized.
ChargedAccount ==
    [CurrentAccount EXCEPT !.limit = EffectiveLimit(sub.limit, sub.period),
                           !.reserved = @ + 1]

\* Reserve one credit under a key that has no entry; a key that has one is
\* replayed and changes nothing.
Reserve(k) ==
    /\ entries[k].status = "none"
    /\ Reservable
    /\ accounts' = [accounts EXCEPT ![sub.period] = ChargedAccount]
    /\ entries' = [entries EXCEPT ![k] = [status |-> "reserved",
                                          account |-> sub.period]]
    /\ UNCHANGED <<sub, adjustments>>

\* Faulty variant: any entry can be settled while the account has reservations.
HoldsSettled(k) ==
    entries[k].status # "none" /\ accounts[entries[k].account].reserved >= 1

\* Settle a reservation: a settled one is replayed (same outcome) or raises
\* AICreditStateConflictError (the other outcome), and changes nothing.
Holds(k) ==
    /\ entries[k].status = "reserved"
    /\ accounts[entries[k].account].reserved >= 1

Consumed(account) == [account EXCEPT !.reserved = @ - 1, !.consumed = @ + 1]

Released(account) == [account EXCEPT !.reserved = @ - 1]

Consume(k) ==
    /\ Holds(k)
    /\ accounts' = [accounts EXCEPT ![entries[k].account] = Consumed(@)]
    /\ entries' = [entries EXCEPT ![k].status = "consumed"]
    /\ UNCHANGED <<sub, adjustments>>

Release(k) ==
    /\ Holds(k)
    /\ accounts' = [accounts EXCEPT ![entries[k].account] = Released(@)]
    /\ entries' = [entries EXCEPT ![k].status = "released"]
    /\ UNCHANGED <<sub, adjustments>>

\* An administrator moves the ceiling of the current period.  The key of an
\* existing adjustment is replayed or raises a conflict; an unlimited
\* entitlement cannot be adjusted; neither side may fall below the usage.
Adjust(key, delta) ==
    LET before == EffectiveLimit(sub.limit, sub.period)
        used   == Used(CurrentAccount)
    IN  /\ \A a \in adjustments : a.key # key
        /\ Entitled
        /\ sub.limit # NoLimit
        /\ before \in Nat /\ before >= used
        /\ before + delta >= used
        /\ accounts' = [accounts EXCEPT ![sub.period] =
                           [CurrentAccount EXCEPT !.limit = before + delta]]
        /\ adjustments' = adjustments \cup
              {[key |-> key, account |-> sub.period, delta |-> delta]}
        /\ UNCHANGED <<sub, entries>>

\* Billing webhooks, plan changes and the passing of a period boundary change
\* what the next transaction finds.
SyncSubscription ==
    /\ sub' \in Subscription
    /\ sub' # sub
    /\ UNCHANGED <<accounts, entries, adjustments>>

LedgerNext ==
    \/ \E k \in Keys : Reserve(k) \/ Consume(k) \/ Release(k)
    \/ \E key \in AdjKeys, delta \in Deltas : Adjust(key, delta)
    \/ SyncSubscription

LedgerSpec == LedgerInit /\ [][LedgerNext]_ledgerVars

-----------------------------------------------------------------------------
(***************************************************************************)
(* Properties.                                                             *)
(***************************************************************************)

InAccount(p, status) ==
    {k \in Keys : entries[k].status = status /\ entries[k].account = p}

\* The counters of every account count its ledger entries: reserved_count the
\* reserved ones, consumed_count the consumed ones.  The counters and the
\* entries are written by four different transactions (reserve, consume,
\* release and the inlined settlements of AIExecutionService).
Conservation ==
    \A p \in Periods :
        /\ accounts[p].reserved = Cardinality(InAccount(p, "reserved"))
        /\ accounts[p].consumed = Cardinality(InAccount(p, "consumed"))

\* Reserved plus consumed credits never exceed the materialized ceiling, so
\* ck_ai_credit_accounts_balance can reject none of the transactions, whatever
\* plan changes and adjustments come between them.
Ceiling ==
    \A p \in Periods : accounts[p].limit = NoLimit \/ Used(accounts[p]) <= accounts[p].limit

\* limit_value is no independent source of truth: it is always some base limit
\* of the plan plus the sum of the account's immutable adjustment rows.
Materialized ==
    \A p \in Periods : accounts[p].open =>
        \E base \in BaseLimits : accounts[p].limit = EffectiveLimit(base, p)

\* A ledger entry goes from reserved to consumed or released and never moves
\* again, and it never changes the account it is charged to.
SettlesOnce ==
    [][\A k \in Keys : entries'[k] # entries[k] =>
           \/ entries[k].status = "none" /\ entries'[k].status = "reserved"
           \/ /\ entries[k].status = "reserved"
              /\ entries'[k].status \in {"consumed", "released"}
              /\ entries'[k].account = entries[k].account]_ledgerVars

\* A step that grows an account's usage leaves it within the ceiling that the
\* entitlement and the adjustments in force at that moment give.
ReservesWithinLimit ==
    [][\A p \in Periods : Used(accounts'[p]) > Used(accounts[p]) =>
           /\ p = sub.period
           /\ \/ sub.limit = NoLimit
              \/ Used(accounts'[p]) <= sub.limit + AdjustmentTotal(p)]_ledgerVars

=============================================================================
