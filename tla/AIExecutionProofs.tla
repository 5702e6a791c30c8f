-------------------------- MODULE AIExecutionProofs --------------------------
(***************************************************************************)
(* Proofs about AICreditLedger and about AIExecution, which drives it: the *)
(* ledger first, for every set of keys, periods, limits and deltas, then   *)
(* execution, for every number of requests and whichever way the locking   *)
(* SELECTs read.                                                           *)
(***************************************************************************)
EXTENDS AIExecution, FiniteSetTheorems, WellFoundedInduction, TLAPS

-----------------------------------------------------------------------------
(***************************************************************************)
(* The ledger.                                                             *)
(***************************************************************************)

\* Every entry is charged to an account.
Charged == \A k \in Keys : entries[k].status # "none" => entries[k].account \in Periods

\* An account that does not exist carries no credits.
Dormant == \A p \in Periods : ~accounts[p].open => accounts[p] = NoRow

\* The inductive invariant of the ledger.
LedgerInv == LedgerTypeOK /\ Charged /\ Dormant /\ Conservation /\ Ceiling

-----------------------------------------------------------------------------

\* The account a transaction works on is well-formed.
LEMMA CurrentAccountType ==
    ASSUME LedgerTypeOK
    PROVE  CurrentAccount \in Account
<1>1. NewAccount \in Account
  BY LedgerAssumption DEF LedgerTypeOK, NewAccount, Account, Subscription
<1> QED
  BY <1>1 DEF LedgerTypeOK, CurrentAccount, Subscription

\* An account with one more reservation is well-formed when the limit allows it.
LEMMA ChargedAccountType ==
    ASSUME LedgerTypeOK, Reservable
    PROVE  ChargedAccount \in Account
<1> DEFINE limit == EffectiveLimit(sub.limit, sub.period)
<1>1. limit \in Nat \cup {NoLimit}
  BY DEF Reservable, Affordable, EffectiveLimit
<1> HIDE DEF limit
<1>2. CurrentAccount \in Account
  BY CurrentAccountType
<1>3. CurrentAccount.reserved + 1 \in Nat
  BY <1>2 DEF Account
<1>4. \A l \in Nat \cup {NoLimit}, x \in Nat :
          [CurrentAccount EXCEPT !.limit = l, !.reserved = x] \in Account
  BY <1>2 DEF Account
<1> QED
  BY <1>1, <1>3, <1>4, Zenon DEF ChargedAccount, limit

\* Settling a reservation leaves an account well-formed.
LEMMA SettledAccountType ==
    ASSUME NEW a \in Account, a.reserved >= 1
    PROVE  /\ Consumed(a) \in Account
           /\ Released(a) \in Account
<1>1. \A x, y \in Nat : /\ [a EXCEPT !.reserved = x, !.consumed = y] \in Account
                        /\ [a EXCEPT !.reserved = x] \in Account
  BY DEF Account
<1>2. a.reserved - 1 \in Nat /\ a.consumed + 1 \in Nat
  BY DEF Account
<1> QED
  BY <1>1, <1>2, Zenon DEF Consumed, Released

\* The transactions of the ledger preserve the types of its rows.
LEMMA TypeInductive ==
    ASSUME LedgerTypeOK, [LedgerNext]_ledgerVars
    PROVE  LedgerTypeOK'
<1>1. CASE UNCHANGED ledgerVars
  BY <1>1 DEF ledgerVars, LedgerTypeOK
<1>2. ASSUME NEW k \in Keys, Reserve(k)
      PROVE  LedgerTypeOK'
  <2>1. Reservable
    BY <1>2 DEF Reserve
  <2>2. ChargedAccount \in Account
    BY <2>1, ChargedAccountType
  <2> QED
    BY <1>2, <2>2 DEF Reserve, LedgerTypeOK, Subscription, Entry, LedgerStatus
<1>3. ASSUME NEW k \in Keys, Consume(k)
      PROVE  LedgerTypeOK'
  <2> DEFINE p == entries[k].account
  <2>1. p \in Periods => Consumed(accounts[p]) \in Account
    BY <1>3, SettledAccountType DEF Consume, Holds, LedgerTypeOK
  <2>2. accounts' = [accounts EXCEPT ![p] = Consumed(accounts[p])]
    BY <1>3 DEF Consume
  <2>3. accounts' \in [Periods -> Account]
    BY <2>1, <2>2 DEF LedgerTypeOK
  <2> QED
    BY <1>3, <2>3 DEF Consume, LedgerTypeOK, Entry, LedgerStatus
<1>4. ASSUME NEW k \in Keys, Release(k)
      PROVE  LedgerTypeOK'
  <2> DEFINE p == entries[k].account
  <2>1. p \in Periods => Released(accounts[p]) \in Account
    BY <1>4, SettledAccountType DEF Release, Holds, LedgerTypeOK
  <2>2. accounts' = [accounts EXCEPT ![p] = Released(accounts[p])]
    BY <1>4 DEF Release
  <2>3. accounts' \in [Periods -> Account]
    BY <2>1, <2>2 DEF LedgerTypeOK
  <2> QED
    BY <1>4, <2>3 DEF Release, LedgerTypeOK, Entry, LedgerStatus
<1>5. ASSUME NEW key \in AdjKeys, NEW delta \in Deltas, Adjust(key, delta)
      PROVE  LedgerTypeOK'
  <2> DEFINE before == EffectiveLimit(sub.limit, sub.period)
             used   == Used(CurrentAccount)
             after  == [CurrentAccount EXCEPT !.limit = before + delta]
  <2>1. CurrentAccount \in Account /\ used \in Nat
    BY CurrentAccountType DEF Used, Account
  <2>2. before \in Nat /\ before + delta >= used
    BY <1>5 DEF Adjust
  <2>3. delta \in Int
    BY LedgerAssumption
  <2>4. before + delta \in Nat
    <3> HIDE DEF before, used
    <3> QED BY <2>1, <2>2, <2>3
  <2>5. after \in Account
    <3> HIDE DEF before, used
    <3> QED BY <2>1, <2>4 DEF Account
  <2>6. [key |-> key, account |-> sub.period, delta |-> delta] \in Adjustment
    BY DEF Adjustment, LedgerTypeOK, Subscription
  <2>7. /\ accounts' = [accounts EXCEPT ![sub.period] = after]
        /\ adjustments' = adjustments \cup
              {[key |-> key, account |-> sub.period, delta |-> delta]}
        /\ UNCHANGED <<sub, entries>>
    BY <1>5 DEF Adjust
  <2> HIDE DEF after
  <2> QED
    BY <2>5, <2>6, <2>7 DEF LedgerTypeOK, Subscription
<1>6. CASE SyncSubscription
  BY <1>6 DEF SyncSubscription, LedgerTypeOK
<1> QED
  BY <1>1, <1>2, <1>3, <1>4, <1>5, <1>6 DEF LedgerNext

\* Type correctness of the ledger: the counters of reserve, consume, release
\* and adjust (ai_credits.py, admin_ai_credits.py) never become negative and
\* every row stays well-formed, for every set of keys, periods and limits.
THEOREM TypeCorrect == LedgerSpec => []LedgerTypeOK
<1>1. LedgerInit => LedgerTypeOK
  BY DEF LedgerInit, LedgerTypeOK, NoRow, Account, Entry, LedgerStatus
<1>2. LedgerTypeOK /\ [LedgerNext]_ledgerVars => LedgerTypeOK'
  BY TypeInductive
<1> QED
  BY <1>1, <1>2, PTL DEF LedgerSpec

-----------------------------------------------------------------------------

\* The entries of an account are finitely many.
LEMMA InAccountFinite ==
    ASSUME NEW p, NEW status
    PROVE  IsFiniteSet(InAccount(p, status))
<1>1. InAccount(p, status) \subseteq Keys
  BY DEF InAccount
<1> QED
  BY <1>1, LedgerAssumption, FS_Subset

\* A new account starts with the counters of the row it stands in for.
LEMMA CurrentAccountCounts ==
    ASSUME LedgerTypeOK, Dormant
    PROVE  /\ CurrentAccount.reserved = accounts[sub.period].reserved
           /\ CurrentAccount.consumed = accounts[sub.period].consumed
  BY DEF LedgerTypeOK, Dormant, CurrentAccount, NewAccount, NoRow, Subscription

\* What Reserve writes into the account.
LEMMA ChargedAccountCounts ==
    ASSUME LedgerTypeOK
    PROVE  /\ ChargedAccount.open
           /\ ChargedAccount.limit = EffectiveLimit(sub.limit, sub.period)
           /\ ChargedAccount.reserved = CurrentAccount.reserved + 1
           /\ ChargedAccount.consumed = CurrentAccount.consumed
<1>1. CurrentAccount \in Account
  BY CurrentAccountType
<1>2. CurrentAccount.open
  BY DEF CurrentAccount, NewAccount
<1> QED
  BY <1>1, <1>2 DEF ChargedAccount, Account

\* What Consume and Release write into the account.
LEMMA SettledAccountCounts ==
    ASSUME NEW a \in Account
    PROVE  /\ Consumed(a).open = a.open /\ Released(a).open = a.open
           /\ Consumed(a).limit = a.limit /\ Released(a).limit = a.limit
           /\ Consumed(a).reserved = a.reserved - 1 /\ Released(a).reserved = a.reserved - 1
           /\ Consumed(a).consumed = a.consumed + 1 /\ Released(a).consumed = a.consumed
  BY DEF Consumed, Released, Account

\* Reserve preserves the invariant: one more entry, one more credit held.
LEMMA ReserveInductive ==
    ASSUME LedgerInv, NEW k \in Keys, Reserve(k)
    PROVE  LedgerInv'
<1>0. LedgerTypeOK /\ LedgerTypeOK'
  BY TypeInductive DEF LedgerInv, LedgerNext
<1>1. PICK q \in Periods : q = sub.period
  BY <1>0 DEF LedgerTypeOK, Subscription
<1>2. /\ accounts' = [accounts EXCEPT ![q] = ChargedAccount]
      /\ entries[k].status = "none"
      /\ entries' = [entries EXCEPT ![k] = [status |-> "reserved", account |-> q]]
  BY <1>1 DEF Reserve
<1>3. \A p \in Periods : accounts'[p] = IF p = q THEN ChargedAccount ELSE accounts[p]
  BY <1>0, <1>2 DEF LedgerTypeOK
<1>4. /\ ChargedAccount.open
      /\ ChargedAccount.limit = EffectiveLimit(sub.limit, sub.period)
      /\ ChargedAccount.reserved = accounts[q].reserved + 1
      /\ ChargedAccount.consumed = accounts[q].consumed
  BY <1>0, <1>1, ChargedAccountCounts, CurrentAccountCounts DEF LedgerInv
<1>5. Charged'
  BY <1>0, <1>2 DEF LedgerInv, Charged, LedgerTypeOK
<1>6. Dormant'
  BY <1>3, <1>4 DEF LedgerInv, Dormant, NoRow
<1>7. Conservation'
  <2>1. /\ InAccount(q, "reserved")' = InAccount(q, "reserved") \cup {k}
        /\ k \notin InAccount(q, "reserved")
    BY <1>0, <1>2 DEF InAccount, LedgerTypeOK
  <2>2. \A p \in Periods : p # q => InAccount(p, "reserved")' = InAccount(p, "reserved")
    BY <1>0, <1>2 DEF InAccount, LedgerTypeOK
  <2>3. \A p \in Periods : InAccount(p, "consumed")' = InAccount(p, "consumed")
    BY <1>0, <1>2 DEF InAccount, LedgerTypeOK
  <2>4. Cardinality(InAccount(q, "reserved")') = Cardinality(InAccount(q, "reserved")) + 1
    BY <2>1, InAccountFinite, FS_AddElement
  <2> QED
    BY <1>0, <1>3, <1>4, <2>2, <2>3, <2>4 DEF LedgerInv, Conservation
<1>8. Ceiling'
  <2>1. \/ ChargedAccount.limit = NoLimit
        \/ ChargedAccount.limit \in Nat /\ Used(CurrentAccount) < ChargedAccount.limit
    BY <1>4 DEF Reserve, Reservable, Affordable, EffectiveLimit
  <2>2. Used(ChargedAccount) = Used(CurrentAccount) + 1 /\ Used(CurrentAccount) \in Nat
    BY <1>0, ChargedAccountCounts, CurrentAccountType DEF Used, Account
  <2>3. ChargedAccount.limit = NoLimit \/ Used(ChargedAccount) <= ChargedAccount.limit
    BY <2>1, <2>2
  <2> QED
    BY <1>3, <2>3 DEF LedgerInv, Ceiling
<1> QED
  BY <1>0, <1>5, <1>6, <1>7, <1>8 DEF LedgerInv

\* Consume preserves the invariant: a reserved entry becomes a consumed one.
LEMMA ConsumeInductive ==
    ASSUME LedgerInv, NEW k \in Keys, Consume(k)
    PROVE  LedgerInv'
<1>0. LedgerTypeOK /\ LedgerTypeOK'
  BY TypeInductive DEF LedgerInv, LedgerNext
<1>1. PICK q \in Periods : q = entries[k].account
  BY DEF LedgerInv, Charged, Consume, Holds
<1>2. /\ accounts' = [accounts EXCEPT ![q] = Consumed(accounts[q])]
      /\ entries[k].status = "reserved" /\ entries[k].account = q
      /\ entries' = [entries EXCEPT ![k].status = "consumed"]
      /\ accounts[q].reserved >= 1
  BY <1>1 DEF Consume, Holds
<1>3. \A p \in Periods : accounts'[p] = IF p = q THEN Consumed(accounts[q]) ELSE accounts[p]
  BY <1>0, <1>1, <1>2 DEF LedgerTypeOK
<1>4. /\ Consumed(accounts[q]).open = accounts[q].open
      /\ Consumed(accounts[q]).limit = accounts[q].limit
      /\ Consumed(accounts[q]).reserved = accounts[q].reserved - 1
      /\ Consumed(accounts[q]).consumed = accounts[q].consumed + 1
  BY <1>0, <1>1, SettledAccountCounts DEF LedgerTypeOK
<1>5. Charged'
  BY <1>0, <1>1, <1>2 DEF LedgerInv, Charged, LedgerTypeOK, Entry
<1>6. Dormant'
  <2>1. accounts[q].open
    BY <1>1, <1>2 DEF LedgerInv, Dormant, NoRow
  <2> QED
    BY <1>3, <1>4, <2>1 DEF LedgerInv, Dormant
<1>7. Conservation'
  <2>1. /\ InAccount(q, "reserved")' = InAccount(q, "reserved") \ {k}
        /\ k \in InAccount(q, "reserved")
    BY <1>0, <1>2 DEF InAccount, LedgerTypeOK
  <2>2. \A p \in Periods : p # q => InAccount(p, "reserved")' = InAccount(p, "reserved")
    BY <1>0, <1>2 DEF InAccount, LedgerTypeOK
  <2>3. /\ InAccount(q, "consumed")' = InAccount(q, "consumed") \cup {k}
        /\ k \notin InAccount(q, "consumed")
    BY <1>0, <1>2 DEF InAccount, LedgerTypeOK
  <2>4. \A p \in Periods : p # q => InAccount(p, "consumed")' = InAccount(p, "consumed")
    BY <1>0, <1>2 DEF InAccount, LedgerTypeOK
  <2>5. Cardinality(InAccount(q, "reserved")') = Cardinality(InAccount(q, "reserved")) - 1
    BY <2>1, InAccountFinite, FS_RemoveElement
  <2>6. Cardinality(InAccount(q, "consumed")') = Cardinality(InAccount(q, "consumed")) + 1
    BY <2>3, InAccountFinite, FS_AddElement
  <2> QED
    BY <1>1, <1>3, <1>4, <2>2, <2>4, <2>5, <2>6 DEF LedgerInv, Conservation
<1>8. Ceiling'
  <2>1. accounts[q].reserved \in Nat /\ accounts[q].consumed \in Nat
        /\ accounts[q].limit \in Nat \cup {NoLimit}
    BY <1>0, <1>1 DEF LedgerTypeOK, Account
  <2>2. Used(Consumed(accounts[q])) <= Used(accounts[q])
    BY <1>4, <2>1 DEF Used
  <2>3. accounts[q].limit = NoLimit \/ Used(accounts[q]) <= accounts[q].limit
    BY <1>1 DEF LedgerInv, Ceiling
  <2>4. accounts[q].limit = NoLimit \/ Used(Consumed(accounts[q])) <= accounts[q].limit
    BY <1>4, <2>1, <2>2, <2>3, LedgerAssumption DEF Used
  <2> QED
    BY <1>3, <1>4, <2>4 DEF LedgerInv, Ceiling
<1> QED
  BY <1>0, <1>5, <1>6, <1>7, <1>8 DEF LedgerInv

\* Release preserves the invariant: a reserved entry leaves the account.
LEMMA ReleaseInductive ==
    ASSUME LedgerInv, NEW k \in Keys, Release(k)
    PROVE  LedgerInv'
<1>0. LedgerTypeOK /\ LedgerTypeOK'
  BY TypeInductive DEF LedgerInv, LedgerNext
<1>1. PICK q \in Periods : q = entries[k].account
  BY DEF LedgerInv, Charged, Release, Holds
<1>2. /\ accounts' = [accounts EXCEPT ![q] = Released(accounts[q])]
      /\ entries[k].status = "reserved" /\ entries[k].account = q
      /\ entries' = [entries EXCEPT ![k].status = "released"]
      /\ accounts[q].reserved >= 1
  BY <1>1 DEF Release, Holds
<1>3. \A p \in Periods : accounts'[p] = IF p = q THEN Released(accounts[q]) ELSE accounts[p]
  BY <1>0, <1>1, <1>2 DEF LedgerTypeOK
<1>4. /\ Released(accounts[q]).open = accounts[q].open
      /\ Released(accounts[q]).limit = accounts[q].limit
      /\ Released(accounts[q]).reserved = accounts[q].reserved - 1
      /\ Released(accounts[q]).consumed = accounts[q].consumed
  BY <1>0, <1>1, SettledAccountCounts DEF LedgerTypeOK
<1>5. Charged'
  BY <1>0, <1>1, <1>2 DEF LedgerInv, Charged, LedgerTypeOK, Entry
<1>6. Dormant'
  <2>1. accounts[q].open
    BY <1>1, <1>2 DEF LedgerInv, Dormant, NoRow
  <2> QED
    BY <1>3, <1>4, <2>1 DEF LedgerInv, Dormant
<1>7. Conservation'
  <2>1. /\ InAccount(q, "reserved")' = InAccount(q, "reserved") \ {k}
        /\ k \in InAccount(q, "reserved")
    BY <1>0, <1>2 DEF InAccount, LedgerTypeOK
  <2>2. \A p \in Periods : p # q => InAccount(p, "reserved")' = InAccount(p, "reserved")
    BY <1>0, <1>2 DEF InAccount, LedgerTypeOK
  <2>3. \A p \in Periods : InAccount(p, "consumed")' = InAccount(p, "consumed")
    BY <1>0, <1>2 DEF InAccount, LedgerTypeOK
  <2>5. Cardinality(InAccount(q, "reserved")') = Cardinality(InAccount(q, "reserved")) - 1
    BY <2>1, InAccountFinite, FS_RemoveElement
  <2> QED
    BY <1>1, <1>3, <1>4, <2>2, <2>3, <2>5 DEF LedgerInv, Conservation
<1>8. Ceiling'
  <2>1. accounts[q].reserved \in Nat /\ accounts[q].consumed \in Nat
        /\ accounts[q].limit \in Nat \cup {NoLimit}
    BY <1>0, <1>1 DEF LedgerTypeOK, Account
  <2>2. Used(Released(accounts[q])) <= Used(accounts[q])
    BY <1>4, <2>1 DEF Used
  <2>3. accounts[q].limit = NoLimit \/ Used(accounts[q]) <= accounts[q].limit
    BY <1>1 DEF LedgerInv, Ceiling
  <2>4. accounts[q].limit = NoLimit \/ Used(Released(accounts[q])) <= accounts[q].limit
    BY <1>4, <2>1, <2>2, <2>3, LedgerAssumption DEF Used
  <2> QED
    BY <1>3, <1>4, <2>4 DEF LedgerInv, Ceiling
<1> QED
  BY <1>0, <1>5, <1>6, <1>7, <1>8 DEF LedgerInv

\* Adjust preserves the invariant: it moves the ceiling, not below the usage.
LEMMA AdjustInductive ==
    ASSUME LedgerInv, NEW key \in AdjKeys, NEW delta \in Deltas, Adjust(key, delta)
    PROVE  LedgerInv'
<1>0. LedgerTypeOK /\ LedgerTypeOK'
  BY TypeInductive DEF LedgerInv, LedgerNext
<1>1. PICK q \in Periods : q = sub.period
  BY <1>0 DEF LedgerTypeOK, Subscription
<1> DEFINE limit == EffectiveLimit(sub.limit, sub.period) + delta
           after == [CurrentAccount EXCEPT !.limit = limit]
<1>2. /\ accounts' = [accounts EXCEPT ![q] = after]
      /\ limit >= Used(CurrentAccount)
      /\ UNCHANGED entries
  BY <1>1 DEF Adjust
<1> HIDE DEF limit
<1>3. /\ after.open
      /\ after.limit = limit
      /\ after.reserved = accounts[q].reserved
      /\ after.consumed = accounts[q].consumed
  <2>1. CurrentAccount \in Account /\ CurrentAccount.open
    BY <1>0, CurrentAccountType DEF CurrentAccount, NewAccount
  <2> QED
    BY <1>0, <1>1, <2>1, CurrentAccountCounts DEF LedgerInv, Account
<1> HIDE DEF after
<1>4. \A p \in Periods : accounts'[p] = IF p = q THEN after ELSE accounts[p]
  BY <1>0, <1>1, <1>2 DEF LedgerTypeOK
<1>5. Charged'
  BY <1>2 DEF LedgerInv, Charged
<1>6. Dormant'
  BY <1>3, <1>4 DEF LedgerInv, Dormant
<1>7. Conservation'
  <2>1. \A p, status : InAccount(p, status)' = InAccount(p, status)
    BY <1>2 DEF InAccount
  <2> QED
    BY <1>3, <1>4, <2>1 DEF LedgerInv, Conservation
<1>8. Ceiling'
  <2>1. Used(after) = Used(CurrentAccount)
    BY <1>0, <1>1, <1>3, CurrentAccountCounts DEF LedgerInv, Used
  <2>2. Used(after) <= after.limit
    BY <1>2, <1>3, <2>1
  <2> QED
    BY <1>4, <2>2 DEF LedgerInv, Ceiling
<1> QED
  BY <1>0, <1>5, <1>6, <1>7, <1>8 DEF LedgerInv

\* The invariant is inductive.
LEMMA LedgerInductive ==
    ASSUME LedgerInv, [LedgerNext]_ledgerVars
    PROVE  LedgerInv'
<1>1. CASE UNCHANGED ledgerVars
  BY <1>1 DEF ledgerVars, LedgerInv, LedgerTypeOK, Charged, Dormant, Conservation,
              InAccount, Ceiling
<1>2. CASE SyncSubscription
  <2>1. LedgerTypeOK'
    BY <1>2, TypeInductive DEF LedgerInv, LedgerNext
  <2> QED
    BY <1>2, <2>1 DEF SyncSubscription, LedgerInv, Charged, Dormant, Conservation,
                      InAccount, Ceiling
<1> QED
  BY <1>1, <1>2, ReserveInductive, ConsumeInductive, ReleaseInductive, AdjustInductive
     DEF LedgerNext

\* The invariant holds in every reachable state.
THEOREM LedgerInvariant == LedgerSpec => []LedgerInv
<1>1. LedgerInit => LedgerInv
  <2> SUFFICES ASSUME LedgerInit PROVE LedgerInv
    OBVIOUS
  <2>1. LedgerTypeOK
    BY DEF LedgerInit, LedgerTypeOK, NoRow, Account, Entry, LedgerStatus
  <2>2. Charged /\ Dormant
    BY DEF LedgerInit, Charged, Dormant
  <2>3. \A p \in Periods : InAccount(p, "reserved") = {} /\ InAccount(p, "consumed") = {}
    BY DEF LedgerInit, InAccount
  <2>4. Conservation
    BY <2>3, FS_EmptySet DEF LedgerInit, Conservation, NoRow
  <2>5. Ceiling
    BY DEF LedgerInit, Ceiling, NoRow
  <2> QED
    BY <2>1, <2>2, <2>4, <2>5 DEF LedgerInv
<1>2. LedgerInv /\ [LedgerNext]_ledgerVars => LedgerInv'
  BY LedgerInductive
<1> QED
  BY <1>1, <1>2, PTL DEF LedgerSpec

\* The counters of every account count its ledger entries: no transaction of
\* ai_credits.py or admin_ai_credits.py loses or invents a credit.
THEOREM CreditsConserved == LedgerSpec => []Conservation
  BY LedgerInvariant, PTL DEF LedgerInv

\* Reserved plus consumed never exceed the materialized ceiling, whatever plan
\* changes and adjustments come in between: ck_ai_credit_accounts_balance never
\* rejects a transaction.
THEOREM CeilingHolds == LedgerSpec => []Ceiling
  BY LedgerInvariant, PTL DEF LedgerInv

-----------------------------------------------------------------------------

\* A ledger entry leaves "reserved" once and keeps its account: consume and
\* release refuse an entry that is settled.
THEOREM EntriesSettleOnce == LedgerSpec => SettlesOnce
<1> DEFINE Once == \A k \in Keys : entries'[k] # entries[k] =>
              \/ entries[k].status = "none" /\ entries'[k].status = "reserved"
              \/ /\ entries[k].status = "reserved"
                 /\ entries'[k].status \in {"consumed", "released"}
                 /\ entries'[k].account = entries[k].account
<1>1. ASSUME LedgerTypeOK, LedgerNext PROVE Once
  <2>1. ASSUME NEW k \in Keys, Reserve(k) PROVE Once
    BY <1>1, <2>1 DEF Reserve, LedgerTypeOK
  <2>2. ASSUME NEW k \in Keys, Consume(k) \/ Release(k) PROVE Once
    BY <1>1, <2>2 DEF Consume, Release, Holds, LedgerTypeOK, Entry
  <2>3. ASSUME UNCHANGED entries PROVE Once
    BY <2>3
  <2> QED
    BY <1>1, <2>1, <2>2, <2>3 DEF LedgerNext, Adjust, SyncSubscription
<1>2. LedgerTypeOK /\ [LedgerNext]_ledgerVars => [Once]_ledgerVars
  BY <1>1
<1> HIDE DEF Once
<1>3. LedgerSpec => [][Once]_ledgerVars
  BY <1>2, TypeCorrect, PTL DEF LedgerSpec
<1> QED
  BY <1>3 DEF SettlesOnce, Once

\* Usage grows only in the current period and only up to the ceiling that the
\* entitlement and the adjustments give at that moment (the check of reserve
\* under the subscription's row lock).
THEOREM UsageGrowsWithinLimit == LedgerSpec => ReservesWithinLimit
<1> DEFINE Within == \A p \in Periods : Used(accounts'[p]) > Used(accounts[p]) =>
              /\ p = sub.period
              /\ \/ sub.limit = NoLimit
                 \/ Used(accounts'[p]) <= sub.limit + AdjustmentTotal(p)
<1>1. ASSUME LedgerInv, LedgerNext PROVE Within
  <2>0. LedgerTypeOK
    BY <1>1 DEF LedgerInv
  <2>1. ASSUME NEW k \in Keys, Reserve(k), NEW p \in Periods,
               Used(accounts'[p]) > Used(accounts[p])
        PROVE  /\ p = sub.period
               /\ sub.limit = NoLimit \/ Used(accounts'[p]) <= sub.limit + AdjustmentTotal(p)
    <3>1. accounts'[p] = IF p = sub.period THEN ChargedAccount ELSE accounts[p]
      BY <2>0, <2>1 DEF Reserve, LedgerTypeOK
    <3>2. p = sub.period /\ accounts'[p] = ChargedAccount
      <4>1. CASE p # sub.period
        <5>1. Used(accounts[p]) \in Nat
          BY <2>0 DEF LedgerTypeOK, Account, Used
        <5> QED BY <2>1, <3>1, <4>1, <5>1
      <4> QED BY <3>1, <4>1
    <3>3. Used(ChargedAccount) = Used(CurrentAccount) + 1 /\ Used(CurrentAccount) \in Nat
      BY <2>0, ChargedAccountCounts, CurrentAccountType DEF Used, Account
    <3>4. sub.limit # NoLimit =>
              /\ sub.limit + AdjustmentTotal(p) \in Nat
              /\ Used(CurrentAccount) < sub.limit + AdjustmentTotal(p)
      BY <2>1, <3>2 DEF Reserve, Reservable, Affordable, EffectiveLimit
    <3> QED
      BY <3>2, <3>3, <3>4
  <2>2. ASSUME NEW k \in Keys, Consume(k) \/ Release(k), NEW p \in Periods
        PROVE  ~(Used(accounts'[p]) > Used(accounts[p]))
    <3>1. accounts[p] \in Account /\ Used(accounts[p]) \in Nat
      BY <2>0 DEF LedgerTypeOK, Account, Used
    <3>2. \/ accounts'[p] = accounts[p]
          \/ accounts'[p] = Consumed(accounts[p])
          \/ accounts'[p] = Released(accounts[p])
      BY <2>0, <2>2 DEF Consume, Release, LedgerTypeOK
    <3>3. /\ Used(Consumed(accounts[p])) = Used(accounts[p])
          /\ Used(Released(accounts[p])) = Used(accounts[p]) - 1
      BY <3>1, SettledAccountCounts DEF Used, Account
    <3> QED
      BY <3>1, <3>2, <3>3
  <2>3. ASSUME NEW key \in AdjKeys, NEW delta \in Deltas, Adjust(key, delta),
               NEW p \in Periods
        PROVE  ~(Used(accounts'[p]) > Used(accounts[p]))
    <3> DEFINE limit == EffectiveLimit(sub.limit, sub.period) + delta
    <3>1. accounts' = [accounts EXCEPT ![sub.period] = [CurrentAccount EXCEPT !.limit = limit]]
      BY <2>3 DEF Adjust
    <3> HIDE DEF limit
    <3>2. accounts[p] \in Account /\ Used(accounts[p]) \in Nat
      BY <2>0 DEF LedgerTypeOK, Account, Used
    <3>3. /\ [CurrentAccount EXCEPT !.limit = limit].reserved = accounts[sub.period].reserved
          /\ [CurrentAccount EXCEPT !.limit = limit].consumed = accounts[sub.period].consumed
      BY <1>1, <2>0, CurrentAccountType, CurrentAccountCounts DEF LedgerInv, Account
    <3>4. Used(accounts'[p]) = Used(accounts[p])
      BY <2>0, <3>1, <3>3 DEF LedgerTypeOK, Used
    <3> QED
      BY <3>2, <3>4
  <2>4. ASSUME UNCHANGED accounts, NEW p \in Periods
        PROVE  ~(Used(accounts'[p]) > Used(accounts[p]))
    <3>1. Used(accounts[p]) \in Nat
      BY <2>0 DEF LedgerTypeOK, Account, Used
    <3> QED
      BY <2>4, <3>1
  <2> QED
    BY <1>1, <2>1, <2>2, <2>3, <2>4 DEF LedgerNext, SyncSubscription
<1>2. LedgerInv /\ [LedgerNext]_ledgerVars => [Within]_ledgerVars
  BY <1>1
<1> HIDE DEF Within
<1>3. LedgerSpec => [][Within]_ledgerVars
  BY <1>2, LedgerInvariant, PTL DEF LedgerSpec
<1> QED
  BY <1>3 DEF ReservesWithinLimit, Within

-----------------------------------------------------------------------------
(***************************************************************************)
(* Sums of adjustments.  MapThenSumSet is a recursion over the subsets of  *)
(* a set that takes the elements in an arbitrary order.  By induction on   *)
(* the number of elements the recursion has a solution, and the order does *)
(* not matter.                                                             *)
(***************************************************************************)

\* Every non-empty set of natural numbers has a smallest element.
LEMMA NatMin ==
    ASSUME NEW T, T \subseteq Nat, T # {}
    PROVE  \E n \in T : \A m \in T : n <= m
<1> DEFINE R == OpToRel(<, Nat)
<1>1. IsWellFoundedOn(R, Nat)
  BY NatLessThanWellFounded
<1>2. \A m, n \in Nat : <<m, n>> \in R <=> m < n
  BY DEF OpToRel
<1> HIDE DEF R
<1>3. PICK n \in T : \A m \in T : ~(<<m, n>> \in R)
  BY <1>1, WFMin
<1>4. ASSUME NEW m \in T PROVE n <= m
  <2>1. ~(<<m, n>> \in R) /\ m \in Nat /\ n \in Nat
    BY <1>3
  <2>2. ~(m < n)
    BY <1>2, <2>1
  <2> QED
    BY <2>1, <2>2
<1> QED
  BY <1>4

\* Induction on natural numbers, the property given as a set.
LEMMA SetInduction ==
    ASSUME NEW P, 0 \in P, \A n \in Nat : n \in P => n + 1 \in P
    PROVE  Nat \subseteq P
<1> SUFFICES ASSUME Nat \ P # {} PROVE FALSE
  OBVIOUS
<1>1. PICK n \in Nat \ P : \A m \in Nat \ P : n <= m
  BY NatMin
<1>2. n # 0 /\ n - 1 \in Nat
  BY <1>1
<1>3. n - 1 \in P
  BY <1>1, <1>2
<1>4. (n - 1) + 1 \in P
  BY <1>2, <1>3
<1>5. (n - 1) + 1 = n
  BY <1>1
<1> QED
  BY <1>1, <1>4, <1>5

\* The element that a fold over the set s takes first.
Pick(s) == CHOOSE x \in s : TRUE

\* One step of the recursion behind MapThenSumSet, for the deltas of adjustments.
SumStep(f, s) == IF s = {} THEN 0 ELSE Pick(s).delta + f[s \ {Pick(s)}]

\* The sums of all subsets of S.
PartialSums(S) == CHOOSE f : f = [s \in SUBSET S |-> SumStep(f, s)]

SumOfDeltas(S) == MapThenSumSet(LAMBDA a : a.delta, S)

\* MapThenSumSet is the last of the partial sums.
LEMMA SumUnfolds ==
    ASSUME NEW S
    PROVE  SumOfDeltas(S) = PartialSums(S)[S]
BY Zenon DEF SumOfDeltas, MapThenSumSet, MapThenFoldSet, PartialSums, SumStep, Pick

\* A set without one of its elements.
LEMMA Removal ==
    ASSUME NEW S, IsFiniteSet(S), NEW s \in SUBSET S, NEW x \in s
    PROVE  /\ IsFiniteSet(s) /\ Cardinality(s) \in Nat \ {0}
           /\ s \ {x} \in SUBSET S /\ Cardinality(s \ {x}) = Cardinality(s) - 1
<1>1. IsFiniteSet(s)
  BY FS_Subset
<1>2. Cardinality(s) \in Nat /\ Cardinality(s) # 0
  BY <1>1, FS_CardinalityType, FS_EmptySet
<1>3. Cardinality(s \ {x}) = Cardinality(s) - 1
  BY <1>1, FS_RemoveElement
<1> QED
  BY <1>1, <1>2, <1>3

\* A fold takes an element of the set.
LEMMA PickIn == ASSUME NEW s, s # {} PROVE Pick(s) \in s
BY DEF Pick

\* The recursion has a solution: one for the sets of at most n elements gives
\* one for those of n + 1.
LEMMA SumsExist ==
    ASSUME NEW S, IsFiniteSet(S)
    PROVE  \E f : f = [s \in SUBSET S |-> SumStep(f, s)]
<1> DEFINE D(n) == {s \in SUBSET S : Cardinality(s) <= n}
           Solves(f, n) == f = [s \in D(n) |-> SumStep(f, s)]
           P == {n \in Nat : \E f : Solves(f, n)}
<1>1. 0 \in P
  <2> DEFINE f == [s \in D(0) |-> 0]
  <2>1. \A s \in D(0) : s = {}
    <3> SUFFICES ASSUME NEW s \in D(0) PROVE s = {}
      OBVIOUS
    <3>1. IsFiniteSet(s) /\ Cardinality(s) <= 0
      BY FS_Subset
    <3>2. Cardinality(s) = 0
      BY <3>1, FS_CardinalityType
    <3> QED
      BY <3>1, <3>2, FS_EmptySet
  <2>2. \A s \in D(0) : SumStep(f, s) = 0
    BY <2>1 DEF SumStep
  <2>3. Solves(f, 0)
    BY <2>2
  <2> QED
    BY <2>3
<1>2. ASSUME NEW n \in Nat, n \in P PROVE n + 1 \in P
  <2>1. PICK f : Solves(f, n)
    BY <1>2
  <2> DEFINE g == [s \in D(n + 1) |-> SumStep(f, s)]
  <2>2. \A s \in D(n) : s \in D(n + 1) /\ g[s] = f[s]
    <3> SUFFICES ASSUME NEW s \in D(n) PROVE s \in D(n + 1) /\ g[s] = f[s]
      OBVIOUS
    <3>1. Cardinality(s) \in Nat
      BY FS_Subset, FS_CardinalityType
    <3>2. s \in D(n + 1)
      BY <3>1
    <3>3. g[s] = SumStep(f, s)
      BY <3>2
    <3>4. f[s] = SumStep(f, s)
      BY <2>1
    <3> QED
      BY <3>2, <3>3, <3>4
  <2>3. ASSUME NEW s \in D(n + 1) PROVE SumStep(f, s) = SumStep(g, s)
    <3>1. CASE s = {}
      BY <3>1 DEF SumStep
    <3>2. CASE s # {}
      <4>1. Pick(s) \in s
        BY <3>2, PickIn
      <4>2. s \ {Pick(s)} \in D(n)
        BY <4>1, Removal
      <4>3. g[s \ {Pick(s)}] = f[s \ {Pick(s)}]
        BY <2>2, <4>2
      <4> HIDE DEF g
      <4> QED
        BY <4>3 DEF SumStep
    <3> QED
      BY <3>1, <3>2
  <2>4. Solves(g, n + 1)
    BY <2>3, Zenon
  <2>5. n + 1 \in Nat
    OBVIOUS
  <2>6. \E h : Solves(h, n + 1)
    BY <2>4, Zenon
  <2> QED
    BY <2>5, <2>6, Zenon
<1> HIDE DEF P
<1>3. Nat \subseteq P
  BY <1>1, <1>2, SetInduction
<1> USE DEF P
<1>4. Cardinality(S) \in Nat /\ D(Cardinality(S)) = SUBSET S
  BY FS_CardinalityType, FS_Subset
<1>5. PICK f : Solves(f, Cardinality(S))
  BY <1>3, <1>4
<1> QED
  BY <1>4, <1>5

\* So the partial sums satisfy the recursion.
LEMMA SumsSolve ==
    ASSUME NEW S, IsFiniteSet(S)
    PROVE  PartialSums(S) = [s \in SUBSET S |-> SumStep(PartialSums(S), s)]
BY SumsExist, Zenon DEF PartialSums

\* The sum over a set does not depend on the set it is computed in.
LEMMA SumsAgree ==
    ASSUME NEW T, IsFiniteSet(T), NEW S \in SUBSET T
    PROVE  \A s \in SUBSET S : PartialSums(S)[s] = PartialSums(T)[s]
<1> DEFINE P == {n \in Nat : \A s \in SUBSET S : Cardinality(s) = n =>
                    PartialSums(S)[s] = PartialSums(T)[s]}
<1>0. IsFiniteSet(S)
  BY FS_Subset
<1>a. \A s \in SUBSET S : /\ PartialSums(S)[s] = SumStep(PartialSums(S), s)
                          /\ PartialSums(T)[s] = SumStep(PartialSums(T), s)
  BY <1>0, SumsSolve
<1>b. \A s \in SUBSET S : s # {} => Pick(s) \in s
  BY PickIn
<1>1. 0 \in P
  <2>1. \A s \in SUBSET S : Cardinality(s) = 0 => s = {}
    BY <1>0, FS_Subset, FS_EmptySet
  <2> QED
    BY <1>a, <2>1 DEF SumStep
<1>2. ASSUME NEW n \in Nat, n \in P PROVE n + 1 \in P
  <2> SUFFICES ASSUME NEW s \in SUBSET S, Cardinality(s) = n + 1
               PROVE  PartialSums(S)[s] = PartialSums(T)[s]
    OBVIOUS
  <2>1. s # {}
    BY FS_EmptySet
  <2>2. Pick(s) \in s
    BY <2>1, PickIn
  <2>3. s \ {Pick(s)} \in SUBSET S /\ Cardinality(s \ {Pick(s)}) = Cardinality(s) - 1
    BY <1>0, <2>2, Removal
  <2>4. PartialSums(S)[s \ {Pick(s)}] = PartialSums(T)[s \ {Pick(s)}]
    BY <1>2, <2>3
  <2> QED
    BY <1>a, <2>1, <2>4 DEF SumStep
<1> HIDE DEF P
<1>3. Nat \subseteq P
  BY <1>1, <1>2, SetInduction
<1> USE DEF P
<1>4. \A s \in SUBSET S : Cardinality(s) \in Nat
  BY <1>0, FS_Subset, FS_CardinalityType
<1> QED
  BY <1>3, <1>4

\* Sums of integers are integers.
LEMMA SumsAreIntegers ==
    ASSUME NEW S, IsFiniteSet(S), \A a \in S : a.delta \in Int
    PROVE  \A s \in SUBSET S : PartialSums(S)[s] \in Int
<1> DEFINE f == PartialSums(S)
           P == {n \in Nat : \A s \in SUBSET S : Cardinality(s) = n => f[s] \in Int}
<1>a. \A s \in SUBSET S : f[s] = SumStep(f, s)
  BY SumsSolve
<1> HIDE DEF f
<1>1. 0 \in P
  <2>1. \A s \in SUBSET S : Cardinality(s) = 0 => s = {}
    BY FS_Subset, FS_EmptySet
  <2>2. f[{}] = 0
    BY <1>a DEF SumStep
  <2> QED
    BY <2>1, <2>2
<1>2. ASSUME NEW n \in Nat, n \in P PROVE n + 1 \in P
  <2>0. SUFFICES ASSUME NEW s \in SUBSET S, Cardinality(s) = n + 1 PROVE f[s] \in Int
    OBVIOUS
  <2>1. s # {}
    BY <2>0, FS_EmptySet
  <2>2. PICK y \in s : y = Pick(s)
    BY <2>1, PickIn
  <2>3. s \ {y} \in SUBSET S /\ Cardinality(s \ {y}) = Cardinality(s) - 1
    BY <2>2, Removal
  <2>4. f[s \ {y}] \in Int /\ y.delta \in Int
    BY <1>2, <2>0, <2>3
  <2>5. f[s] = y.delta + f[s \ {y}]
    BY <1>a, <2>1, <2>2 DEF SumStep
  <2> QED
    BY <2>4, <2>5
<1> HIDE DEF P
<1>3. Nat \subseteq P
  BY <1>1, <1>2, SetInduction
<1>4. \A s \in SUBSET S : Cardinality(s) \in Nat
  BY FS_Subset, FS_CardinalityType
<1>5. \A s \in SUBSET S : f[s] \in Int
  BY <1>3, <1>4 DEF P
<1> QED
  BY <1>5 DEF f

\* Any element may be taken out first.
LEMMA SumsInAnyOrder ==
    ASSUME NEW S, IsFiniteSet(S), \A a \in S : a.delta \in Int
    PROVE  \A s \in SUBSET S : \A x \in s :
              PartialSums(S)[s] = x.delta + PartialSums(S)[s \ {x}]
<1> DEFINE f == PartialSums(S)
           Fine(s) == \A x \in s : f[s] = x.delta + f[s \ {x}]
           P == {n \in Nat : \A s \in SUBSET S : Cardinality(s) = n => Fine(s)}
<1>a. \A s \in SUBSET S : f[s] = SumStep(f, s)
  BY SumsSolve
<1>b. \A s \in SUBSET S : f[s] \in Int
  BY SumsAreIntegers
<1> HIDE DEF f
<1>1. 0 \in P
  <2>1. \A s \in SUBSET S : Cardinality(s) = 0 => s = {}
    BY FS_Subset, FS_EmptySet
  <2> QED
    BY <2>1
<1>2. ASSUME NEW n \in Nat, n \in P PROVE n + 1 \in P
  <2>0. SUFFICES ASSUME NEW s \in SUBSET S, Cardinality(s) = n + 1, NEW x \in s
                 PROVE  f[s] = x.delta + f[s \ {x}]
    OBVIOUS
  <2>1. s # {}
    OBVIOUS
  <2>2. PICK y \in s : y = Pick(s)
    BY <2>1, PickIn
  <2>3. \A z \in s : s \ {z} \in SUBSET S /\ Cardinality(s \ {z}) = Cardinality(s) - 1
    BY Removal
  <2>4. \A z \in s : Fine(s \ {z})
    BY <1>2, <2>0, <2>3
  <2>5. f[s] = y.delta + f[s \ {y}]
    BY <1>a, <2>1, <2>2 DEF SumStep
  <2>6. CASE x = y
    BY <2>5, <2>6
  <2>7. CASE x # y
    <3>1. x \in s \ {y} /\ y \in s \ {x} /\ (s \ {y}) \ {x} = (s \ {x}) \ {y}
      BY <2>7
    <3>2. f[s \ {y}] = x.delta + f[(s \ {y}) \ {x}] /\ f[s \ {x}] = y.delta + f[(s \ {x}) \ {y}]
      BY <2>4, <3>1
    <3>3. PICK r \in Int : r = f[(s \ {x}) \ {y}]
      BY <1>b
    <3>4. PICK v \in Int, w \in Int : v = x.delta /\ w = y.delta
      OBVIOUS
    <3>5. f[s] = w + (v + r) /\ f[s \ {x}] = w + r
      BY <2>5, <3>1, <3>2, <3>3, <3>4
    <3>6. w + (v + r) = v + (w + r)
      OBVIOUS
    <3> QED
      BY <3>4, <3>5, <3>6
  <2> QED
    BY <2>6, <2>7
<1> HIDE DEF P
<1>3. Nat \subseteq P
  BY <1>1, <1>2, SetInduction
<1>4. \A s \in SUBSET S : Cardinality(s) \in Nat
  BY FS_Subset, FS_CardinalityType
<1>5. \A s \in SUBSET S : Fine(s)
  BY <1>3, <1>4 DEF P
<1> QED
  BY <1>5 DEF f

\* One more element adds its delta.
LEMMA SumAdd ==
    ASSUME NEW S, IsFiniteSet(S), NEW x, x \notin S, \A a \in S \cup {x} : a.delta \in Int
    PROVE  /\ SumOfDeltas(S \cup {x}) = SumOfDeltas(S) + x.delta
           /\ SumOfDeltas(S) \in Int
<1>1. PICK T : T = S \cup {x}
  OBVIOUS
<1>2. /\ IsFiniteSet(T) /\ S \in SUBSET T /\ T \in SUBSET T /\ x \in T /\ T \ {x} = S
      /\ \A a \in T : a.delta \in Int
  BY <1>1, FS_AddElement
<1>3. PartialSums(T)[T] = x.delta + PartialSums(T)[S]
  BY <1>2, SumsInAnyOrder
<1>4. PartialSums(T)[S] = PartialSums(S)[S] /\ PartialSums(T)[S] \in Int
  BY <1>2, SumsAgree, SumsAreIntegers
<1>5. SumOfDeltas(T) = PartialSums(T)[T] /\ SumOfDeltas(S) = PartialSums(S)[S]
  BY SumUnfolds
<1>6. x.delta \in Int
  OBVIOUS
<1>7. SumOfDeltas(T) = SumOfDeltas(S) + x.delta /\ SumOfDeltas(S) \in Int
  BY <1>3, <1>4, <1>5, <1>6
<1> QED
  BY <1>1, <1>7

-----------------------------------------------------------------------------

\* The rows of the account p.
RowsOf(p) == {a \in adjustments : a.account = p}

\* Adjustment rows are finitely many, and limits are what they add up to.
MaterialInv == IsFiniteSet(adjustments) /\ Materialized

\* The total of an account, now and after a step.
LEMMA TotalIsSum ==
    ASSUME NEW p
    PROVE  /\ AdjustmentTotal(p) = SumOfDeltas(RowsOf(p))
           /\ AdjustmentTotal(p)' = SumOfDeltas(RowsOf(p)')
<1>1. AdjustmentTotal(p) = PartialSums(RowsOf(p))[RowsOf(p)]
  BY Zenon DEF AdjustmentTotal, MapThenSumSet, MapThenFoldSet, PartialSums, SumStep, Pick, RowsOf
<1>2. AdjustmentTotal(p)' = PartialSums(RowsOf(p)')[RowsOf(p)']
  BY Zenon DEF AdjustmentTotal, MapThenSumSet, MapThenFoldSet, PartialSums, SumStep, Pick, RowsOf
<1> QED
  BY <1>1, <1>2, SumUnfolds

\* A new row moves the total of its account, and of no other, by its delta.
LEMMA AdjustmentAdds ==
    ASSUME LedgerTypeOK, IsFiniteSet(adjustments),
           NEW a \in Adjustment, a \notin adjustments, adjustments' = adjustments \cup {a},
           NEW p \in Periods
    PROVE  /\ AdjustmentTotal(p) \in Int
           /\ AdjustmentTotal(p)' = AdjustmentTotal(p) + IF a.account = p THEN a.delta ELSE 0
<1>1. /\ AdjustmentTotal(p) = SumOfDeltas(RowsOf(p))
      /\ AdjustmentTotal(p)' = SumOfDeltas(RowsOf(p)')
  BY TotalIsSum
<1>2. IsFiniteSet(RowsOf(p)) /\ a \notin RowsOf(p)
  BY FS_Subset DEF RowsOf
<1>3. \A b \in RowsOf(p) \cup {a} : b.delta \in Int
  BY LedgerAssumption DEF RowsOf, LedgerTypeOK, Adjustment
<1>4. /\ SumOfDeltas(RowsOf(p) \cup {a}) = SumOfDeltas(RowsOf(p)) + a.delta
      /\ SumOfDeltas(RowsOf(p)) \in Int
  BY <1>2, <1>3, SumAdd
<1>5. RowsOf(p)' = IF a.account = p THEN RowsOf(p) \cup {a} ELSE RowsOf(p)
  BY DEF RowsOf
<1> QED
  BY <1>1, <1>4, <1>5

\* Reserve and Adjust write the limit afresh, all else leaves limits and rows alone.
LEMMA MaterialInductive ==
    ASSUME LedgerInv, MaterialInv, [LedgerNext]_ledgerVars
    PROVE  MaterialInv'
<1>0. LedgerTypeOK
  BY DEF LedgerInv
<1>1. ASSUME UNCHANGED adjustments,
             \A p \in Periods : \/ accounts'[p].open = accounts[p].open
                                   /\ accounts'[p].limit = accounts[p].limit
                                \/ \E base \in BaseLimits :
                                     accounts'[p].limit = EffectiveLimit(base, p)
      PROVE  MaterialInv'
  <2>1. \A p : RowsOf(p)' = RowsOf(p)
    BY <1>1 DEF RowsOf
  <2>2. \A p : AdjustmentTotal(p)' = AdjustmentTotal(p)
    BY <2>1, TotalIsSum
  <2>3. \A base, p : EffectiveLimit(base, p)' = EffectiveLimit(base, p)
    BY <2>2 DEF EffectiveLimit
  <2> QED
    BY <1>1, <2>3 DEF MaterialInv, Materialized
<1>2. ASSUME NEW k \in Keys, Reserve(k) PROVE MaterialInv'
  <2>1. \A p \in Periods : accounts'[p] = IF p = sub.period THEN ChargedAccount ELSE accounts[p]
    BY <1>0, <1>2 DEF Reserve, LedgerTypeOK
  <2>2. ChargedAccount.limit = EffectiveLimit(sub.limit, sub.period) /\ sub.limit \in BaseLimits
    BY <1>0, ChargedAccountCounts DEF LedgerTypeOK, Subscription
  <2> QED
    BY <1>1, <1>2, <2>1, <2>2 DEF Reserve
<1>3. ASSUME NEW k \in Keys, Consume(k) \/ Release(k) PROVE MaterialInv'
  <2>1. \A p \in Periods : \/ accounts'[p] = accounts[p]
                           \/ accounts'[p] = Consumed(accounts[p])
                           \/ accounts'[p] = Released(accounts[p])
    BY <1>0, <1>3 DEF Consume, Release, LedgerTypeOK
  <2>2. \A p \in Periods : accounts[p] \in Account
    BY <1>0 DEF LedgerTypeOK
  <2>3. \A p \in Periods : /\ accounts'[p].open = accounts[p].open
                           /\ accounts'[p].limit = accounts[p].limit
    BY <2>1, <2>2, SettledAccountCounts
  <2> QED
    BY <1>1, <1>3, <2>3 DEF Consume, Release
<1>4. ASSUME NEW key \in AdjKeys, NEW delta \in Deltas, Adjust(key, delta) PROVE MaterialInv'
  <2>0. PICK q \in Periods : q = sub.period
    BY <1>0 DEF LedgerTypeOK, Subscription
  <2> DEFINE limit == EffectiveLimit(sub.limit, q) + delta
  <2>1. PICK a \in Adjustment : a = [key |-> key, account |-> q, delta |-> delta]
    BY <2>0 DEF Adjustment
  <2>2. a \notin adjustments /\ adjustments' = adjustments \cup {a}
    BY <1>4, <2>0, <2>1 DEF Adjust
  <2>3. \A p \in Periods : /\ AdjustmentTotal(p) \in Int
           /\ AdjustmentTotal(p)' = AdjustmentTotal(p) + IF a.account = p THEN a.delta ELSE 0
    BY <1>0, <2>2, AdjustmentAdds DEF MaterialInv
  <2>4. IsFiniteSet(adjustments)'
    BY <2>2, FS_AddElement DEF MaterialInv
  <2>5. accounts' = [accounts EXCEPT ![q] = [CurrentAccount EXCEPT !.limit = limit]]
    BY <1>4, <2>0 DEF Adjust
  <2>6. sub.limit \in BaseLimits /\ sub.limit \in Int /\ sub.limit # NoLimit /\ delta \in Int
    BY <1>0, <1>4, LedgerAssumption DEF LedgerTypeOK, Subscription, Adjust
  <2>7. limit = sub.limit + AdjustmentTotal(q)'
    BY <2>1, <2>3, <2>6 DEF EffectiveLimit
  <2> HIDE DEF limit
  <2>8. \A p \in Periods : accounts'[p] =
           IF p = q THEN [CurrentAccount EXCEPT !.limit = limit] ELSE accounts[p]
    BY <1>0, <2>5 DEF LedgerTypeOK
  <2>9. ASSUME NEW p \in Periods, accounts'[p].open
        PROVE  \E base \in BaseLimits : accounts'[p].limit = EffectiveLimit(base, p)'
    <3>1. CASE p = q
      <4>1. accounts'[p].limit = limit
        BY <1>0, <2>8, <3>1, CurrentAccountType DEF Account
      <4> QED
        BY <2>6, <2>7, <3>1, <4>1 DEF EffectiveLimit
    <3>2. CASE p # q
      <4>1. AdjustmentTotal(p)' = AdjustmentTotal(p)
        BY <2>1, <2>3, <3>2
      <4> QED
        BY <2>8, <2>9, <3>2, <4>1 DEF MaterialInv, Materialized, EffectiveLimit
    <3> QED
      BY <3>1, <3>2
  <2> QED
    BY <2>4, <2>9 DEF MaterialInv, Materialized
<1>5. CASE SyncSubscription \/ UNCHANGED ledgerVars
  BY <1>1, <1>5 DEF SyncSubscription, ledgerVars
<1> QED
  BY <1>2, <1>3, <1>4, <1>5 DEF LedgerNext

\* The limit that an account stores is always a base limit of the plan plus the
\* sum of the account's adjustment rows, for any number of rows: reserve and
\* adjust recompute it from them, and nothing else writes it.
THEOREM LimitsMaterialized == LedgerSpec => []Materialized
<1>1. LedgerInit => MaterialInv
  BY FS_EmptySet DEF LedgerInit, MaterialInv, Materialized, NoRow
<1>2. LedgerInv /\ MaterialInv /\ [LedgerNext]_ledgerVars => MaterialInv'
  BY MaterialInductive
<1>3. MaterialInv => Materialized
  BY DEF MaterialInv
<1> QED
  BY <1>1, <1>2, <1>3, LedgerInvariant, PTL DEF LedgerSpec

-----------------------------------------------------------------------------
(***************************************************************************)
(* Execution: type correctness.                                            *)
(***************************************************************************)

\* Fresh and settled messages and idle requests are well-formed.
LEMMA RowTypes ==
    /\ \A status \in {"absent", "pending"}, grounded \in BOOLEAN :
          NewMessage(status, grounded) \in Message
    /\ \A k \in Keys : Idle(k) \in Request
    /\ \A row \in Message, status \in {"completed", "failed"},
          error \in ErrorCodes \cup {NoError} : Settled(row, status, error) \in Message
<1>1. \A status \in {"absent", "pending"}, grounded \in BOOLEAN :
         NewMessage(status, grounded) \in Message
  BY DEF NewMessage, Message
<1>2. \A k \in Keys : Idle(k) \in Request
  BY DEF Idle, Request, LedgerStatus
<1>3. ASSUME NEW row \in Message, NEW status \in {"completed", "failed"},
             NEW error \in ErrorCodes \cup {NoError}
      PROVE  Settled(row, status, error) \in Message
  BY DEF Settled, Message
<1> QED
  BY <1>1, <1>2, <1>3

\* What a locking SELECT returns is a message.
LEMMA RowType ==
    ASSUME TypeOK, NEW r \in Requests
    PROVE  K(r) \in Keys /\ Row(r) \in Message
  BY DEF TypeOK, Request, Row, K

\* A failed reservation is classified.
LEMMA ReservationErrorType == ReservationError \in ErrorCodes
  BY DEF ReservationError, ErrorCodes, ReservationErrors

\* The ledger part of a step is a transaction of the ledger or a stutter.
LEMMA LedgerStep ==
    ASSUME TypeOK, [Next]_vars
    PROVE  [LedgerNext]_ledgerVars
<1>1. CASE UNCHANGED vars
  BY <1>1 DEF vars, ledgerVars
<1>2. ASSUME NEW r \in Requests, Step(r)
      PROVE  [LedgerNext]_ledgerVars
  <2>0. K(r) \in Keys
    BY RowType
  <2>1. CASE ReserveCredit(r)
    BY <2>0, <2>1 DEF ReserveCredit, LedgerNext
  <2>2. CASE RecoverRefusedClaim(r)
    BY <2>0, <2>2 DEF RecoverRefusedClaim, LedgerNext
  <2>3. CASE CompleteClaim(r)
    <3>1. Consume(K(r))
      BY <2>3 DEF CompleteClaim, Persistable, ConsumeCredit, Consume
    <3> QED
      BY <2>0, <3>1 DEF LedgerNext
  <2>4. CASE FailClaim(r)
    <3>1. Release(K(r)) \/ UNCHANGED ledgerVars
      BY <2>4 DEF FailClaim, ReleaseCredit, Release
    <3> QED
      BY <2>0, <3>1 DEF LedgerNext
  <2>5. CASE UNCHANGED ledgerVars
    BY <2>5
  <2> QED
    BY <1>2, <2>1, <2>2, <2>3, <2>4, <2>5
       DEF Step, Submit, MarkPreReservationFailure, ClaimRefused, ClaimAnswered, ClaimTaken,
           Generate, CompleteRefused, FailSuperseded
<1>3. ASSUME NEW r \in Requests, Crash(r) \/ \E k \in Keys : Start(r, k)
      PROVE  [LedgerNext]_ledgerVars
  BY <1>3 DEF Crash, Start
<1>4. CASE Tick
  BY <1>4 DEF Tick
<1>5. CASE Ledger
  BY <1>5 DEF Ledger, LedgerNext
<1> QED
  BY <1>1, <1>2, <1>3, <1>4, <1>5 DEF Next

\* A step leaves messages, replies, requests and clock well-formed.
LEMMA RequestStepType ==
    ASSUME TypeOK, NEW r \in Requests, Step(r)
    PROVE  /\ messages' \in [Keys -> Message]
           /\ replies' \in [Keys -> Nat]
           /\ req' \in [Requests -> Request]
           /\ clock' \in Nat
<1> DEFINE Goal == /\ messages' \in [Keys -> Message]
                   /\ replies' \in [Keys -> Nat]
                   /\ req' \in [Requests -> Request]
                   /\ clock' \in Nat
<1>0. /\ K(r) \in Keys /\ Row(r) \in Message /\ messages[K(r)] \in Message
      /\ req[r] \in Request /\ Idle(K(r)) \in Request
  BY RowType, RowTypes DEF TypeOK
<1>1. CASE Submit(r)
  <2>1. \A grounded \in BOOLEAN : NewMessage("pending", grounded) \in Message
    BY RowTypes
  <2>2. messages' \in [Keys -> Message]
    BY <1>0, <1>1, <2>1 DEF Submit, SetMessage, TypeOK
  <2>3. req' \in [Requests -> Request]
    BY <1>0, <1>1, <2>1 DEF Submit, Finish, TypeOK, Request
  <2> QED
    BY <1>1, <2>2, <2>3 DEF Submit, TypeOK
<1>2. CASE ReserveCredit(r)
  <2>1. req' \in [Requests -> Request]
    <3>1. entries[K(r)].status \in LedgerStatus
      BY <1>0 DEF TypeOK, LedgerTypeOK, Entry
    <3>2. "reserved" \in LedgerStatus
      BY DEF LedgerStatus
    <3> QED
      BY <1>0, <1>2, <3>1, <3>2, ReservationErrorType
         DEF ReserveCredit, RollbackTo, TypeOK, Request
  <2> QED
    BY <1>2, <2>1 DEF ReserveCredit, TypeOK
<1>3. CASE MarkPreReservationFailure(r)
  <2>1. Settled(Row(r), "failed", req[r].err) \in Message
    BY <1>0, RowTypes DEF Request
  <2> QED
    BY <1>0, <1>3, <2>1 DEF MarkPreReservationFailure, SetMessage, Finish, TypeOK
<1>4. CASE ClaimRefused(r)
  BY <1>0, <1>4 DEF ClaimRefused, RollbackTo, TypeOK, Request, ErrorCodes, ReservationErrors
<1>5. CASE ClaimAnswered(r) \/ FailSuperseded(r)
  BY <1>0, <1>5 DEF ClaimAnswered, FailSuperseded, Finish, TypeOK
<1>6. CASE ClaimTaken(r)
  <2> DEFINE Leased(row) == [row EXCEPT !.linked = TRUE, !.token = r,
                                        !.lease = req[r].at + LeaseDuration]
  <2>1. \A row \in Message : Leased(row) \in Message
    <3>1. req[r].at + LeaseDuration \in Nat
      BY <1>0, ExecutionAssumption DEF Request
    <3> QED
      BY <3>1 DEF Message
  <2>2. \/ /\ SetMessage(K(r), Leased(messages[K(r)]))
           /\ req' = [req EXCEPT ![r].pc = "generate", ![r].copy = Leased(Row(r))]
        \/ UNCHANGED messages /\ Finish(r)
    BY <1>6 DEF ClaimTaken
  <2>3. messages' \in [Keys -> Message]
    BY <1>0, <2>1, <2>2 DEF SetMessage, TypeOK
  <2>4. Leased(Row(r)) \in Message
    BY <1>0, <2>1
  <2> HIDE DEF Leased
  <2>5. req' \in [Requests -> Request]
    BY <1>0, <2>2, <2>4 DEF Finish, TypeOK, Request
  <2> QED
    BY <1>6, <2>3, <2>5 DEF ClaimTaken, TypeOK
<1>7. CASE RecoverRefusedClaim(r)
  BY <1>0, <1>7 DEF RecoverRefusedClaim, Goto, Finish, TypeOK, Request
<1>8. CASE Generate(r)
  BY <1>0, <1>8 DEF Generate, Goto, TypeOK, Request, ErrorCodes
<1>9. CASE CompleteClaim(r)
  <2>1. Settled(messages[K(r)], "completed", NoError) \in Message
    BY <1>0, RowTypes
  <2> QED
    BY <1>0, <1>9, <2>1 DEF CompleteClaim, SetMessage, Finish, TypeOK
<1>10. CASE CompleteRefused(r)
  BY <1>0, <1>10 DEF CompleteRefused, RollbackTo, TypeOK, Request, ErrorCodes
<1>11. CASE FailClaim(r)
  <2>1. Settled(messages[K(r)], "failed", req[r].err) \in Message
    BY <1>0, RowTypes DEF Request
  <2> QED
    BY <1>0, <1>11, <2>1 DEF FailClaim, SetMessage, Finish, TypeOK
<1> QED
  BY <1>1, <1>2, <1>3, <1>4, <1>5, <1>6, <1>7, <1>8, <1>9, <1>10, <1>11 DEF Step

\* TypeOK is inductive.
LEMMA ExecutionTypeInductive ==
    ASSUME TypeOK, [Next]_vars
    PROVE  TypeOK'
<1>1. LedgerTypeOK'
  BY LedgerStep, TypeInductive DEF TypeOK
<1>2. CASE UNCHANGED vars
  BY <1>1, <1>2 DEF vars, TypeOK
<1>3. ASSUME NEW r \in Requests, Step(r)
      PROVE  TypeOK'
  BY <1>1, <1>3, RequestStepType DEF TypeOK
<1>4. ASSUME NEW r \in Requests, NEW k \in Keys, Crash(r) \/ Start(r, k)
      PROVE  TypeOK'
  <2>1. Idle(K(r)) \in Request /\ Idle(k) \in Request
    BY RowType, RowTypes
  <2>2. [Idle(k) EXCEPT !.pc = "submit", !.at = clock] \in Request
    BY <2>1 DEF TypeOK, Request
  <2> QED
    BY <1>1, <1>4, <2>1, <2>2 DEF Crash, Start, Finish, TypeOK
<1>5. CASE Tick
  BY <1>1, <1>5 DEF Tick, TypeOK
<1>6. CASE Ledger
  BY <1>1, <1>6 DEF Ledger, TypeOK
<1>7. ASSUME NEW r \in Requests, Crash(r) PROVE TypeOK'
  BY <1>4, <1>7, RowType
<1> QED
  BY <1>2, <1>3, <1>4, <1>5, <1>6, <1>7 DEF Next

\* Type correctness of execute: messages, credits and requests stay
\* well-formed under every interleaving, crash and retry.
THEOREM ExecutionTypeCorrect == Spec => []TypeOK
<1>1. Init => TypeOK
  <2> SUFFICES ASSUME Init PROVE TypeOK
    OBVIOUS
  <2>1. LedgerTypeOK
    BY DEF Init, LedgerInit, LedgerTypeOK, NoRow, Account, Entry, LedgerStatus
  <2> QED
    BY <2>1, RowTypes DEF Init, TypeOK
<1>2. TypeOK /\ [Next]_vars => TypeOK'
  BY ExecutionTypeInductive
<1> QED
  BY <1>1, <1>2, PTL DEF Spec

-----------------------------------------------------------------------------
(***************************************************************************)
(* Refinement: what the requests do to the ledger is what it allows.       *)
(***************************************************************************)

\* The settlements written out in _complete_claim and _fail_claim, together
\* with the calls of reserve and release, implement the credit ledger.
THEOREM ExecutionImplementsLedger == Spec => ImplementsLedger
<1>1. Init => LedgerInit
  BY DEF Init
<1>2. TypeOK /\ [Next]_vars => [LedgerNext]_ledgerVars
  BY LedgerStep
<1> QED
  BY <1>1, <1>2, ExecutionTypeCorrect, PTL DEF Spec, ImplementsLedger, LedgerSpec

\* Hence no race, crash or retry of requests loses or invents a credit.
THEOREM ExecutionConservesCredits == Spec => []Conservation
  BY ExecutionImplementsLedger, CreditsConserved, PTL DEF ImplementsLedger

\* And none of them takes the usage over the ceiling.
THEOREM ExecutionWithinCeiling == Spec => []Ceiling
  BY ExecutionImplementsLedger, CeilingHolds, PTL DEF ImplementsLedger

\* Nor does execution detach a limit from its sources: limit_value remains a base
\* limit of the plan plus the adjustment rows, whatever execution does.
THEOREM ExecutionMaterializes == Spec => []Materialized
  BY ExecutionImplementsLedger, LimitsMaterialized, PTL DEF ImplementsLedger

-----------------------------------------------------------------------------
(***************************************************************************)
(* Message and credit settle together.                                     *)
(***************************************************************************)

\* What ties a message, its credit and its reply together.  A message without
\* grounding is never claimed; for the others a released credit belongs to a
\* failed message.
MessageInv(k) ==
    /\ messages[k].status = "completed" <=> entries[k].status = "consumed"
    /\ replies[k] = IF messages[k].status = "completed" THEN 1 ELSE 0
    /\ messages[k].status \in {"failed", "pending"} /\ messages[k].linked =>
          entries[k].status = IF messages[k].status = "failed" THEN "released" ELSE "reserved"
    /\ messages[k].status = "absent" => entries[k].status = "none" /\ ~messages[k].linked
    /\ ~messages[k].grounded => ~messages[k].linked
    /\ messages[k].grounded /\ entries[k].status = "released" => messages[k].status = "failed"

\* What a request knows at each point of execute.
RequestInv(r) ==
    /\ req[r].pc \notin {"idle", "submit"} => messages[K(r)].status # "absent"
    /\ req[r].pc \in {"recover", "mark"} => req[r].copy = Expired
    /\ req[r].pc = "claim" =>
          /\ req[r].resv # "none"
          /\ entries[K(r)].status # "none"
          /\ req[r].resv # "reserved" => entries[K(r)].status = req[r].resv
    /\ req[r].pc = "recover" =>
          \/ ~messages[K(r)].grounded
          \/ entries[K(r)].status \in {"consumed", "released"}
    /\ req[r].pc \in {"generate", "complete", "fail"} => messages[K(r)].linked

\* The inductive invariant of execute.
ExecutionInv ==
    /\ TypeOK
    /\ \A k \in Keys : MessageInv(k)
    /\ \A r \in Requests : RequestInv(r)

\* What no step undoes: a message exists, whether its snapshot grounds it, it is
\* linked to its credit, the credit exists, the credit is settled.
Monotone ==
    \A k \in Keys :
        /\ messages[k].status # "absent" =>
              messages'[k].status # "absent" /\ messages'[k].grounded = messages[k].grounded
        /\ messages[k].linked => messages'[k].linked
        /\ entries[k].status # "none" => entries'[k].status # "none"
        /\ entries[k].status \in {"consumed", "released"} =>
              entries'[k].status = entries[k].status

\* It suffices to look at the messages and at the request that takes the step.
LEMMA Assemble ==
    ASSUME ExecutionInv, [Next]_vars, Monotone, NEW r \in Requests,
           \A q \in Requests : q # r => req'[q] = req[q],
           RequestInv(r)', \A k \in Keys : MessageInv(k)'
    PROVE  ExecutionInv'
<1>1. TypeOK /\ TypeOK'
  BY ExecutionTypeInductive DEF ExecutionInv
<1>2. ASSUME NEW q \in Requests, q # r
      PROVE  RequestInv(q)'
  <2>1. req'[q] = req[q] /\ K(q) \in Keys /\ RequestInv(q)
    BY <1>1, <1>2, RowType DEF ExecutionInv
  <2>2. K(q)' = K(q)
    BY <2>1 DEF K
  <2>3. /\ messages[K(q)].status # "absent" =>
              /\ messages'[K(q)].status # "absent"
              /\ messages'[K(q)].grounded = messages[K(q)].grounded
        /\ messages[K(q)].linked => messages'[K(q)].linked
        /\ entries[K(q)].status # "none" => entries'[K(q)].status # "none"
        /\ entries[K(q)].status \in {"consumed", "released"} =>
              entries'[K(q)].status = entries[K(q)].status
    BY <2>1 DEF Monotone
  <2>4. entries[K(q)].status \in LedgerStatus /\ req[q].resv \in LedgerStatus
    BY <1>1, <2>1 DEF TypeOK, LedgerTypeOK, Entry, Request
  <2> QED
    BY <2>1, <2>2, <2>3, <2>4 DEF RequestInv, LedgerStatus
<1> QED
  BY <1>1, <1>2 DEF ExecutionInv

\* The steps that change neither messages nor credits.
LEMMA QuietInductive ==
    ASSUME ExecutionInv, [Next]_vars, NEW r \in Requests,
           UNCHANGED <<messages, entries, replies>>,
           \A q \in Requests : q # r => req'[q] = req[q],
           RequestInv(r)'
    PROVE  ExecutionInv'
<1>1. Monotone
  BY DEF Monotone
<1>2. \A k \in Keys : MessageInv(k)'
  BY DEF ExecutionInv, MessageInv
<1> QED
  BY <1>1, <1>2, Assemble

\* Submit: a new message has no credit yet.
LEMMA SubmitInductive ==
    ASSUME ExecutionInv, NEW r \in Requests, Submit(r)
    PROVE  ExecutionInv'
<1>0. /\ TypeOK /\ K(r) \in Keys /\ [Next]_vars
      /\ UNCHANGED <<entries, replies>>
  BY RowType DEF ExecutionInv, Next, Step, Submit, ledgerVars
<1>1. \A q \in Requests : q # r => req'[q] = req[q]
  BY <1>0 DEF Submit, Finish, TypeOK
<1>2. CASE messages[K(r)].status = "absent"
  <2>1. PICK grounded \in BOOLEAN :
           /\ messages' = [messages EXCEPT ![K(r)] = NewMessage("pending", grounded)]
           /\ req' = [req EXCEPT ![r].pc = "reserve", ![r].copy = NewMessage("pending", grounded)]
    BY <1>2 DEF Submit, SetMessage
  <2>2. messages'[K(r)].status = "pending" /\ ~messages'[K(r)].linked
    BY <1>0, <2>1 DEF TypeOK, NewMessage
  <2>3. \A k \in Keys : k # K(r) => messages'[k] = messages[k]
    BY <2>1 DEF TypeOK, ExecutionInv
  <2>4. entries[K(r)].status = "none" /\ ~messages[K(r)].linked
    BY <1>0, <1>2 DEF ExecutionInv, MessageInv
  <2>5. Monotone
    BY <1>0, <1>2, <2>2, <2>3, <2>4 DEF Monotone
  <2>6. req'[r].pc = "reserve" /\ req'[r].key = req[r].key
    BY <1>0, <2>1 DEF TypeOK, Request
  <2>7. RequestInv(r)'
    BY <2>2, <2>6 DEF RequestInv, K
  <2>8. \A k \in Keys : MessageInv(k)'
    <3>1. MessageInv(K(r)) /\ \A k \in Keys : MessageInv(k)
      BY <1>0 DEF ExecutionInv
    <3>2. ASSUME NEW k \in Keys, k = K(r) PROVE MessageInv(k)'
      BY <1>0, <1>2, <2>2, <2>4, <3>1, <3>2 DEF MessageInv
    <3>3. ASSUME NEW k \in Keys, k # K(r) PROVE MessageInv(k)'
      BY <1>0, <2>3, <3>1, <3>3 DEF MessageInv
    <3> QED
      BY <3>2, <3>3
  <2> QED
    BY <1>0, <1>1, <2>5, <2>7, <2>8, Assemble
<1>3. CASE messages[K(r)].status # "absent"
  <2>1. UNCHANGED messages
    BY <1>3 DEF Submit
  <2>2. req'[r].pc \in {"reserve", "idle"} /\ req'[r].key = req[r].key
    BY <1>0, <1>3 DEF Submit, Finish, Idle, TypeOK, Request, K
  <2>3. RequestInv(r)'
    BY <1>3, <2>1, <2>2 DEF RequestInv, K
  <2> QED
    BY <1>0, <1>1, <2>1, <2>3, QuietInductive
<1> QED
  BY <1>2, <1>3

\* ReserveCredit: only a key without an entry gets one.
LEMMA ReserveCreditInductive ==
    ASSUME ExecutionInv, NEW r \in Requests, ReserveCredit(r)
    PROVE  ExecutionInv'
<1>0. /\ TypeOK /\ K(r) \in Keys /\ [Next]_vars
      /\ UNCHANGED <<messages, replies>>
  BY RowType DEF ExecutionInv, Next, Step, ReserveCredit
<1>1. \A q \in Requests : q # r => req'[q] = req[q]
  BY <1>0 DEF ReserveCredit, RollbackTo, TypeOK
<1>2. messages[K(r)].status # "absent"
  BY DEF ExecutionInv, RequestInv, ReserveCredit, At
<1>3. CASE Reserve(K(r)) /\ req' = [req EXCEPT ![r].pc = "claim", ![r].resv = "reserved"]
  <2>1. /\ entries[K(r)].status = "none" /\ entries'[K(r)].status = "reserved"
        /\ \A k \in Keys : k # K(r) => entries'[k] = entries[k]
    BY <1>0, <1>3 DEF Reserve, TypeOK, LedgerTypeOK
  <2>2. Monotone
    BY <1>0, <2>1 DEF Monotone
  <2>3. req'[r].pc = "claim" /\ req'[r].key = req[r].key /\ req'[r].resv = "reserved"
    BY <1>0, <1>3 DEF TypeOK, Request
  <2>4. RequestInv(r)'
    BY <1>0, <1>2, <2>1, <2>3 DEF RequestInv, K
  <2>5. \A k \in Keys : MessageInv(k)'
    <3>1. MessageInv(K(r)) /\ \A k \in Keys : MessageInv(k)
      BY <1>0 DEF ExecutionInv
    <3>2. ASSUME NEW k \in Keys, k = K(r) PROVE MessageInv(k)'
      <4>1. messages[k].status \in {"absent", "pending", "completed", "failed"}
        BY <1>0 DEF TypeOK, Message
      <4> QED
        BY <1>0, <1>2, <2>1, <3>1, <3>2, <4>1 DEF MessageInv
    <3>3. ASSUME NEW k \in Keys, k # K(r) PROVE MessageInv(k)'
      BY <1>0, <2>1, <3>1, <3>3 DEF MessageInv
    <3> QED
      BY <3>2, <3>3
  <2> QED
    BY <1>0, <1>1, <2>2, <2>4, <2>5, Assemble
<1>4. CASE /\ entries[K(r)].status # "none" /\ UNCHANGED ledgerVars
           /\ req' = [req EXCEPT ![r].pc = "claim", ![r].resv = entries[K(r)].status]
  <2>1. /\ req'[r].pc = "claim" /\ req'[r].key = req[r].key
        /\ req'[r].resv = entries[K(r)].status
    BY <1>0, <1>4 DEF TypeOK, Request
  <2>2. RequestInv(r)'
    BY <1>0, <1>2, <1>4, <2>1 DEF RequestInv, K, ledgerVars
  <2> QED
    BY <1>0, <1>1, <1>4, <2>2, QuietInductive DEF ledgerVars
<1>5. CASE RollbackTo(r, "mark", ReservationError) /\ UNCHANGED ledgerVars
  <2>1. req'[r].pc = "mark" /\ req'[r].key = req[r].key /\ req'[r].copy = Expired
    BY <1>0, <1>5 DEF TypeOK, Request, RollbackTo
  <2>2. RequestInv(r)'
    BY <1>0, <1>2, <2>1 DEF RequestInv, K
  <2> QED
    BY <1>0, <1>1, <1>5, <2>2, QuietInductive DEF ledgerVars
<1> QED
  BY <1>3, <1>4, <1>5 DEF ReserveCredit

\* MarkPreReservationFailure reads the row it locks, and fails it only while it
\* is pending and unclaimed.
LEMMA MarkInductive ==
    ASSUME ExecutionInv, NEW r \in Requests, MarkPreReservationFailure(r)
    PROVE  ExecutionInv'
<1>0. /\ TypeOK /\ K(r) \in Keys /\ [Next]_vars
      /\ UNCHANGED <<entries, replies>>
  BY RowType DEF ExecutionInv, Next, Step, MarkPreReservationFailure, ledgerVars
<1>1. /\ \A q \in Requests : q # r => req'[q] = req[q]
      /\ req'[r].pc = "idle"
  BY <1>0 DEF MarkPreReservationFailure, Finish, Idle, TypeOK
<1>2. RequestInv(r)'
  BY <1>1 DEF RequestInv
<1>3. Row(r) = messages[K(r)]
  BY DEF ExecutionInv, RequestInv, MarkPreReservationFailure, At, Row
<1>4. CASE Unclaimed(Row(r))
  <2>1. /\ messages[K(r)].status = "pending" /\ ~messages[K(r)].linked
        /\ messages' = [messages EXCEPT ![K(r)] = Settled(messages[K(r)], "failed", req[r].err)]
    BY <1>3, <1>4 DEF MarkPreReservationFailure, Unclaimed, SetMessage
  <2>2. /\ messages'[K(r)].status = "failed" /\ ~messages'[K(r)].linked
        /\ messages'[K(r)].grounded = messages[K(r)].grounded
    BY <1>0, <2>1 DEF TypeOK, Message, Settled
  <2>3. \A k \in Keys : k # K(r) => messages'[k] = messages[k]
    BY <1>0, <2>1 DEF TypeOK
  <2>4. Monotone
    BY <1>0, <2>1, <2>2, <2>3 DEF Monotone
  <2>5. \A k \in Keys : MessageInv(k)'
    <3>1. MessageInv(K(r)) /\ \A k \in Keys : MessageInv(k)
      BY <1>0 DEF ExecutionInv
    <3>2. ASSUME NEW k \in Keys, k = K(r) PROVE MessageInv(k)'
      BY <1>0, <2>1, <2>2, <3>1, <3>2 DEF MessageInv
    <3>3. ASSUME NEW k \in Keys, k # K(r) PROVE MessageInv(k)'
      BY <1>0, <2>3, <3>1, <3>3 DEF MessageInv
    <3> QED
      BY <3>2, <3>3
  <2> QED
    BY <1>0, <1>1, <1>2, <2>4, <2>5, Assemble
<1>5. CASE ~Unclaimed(Row(r))
  BY <1>0, <1>1, <1>2, <1>5, QuietInductive DEF MarkPreReservationFailure
<1> QED
  BY <1>4, <1>5

\* The three outcomes of _claim.
LEMMA ClaimInductive ==
    ASSUME ExecutionInv, NEW r \in Requests,
           ClaimRefused(r) \/ ClaimAnswered(r) \/ ClaimTaken(r)
    PROVE  ExecutionInv'
<1>0. /\ TypeOK /\ K(r) \in Keys /\ [Next]_vars
      /\ UNCHANGED <<entries, replies>>
      /\ RequestInv(r) /\ req[r].pc = "claim"
      /\ entries[K(r)].status \in LedgerStatus /\ req[r].resv \in LedgerStatus
  BY RowType DEF ExecutionInv, Next, Step, ClaimRefused, ClaimAnswered, ClaimTaken, ledgerVars,
                 At, TypeOK, LedgerTypeOK, Entry, Request
<1>1. CASE ClaimRefused(r)
  <2>1. /\ req' = [req EXCEPT ![r].pc = "recover", ![r].err = "execution_integrity",
                              ![r].copy = Expired]
        /\ ~messages[K(r)].grounded \/ req[r].resv # "reserved"
        /\ UNCHANGED messages
    BY <1>1 DEF ClaimRefused, RollbackTo
  <2>2. /\ req'[r].pc = "recover" /\ req'[r].key = req[r].key /\ req'[r].copy = Expired
        /\ \A q \in Requests : q # r => req'[q] = req[q]
    BY <1>0, <2>1 DEF TypeOK, Request
  <2>3. RequestInv(r)'
    BY <1>0, <2>1, <2>2 DEF RequestInv, K, LedgerStatus
  <2> QED
    BY <1>0, <2>1, <2>2, <2>3, QuietInductive
<1>2. CASE UNCHANGED messages /\ Finish(r)
  <2>1. req'[r].pc = "idle" /\ \A q \in Requests : q # r => req'[q] = req[q]
    BY <1>0, <1>2 DEF Finish, Idle, TypeOK
  <2>2. RequestInv(r)'
    BY <2>1 DEF RequestInv
  <2> QED
    BY <1>0, <1>2, <2>1, <2>2, QuietInductive
<1>3. CASE ClaimTaken(r) /\ messages[K(r)].status = "pending"
  <2> DEFINE Leased(row) == [row EXCEPT !.linked = TRUE, !.token = r,
                                        !.lease = req[r].at + LeaseDuration]
  <2>1. /\ messages' = [messages EXCEPT ![K(r)] = Leased(messages[K(r)])]
        /\ req' = [req EXCEPT ![r].pc = "generate", ![r].copy = Leased(Row(r))]
        /\ messages[K(r)].grounded /\ req[r].resv = "reserved"
    BY <1>3 DEF ClaimTaken, SetMessage
  <2>2. /\ messages'[K(r)].status = "pending" /\ messages'[K(r)].linked
        /\ messages'[K(r)].grounded = messages[K(r)].grounded
    BY <1>0, <1>3, <2>1 DEF TypeOK, Message
  <2>3. \A k \in Keys : k # K(r) => messages'[k] = messages[k]
    BY <1>0, <2>1 DEF TypeOK
  <2>4. entries[K(r)].status = "reserved"
    BY <1>0, <1>3, <2>1 DEF ExecutionInv, MessageInv, RequestInv, LedgerStatus
  <2> HIDE DEF Leased
  <2>5. /\ req'[r].pc = "generate" /\ req'[r].key = req[r].key
        /\ \A q \in Requests : q # r => req'[q] = req[q]
    BY <1>0, <2>1 DEF TypeOK, Request
  <2>6. Monotone
    BY <1>0, <1>3, <2>2, <2>3 DEF Monotone
  <2>7. RequestInv(r)'
    BY <2>2, <2>5 DEF RequestInv, K
  <2>8. \A k \in Keys : MessageInv(k)'
    <3>1. MessageInv(K(r)) /\ \A k \in Keys : MessageInv(k)
      BY <1>0 DEF ExecutionInv
    <3>2. ASSUME NEW k \in Keys, k = K(r) PROVE MessageInv(k)'
      BY <1>0, <1>3, <2>1, <2>2, <2>4, <3>1, <3>2 DEF MessageInv
    <3>3. ASSUME NEW k \in Keys, k # K(r) PROVE MessageInv(k)'
      BY <1>0, <2>3, <3>1, <3>3 DEF MessageInv
    <3> QED
      BY <3>2, <3>3
  <2> QED
    BY <1>0, <2>5, <2>6, <2>7, <2>8, Assemble
<1> QED
  BY <1>1, <1>2, <1>3 DEF ClaimAnswered, ClaimTaken

\* The ledger's settlements touch one entry.
LEMMA SettlementEffect ==
    ASSUME TypeOK, NEW k \in Keys, NEW status \in {"consumed", "released"},
           entries' = [entries EXCEPT ![k].status = status]
    PROVE  /\ entries'[k].status = status
           /\ \A j \in Keys : j # k => entries'[j] = entries[j]
<1>1. entries \in [Keys -> Entry] /\ entries[k] \in Entry
  BY DEF TypeOK, LedgerTypeOK
<1> QED
  BY <1>1 DEF Entry

\* A refused claim releases the credit of a key that can never be claimed, or
\* finds it settled.
LEMMA RecoverInductive ==
    ASSUME ExecutionInv, NEW r \in Requests, RecoverRefusedClaim(r)
    PROVE  ExecutionInv'
<1>0. /\ TypeOK /\ K(r) \in Keys /\ [Next]_vars
      /\ UNCHANGED <<messages, replies>>
      /\ RequestInv(r) /\ req[r].pc = "recover"
  BY RowType DEF ExecutionInv, Next, Step, RecoverRefusedClaim, At
<1>1. /\ \A q \in Requests : q # r => req'[q] = req[q]
      /\ req'[r].key = req[r].key
      /\ req'[r].pc \in {"mark", "idle"}
      /\ req'[r].pc = "mark" => req'[r].copy = req[r].copy
  BY <1>0 DEF RecoverRefusedClaim, Goto, Finish, Idle, K, TypeOK, Request
<1>2. RequestInv(r)'
  BY <1>0, <1>1 DEF RequestInv, K
<1>3. CASE Release(K(r))
  <2>1. /\ entries[K(r)].status = "reserved" /\ entries'[K(r)].status = "released"
        /\ \A j \in Keys : j # K(r) => entries'[j] = entries[j]
    BY <1>0, <1>3, SettlementEffect DEF Release, Holds
  <2>2. ~messages[K(r)].grounded
    BY <1>0, <2>1 DEF RequestInv
  <2>3. Monotone
    BY <1>0, <2>1 DEF Monotone
  <2>4. \A k \in Keys : MessageInv(k)'
    <3>1. MessageInv(K(r)) /\ \A k \in Keys : MessageInv(k)
      BY <1>0 DEF ExecutionInv
    <3>2. ASSUME NEW k \in Keys, k = K(r) PROVE MessageInv(k)'
      BY <1>0, <2>1, <2>2, <3>1, <3>2 DEF MessageInv
    <3>3. ASSUME NEW k \in Keys, k # K(r) PROVE MessageInv(k)'
      BY <1>0, <2>1, <3>1, <3>3 DEF MessageInv
    <3> QED
      BY <3>2, <3>3
  <2> QED
    BY <1>0, <1>1, <1>2, <2>3, <2>4, Assemble
<1>4. CASE UNCHANGED ledgerVars
  BY <1>0, <1>1, <1>2, <1>4, QuietInductive DEF ledgerVars
<1> QED
  BY <1>3, <1>4 DEF RecoverRefusedClaim

\* CompleteClaim: the entry it finds reserved is that of a pending message.
LEMMA CompleteInductive ==
    ASSUME ExecutionInv, NEW r \in Requests, CompleteClaim(r)
    PROVE  ExecutionInv'
<1>0. /\ TypeOK /\ K(r) \in Keys /\ [Next]_vars
      /\ RequestInv(r) /\ req[r].pc = "complete"
      /\ messages[K(r)] \in Message
      /\ replies \in [Keys -> Nat]
  BY RowType DEF ExecutionInv, Next, Step, CompleteClaim, At, TypeOK
<1>1. /\ \A q \in Requests : q # r => req'[q] = req[q]
      /\ req'[r].pc = "idle"
  BY <1>0 DEF CompleteClaim, Finish, Idle, TypeOK
<1>2. RequestInv(r)'
  BY <1>1 DEF RequestInv
<1>3. /\ messages[K(r)].linked /\ entries[K(r)].status = "reserved"
      /\ replies[K(r)] = 0
  BY <1>0 DEF RequestInv, CompleteClaim, Persistable, Holds
<1>4. /\ entries'[K(r)].status = "consumed"
      /\ \A j \in Keys : j # K(r) => entries'[j] = entries[j]
  BY <1>0, SettlementEffect DEF CompleteClaim, ConsumeCredit
<1>5. messages' = [messages EXCEPT ![K(r)] = Settled(messages[K(r)], "completed", NoError)]
  BY DEF CompleteClaim, SetMessage
<1>6. /\ messages'[K(r)].status = "completed" /\ messages'[K(r)].linked
      /\ messages'[K(r)].grounded = messages[K(r)].grounded
      /\ \A j \in Keys : j # K(r) => messages'[j] = messages[j]
  BY <1>0, <1>3, <1>5 DEF TypeOK, Message, Settled
<1>7. /\ replies'[K(r)] = 1
      /\ \A j \in Keys : j # K(r) => replies'[j] = replies[j]
  BY <1>0, <1>3 DEF CompleteClaim
<1>8. Monotone
  BY <1>0, <1>3, <1>4, <1>6 DEF Monotone
<1>9. \A k \in Keys : MessageInv(k)'
  <2>1. MessageInv(K(r)) /\ \A k \in Keys : MessageInv(k)
    BY <1>0 DEF ExecutionInv
  <2>2. ASSUME NEW k \in Keys, k = K(r) PROVE MessageInv(k)'
    BY <1>3, <1>4, <1>6, <1>7, <2>1, <2>2 DEF MessageInv
  <2>3. ASSUME NEW k \in Keys, k # K(r) PROVE MessageInv(k)'
    BY <1>4, <1>6, <1>7, <2>1, <2>3 DEF MessageInv
  <2> QED
    BY <2>2, <2>3
<1> QED
  BY <1>0, <1>1, <1>2, <1>8, <1>9, Assemble

\* FailClaim: a reserved entry belongs to a pending message, a released one to
\* a message that has already failed.
LEMMA FailInductive ==
    ASSUME ExecutionInv, NEW r \in Requests, FailClaim(r)
    PROVE  ExecutionInv'
<1>0. /\ TypeOK /\ K(r) \in Keys /\ [Next]_vars
      /\ RequestInv(r) /\ req[r].pc = "fail"
      /\ messages[K(r)] \in Message
      /\ UNCHANGED replies
  BY RowType DEF ExecutionInv, Next, Step, FailClaim, At, TypeOK
<1>1. /\ \A q \in Requests : q # r => req'[q] = req[q]
      /\ req'[r].pc = "idle"
  BY <1>0 DEF FailClaim, Finish, Idle, TypeOK
<1>2. RequestInv(r)'
  BY <1>1 DEF RequestInv
<1>3. /\ messages[K(r)].linked
      /\ entries[K(r)].status \in {"reserved", "released"}
  BY <1>0 DEF RequestInv, FailClaim, Holds
<1>4. /\ entries'[K(r)].status = "released"
      /\ \A j \in Keys : j # K(r) => entries'[j] = entries[j]
  <2>1. CASE Holds(K(r)) /\ ReleaseCredit(K(r))
    BY <1>0, <2>1, SettlementEffect DEF ReleaseCredit
  <2>2. CASE entries[K(r)].status = "released" /\ UNCHANGED ledgerVars
    BY <2>2 DEF ledgerVars
  <2> QED
    BY <2>1, <2>2 DEF FailClaim
<1>5. messages' = [messages EXCEPT ![K(r)] = Settled(messages[K(r)], "failed", req[r].err)]
  BY DEF FailClaim, SetMessage
<1>6. /\ messages'[K(r)].status = "failed" /\ messages'[K(r)].linked
      /\ messages'[K(r)].grounded = messages[K(r)].grounded
      /\ \A j \in Keys : j # K(r) => messages'[j] = messages[j]
  BY <1>0, <1>3, <1>5 DEF TypeOK, Message, Settled
<1>7. Monotone
  BY <1>0, <1>3, <1>4, <1>6 DEF Monotone
<1>8. \A k \in Keys : MessageInv(k)'
  <2>1. MessageInv(K(r)) /\ \A k \in Keys : MessageInv(k)
    BY <1>0 DEF ExecutionInv
  <2>2. ASSUME NEW k \in Keys, k = K(r) PROVE MessageInv(k)'
    <3>1. replies[k] = 0
      BY <1>3, <2>1, <2>2 DEF MessageInv
    <3> QED
      BY <1>0, <1>3, <1>4, <1>6, <2>1, <2>2, <3>1 DEF MessageInv
  <2>3. ASSUME NEW k \in Keys, k # K(r) PROVE MessageInv(k)'
    BY <1>0, <1>4, <1>6, <2>1, <2>3 DEF MessageInv
  <2> QED
    BY <2>2, <2>3
<1> QED
  BY <1>0, <1>1, <1>2, <1>7, <1>8, Assemble


\* The steps of a request that has the provider's answer but settles nothing.
LEMMA SupersededInductive ==
    ASSUME ExecutionInv, NEW r \in Requests,
           \/ Generate(r) \/ CompleteRefused(r) \/ FailSuperseded(r)
    PROVE  ExecutionInv'
<1>0. /\ TypeOK /\ K(r) \in Keys /\ [Next]_vars
      /\ UNCHANGED <<messages, entries, replies>>
      /\ RequestInv(r) /\ req[r].pc \in {"generate", "complete", "fail"}
  BY RowType DEF ExecutionInv, Next, Step, Generate, CompleteRefused,
                 FailSuperseded, At, ledgerVars
<1>1. /\ \A q \in Requests : q # r => req'[q] = req[q]
      /\ req'[r].key = req[r].key
      /\ req'[r].pc \in {"complete", "fail", "idle"}
  BY <1>0 DEF Generate, CompleteRefused, FailSuperseded, Goto, RollbackTo,
              Finish, Idle, K, TypeOK, Request
<1>2. RequestInv(r)'
  BY <1>0, <1>1 DEF RequestInv, K
<1> QED
  BY <1>0, <1>1, <1>2, QuietInductive

\* A request that starts or dies knows nothing yet.
LEMMA StartCrashInductive ==
    ASSUME ExecutionInv, NEW r \in Requests, Crash(r) \/ \E k \in Keys : Start(r, k)
    PROVE  ExecutionInv'
<1>0. /\ TypeOK /\ [Next]_vars
      /\ UNCHANGED <<messages, entries, replies>>
  BY DEF ExecutionInv, Next, Crash, Start, ledgerVars
<1>1. /\ \A q \in Requests : q # r => req'[q] = req[q]
      /\ req'[r].pc \in {"submit", "idle"}
  <2>1. CASE Crash(r)
    BY <1>0, <2>1 DEF Crash, Finish, Idle, TypeOK
  <2>2. ASSUME NEW k \in Keys, Start(r, k)
        PROVE  /\ \A q \in Requests : q # r => req'[q] = req[q]
               /\ req'[r].pc \in {"submit", "idle"}
    BY <1>0, <2>2 DEF Start, Idle, TypeOK
  <2> QED
    BY <2>1, <2>2
<1>2. RequestInv(r)'
  BY <1>1 DEF RequestInv
<1> QED
  BY <1>0, <1>1, <1>2, QuietInductive

\* ExecutionInv is inductive.
LEMMA ExecutionInductive ==
    ASSUME ExecutionInv, [Next]_vars
    PROVE  ExecutionInv'
<1>1. ASSUME UNCHANGED <<messages, entries, replies, req>>
      PROVE  ExecutionInv'
  <2>1. TypeOK'
    BY ExecutionTypeInductive DEF ExecutionInv
  <2>2. \A k \in Keys : MessageInv(k)'
    BY <1>1 DEF ExecutionInv, MessageInv
  <2>3. \A r \in Requests : RequestInv(r)'
    BY <1>1 DEF ExecutionInv, RequestInv, K
  <2> QED
    BY <2>1, <2>2, <2>3 DEF ExecutionInv
<1>2. CASE UNCHANGED vars
  BY <1>1, <1>2 DEF vars
<1>3. CASE Tick
  BY <1>1, <1>3 DEF Tick, ledgerVars
<1>4. CASE Ledger
  BY <1>1, <1>4 DEF Ledger, Adjust, SyncSubscription
<1>5. ASSUME NEW r \in Requests, Step(r)
      PROVE  ExecutionInv'
  BY <1>5, SubmitInductive, ReserveCreditInductive, MarkInductive, ClaimInductive,
     RecoverInductive, CompleteInductive, FailInductive, SupersededInductive DEF Step
<1>6. ASSUME NEW r \in Requests, Crash(r) \/ \E k \in Keys : Start(r, k)
      PROVE  ExecutionInv'
  BY <1>6, StartCrashInductive
<1> QED
  BY <1>2, <1>3, <1>4, <1>5, <1>6 DEF Next

\* The inductive invariant holds of every behaviour of execute.
THEOREM ExecutionInvariant == Spec => []ExecutionInv
<1>1. Init => ExecutionInv
  <2> SUFFICES ASSUME Init PROVE ExecutionInv
    OBVIOUS
  <2>1. TypeOK
    <3>1. LedgerTypeOK
      BY DEF Init, LedgerInit, LedgerTypeOK, NoRow, Account, Entry, LedgerStatus
    <3> QED
      BY <3>1, RowTypes DEF Init, TypeOK
  <2>2. \A k \in Keys : MessageInv(k)
    BY DEF Init, LedgerInit, MessageInv, NewMessage
  <2>3. \A r \in Requests : RequestInv(r)
    <3>1. \A r \in Requests : req[r].pc = "idle"
      BY DEF Init, Idle
    <3> QED
      BY <3>1 DEF RequestInv
  <2> QED
    BY <2>1, <2>2, <2>3 DEF ExecutionInv
<1>2. ExecutionInv /\ [Next]_vars => ExecutionInv'
  BY ExecutionInductive
<1> QED
  BY <1>1, <1>2, PTL DEF Spec

\* Reply, completion and charge are one, whatever requests race for a key,
\* crash or replay it: nobody is charged without an answer or answered twice.
THEOREM ExecutionSettlesTogether == Spec => []SettledTogether
<1>1. ExecutionInv => SettledTogether
  BY DEF ExecutionInv, MessageInv, SettledTogether
<1> QED
  BY <1>1, ExecutionInvariant, PTL

\* A claimed message keeps its reservation until it is settled, and has its credit
\* back once _fail_claim has failed it.
THEOREM ExecutionCreditFollows == Spec => []CreditFollowsClaim
<1>1. ExecutionInv => CreditFollowsClaim
  BY DEF ExecutionInv, MessageInv, CreditFollowsClaim
<1> QED
  BY <1>1, ExecutionInvariant, PTL


\* A settled message is touched by no step that could change its outcome: the
\* settlements write only where the ledger entry is not yet settled otherwise.
LEMMA OutcomeStep ==
    ASSUME ExecutionInv, [Next]_vars, NEW k \in Keys
    PROVE  /\ messages[k].status = "completed" => messages'[k] = messages[k]
           /\ messages[k].status = "failed" => messages'[k].status = "failed"
<1> DEFINE Goal == /\ messages[k].status = "completed" => messages'[k] = messages[k]
                   /\ messages[k].status = "failed" => messages'[k].status = "failed"
<1>0. TypeOK /\ messages \in [Keys -> Message]
  BY DEF ExecutionInv, TypeOK
<1>1. CASE UNCHANGED messages
  BY <1>1
<1>2. ASSUME NEW r \in Requests, Step(r)
      PROVE  Goal
  <2>0. K(r) \in Keys /\ MessageInv(K(r)) /\ RequestInv(r)
    BY <1>0, RowType DEF ExecutionInv
  <2>1. CASE Submit(r)
    BY <1>0, <2>0, <2>1 DEF Submit, SetMessage
  <2>2. CASE MarkPreReservationFailure(r)
    <3>1. Row(r) = messages[K(r)]
      BY <2>0, <2>2 DEF RequestInv, MarkPreReservationFailure, At, Row
    <3>2. \/ UNCHANGED messages
          \/ /\ messages[K(r)].status = "pending"
             /\ messages' = [messages EXCEPT ![K(r)] =
                                Settled(messages[K(r)], "failed", req[r].err)]
      BY <2>2, <3>1 DEF MarkPreReservationFailure, Unclaimed, SetMessage
    <3> QED
      BY <1>0, <2>0, <3>2
  <2>3. CASE ClaimTaken(r)
    BY <1>0, <2>0, <2>3 DEF ClaimTaken, SetMessage
  <2>4. CASE CompleteClaim(r)
    <3>1. messages[K(r)].status \notin {"completed", "failed"}
      BY <2>0, <2>4 DEF CompleteClaim, Persistable, Holds, MessageInv
    <3>2. messages' = [messages EXCEPT ![K(r)] = Settled(messages[K(r)], "completed", NoError)]
      BY <2>4 DEF CompleteClaim, SetMessage
    <3> QED
      BY <1>0, <2>0, <3>1, <3>2
  <2>5. CASE FailClaim(r)
    <3>1. messages[K(r)].status # "completed"
      BY <2>0, <2>5 DEF FailClaim, Holds, MessageInv
    <3>2. messages' = [messages EXCEPT ![K(r)] = Settled(messages[K(r)], "failed", req[r].err)]
      BY <2>5 DEF FailClaim, SetMessage
    <3>3. messages[K(r)] \in Message
      BY <1>0, <2>0
    <3>4. Settled(messages[K(r)], "failed", req[r].err).status = "failed"
      BY <3>3 DEF Settled, Message
    <3> QED
      BY <1>0, <2>0, <3>1, <3>2, <3>4
  <2> QED
    BY <1>2, <1>1, <2>1, <2>2, <2>3, <2>4, <2>5
       DEF Step, ReserveCredit, ClaimRefused, ClaimAnswered, RecoverRefusedClaim, Generate,
           CompleteRefused, FailSuperseded
<1>3. ASSUME NEW r \in Requests, Crash(r) \/ \E j \in Keys : Start(r, j)
      PROVE  UNCHANGED messages
  BY <1>3 DEF Crash, Start
<1> QED
  BY <1>1, <1>2, <1>3 DEF Next, Tick, Ledger, vars

\* A completed message is immutable and a failed one never succeeds later,
\* although late owners of an expired lease still try to settle it.
THEOREM ExecutionOutcomeIsFinal == Spec => OutcomeIsFinal
<1>1. ExecutionInv /\ [Next]_vars =>
         [\A k \in Keys :
              /\ messages[k].status = "completed" => messages'[k] = messages[k]
              /\ messages[k].status = "failed" => messages'[k].status = "failed"]_vars
  BY OutcomeStep
<1> QED
  BY <1>1, ExecutionInvariant, PTL DEF Spec, OutcomeIsFinal


=============================================================================
