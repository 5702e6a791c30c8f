--------------------------- MODULE SessionRegistry ---------------------------
(***************************************************************************)
(* What the sessions of one customer promise.  Every operation is atomic.  *)
(* The access token of a pair that is open or spent is accepted while the  *)
(* account is active, its refresh token only while it is open.  A pair     *)
(* goes back to a password check; between two revocations lies a period,   *)
(* and a revocation closes every pair and every check for good.            *)
(***************************************************************************)
EXTENDS Naturals

CONSTANTS Pairs,    \* token pairs that may be issued
          Checks    \* login challenges that may be issued

VARIABLES pair,     \* what each pair stands for
          check,    \* right passwords that wait for a code
          period,   \* revocations of all sessions so far
          strict,   \* a login needs a code
          deleted   \* the account is deleted

registry == <<pair, check, period, strict, deleted>>

\* Nothing is recorded of a pair or a check that is not there or is closed.
NoPair(state) == [state |-> state, period |-> 0, stepped |-> FALSE, login |-> 0]

NoCheck(state) == [state |-> state, period |-> 0]

Pair(p, stepped, t) == [state |-> "open", period |-> p, stepped |-> stepped, login |-> t]

Asked(p) == [state |-> "open", period |-> p]

Init ==
    /\ pair = [t \in Pairs |-> NoPair("none")]
    /\ check = [c \in Checks |-> NoCheck("none")]
    /\ period = 0
    /\ strict = FALSE
    /\ deleted = FALSE

\* A right password opens a session, or asks for a code.
Login(t) ==
    /\ ~strict /\ ~deleted
    /\ pair[t].state = "none"
    /\ pair' = [pair EXCEPT ![t] = Pair(period, FALSE, t)]
    /\ UNCHANGED <<check, period, strict, deleted>>

Ask(c) ==
    /\ strict /\ ~deleted
    /\ check[c].state = "none"
    /\ check' = [check EXCEPT ![c] = Asked(period)]
    /\ UNCHANGED <<pair, period, strict, deleted>>

\* Another code is sent for the same password check.
AskAgain(c, d) ==
    /\ strict /\ ~deleted
    /\ check[c].state = "open" /\ check[d].state = "none"
    /\ check' = [check EXCEPT ![d] = Asked(check[c].period)]
    /\ UNCHANGED <<pair, period, strict, deleted>>

Answer(c, t) ==
    /\ strict /\ ~deleted
    /\ check[c].state = "open" /\ pair[t].state = "none"
    /\ pair' = [pair EXCEPT ![t] = Pair(check[c].period, TRUE, t)]
    /\ UNCHANGED <<check, period, strict, deleted>>

\* Refresh tokens are rotated: the new pair continues the login of the old one.
Renew(s, t) ==
    /\ pair[s].state = "open" /\ pair[t].state = "none"
    /\ pair' = [pair EXCEPT ![s].state = "spent",
                            ![t] = Pair(pair[s].period, pair[s].stepped, pair[s].login)]
    /\ UNCHANGED <<check, period, strict, deleted>>

\* Log-out ends refreshing and leaves the access token to its expiry.
Spend(S) ==
    /\ \A t \in S : pair[t].state = "open"
    /\ pair' = [t \in Pairs |-> IF t \in S THEN [pair[t] EXCEPT !.state = "spent"] ELSE pair[t]]
    /\ UNCHANGED <<check, period, strict, deleted>>

\* A pair or a check is issued too late, and is never accepted.
IssueClosed ==
    /\ \/ /\ \E t \in Pairs : pair[t].state = "none"
                              /\ pair' = [pair EXCEPT ![t] = NoPair("closed")]
          /\ UNCHANGED check
       \/ /\ \E c \in Checks : check[c].state = "none"
                               /\ check' = [check EXCEPT ![c] = NoCheck("closed")]
          /\ UNCHANGED pair
    /\ UNCHANGED <<period, strict, deleted>>

\* Only a revocation changes whether codes are needed or deletes the account.
Revoke ==
    /\ pair' = [t \in Pairs |-> NoPair(IF pair[t].state = "none" THEN "none" ELSE "closed")]
    /\ check' = [c \in Checks |-> NoCheck(IF check[c].state = "none" THEN "none" ELSE "closed")]
    /\ period' = period + 1
    /\ strict' \in BOOLEAN
    /\ deleted' \in {TRUE, deleted}

Next ==
    \/ \E S \in SUBSET Pairs : Spend(S)
    \/ \E t \in Pairs : \/ Login(t)
                        \/ \E c \in Checks : Answer(c, t)
                        \/ \E s \in Pairs : Renew(s, t)
    \/ \E c \in Checks : \/ Ask(c)
                         \/ \E d \in Checks : AskAgain(c, d)
    \/ IssueClosed
    \/ Revoke

Spec == Init /\ [][Next]_registry

=============================================================================
