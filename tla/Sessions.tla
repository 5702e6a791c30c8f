------------------------------- MODULE Sessions ------------------------------
(***************************************************************************)
(* The sessions of one customer: AuthService (app/services/auth.py),       *)
(* AccountSecurityService (account_security.py), EmailTwoStepService       *)
(* (email_two_step.py), AdminAccountService (admin_accounts.py) and        *)
(* get_current_user (app/api/deps.py).                                     *)
(*                                                                         *)
(* Every change of the account locks the user row, so two of them never    *)
(* overlap; but get_current_user has loaded the User object earlier in the *)
(* same database session, without a lock, and a later SELECT ... FOR       *)
(* UPDATE returns that object with the values it was loaded with (no       *)
(* populate_existing).  The same holds of a challenge, which session.get   *)
(* loads before the lock.  req[r].user and req[r].copy are these objects.  *)
(*                                                                         *)
(* A refresh locks its refresh token and no user; its INSERT takes the     *)
(* foreign key's KEY SHARE lock on the user row, which waits for a plain   *)
(* FOR UPDATE and not for FOR NO KEY UPDATE.                               *)
(*                                                                         *)
(* Passwords and codes are right or wrong, addresses are left out; a code  *)
(* or a token may be found expired at any time, and a request inside the   *)
(* resend cooldown changes nothing.                                        *)
(***************************************************************************)
EXTENDS Integers

CONSTANTS
    Requests,       \* request slots
    MaxTokens,      \* bound: token pairs issued
    MaxChallenges,  \* bound: two-step challenges issued
    MaxAttempts,    \* otp_max_attempts, of challenges
    MaxEpoch        \* bound: revocations of all sessions

ASSUME SessionsAssumption ==
    /\ MaxTokens \in Nat
    /\ MaxChallenges \in Nat
    /\ MaxAttempts \in Nat \ {0}
    /\ MaxEpoch \in Nat

VARIABLES
    user,         \* the committed row of users
    otp,          \* the unused one-time code of each kind
    challenges,   \* email_two_step_challenges
    tokens,       \* token pairs: the row of refresh_tokens and both JWTs
    req,          \* the running requests
    epoch,        \* history: committed revocations of all sessions
    lost          \* history: some request wrote a version it had read too early

vars == <<user, otp, challenges, tokens, req, epoch, lost>>

-----------------------------------------------------------------------------

TokenIds == 1..MaxTokens

ChallengeIds == 1..MaxChallenges

OtpKinds == {"verification", "reset", "email_change"}

Purposes == {"enable", "disable", "login"}

\* Operations that end by revoking every refresh token of the user.
Revocations == {"reset_password", "confirm_email_change", "change_password",
                "delete_account", "enable", "disable", "suspend"}

User == [active   : BOOLEAN,
         verified : BOOLEAN,
         deleted  : BOOLEAN,
         twoStep  : BOOLEAN,     \* email_two_step_enabled
         version  : Nat]         \* auth_session_version

\* attempt_count is left out: see BadCode.
Otp == [live     : BOOLEAN,      \* a row with used_at IS NULL
        verified : BOOLEAN]      \* verified_at of a PasswordResetOTP

\* grant, the epoch in which the password was checked, is history.
Challenge == [status   : {"none", "live", "used"},
              purpose  : Purposes,
              ver      : Nat,
              attempts : Nat,
              grant    : Nat]

\* grant and stepped (a challenge was answered) and root (the pair of the
\* login that a chain of refreshes goes back to) are history.
Token == [status  : {"none", "live", "revoked"},
          ver     : Nat,
          grant   : Nat,
          stepped : BOOLEAN,
          root    : TokenIds]

Request == [pc        : {"idle", "read", "probed", "writing", "refreshing"},
            op        : Revocations,
            user      : User,
            challenge : 0..MaxChallenges,
            copy      : [live : BOOLEAN, attempts : Nat],
            token     : 0..MaxTokens,
            seen      : SUBSET TokenIds]

-----------------------------------------------------------------------------

NoUser == [active |-> FALSE, verified |-> FALSE, deleted |-> FALSE,
           twoStep |-> FALSE, version |-> 0]

NoOtp == [live |-> FALSE, verified |-> FALSE]

NewOtp == [NoOtp EXCEPT !.live = TRUE]

Idle == [pc |-> "idle", op |-> "suspend", user |-> NoUser, challenge |-> 0,
         copy |-> [live |-> FALSE, attempts |-> 0], token |-> 0, seen |-> {}]

\* A customer has just registered.
Init ==
    /\ user = [NoUser EXCEPT !.active = TRUE]
    /\ otp = [k \in OtpKinds |-> IF k = "verification" THEN NewOtp ELSE NoOtp]
    /\ challenges = [c \in ChallengeIds |->
                       [status |-> "none", purpose |-> "login", ver |-> 0,
                        attempts |-> 0, grant |-> 0]]
    /\ tokens = [t \in TokenIds |->
                   [status |-> "none", ver |-> 0, grant |-> 0,
                    stepped |-> FALSE, root |-> t]]
    /\ req = [r \in Requests |-> Idle]
    /\ epoch = 0
    /\ lost = FALSE

-----------------------------------------------------------------------------
(***************************************************************************)
(* Locks and rows.                                                         *)
(***************************************************************************)

\* No transaction holds a lock on the user row.
UserFree == \A r \in Requests : req[r].pc # "writing"

\* The password reset locks FOR NO KEY UPDATE, the others FOR UPDATE.
LocksForUpdate(op) == op # "reset_password"

\* Faulty variant: a refresh reads its token without FOR UPDATE.
TokenNeverLocked(t) == FALSE

TokenLocked(t) == \E r \in Requests : req[r].pc = "refreshing" /\ req[r].token = t

\* The access token of pair t passes get_current_user.
Accepted(t) == /\ tokens[t].status # "none"
               /\ user.active
               /\ tokens[t].ver = user.version

Done(r) == req' = [req EXCEPT ![r] = Idle]

FreshToken(t) == /\ tokens[t].status = "none"
                 /\ \A s \in TokenIds : s < t => tokens[s].status # "none"

FreshChallenge(c) == /\ challenges[c].status = "none"
                     /\ \A d \in ChallengeIds : d < c => challenges[d].status # "none"

NewToken(ver, grant, stepped, root) ==
    [status |-> "live", ver |-> ver, grant |-> grant,
     stepped |-> stepped, root |-> root]

UseUp(purposes) ==
    [c \in ChallengeIds |->
       IF challenges[c].status = "live" /\ challenges[c].purpose \in purposes
       THEN [challenges[c] EXCEPT !.status = "used"] ELSE challenges[c]]

\* A new challenge replaces the live ones of its purpose.
Issue(purpose, ver, grant) ==
    \E c \in ChallengeIds :
       /\ FreshChallenge(c)
       /\ challenges' = [UseUp({purpose}) EXCEPT ![c] =
                           [status |-> "live", purpose |-> purpose, ver |-> ver,
                            attempts |-> 0, grant |-> grant]]

-----------------------------------------------------------------------------
(***************************************************************************)
(* One-time codes.  The code row is read under the user lock.              *)
(***************************************************************************)

RightCode(kind) == otp[kind].live

\* An expired code or the last wrong one uses the row up; a wrong one before it
\* only counts, and changes nothing the model keeps.
BadCode(kind) ==
    /\ otp[kind].live
    /\ otp' = [otp EXCEPT ![kind] = NoOtp]

\* The address of a deleted account is replaced, so no e-mail finds it.
Findable == user.active /\ ~user.deleted

ResendVerification ==
    /\ UserFree
    /\ Findable /\ ~user.verified
    /\ otp' = [otp EXCEPT !["verification"] = NewOtp]
    /\ UNCHANGED <<user, challenges, tokens, req, epoch, lost>>

VerifyEmail ==
    /\ UserFree
    /\ Findable /\ ~user.verified
    /\ \/ /\ RightCode("verification")
          /\ user' = [user EXCEPT !.verified = TRUE]
          /\ otp' = [otp EXCEPT !["verification"] = NoOtp]
       \/ /\ BadCode("verification")
          /\ UNCHANGED user
    /\ UNCHANGED <<challenges, tokens, req, epoch, lost>>

RequestPasswordReset ==
    /\ UserFree
    /\ Findable /\ user.verified
    /\ otp' = [otp EXCEPT !["reset"] = NewOtp]
    /\ UNCHANGED <<user, challenges, tokens, req, epoch, lost>>

VerifyPasswordResetOTP ==
    /\ UserFree
    /\ Findable /\ user.verified
    /\ \/ /\ RightCode("reset")
          /\ otp' = [otp EXCEPT !["reset"].verified = TRUE]
       \/ BadCode("reset")
    /\ UNCHANGED <<user, challenges, tokens, req, epoch, lost>>

-----------------------------------------------------------------------------
(***************************************************************************)
(* Opening, rotating and closing a session.                                *)
(***************************************************************************)

\* The user row stays locked from the password check to the commit.
Login ==
    /\ UserFree
    /\ Findable /\ user.verified
    /\ \/ /\ ~user.twoStep
          /\ \E t \in TokenIds :
                /\ FreshToken(t)
                /\ tokens' = [tokens EXCEPT ![t] = NewToken(user.version, epoch, FALSE, t)]
          /\ UNCHANGED challenges
       \/ /\ user.twoStep
          /\ Issue("login", user.version, epoch)
          /\ UNCHANGED tokens
    /\ UNCHANGED <<user, otp, req, epoch, lost>>

\* The refresh token is locked and the user is read without a lock.
RefreshStart(r, t) ==
    /\ req[r].pc = "idle"
    /\ tokens[t].status = "live" /\ ~TokenLocked(t)
    /\ user.active /\ user.verified
    /\ tokens[t].ver = user.version
    /\ req' = [req EXCEPT ![r] = [Idle EXCEPT !.pc = "refreshing",
                                              !.user = user, !.token = t]]
    /\ UNCHANGED <<user, otp, challenges, tokens, epoch, lost>>

RefreshCommit(r) ==
    /\ req[r].pc = "refreshing"
    /\ \A s \in Requests : req[s].pc = "writing" => ~LocksForUpdate(req[s].op)
    /\ LET old == req[r].token IN
       \E t \in TokenIds :
          /\ FreshToken(t)
          /\ tokens' = [tokens EXCEPT
               ![old].status = "revoked",
               ![t] = NewToken(req[r].user.version, tokens[old].grant,
                               tokens[old].stepped, tokens[old].root)]
    /\ Done(r)
    /\ UNCHANGED <<user, otp, challenges, epoch, lost>>

Logout(t) ==
    /\ tokens[t].status = "live" /\ ~TokenLocked(t)
    /\ tokens' = [tokens EXCEPT ![t].status = "revoked"]
    /\ UNCHANGED <<user, otp, challenges, req, epoch, lost>>

-----------------------------------------------------------------------------
(***************************************************************************)
(* Requests that carry an access token, and challenges.                    *)
(***************************************************************************)

\* get_current_user.
Authenticate(r) ==
    /\ req[r].pc = "idle"
    /\ \E t \in TokenIds : Accepted(t)
    /\ req' = [req EXCEPT ![r] = [Idle EXCEPT !.pc = "read", !.user = user]]
    /\ UNCHANGED <<user, otp, challenges, tokens, epoch, lost>>

\* session.get(EmailTwoStepChallenge): a login challenge is presented without
\* a session, the others by an authenticated request.
Probe(r, c) ==
    /\ challenges[c].status # "none"
    /\ req[r].pc = IF challenges[c].purpose = "login" THEN "idle" ELSE "read"
    /\ req' = [req EXCEPT ![r] =
                 [@ EXCEPT !.pc = "probed", !.challenge = c,
                           !.copy = [live     |-> challenges[c].status = "live",
                                     attempts |-> challenges[c].attempts]]]
    /\ UNCHANGED <<user, otp, challenges, tokens, epoch, lost>>

\* The User object _lock_user returns: fresh only if the request had none.
Locked(r) ==
    IF challenges[req[r].challenge].purpose = "login" THEN user ELSE req[r].user

Usable(u) == u.active /\ ~u.deleted

TwoStepUsable(u) == Usable(u) /\ u.verified

\* Faulty variant: the challenge is not bound to the session version.
AnswerableAnyVersion(r, u) ==
    /\ req[r].copy.live
    /\ req[r].copy.attempts < MaxAttempts

Answerable(r, u) ==
    /\ req[r].copy.live
    /\ challenges[req[r].challenge].ver = u.version
    /\ req[r].copy.attempts < MaxAttempts

\* What _validate_otp writes before it raises.
BadAnswer(r, u) ==
    LET c == req[r].challenge IN
    /\ req[r].copy.live
    /\ \/ challenges' = [challenges EXCEPT ![c].status = "used"]
       \/ /\ Answerable(r, u)
          /\ challenges' = [challenges EXCEPT ![c] =
               [@ EXCEPT !.attempts = req[r].copy.attempts + 1,
                         !.status = IF req[r].copy.attempts + 1 >= MaxAttempts
                                    THEN "used" ELSE challenges[c].status]]

\* consume_login and the token pair, in one transaction.
ConsumeLogin(r) ==
    LET c == req[r].challenge IN
    /\ req[r].pc = "probed" /\ challenges[c].purpose = "login"
    /\ UserFree /\ TwoStepUsable(user)
    /\ \/ /\ ~user.twoStep
          /\ challenges' = [challenges EXCEPT ![c].status = "used"]
          /\ UNCHANGED tokens
       \/ /\ user.twoStep
          /\ BadAnswer(r, user)
          /\ UNCHANGED tokens
       \/ /\ user.twoStep
          /\ Answerable(r, user)
          /\ challenges' = [challenges EXCEPT ![c].status = "used"]
          /\ \E t \in TokenIds :
                /\ FreshToken(t)
                /\ tokens' = [tokens EXCEPT ![t] =
                                NewToken(user.version, challenges[c].grant, TRUE, t)]
    /\ Done(r)
    /\ UNCHANGED <<user, otp, epoch, lost>>

Resend(r) ==
    LET c == req[r].challenge
        u == Locked(r)
        p == challenges[c].purpose
        current == challenges[c].ver = u.version /\ u.twoStep = (p # "enable") IN
    /\ req[r].pc = "probed"
    /\ UserFree /\ TwoStepUsable(u)
    /\ req[r].copy.live
    /\ \/ /\ current
          /\ Issue(p, u.version, challenges[c].grant)
       \/ challenges' = [challenges EXCEPT ![c].status = "used"]
    /\ Done(r)
    /\ UNCHANGED <<user, otp, tokens, epoch, lost>>

\* request_enable and request_disable.
RequestSetting(r, purpose) ==
    /\ req[r].pc = "read"
    /\ UserFree /\ TwoStepUsable(req[r].user)
    /\ req[r].user.twoStep = (purpose = "disable")
    /\ Issue(purpose, req[r].user.version, epoch)
    /\ Done(r)
    /\ UNCHANGED <<user, otp, tokens, epoch, lost>>

RequestEmailChange(r) ==
    /\ req[r].pc = "read"
    /\ UserFree /\ Usable(req[r].user)
    /\ otp' = [otp EXCEPT !["email_change"] = NewOtp]
    /\ Done(r)
    /\ UNCHANGED <<user, challenges, tokens, epoch, lost>>

-----------------------------------------------------------------------------
(***************************************************************************)
(* Revocations.  The checks pass under the user lock.  The UPDATE of       *)
(* refresh_tokens sees the rows committed when it starts, at some point    *)
(* after that, and waits for those a refresh has locked; a row inserted    *)
(* while it waits is missed.  The commit publishes everything at once.     *)
(***************************************************************************)

LiveTokens == {t \in TokenIds : tokens[t].status = "live"}

Write(r, op, u) ==
    req' = [req EXCEPT ![r] = [@ EXCEPT !.pc = "writing", !.op = op, !.user = u,
                                        !.seen = LiveTokens]]

ResetPassword(r) ==
    /\ req[r].pc = "idle"
    /\ UserFree
    /\ Findable /\ user.verified
    /\ \/ /\ RightCode("reset") /\ otp["reset"].verified
          /\ Write(r, "reset_password", user)
          /\ UNCHANGED otp
       \/ BadCode("reset") /\ UNCHANGED req
    /\ UNCHANGED <<user, challenges, tokens, epoch, lost>>

\* The administrator's session has not loaded the target before.
Suspend(r) ==
    /\ req[r].pc = "idle"
    /\ UserFree
    /\ Write(r, "suspend", user)
    /\ UNCHANGED <<user, otp, challenges, tokens, epoch, lost>>

Reactivate ==
    /\ UserFree
    /\ user' = [user EXCEPT !.active = TRUE]
    /\ UNCHANGED <<otp, challenges, tokens, req, epoch, lost>>

\* change_password and delete_account.
ChangeAccount(r, op) ==
    /\ req[r].pc = "read"
    /\ UserFree /\ Usable(req[r].user)
    /\ Write(r, op, req[r].user)
    /\ UNCHANGED <<user, otp, challenges, tokens, epoch, lost>>

ConfirmEmailChange(r) ==
    /\ req[r].pc = "read"
    /\ UserFree /\ Usable(req[r].user)
    /\ \/ /\ RightCode("email_change")
          /\ Write(r, "confirm_email_change", req[r].user)
          /\ UNCHANGED otp
       \/ BadCode("email_change") /\ Done(r)
    /\ UNCHANGED <<user, challenges, tokens, epoch, lost>>

\* confirm_enable and confirm_disable.
ConfirmSetting(r) ==
    LET p == challenges[req[r].challenge].purpose IN
    /\ req[r].pc = "probed" /\ p # "login"
    /\ UserFree /\ TwoStepUsable(req[r].user)
    /\ req[r].user.twoStep = (p = "disable")
    /\ \/ /\ Answerable(r, req[r].user)
          /\ Write(r, p, req[r].user)
          /\ UNCHANGED challenges
       \/ BadAnswer(r, req[r].user) /\ Done(r)
    /\ UNCHANGED <<user, otp, tokens, epoch, lost>>

\* All but the suspension of a suspended user end every session.
Takes(op, u) == op # "suspend" \/ u.active

\* Faulty variants: the session version stays when the two-step setting changes, or
\* when the account is deleted.
NextVersionUnlessSetting(op, u) ==
    IF op \in {"enable", "disable"} THEN u.version ELSE u.version + 1

NextVersionUnlessDeleted(op, u) ==
    IF op = "delete_account" THEN u.version ELSE u.version + 1

NextVersion(op, u) == IF Takes(op, u) THEN u.version + 1 ELSE u.version

\* The object as the operation leaves it.
Changed(op, u) ==
    [active   |-> u.active /\ op \notin {"suspend", "delete_account"},
     verified |-> (u.verified \/ op = "confirm_email_change") /\ op # "delete_account",
     deleted  |-> u.deleted \/ op = "delete_account",
     twoStep  |-> (u.twoStep \/ op = "enable") /\ op \notin {"disable", "delete_account"},
     version  |-> NextVersion(op, u)]

\* The flush writes the columns whose value differs from the loaded one.
Flush(old, new) ==
    [active   |-> IF new.active = old.active THEN user.active ELSE new.active,
     verified |-> IF new.verified = old.verified THEN user.verified ELSE new.verified,
     deleted  |-> IF new.deleted = old.deleted THEN user.deleted ELSE new.deleted,
     twoStep  |-> IF new.twoStep = old.twoStep THEN user.twoStep ELSE new.twoStep,
     version  |-> IF new.version = old.version THEN user.version ELSE new.version]

\* The kinds of code an operation invalidates.
Invalidated(op) ==
    CASE op \in {"change_password", "confirm_email_change", "delete_account"} -> OtpKinds
      [] op = "reset_password" -> {"reset", "email_change"}
      [] OTHER -> {}

Commit(r) ==
    LET op  == req[r].op
        old == req[r].user
        new == Changed(op, old) IN
    /\ req[r].pc = "writing"
    /\ epoch < MaxEpoch
    /\ user' = Flush(old, new)
    /\ \E late \in SUBSET (LiveTokens \ req[r].seen) :
          LET S == req[r].seen \cup late IN
          /\ \A t \in S : ~TokenLocked(t)
          /\ tokens' = [t \in TokenIds |-> IF t \in S
                                           THEN [tokens[t] EXCEPT !.status = "revoked"]
                                           ELSE tokens[t]]
    /\ otp' = [k \in OtpKinds |-> IF k \in Invalidated(op) THEN NoOtp ELSE otp[k]]
    /\ challenges' = IF op = "suspend" THEN challenges ELSE UseUp(Purposes)
    /\ epoch' = IF Takes(op, old) THEN epoch + 1 ELSE epoch
    /\ lost' = (lost \/ (Takes(op, old) /\ old.version # user.version))
    /\ Done(r)

\* A refused request, a deadlock victim, a lost connection: all roll back.
Abort(r) ==
    /\ req[r].pc # "idle"
    /\ Done(r)
    /\ UNCHANGED <<user, otp, challenges, tokens, epoch, lost>>

-----------------------------------------------------------------------------

Next ==
    \/ ResendVerification \/ VerifyEmail
    \/ RequestPasswordReset \/ VerifyPasswordResetOTP
    \/ Login \/ Reactivate
    \/ \E t \in TokenIds : Logout(t)
    \/ \E r \in Requests :
         \/ \E t \in TokenIds : RefreshStart(r, t)
         \/ RefreshCommit(r)
         \/ Authenticate(r)
         \/ \E c \in ChallengeIds : Probe(r, c)
         \/ ConsumeLogin(r) \/ Resend(r)
         \/ \E p \in {"enable", "disable"} : RequestSetting(r, p)
         \/ RequestEmailChange(r)
         \/ ResetPassword(r) \/ Suspend(r)
         \/ \E op \in {"change_password", "delete_account"} : ChangeAccount(r, op)
         \/ ConfirmEmailChange(r) \/ ConfirmSetting(r)
         \/ Commit(r) \/ Abort(r)

Spec == Init /\ [][Next]_vars

-----------------------------------------------------------------------------
(***************************************************************************)
(* Properties.                                                             *)
(***************************************************************************)

\* The rows, the objects the requests hold and the history are well formed.
TypeOK ==
    /\ user \in User
    /\ otp \in [OtpKinds -> Otp]
    /\ challenges \in [ChallengeIds -> Challenge]
    /\ tokens \in [TokenIds -> Token]
    /\ req \in [Requests -> Request]
    /\ epoch \in Nat
    /\ lost \in BOOLEAN

\* README.md: every previously issued access token becomes invalid when a
\* credential changes or the account is suspended.  A session that is accepted
\* goes back, through every refresh and every challenge, to a password check
\* made since the last revocation.
NoOldSession == \A t \in TokenIds : Accepted(t) => tokens[t].grant = epoch

\* The same as long as no request has written a version computed from a User
\* object that another revocation had overtaken.
NoOldSessionUnlessLost == ~lost => NoOldSession

\* While e-mail two-step is on, every accepted session has answered a challenge
\* (confirm_enable revokes the others; Login opens none).
TwoStepEnforced ==
    ~lost /\ user.twoStep => \A t \in TokenIds : Accepted(t) => tokens[t].stepped

\* A deleted account has no session and gets none, even if an administrator
\* reactivates the anonymised row.
DeletedStaysClosed == ~lost /\ user.deleted => \A t \in TokenIds : ~Accepted(t)

\* Rotation: of all the refresh tokens a login leads to, at most one is live,
\* however refreshes, log-outs, revocations and aborts interleave.
OneLivePerLogin ==
    \A s, t \in TokenIds :
       tokens[s].status = "live" /\ tokens[t].status = "live" /\ tokens[s].root = tokens[t].root
       => s = t

\* What a pair and a login challenge are to the registry.  Their session version
\* decides it, and once a version is lost nothing is promised of any of them.
Valid(ver) == ~lost /\ ver = user.version

PairState(t) ==
    IF tokens[t].status = "none" THEN "none"
    ELSE IF ~Valid(tokens[t].ver) THEN "closed"
    ELSE IF tokens[t].status = "live" THEN "open" ELSE "spent"

CheckState(c) ==
    IF challenges[c].status = "none" \/ challenges[c].purpose # "login" THEN "none"
    ELSE IF Valid(challenges[c].ver) THEN "open" ELSE "closed"

PairOf(t) ==
    LET s == PairState(t)
        old == s \in {"none", "closed"}
    IN  [state   |-> s,
         period  |-> IF old THEN 0 ELSE tokens[t].grant,
         stepped |-> ~old /\ tokens[t].stepped,
         login   |-> IF old THEN 0 ELSE tokens[t].root]

CheckOf(c) ==
    LET s == CheckState(c)
    IN  [state |-> s, period |-> IF s = "open" THEN challenges[c].grant ELSE 0]

Registry == INSTANCE SessionRegistry WITH
    Pairs   <- TokenIds,
    Checks  <- ChallengeIds,
    pair    <- [t \in TokenIds |-> PairOf(t)],
    check   <- [c \in ChallengeIds |-> CheckOf(c)],
    period  <- epoch,
    strict  <- user.twoStep /\ ~lost,
    deleted <- user.deleted

\* However requests overlap, and with stale objects, sessions are those of a registry
\* of atomic operations: none is opened but by a password check of the current period,
\* with a code if the setting asks for one, by a refresh of an open one, and never for
\* a deleted account; and a revocation closes all of them for good.
ImplementsRegistry == Registry!Spec

=============================================================================
