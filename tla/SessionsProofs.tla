--------------------------- MODULE SessionsProofs ----------------------------
(***************************************************************************)
(* For any number of requests, tokens, challenges and revocations: unless  *)
(* a request has written a version it read too early, an accepted session  *)
(* goes back to a password check made since the last revocation, has       *)
(* answered a challenge while two-step is on, and does not belong to a     *)
(* deleted account.  A login has at most one live refresh token, always.   *)
(*                                                                         *)
(* The session version is the fence: as long as nothing is lost it counts  *)
(* the revocations, and a token and the challenge before it carry the      *)
(* count of their password check.  No lock is needed for that.  Rotation   *)
(* rests on the lock of the refresh token instead.  From the same facts,   *)
(* Sessions implements SessionRegistry.                                    *)
(***************************************************************************)
EXTENDS Sessions, TLAPS

\* What a token pair says of its login.
TokenInv(t) ==
    tokens[t].status # "none" =>
      /\ tokens[t].ver = tokens[t].grant
      /\ tokens[t].ver <= epoch
      /\ user.twoStep /\ tokens[t].ver = user.version => tokens[t].stepped
      /\ user.deleted => tokens[t].ver # user.version

ChallengeInv(c) ==
    challenges[c].status # "none" /\ challenges[c].purpose = "login"
    => challenges[c].ver = challenges[c].grant /\ challenges[c].ver <= epoch

FenceInv ==
    ~lost => /\ user.version = epoch
             /\ \A t \in TokenIds : TokenInv(t)
             /\ \A c \in ChallengeIds : ChallengeInv(c)

\* What a running request points at.
RequestInv(r) ==
    /\ req[r].pc = "refreshing" => /\ req[r].token \in TokenIds
                                   /\ tokens[req[r].token].status = "live"
                                   /\ req[r].user.version = tokens[req[r].token].ver
    /\ req[r].pc = "probed" => /\ req[r].challenge \in ChallengeIds
                               /\ challenges[req[r].challenge].status # "none"
    /\ req[r].pc = "writing" => \A t \in req[r].seen : tokens[t].status # "none"

\* SELECT ... FOR UPDATE of refresh_tokens.
OneRefresher ==
    \A r, s \in Requests :
       req[r].pc = "refreshing" /\ req[s].pc = "refreshing" /\ req[r].token = req[s].token
       => r = s

RootInv == \A t \in TokenIds :
    tokens[t].status # "none" => tokens[tokens[t].root].status # "none"

SessionsInv ==
    /\ TypeOK
    /\ \A r \in Requests : RequestInv(r)
    /\ FenceInv
    /\ OneRefresher
    /\ RootInv
    /\ OneLivePerLogin

-----------------------------------------------------------------------------

LEMMA IdleType == Idle \in Request /\ NoOtp \in Otp /\ NewOtp \in Otp /\ NoUser \in User
<1>1. NoUser \in User
  BY DEF NoUser, User
<1>2. NoOtp \in Otp /\ NewOtp \in Otp
  BY DEF NoOtp, NewOtp, Otp
<1>3. 0 \in 0..MaxChallenges /\ 0 \in 0..MaxTokens
  BY SessionsAssumption
<1>4. [live |-> FALSE, attempts |-> 0] \in [live : BOOLEAN, attempts : Nat]
  OBVIOUS
<1>5. "suspend" \in Revocations
  BY DEF Revocations
<1>6. Idle \in Request
  BY <1>1, <1>3, <1>4, <1>5 DEF Idle, Request
<1> QED
  BY <1>1, <1>2, <1>6

LEMMA UseUpType ==
    ASSUME TypeOK, NEW P
    PROVE  UseUp(P) \in [ChallengeIds -> Challenge]
BY DEF UseUp, TypeOK, Challenge

LEMMA IssueType ==
    ASSUME TypeOK, NEW p \in Purposes, NEW v \in Nat, NEW g \in Nat, Issue(p, v, g)
    PROVE  challenges' \in [ChallengeIds -> Challenge]
<1> DEFINE new == [status |-> "live", purpose |-> p, ver |-> v,
                   attempts |-> 0, grant |-> g]
<1>1. new \in Challenge
  BY DEF Challenge
<1>2. UseUp({p}) \in [ChallengeIds -> Challenge]
  BY UseUpType
<1>3. PICK c \in ChallengeIds : challenges' = [UseUp({p}) EXCEPT ![c] = new]
  BY DEF Issue
<1> QED
  BY <1>1, <1>2, <1>3

LEMMA NewTokenType ==
    ASSUME TypeOK, NEW v \in Nat, NEW g \in Nat, NEW b \in BOOLEAN, NEW x \in TokenIds
    PROVE  NewToken(v, g, b, x) \in Token
BY DEF NewToken, Token

LEMMA BadAnswerType ==
    ASSUME TypeOK, NEW r \in Requests, req[r].challenge \in ChallengeIds, NEW u, BadAnswer(r, u)
    PROVE  challenges' \in [ChallengeIds -> Challenge]
<1> DEFINE c == req[r].challenge
           n == req[r].copy.attempts + 1
           used == [challenges[c] EXCEPT !.status = "used"]
           counted == [challenges[c] EXCEPT !.attempts = n,
                                            !.status = IF n >= MaxAttempts THEN "used"
                                                       ELSE challenges[c].status]
<1>1. n \in Nat
  BY DEF TypeOK, Request
<1>2. challenges[c] \in Challenge
  BY DEF TypeOK
<1>3. used \in Challenge
  BY <1>2 DEF Challenge
<1>4. counted \in Challenge
  <2>1. counted = [challenges[c] EXCEPT !.attempts = n, !.status = counted.status]
    BY <1>2 DEF Challenge
  <2>2. counted.status \in {"none", "live", "used"}
    BY <1>2 DEF Challenge
  <2> QED
    BY <1>1, <1>2, <2>1, <2>2 DEF Challenge
<1>5. CASE challenges' = [challenges EXCEPT ![c].status = "used"]
  BY <1>3, <1>5 DEF TypeOK
<1>6. CASE challenges' = [challenges EXCEPT ![c] = counted]
  BY <1>4, <1>6 DEF TypeOK
<1> QED
  BY <1>5, <1>6 DEF BadAnswer

LEMMA FlushType ==
    ASSUME user \in User, NEW u \in User, NEW op
    PROVE  Flush(u, Changed(op, u)) \in User
<1>1. Changed(op, u).version \in Nat
  BY DEF Changed, NextVersion, User
<1>2. /\ Changed(op, u).active \in BOOLEAN /\ Changed(op, u).verified \in BOOLEAN
      /\ Changed(op, u).deleted \in BOOLEAN /\ Changed(op, u).twoStep \in BOOLEAN
  BY DEF Changed
<1> QED
  BY <1>1, <1>2 DEF Flush, User

LEMMA WriteType ==
    ASSUME TypeOK, NEW r \in Requests, NEW op \in Revocations, NEW u \in User, Write(r, op, u)
    PROVE  req' \in [Requests -> Request]
<1>1. LiveTokens \subseteq TokenIds
  BY DEF LiveTokens
<1>2. req[r] \in Request
  BY DEF TypeOK
<1>3. [req[r] EXCEPT !.pc = "writing", !.op = op, !.user = u, !.seen = LiveTokens] \in Request
  BY <1>1, <1>2 DEF Request
<1> QED
  BY <1>3 DEF Write, TypeOK

LEMMA DoneType ==
    ASSUME TypeOK, NEW r \in Requests, Done(r)
    PROVE  req' \in [Requests -> Request]
BY IdleType DEF Done, TypeOK

\* Every step keeps the types.
LEMMA TypeStep ==
    ASSUME TypeOK, \A r \in Requests : RequestInv(r), [Next]_vars
    PROVE  TypeOK'
<1> USE SessionsAssumption
<1>1. CASE ResendVerification \/ RequestPasswordReset
  BY <1>1, IdleType DEF ResendVerification, RequestPasswordReset, TypeOK
<1>2. CASE VerifyEmail
  <2>1. otp' \in [OtpKinds -> Otp]
    BY <1>2, IdleType DEF VerifyEmail, BadCode, TypeOK
  <2>2. user' \in User
    BY <1>2 DEF VerifyEmail, TypeOK, User
  <2> QED
    BY <1>2, <2>1, <2>2 DEF VerifyEmail, TypeOK
<1>3. CASE VerifyPasswordResetOTP
  <2>1. CASE otp' = [otp EXCEPT !["reset"].verified = TRUE]
    <3> DEFINE new == [otp["reset"] EXCEPT !.verified = TRUE]
    <3>1. "reset" \in OtpKinds /\ otp \in [OtpKinds -> Otp]
      BY DEF OtpKinds, TypeOK
    <3>2. new \in Otp
      BY <3>1 DEF Otp
    <3>3. otp' = [otp EXCEPT !["reset"] = new]
      BY <2>1
    <3> HIDE DEF new
    <3>4. otp' \in [OtpKinds -> Otp]
      BY <3>1, <3>2, <3>3
    <3> QED
      BY <1>3, <3>4 DEF VerifyPasswordResetOTP, TypeOK
  <2>2. CASE BadCode("reset")
    <3>1. otp' \in [OtpKinds -> Otp]
      BY <2>2, IdleType DEF BadCode, TypeOK
    <3> QED
      BY <1>3, <3>1 DEF VerifyPasswordResetOTP, TypeOK
  <2> QED
    BY <1>3, <2>1, <2>2 DEF VerifyPasswordResetOTP
<1>4. CASE Login
  <2>1. user.version \in Nat /\ epoch \in Nat
    BY DEF TypeOK, User
  <2>2. tokens' \in [TokenIds -> Token]
    <3>1. \A t \in TokenIds : NewToken(user.version, epoch, FALSE, t) \in Token
      BY <2>1, NewTokenType
    <3> QED
      BY <1>4, <3>1 DEF Login, TypeOK
  <2>3. challenges' \in [ChallengeIds -> Challenge]
    BY <1>4, <2>1, IssueType DEF Login, TypeOK, Purposes
  <2> QED
    BY <1>4, <2>2, <2>3 DEF Login, TypeOK
<1>5. CASE Reactivate
  BY <1>5 DEF Reactivate, TypeOK, User
<1>6. ASSUME NEW t \in TokenIds, Logout(t) PROVE TypeOK'
  BY <1>6 DEF Logout, TypeOK, Token
<1>7. ASSUME NEW r \in Requests, NEW t \in TokenIds, RefreshStart(r, t) PROVE TypeOK'
  <2>1. [Idle EXCEPT !.pc = "refreshing", !.user = user, !.token = t] \in Request
    <3>1. t \in 0..MaxTokens /\ user \in User
      BY DEF TokenIds, TypeOK
    <3> QED
      BY <3>1, IdleType DEF Request
  <2> QED
    BY <1>7, <2>1 DEF RefreshStart, TypeOK
<1>8. ASSUME NEW r \in Requests, RefreshCommit(r) PROVE TypeOK'
  <2> DEFINE old == req[r].token
  <2>1. old \in TokenIds /\ req[r].user.version \in Nat
    BY <1>8 DEF RefreshCommit, RequestInv, TypeOK, Request, User
  <2>2. /\ tokens[old] \in Token
        /\ [tokens[old] EXCEPT !.status = "revoked"] \in Token
    BY <2>1 DEF TypeOK, Token
  <2>3. NewToken(req[r].user.version, tokens[old].grant, tokens[old].stepped,
                 tokens[old].root) \in Token
    BY <2>1, <2>2, NewTokenType DEF Token
  <2>4. tokens' \in [TokenIds -> Token]
    BY <1>8, <2>1, <2>2, <2>3 DEF RefreshCommit, TypeOK
  <2> QED
    BY <1>8, <2>4, DoneType DEF RefreshCommit, TypeOK
<1>9. ASSUME NEW r \in Requests, Authenticate(r) PROVE TypeOK'
  <2>1. [Idle EXCEPT !.pc = "read", !.user = user] \in Request
    BY IdleType DEF TypeOK, Request
  <2> QED
    BY <1>9, <2>1 DEF Authenticate, TypeOK
<1>10. ASSUME NEW r \in Requests, NEW c \in ChallengeIds, Probe(r, c) PROVE TypeOK'
  <2> DEFINE copy == [live |-> challenges[c].status = "live", attempts |-> challenges[c].attempts]
  <2>1. challenges[c].attempts \in Nat
    BY DEF TypeOK, Challenge
  <2>2. copy \in [live : BOOLEAN, attempts : Nat]
    BY <2>1
  <2>3. c \in 0..MaxChallenges /\ req[r] \in Request
    BY DEF ChallengeIds, TypeOK
  <2>4. [req[r] EXCEPT !.pc = "probed", !.challenge = c, !.copy = copy] \in Request
    BY <2>2, <2>3 DEF Request
  <2> QED
    BY <1>10, <2>4 DEF Probe, TypeOK
<1>11. ASSUME NEW r \in Requests, ConsumeLogin(r) PROVE TypeOK'
  <2> DEFINE c == req[r].challenge
  <2>1. c \in ChallengeIds /\ challenges[c] \in Challenge /\ user.version \in Nat
    BY <1>11 DEF ConsumeLogin, RequestInv, TypeOK, User
  <2>2. [challenges[c] EXCEPT !.status = "used"] \in Challenge
    BY <2>1 DEF Challenge
  <2>3. challenges' \in [ChallengeIds -> Challenge]
    <3>1. CASE BadAnswer(r, user)
      BY <2>1, <3>1, BadAnswerType
    <3>2. CASE challenges' = [challenges EXCEPT ![c].status = "used"]
      BY <2>2, <3>2 DEF TypeOK
    <3> QED
      BY <1>11, <3>1, <3>2 DEF ConsumeLogin
  <2>4. tokens' \in [TokenIds -> Token]
    <3>1. challenges[c].grant \in Nat
      BY <2>1 DEF Challenge
    <3>2. \A t \in TokenIds : NewToken(user.version, challenges[c].grant, TRUE, t) \in Token
      BY <2>1, <3>1, NewTokenType
    <3> QED
      BY <1>11, <3>2 DEF ConsumeLogin, TypeOK
  <2> QED
    BY <1>11, <2>3, <2>4, DoneType DEF ConsumeLogin, TypeOK
<1>12. ASSUME NEW r \in Requests, Resend(r) PROVE TypeOK'
  <2> DEFINE c == req[r].challenge
  <2>1. c \in ChallengeIds /\ challenges[c] \in Challenge
    BY <1>12 DEF Resend, RequestInv, TypeOK
  <2>2. Locked(r).version \in Nat /\ challenges[c].purpose \in Purposes /\ challenges[c].grant \in Nat
    BY <2>1 DEF Locked, TypeOK, User, Request, Challenge
  <2>3. challenges' \in [ChallengeIds -> Challenge]
    <3>1. CASE Issue(challenges[c].purpose, Locked(r).version, challenges[c].grant)
      BY <3>1, <2>2, IssueType
    <3>2. CASE challenges' = [challenges EXCEPT ![c].status = "used"]
      BY <3>2, <2>1 DEF TypeOK, Challenge
    <3> QED
      BY <1>12, <3>1, <3>2 DEF Resend
  <2> QED
    BY <1>12, <2>3, DoneType DEF Resend, TypeOK
<1>13. ASSUME NEW r \in Requests, NEW p \in {"enable", "disable"}, RequestSetting(r, p) PROVE TypeOK'
  <2>1. req[r].user.version \in Nat /\ epoch \in Nat /\ p \in Purposes
    BY DEF TypeOK, Request, User, Purposes
  <2>2. challenges' \in [ChallengeIds -> Challenge]
    BY <1>13, <2>1, IssueType DEF RequestSetting
  <2> QED
    BY <1>13, <2>2, DoneType DEF RequestSetting, TypeOK
<1>14. ASSUME NEW r \in Requests, RequestEmailChange(r) PROVE TypeOK'
  BY <1>14, IdleType, DoneType DEF RequestEmailChange, TypeOK
<1>15. ASSUME NEW r \in Requests, ResetPassword(r) PROVE TypeOK'
  <2>1. req' \in [Requests -> Request]
    BY <1>15, WriteType DEF ResetPassword, TypeOK, Revocations
  <2>2. otp' \in [OtpKinds -> Otp]
    BY <1>15, IdleType DEF ResetPassword, BadCode, TypeOK
  <2> QED
    BY <1>15, <2>1, <2>2 DEF ResetPassword, TypeOK
<1>16. ASSUME NEW r \in Requests, Suspend(r) PROVE TypeOK'
  BY <1>16, WriteType DEF Suspend, TypeOK, Revocations
<1>17. ASSUME NEW r \in Requests, NEW op \in {"change_password", "delete_account"},
              ChangeAccount(r, op)
       PROVE  TypeOK'
  <2>1. op \in Revocations /\ req[r].user \in User
    BY DEF Revocations, TypeOK, Request
  <2> QED
    BY <1>17, <2>1, WriteType DEF ChangeAccount, TypeOK
<1>18. ASSUME NEW r \in Requests, ConfirmEmailChange(r) PROVE TypeOK'
  <2>1. "confirm_email_change" \in Revocations /\ req[r].user \in User
    BY DEF Revocations, TypeOK, Request
  <2>2. req' \in [Requests -> Request]
    BY <1>18, <2>1, WriteType, DoneType DEF ConfirmEmailChange
  <2>3. otp' \in [OtpKinds -> Otp]
    BY <1>18, IdleType DEF ConfirmEmailChange, BadCode, TypeOK
  <2> QED
    BY <1>18, <2>2, <2>3 DEF ConfirmEmailChange, TypeOK
<1>19. ASSUME NEW r \in Requests, ConfirmSetting(r) PROVE TypeOK'
  <2> DEFINE p == challenges[req[r].challenge].purpose
  <2>1. req[r].challenge \in ChallengeIds
    BY <1>19 DEF ConfirmSetting, RequestInv
  <2>2. p \in Revocations /\ req[r].user \in User
    BY <1>19, <2>1 DEF ConfirmSetting, Revocations, TypeOK, Challenge, Purposes, Request
  <2>3. req' \in [Requests -> Request]
    BY <1>19, <2>2, WriteType, DoneType DEF ConfirmSetting
  <2>4. challenges' \in [ChallengeIds -> Challenge]
    BY <1>19, <2>1, BadAnswerType DEF ConfirmSetting, TypeOK
  <2> QED
    BY <1>19, <2>3, <2>4 DEF ConfirmSetting, TypeOK
<1>20. ASSUME NEW r \in Requests, Commit(r) PROVE TypeOK'
  <2>1. user' \in User
    BY <1>20, FlushType DEF Commit, TypeOK, Request
  <2>2. tokens' \in [TokenIds -> Token]
    BY <1>20 DEF Commit, TypeOK, Token
  <2>3. otp' \in [OtpKinds -> Otp]
    BY <1>20, IdleType DEF Commit, TypeOK
  <2>4. challenges' \in [ChallengeIds -> Challenge]
    BY <1>20, UseUpType DEF Commit, TypeOK
  <2>5. epoch' \in Nat
    BY <1>20 DEF Commit, TypeOK
  <2>6. lost' \in BOOLEAN
    BY <1>20 DEF Commit
  <2>7. req' \in [Requests -> Request]
    BY <1>20, DoneType DEF Commit
  <2> QED
    BY <2>1, <2>2, <2>3, <2>4, <2>5, <2>6, <2>7 DEF TypeOK
<1>21. ASSUME NEW r \in Requests, Abort(r) PROVE TypeOK'
  BY <1>21, DoneType DEF Abort, TypeOK
<1>22. CASE UNCHANGED vars
  BY <1>22 DEF vars, TypeOK
<1> QED
  BY <1>1, <1>2, <1>3, <1>4, <1>5, <1>6, <1>7, <1>8, <1>9, <1>10, <1>11, <1>12, <1>13, <1>14,
     <1>15, <1>16, <1>17, <1>18, <1>19, <1>20, <1>21, <1>22 DEF Next

-----------------------------------------------------------------------------
(***************************************************************************)
(* What a step leaves alone.                                               *)
(***************************************************************************)

TokensKept ==
    \A t \in TokenIds : tokens[t].status # "none" =>
       /\ tokens'[t].status # "none"
       /\ tokens'[t].ver = tokens[t].ver
       /\ tokens'[t].grant = tokens[t].grant
       /\ tokens'[t].stepped = tokens[t].stepped
       /\ tokens'[t].root = tokens[t].root

ChallengesKept ==
    \A c \in ChallengeIds : challenges[c].status # "none" =>
       /\ challenges'[c].status # "none"
       /\ challenges'[c].purpose = challenges[c].purpose
       /\ challenges'[c].ver = challenges[c].ver
       /\ challenges'[c].grant = challenges[c].grant

\* The steps that touch neither tokens nor what a revocation writes.
Quiet ==
    /\ tokens' = tokens
    /\ epoch' = epoch
    /\ lost' = lost
    /\ user'.version = user.version
    /\ user'.twoStep = user.twoStep
    /\ user'.deleted = user.deleted

\* A step is quiet or one of the steps that change tokens.
LEMMA QuietStep ==
    ASSUME TypeOK, [Next]_vars
    PROVE  \/ Quiet
           \/ Login
           \/ \E t \in TokenIds : Logout(t)
           \/ \E r \in Requests : RefreshCommit(r) \/ ConsumeLogin(r) \/ Commit(r)
<1>1. CASE ResendVerification \/ RequestPasswordReset \/ VerifyPasswordResetOTP
  BY <1>1 DEF ResendVerification, RequestPasswordReset, VerifyPasswordResetOTP, Quiet
<1>2. CASE VerifyEmail \/ Reactivate
  BY <1>2 DEF VerifyEmail, Reactivate, Quiet, TypeOK, User
<1>3. ASSUME NEW r \in Requests,
             \/ \E t \in TokenIds : RefreshStart(r, t)
             \/ Authenticate(r)
             \/ \E c \in ChallengeIds : Probe(r, c)
             \/ Resend(r)
             \/ \E p \in {"enable", "disable"} : RequestSetting(r, p)
             \/ RequestEmailChange(r)
      PROVE  Quiet
  BY <1>3 DEF RefreshStart, Authenticate, Probe, Resend, RequestSetting, RequestEmailChange, Quiet
<1>4. ASSUME NEW r \in Requests,
             \/ ResetPassword(r) \/ Suspend(r)
             \/ \E op \in {"change_password", "delete_account"} : ChangeAccount(r, op)
             \/ ConfirmEmailChange(r) \/ ConfirmSetting(r) \/ Abort(r)
      PROVE  Quiet
  BY <1>4 DEF ResetPassword, Suspend, ChangeAccount, ConfirmEmailChange, ConfirmSetting, Abort, Quiet
<1>5. CASE UNCHANGED vars
  BY <1>5 DEF vars, Quiet
<1> QED
  BY <1>1, <1>2, <1>3, <1>4, <1>5 DEF Next

LEMMA TokensStep ==
    ASSUME TypeOK, [Next]_vars
    PROVE  TokensKept
<1>1. CASE Quiet
  BY <1>1 DEF Quiet, TokensKept
<1>2. CASE Login
  BY <1>2 DEF Login, FreshToken, TokensKept, TypeOK, Token
<1>3. ASSUME NEW t \in TokenIds, Logout(t) PROVE TokensKept
  BY <1>3 DEF Logout, TokensKept, TypeOK, Token
<1>4. ASSUME NEW r \in Requests, RefreshCommit(r) PROVE TokensKept
  <2> DEFINE old == req[r].token
  <2>1. PICK t \in TokenIds :
          /\ tokens[t].status = "none"
          /\ tokens' = [tokens EXCEPT ![old].status = "revoked",
                          ![t] = NewToken(req[r].user.version, tokens[old].grant,
                                          tokens[old].stepped, tokens[old].root)]
    BY <1>4 DEF RefreshCommit, FreshToken
  <2>2. ASSUME NEW u \in TokenIds, u # t
        PROVE  tokens'[u] = IF u = old THEN [tokens[u] EXCEPT !.status = "revoked"]
                            ELSE tokens[u]
    BY <2>1, <2>2 DEF TypeOK
  <2>3. ASSUME NEW u \in TokenIds, tokens[u].status # "none"
        PROVE  /\ tokens'[u].status # "none"
               /\ tokens'[u].ver = tokens[u].ver
               /\ tokens'[u].grant = tokens[u].grant
               /\ tokens'[u].stepped = tokens[u].stepped
               /\ tokens'[u].root = tokens[u].root
    <3>1. u # t /\ tokens[u] \in Token
      BY <2>1, <2>3 DEF TypeOK
    <3>2. tokens'[u] = tokens[u] \/ tokens'[u] = [tokens[u] EXCEPT !.status = "revoked"]
      BY <2>2, <3>1
    <3> HIDE DEF old
    <3> QED
      BY <2>3, <3>1, <3>2 DEF Token
  <2> QED
    BY <2>3 DEF TokensKept
<1>5. ASSUME NEW r \in Requests, ConsumeLogin(r) PROVE TokensKept
  BY <1>5 DEF ConsumeLogin, FreshToken, TokensKept, TypeOK, Token
<1>6. ASSUME NEW r \in Requests, Commit(r) PROVE TokensKept
  BY <1>6 DEF Commit, TokensKept, TypeOK, Token
<1> QED
  BY <1>1, <1>2, <1>3, <1>4, <1>5, <1>6, QuietStep

LEMMA IssueKept ==
    ASSUME TypeOK, NEW p, NEW v, NEW g, Issue(p, v, g)
    PROVE  /\ ChallengesKept
           /\ \A c \in ChallengeIds :
                 challenges[c].status = "none" /\ challenges'[c].status # "none"
                 => /\ challenges'[c].purpose = p
                    /\ challenges'[c].ver = v
                    /\ challenges'[c].grant = g
<1> DEFINE new == [status |-> "live", purpose |-> p, ver |-> v,
                   attempts |-> 0, grant |-> g]
<1>1. PICK d \in ChallengeIds : FreshChallenge(d) /\ challenges' = [UseUp({p}) EXCEPT ![d] = new]
  BY DEF Issue
<1>2. ASSUME NEW c \in ChallengeIds, c # d
      PROVE  challenges'[c] = IF challenges[c].status = "live" /\ challenges[c].purpose \in {p}
                              THEN [challenges[c] EXCEPT !.status = "used"] ELSE challenges[c]
  BY <1>1, <1>2 DEF UseUp
<1>3. challenges'[d] = new /\ challenges[d].status = "none"
  BY <1>1 DEF UseUp, FreshChallenge
<1>4. ASSUME NEW c \in ChallengeIds, c # d
      PROVE  /\ challenges'[c].status = "none" <=> challenges[c].status = "none"
             /\ challenges'[c].purpose = challenges[c].purpose
             /\ challenges'[c].ver = challenges[c].ver
             /\ challenges'[c].grant = challenges[c].grant
  <2>1. challenges[c] \in Challenge
    BY DEF TypeOK
  <2>2. CASE challenges'[c] = challenges[c]
    BY <2>2
  <2>3. CASE challenges'[c] = [challenges[c] EXCEPT !.status = "used"] /\ challenges[c].status = "live"
    BY <2>1, <2>3 DEF Challenge
  <2> QED
    BY <1>2, <1>4, <2>2, <2>3
<1>5. ChallengesKept
  BY <1>3, <1>4 DEF ChallengesKept
<1> QED
  BY <1>3, <1>4, <1>5

LEMMA AnswerKept ==
    ASSUME TypeOK, NEW c \in ChallengeIds, NEW new,
           challenges[c].status # "none",
           challenges' = [challenges EXCEPT ![c] = new],
           new.status # "none", new.purpose = challenges[c].purpose,
           new.ver = challenges[c].ver, new.grant = challenges[c].grant
    PROVE  /\ ChallengesKept
           /\ \A d \in ChallengeIds : challenges[d].status = "none" => challenges'[d].status = "none"
BY DEF ChallengesKept, TypeOK

\* Challenges are kept, and a new one for a login carries the epoch of its
\* password check as its version.
LEMMA ChallengesStep ==
    ASSUME TypeOK, \A r \in Requests : RequestInv(r), FenceInv, [Next]_vars
    PROVE  /\ ChallengesKept
           /\ ~lost => \A c \in ChallengeIds :
                challenges[c].status = "none" => ChallengeInv(c)'
<1> DEFINE Goal == /\ ChallengesKept
                   /\ ~lost => \A c \in ChallengeIds :
                        challenges[c].status = "none" => ChallengeInv(c)'
<1> SUFFICES Goal
  OBVIOUS
<1>1. CASE challenges' = challenges
  BY <1>1 DEF ChallengesKept, ChallengeInv
<1>2. CASE Login
  <2>1. CASE Issue("login", user.version, epoch)
    BY <1>2, <2>1, IssueKept DEF Login, FenceInv, ChallengeInv, TypeOK
  <2> QED
    BY <1>1, <1>2, <2>1 DEF Login
<1>3. ASSUME NEW r \in Requests, req[r].pc = "probed",
             challenges' = [challenges EXCEPT ![req[r].challenge].status = "used"]
      PROVE  Goal
  <2> DEFINE c == req[r].challenge
             new == [challenges[c] EXCEPT !.status = "used"]
  <2>1. c \in ChallengeIds /\ challenges[c].status # "none"
    BY <1>3 DEF RequestInv
  <2>2. /\ new.status # "none" /\ new.purpose = challenges[c].purpose
        /\ new.ver = challenges[c].ver /\ new.grant = challenges[c].grant
    BY <2>1 DEF TypeOK, Challenge
  <2>3. challenges' = [challenges EXCEPT ![c] = new]
    BY <1>3
  <2> QED
    BY <2>1, <2>2, <2>3, AnswerKept DEF ChallengeInv
<1>4. ASSUME NEW r \in Requests, req[r].pc = "probed", NEW u, BadAnswer(r, u)
      PROVE  Goal
  <2> DEFINE c == req[r].challenge
             n == req[r].copy.attempts + 1
             new == [challenges[c] EXCEPT !.attempts = n,
                                          !.status = IF n >= MaxAttempts THEN "used"
                                                     ELSE challenges[c].status]
  <2>1. c \in ChallengeIds /\ challenges[c].status # "none"
    BY <1>4 DEF RequestInv
  <2>2. /\ new.status # "none" /\ new.purpose = challenges[c].purpose
        /\ new.ver = challenges[c].ver /\ new.grant = challenges[c].grant
    BY <2>1 DEF TypeOK, Challenge
  <2>3. CASE challenges' = [challenges EXCEPT ![c] = new]
    <3> HIDE DEF new
    <3>1. /\ ChallengesKept
          /\ \A d \in ChallengeIds : challenges[d].status = "none" => challenges'[d].status = "none"
      BY <2>1, <2>2, <2>3, AnswerKept
    <3> QED
      BY <3>1 DEF ChallengeInv
  <2> QED
    BY <1>3, <1>4, <2>3 DEF BadAnswer
<1>5. ASSUME NEW r \in Requests, ConsumeLogin(r) PROVE Goal
  <2> DEFINE c == req[r].challenge
             new == [challenges[c] EXCEPT !.status = "used"]
  <2>1. c \in ChallengeIds /\ challenges[c].status # "none"
    BY <1>5 DEF RequestInv, ConsumeLogin
  <2>2. /\ new.status # "none" /\ new.purpose = challenges[c].purpose
        /\ new.ver = challenges[c].ver /\ new.grant = challenges[c].grant
    BY <2>1 DEF TypeOK, Challenge
  <2>3. CASE challenges' = [challenges EXCEPT ![c] = new]
    BY <2>1, <2>2, <2>3, AnswerKept DEF ChallengeInv
  <2> QED
    BY <1>3, <1>4, <1>5, <2>3 DEF ConsumeLogin
<1>6. ASSUME NEW r \in Requests, Resend(r) PROVE Goal
  <2> DEFINE c == req[r].challenge
             p == challenges[c].purpose
             u == Locked(r)
  <2>1. c \in ChallengeIds /\ challenges[c].status # "none"
    BY <1>6 DEF RequestInv, Resend
  <2>2. CASE challenges[c].ver = u.version /\ Issue(p, u.version, challenges[c].grant)
    BY <1>6, <2>1, <2>2, IssueKept DEF Resend, FenceInv, ChallengeInv
  <2> QED
    BY <1>3, <1>6, <2>2 DEF Resend
<1>7. ASSUME NEW r \in Requests, NEW p \in {"enable", "disable"}, RequestSetting(r, p) PROVE Goal
  BY <1>7, IssueKept DEF RequestSetting, ChallengeInv
<1>8. ASSUME NEW r \in Requests, ConfirmSetting(r) PROVE Goal
  BY <1>1, <1>4, <1>8 DEF ConfirmSetting
<1>9. ASSUME NEW r \in Requests, Commit(r) PROVE Goal
  <2>1. CASE challenges' = UseUp(Purposes)
    <3>1. ASSUME NEW c \in ChallengeIds
          PROVE  /\ challenges'[c].status = "none" <=> challenges[c].status = "none"
                 /\ challenges'[c].purpose = challenges[c].purpose
                 /\ challenges'[c].ver = challenges[c].ver
                 /\ challenges'[c].grant = challenges[c].grant
      BY <2>1 DEF UseUp, TypeOK, Challenge
    <3> QED
      BY <3>1 DEF ChallengesKept, ChallengeInv
  <2> QED
    BY <1>1, <1>9, <2>1 DEF Commit
<1>10. ASSUME \/ ResendVerification \/ VerifyEmail \/ RequestPasswordReset
              \/ VerifyPasswordResetOTP \/ Reactivate
              \/ \E t \in TokenIds : Logout(t)
              \/ UNCHANGED vars
       PROVE  challenges' = challenges
  BY <1>10 DEF ResendVerification, VerifyEmail, RequestPasswordReset, VerifyPasswordResetOTP,
               Reactivate, Logout, vars
<1>11. ASSUME NEW r \in Requests,
              \/ \E t \in TokenIds : RefreshStart(r, t)
              \/ RefreshCommit(r) \/ Authenticate(r)
              \/ \E c \in ChallengeIds : Probe(r, c)
              \/ RequestEmailChange(r) \/ ResetPassword(r) \/ Suspend(r)
              \/ \E op \in {"change_password", "delete_account"} : ChangeAccount(r, op)
              \/ ConfirmEmailChange(r) \/ Abort(r)
       PROVE  challenges' = challenges
  BY <1>11 DEF RefreshStart, RefreshCommit, Authenticate, Probe, RequestEmailChange, ResetPassword,
               Suspend, ChangeAccount, ConfirmEmailChange, Abort
<1> QED
  BY <1>1, <1>2, <1>5, <1>6, <1>7, <1>8, <1>9, <1>10, <1>11 DEF Next

-----------------------------------------------------------------------------
(***************************************************************************)
(* Requests and rotation.                                                  *)
(***************************************************************************)

\* How a step changes a request.
Began(s) ==
    \/ req'[s] = req[s]
    \/ req'[s].pc \in {"idle", "read"}
    \/ /\ req'[s].pc = "refreshing"
       /\ req'[s].token \in TokenIds /\ ~TokenLocked(req'[s].token)
       /\ tokens[req'[s].token].status = "live" /\ tokens' = tokens
       /\ req'[s].user.version = tokens[req'[s].token].ver
       /\ \A r \in Requests : r # s => req'[r] = req[r]
    \/ /\ req'[s].pc = "probed"
       /\ req'[s].challenge \in ChallengeIds /\ challenges' = challenges
       /\ challenges[req'[s].challenge].status # "none"
    \/ /\ req'[s].pc = "writing" /\ tokens' = tokens
       /\ req'[s].seen = LiveTokens

LEMMA DoneBegan ==
    ASSUME TypeOK, NEW r \in Requests, Done(r) \/ UNCHANGED req, NEW s \in Requests
    PROVE  Began(s)
BY DEF Done, Idle, Began, TypeOK

LEMMA WriteBegan ==
    ASSUME TypeOK, NEW r \in Requests, NEW op, NEW u, Write(r, op, u), tokens' = tokens,
           NEW s \in Requests
    PROVE  Began(s)
<1>1. req[r] \in Request
  BY DEF TypeOK
<1>2. CASE s = r
  <2>1. req'[s] = [req[r] EXCEPT !.pc = "writing", !.op = op, !.user = u, !.seen = LiveTokens]
    BY <1>2 DEF Write, TypeOK
  <2>2. req'[s].pc = "writing" /\ req'[s].seen = LiveTokens
    BY <1>1, <2>1 DEF Request
  <2> QED
    BY <2>2 DEF Began
<1>3. CASE s # r
  BY <1>3 DEF Write, TypeOK, Began
<1> QED
  BY <1>2, <1>3

LEMMA BeganStep ==
    ASSUME TypeOK, [Next]_vars, NEW s \in Requests
    PROVE  Began(s)
<1>1. ASSUME \/ ResendVerification \/ VerifyEmail \/ RequestPasswordReset
             \/ VerifyPasswordResetOTP \/ Login \/ Reactivate
             \/ \E t \in TokenIds : Logout(t)
             \/ UNCHANGED vars
      PROVE  Began(s)
  BY <1>1 DEF ResendVerification, VerifyEmail, RequestPasswordReset, VerifyPasswordResetOTP,
              Login, Reactivate, Logout, vars, Began
<1>2. ASSUME NEW r \in Requests, NEW t \in TokenIds, RefreshStart(r, t) PROVE Began(s)
  <2>1. CASE s = r
    <3>1. req'[s] = [Idle EXCEPT !.pc = "refreshing", !.user = user, !.token = t]
      BY <1>2, <2>1 DEF RefreshStart, TypeOK
    <3>2. req'[s].pc = "refreshing" /\ req'[s].user = user /\ req'[s].token = t
      BY <3>1 DEF Idle
    <3>3. \A q \in Requests : q # s => req'[q] = req[q]
      BY <1>2, <2>1 DEF RefreshStart, TypeOK
    <3> QED
      BY <1>2, <3>2, <3>3 DEF RefreshStart, Began
  <2>2. CASE s # r
    BY <1>2, <2>2 DEF RefreshStart, TypeOK, Began
  <2> QED
    BY <2>1, <2>2
<1>3. ASSUME NEW r \in Requests,
             \/ RefreshCommit(r) \/ ConsumeLogin(r) \/ Resend(r)
             \/ \E p \in {"enable", "disable"} : RequestSetting(r, p)
             \/ RequestEmailChange(r) \/ Commit(r) \/ Abort(r)
      PROVE  Began(s)
  BY <1>3, DoneBegan DEF RefreshCommit, ConsumeLogin, Resend, RequestSetting, RequestEmailChange,
                         Commit, Abort
<1>4. ASSUME NEW r \in Requests, Authenticate(r) PROVE Began(s)
  BY <1>4 DEF Authenticate, Idle, TypeOK, Began
<1>5. ASSUME NEW r \in Requests, NEW c \in ChallengeIds, Probe(r, c) PROVE Began(s)
  <2> DEFINE copy == [live |-> challenges[c].status = "live", attempts |-> challenges[c].attempts]
  <2>1. CASE s = r
    <3>1. req'[s] = [req[r] EXCEPT !.pc = "probed", !.challenge = c, !.copy = copy]
      BY <1>5, <2>1 DEF Probe, TypeOK
    <3>2. req[r] \in Request
      BY DEF TypeOK
    <3>3. req'[s].pc = "probed" /\ req'[s].challenge = c
      BY <3>1, <3>2 DEF Request
    <3> QED
      BY <1>5, <3>3 DEF Probe, Began
  <2>2. CASE s # r
    BY <1>5, <2>2 DEF Probe, TypeOK, Began
  <2> QED
    BY <2>1, <2>2
<1>6. ASSUME NEW r \in Requests,
             \/ ResetPassword(r) \/ Suspend(r)
             \/ \E op \in {"change_password", "delete_account"} : ChangeAccount(r, op)
             \/ ConfirmEmailChange(r) \/ ConfirmSetting(r)
      PROVE  Began(s)
  BY <1>6, WriteBegan, DoneBegan DEF ResetPassword, Suspend, ChangeAccount, ConfirmEmailChange,
                                     ConfirmSetting
<1> QED
  BY <1>1, <1>2, <1>3, <1>4, <1>5, <1>6 DEF Next

\* The row a refresh has locked stays live.
LEMMA LockedStaysLive ==
    ASSUME SessionsInv, [Next]_vars, NEW s \in Requests,
           req[s].pc = "refreshing", req'[s] = req[s]
    PROVE  tokens'[req[s].token].status = "live"
<1> DEFINE x == req[s].token
<1>1. x \in TokenIds /\ tokens[x].status = "live" /\ TokenLocked(x)
  BY DEF SessionsInv, RequestInv, TokenLocked
<1> USE DEF SessionsInv
<1>2. CASE Quiet
  BY <1>1, <1>2 DEF Quiet
<1>3. CASE Login
  BY <1>1, <1>3 DEF Login, FreshToken, TypeOK
<1>4. ASSUME NEW t \in TokenIds, Logout(t) PROVE tokens'[x].status = "live"
  BY <1>1, <1>4 DEF Logout, TypeOK
<1>5. ASSUME NEW r \in Requests, RefreshCommit(r) PROVE tokens'[x].status = "live"
  <2>1. r # s
    BY <1>5 DEF RefreshCommit, Done, Idle, TypeOK
  <2>2. req[r].token # x
    BY <1>5, <2>1 DEF RefreshCommit, OneRefresher
  <2> QED
    BY <1>1, <1>5, <2>2 DEF RefreshCommit, FreshToken, TypeOK
<1>6. ASSUME NEW r \in Requests, ConsumeLogin(r) PROVE tokens'[x].status = "live"
  BY <1>1, <1>6 DEF ConsumeLogin, FreshToken, TypeOK
<1>7. ASSUME NEW r \in Requests, Commit(r) PROVE tokens'[x].status = "live"
  BY <1>1, <1>7 DEF Commit, TypeOK
<1> QED
  BY <1>2, <1>3, <1>4, <1>5, <1>6, <1>7, QuietStep

LEMMA RequestStep ==
    ASSUME SessionsInv, [Next]_vars, NEW s \in Requests
    PROVE  RequestInv(s)'
<1>1. RequestInv(s) /\ Began(s) /\ TokensKept /\ ChallengesKept
  BY BeganStep, TokensStep, ChallengesStep DEF SessionsInv
<1>2. CASE req'[s] = req[s]
  <2>1. req[s].pc = "refreshing" => tokens'[req[s].token].status = "live"
    BY <1>2, LockedStaysLive
  <2>2. \A t \in req[s].seen : t \in TokenIds
    BY DEF SessionsInv, TypeOK, Request
  <2> QED
    BY <1>1, <1>2, <2>1, <2>2 DEF RequestInv, TokensKept, ChallengesKept
<1>3. CASE req'[s].pc \in {"idle", "read"}
  BY <1>3 DEF RequestInv
<1>4. CASE req'[s] # req[s] /\ req'[s].pc \notin {"idle", "read"}
  BY <1>1, <1>4 DEF Began, RequestInv, LiveTokens
<1> QED
  BY <1>2, <1>3, <1>4

LEMMA RefresherStep ==
    ASSUME SessionsInv, [Next]_vars
    PROVE  OneRefresher'
<1> SUFFICES ASSUME NEW r \in Requests, NEW s \in Requests, r # s,
                    req'[r].pc = "refreshing", req'[s].pc = "refreshing",
                    req'[r].token = req'[s].token
             PROVE  FALSE
  BY DEF OneRefresher
<1>1. Began(r) /\ Began(s)
  BY BeganStep DEF SessionsInv
<1>2. CASE req'[r] = req[r] /\ req'[s] = req[s]
  BY <1>2 DEF SessionsInv, OneRefresher
<1>3. CASE req'[r] # req[r]
  <2>1. req'[s] = req[s] /\ ~TokenLocked(req'[r].token)
    BY <1>1, <1>3 DEF Began
  <2> QED
    BY <2>1 DEF TokenLocked
<1>4. CASE req'[s] # req[s]
  <2>1. req'[r] = req[r] /\ ~TokenLocked(req'[s].token)
    BY <1>1, <1>4 DEF Began
  <2> QED
    BY <2>1 DEF TokenLocked
<1> QED
  BY <1>2, <1>3, <1>4

\* A token pair that a step creates is a login of its own or the successor of
\* a live pair, which the step revokes.
Opened(t) ==
    /\ \A x \in TokenIds : x # t => tokens'[x] = tokens[x]
    /\ tokens'[t].root = t

Rotated(t) ==
    \E x \in TokenIds :
       /\ x # t /\ tokens[x].status = "live" /\ tokens'[x].status = "revoked"
       /\ tokens'[t].root = tokens[x].root
       /\ tokens'[t].ver = tokens[x].ver
       /\ tokens'[t].grant = tokens[x].grant
       /\ tokens'[t].stepped = tokens[x].stepped
       /\ \A y \in TokenIds : y # t /\ y # x => tokens'[y] = tokens[y]

LEMMA LoginOpens ==
    ASSUME TypeOK, NEW d \in TokenIds, NEW new, new.root = d,
           tokens' = [tokens EXCEPT ![d] = new]
    PROVE  /\ tokens'[d] = new
           /\ \A t \in TokenIds :
                 tokens[t].status = "none" /\ tokens'[t].status # "none" => t = d /\ Opened(t)
BY DEF TypeOK, Opened

LEMMA RefreshRotates ==
    ASSUME SessionsInv, NEW r \in Requests, RefreshCommit(r), NEW t \in TokenIds,
           tokens[t].status = "none", tokens'[t].status # "none"
    PROVE  Rotated(t)
<1> DEFINE x == req[r].token
<1>1. x \in TokenIds /\ tokens[x].status = "live" /\ req[r].user.version = tokens[x].ver
  BY DEF SessionsInv, RequestInv, RefreshCommit
<1>2. PICK d \in TokenIds :
        /\ FreshToken(d)
        /\ tokens' = [tokens EXCEPT ![x].status = "revoked",
                        ![d] = NewToken(req[r].user.version, tokens[x].grant,
                                        tokens[x].stepped, tokens[x].root)]
  BY DEF RefreshCommit
<1>3. d # x
  BY <1>1, <1>2 DEF FreshToken
<1>4. /\ tokens'[d] = NewToken(req[r].user.version, tokens[x].grant,
                               tokens[x].stepped, tokens[x].root)
      /\ tokens'[x].status = "revoked"
      /\ \A y \in TokenIds : y # d /\ y # x => tokens'[y] = tokens[y]
  BY <1>1, <1>2, <1>3 DEF SessionsInv, TypeOK, Token
<1>5. t = d
  BY <1>1, <1>4
<1> QED
  BY <1>1, <1>3, <1>4, <1>5 DEF Rotated, NewToken

\* Every new token pair is opened or rotated, and obeys the fence.
LEMMA BornToken ==
    ASSUME SessionsInv, [Next]_vars, NEW t \in TokenIds,
           tokens[t].status = "none", tokens'[t].status # "none"
    PROVE  /\ Opened(t) \/ Rotated(t)
           /\ user' = user /\ epoch' = epoch /\ lost' = lost
           /\ ~lost => TokenInv(t)'
<1> DEFINE Goal == /\ Opened(t) \/ Rotated(t)
                   /\ user' = user /\ epoch' = epoch /\ lost' = lost
                   /\ ~lost => TokenInv(t)'
<1> USE DEF SessionsInv
<1>0. epoch \in Nat
  BY DEF TypeOK
<1>1. CASE Quiet
  BY <1>1 DEF Quiet
<1>2. CASE Login
  <2>1. PICK d \in TokenIds :
          tokens' = [tokens EXCEPT ![d] = NewToken(user.version, epoch, FALSE, d)] /\ ~user.twoStep
    BY <1>2 DEF Login
  <2>2. t = d /\ Opened(t) /\ tokens'[t] = NewToken(user.version, epoch, FALSE, t)
    <3> DEFINE new == NewToken(user.version, epoch, FALSE, d)
    <3>1. new.root = d
      BY DEF NewToken
    <3>2. tokens' = [tokens EXCEPT ![d] = new]
      BY <2>1
    <3> HIDE DEF new
    <3>3. tokens'[d] = new /\ t = d /\ Opened(t)
      BY <3>1, <3>2, LoginOpens
    <3> QED
      BY <3>3 DEF new
  <2>3. user' = user /\ epoch' = epoch /\ lost' = lost /\ ~user.deleted
    BY <1>2 DEF Login, Findable
  <2> QED
    BY <1>0, <2>1, <2>2, <2>3 DEF FenceInv, TokenInv, NewToken
<1>3. ASSUME NEW x \in TokenIds, Logout(x) PROVE FALSE
  BY <1>3 DEF Logout, TypeOK
<1>4. ASSUME NEW r \in Requests, RefreshCommit(r) PROVE Goal
  <2>1. Rotated(t)
    BY <1>4, RefreshRotates
  <2>2. user' = user /\ epoch' = epoch /\ lost' = lost
    BY <1>4 DEF RefreshCommit
  <2>3. ~lost => TokenInv(t)'
    BY <2>1, <2>2 DEF Rotated, FenceInv, TokenInv
  <2> QED
    BY <2>1, <2>2, <2>3
<1>5. ASSUME NEW r \in Requests, ConsumeLogin(r) PROVE Goal
  <2> DEFINE c == req[r].challenge
  <2>1. PICK d \in TokenIds :
          /\ tokens' = [tokens EXCEPT ![d] = NewToken(user.version, challenges[c].grant, TRUE, d)]
          /\ Answerable(r, user)
    BY <1>5 DEF ConsumeLogin
  <2>2. t = d /\ Opened(t) /\ tokens'[t] = NewToken(user.version, challenges[c].grant, TRUE, t)
    <3> DEFINE new == NewToken(user.version, challenges[c].grant, TRUE, d)
    <3>1. new.root = d
      BY DEF NewToken
    <3>2. tokens' = [tokens EXCEPT ![d] = new]
      BY <2>1
    <3> HIDE DEF new
    <3>3. tokens'[d] = new /\ t = d /\ Opened(t)
      BY <3>1, <3>2, LoginOpens
    <3> QED
      BY <3>3 DEF new
  <2>3. user' = user /\ epoch' = epoch /\ lost' = lost /\ ~user.deleted
    BY <1>5 DEF ConsumeLogin, TwoStepUsable, Usable
  <2>4. c \in ChallengeIds /\ challenges[c].status # "none" /\ challenges[c].purpose = "login"
    BY <1>5 DEF ConsumeLogin, RequestInv
  <2>5. ~lost => challenges[c].grant = user.version
    BY <2>1, <2>4 DEF Answerable, FenceInv, ChallengeInv
  <2> QED
    BY <1>0, <2>2, <2>3, <2>5 DEF FenceInv, TokenInv, NewToken
<1>6. ASSUME NEW r \in Requests, Commit(r) PROVE FALSE
  <2>1. t \notin req[r].seen
    BY <1>6 DEF Commit, RequestInv
  <2>2. t \notin LiveTokens
    BY DEF LiveTokens
  <2> QED
    BY <1>6, <2>1, <2>2 DEF Commit
<1> QED
  BY <1>1, <1>2, <1>3, <1>4, <1>5, <1>6, QuietStep

\* Only a commit changes what the fence reads of the user.
LEMMA CommitFence ==
    ASSUME SessionsInv, NEW r \in Requests, Commit(r), ~lost'
    PROVE  /\ user'.version = epoch' /\ epoch' \in Nat
           /\ \/ epoch' = epoch + 1
              \/ /\ epoch' = epoch
                 /\ user'.version = user.version
                 /\ user'.twoStep = user.twoStep
                 /\ user'.deleted = user.deleted
<1> DEFINE u == req[r].user
           op == req[r].op
<1>1. u \in User /\ user \in User /\ epoch \in Nat
  BY DEF SessionsInv, TypeOK, Request
<1>2. user.version = epoch
  BY DEF Commit, SessionsInv, FenceInv
<1>3. CASE Takes(op, u)
  <2>1. u.version = user.version /\ epoch' = epoch + 1
    BY <1>3 DEF Commit
  <2>2. Changed(op, u).version = u.version + 1
    BY <1>3 DEF Changed, NextVersion
  <2>3. user'.version = u.version + 1
    BY <1>1, <2>2 DEF Commit, Flush, User
  <2> QED
    BY <1>1, <1>2, <2>1, <2>3
<1>4. CASE ~Takes(op, u)
  <2>1. epoch' = epoch /\ op = "suspend"
    BY <1>4 DEF Commit, Takes
  <2>2. Changed(op, u).version = u.version
    BY <1>4 DEF Changed, NextVersion
  <2>3. Changed(op, u).twoStep = u.twoStep /\ Changed(op, u).deleted = u.deleted
    BY <1>1, <2>1 DEF Changed, User
  <2>4. /\ user'.version = user.version
        /\ user'.twoStep = user.twoStep
        /\ user'.deleted = user.deleted
    BY <2>2, <2>3 DEF Commit, Flush
  <2> QED
    BY <1>1, <1>2, <2>1, <2>4
<1> QED
  BY <1>3, <1>4

LEMMA FenceStep ==
    ASSUME SessionsInv, [Next]_vars
    PROVE  FenceInv'
<1> SUFFICES ASSUME ~lost'
             PROVE  /\ user'.version = epoch'
                    /\ \A t \in TokenIds : TokenInv(t)'
                    /\ \A c \in ChallengeIds : ChallengeInv(c)'
  BY DEF FenceInv
<1>1. ~lost
  BY DEF Next, vars, ResendVerification, VerifyEmail, RequestPasswordReset,
         VerifyPasswordResetOTP, Login, Reactivate, Logout, RefreshStart, RefreshCommit,
         Authenticate, Probe, ConsumeLogin, Resend, RequestSetting, RequestEmailChange,
         ResetPassword, Suspend, ChangeAccount, ConfirmEmailChange, ConfirmSetting, Commit, Abort
<1>2. FenceInv /\ epoch \in Nat /\ user.version = epoch
  BY <1>1 DEF SessionsInv, FenceInv, TypeOK
<1>3. TokensKept /\ ChallengesKept
  BY TokensStep, ChallengesStep DEF SessionsInv
<1>4. /\ user'.version = epoch' /\ epoch' \in Nat
      /\ \/ epoch' = epoch + 1
         \/ /\ epoch' = epoch
            /\ user'.version = user.version
            /\ user'.twoStep = user.twoStep
            /\ user'.deleted = user.deleted
  <2>1. CASE \E r \in Requests : Commit(r)
    BY <2>1, CommitFence
  <2>2. CASE Quiet
    BY <1>2, <2>2 DEF Quiet
  <2>3. CASE Login \/ (\E t \in TokenIds : Logout(t))
             \/ \E r \in Requests : RefreshCommit(r) \/ ConsumeLogin(r)
    BY <1>2, <2>3 DEF Login, Logout, RefreshCommit, ConsumeLogin
  <2> QED
    BY <2>1, <2>2, <2>3, QuietStep DEF SessionsInv
<1>5. \A c \in ChallengeIds : ChallengeInv(c)'
  <2> SUFFICES ASSUME NEW c \in ChallengeIds PROVE ChallengeInv(c)'
    OBVIOUS
  <2>1. CASE challenges[c].status = "none"
    BY <1>1, <2>1, ChallengesStep DEF SessionsInv
  <2>2. CASE challenges[c].status # "none"
    BY <1>1, <1>2, <1>3, <1>4, <2>2 DEF FenceInv, ChallengeInv, ChallengesKept, SessionsInv, TypeOK, Challenge
  <2> QED
    BY <2>1, <2>2
<1>6. ASSUME NEW t \in TokenIds PROVE TokenInv(t)'
  <2>1. CASE tokens[t].status = "none" /\ tokens'[t].status # "none"
    BY <1>1, <2>1, BornToken
  <2>2. CASE tokens[t].status # "none"
    <3>1. /\ tokens'[t].ver = tokens[t].ver
          /\ tokens'[t].grant = tokens[t].grant
          /\ tokens'[t].stepped = tokens[t].stepped
      BY <1>3, <2>2 DEF TokensKept
    <3>2. TokenInv(t) /\ tokens[t].ver \in Nat
      BY <1>1, <1>2 DEF FenceInv, SessionsInv, TypeOK, Token
    <3>3. tokens[t].ver <= epoch /\ tokens[t].ver = tokens[t].grant
      BY <2>2, <3>2 DEF TokenInv
    <3>4. CASE epoch' = epoch + 1
      BY <1>2, <1>4, <3>1, <3>2, <3>3, <3>4 DEF TokenInv
    <3>5. CASE epoch' = epoch /\ user'.version = user.version
               /\ user'.twoStep = user.twoStep /\ user'.deleted = user.deleted
      BY <2>2, <3>1, <3>2, <3>5 DEF TokenInv
    <3> QED
      BY <1>4, <3>4, <3>5
  <2>3. CASE tokens'[t].status = "none"
    BY <2>3 DEF TokenInv
  <2> QED
    BY <2>1, <2>2, <2>3
<1> QED
  BY <1>4, <1>5, <1>6

\* A token that is live after a step and is not new was live before it.
LEMMA LiveBefore ==
    ASSUME SessionsInv, [Next]_vars, NEW t \in TokenIds,
           tokens[t].status # "none", tokens'[t].status = "live"
    PROVE  tokens[t].status = "live"
<1> USE DEF SessionsInv
<1>1. CASE Quiet
  BY <1>1 DEF Quiet
<1>2. CASE Login
  BY <1>2 DEF Login, FreshToken, TypeOK
<1>3. ASSUME NEW x \in TokenIds, Logout(x) PROVE tokens[t].status = "live"
  BY <1>3 DEF Logout, TypeOK, Token
<1>4. ASSUME NEW r \in Requests, RefreshCommit(r) PROVE tokens[t].status = "live"
  BY <1>4 DEF RefreshCommit, FreshToken, TypeOK, Token
<1>5. ASSUME NEW r \in Requests, ConsumeLogin(r) PROVE tokens[t].status = "live"
  BY <1>5 DEF ConsumeLogin, FreshToken, TypeOK
<1>6. ASSUME NEW r \in Requests, Commit(r) PROVE tokens[t].status = "live"
  BY <1>6 DEF Commit, TypeOK, Token
<1> QED
  BY <1>1, <1>2, <1>3, <1>4, <1>5, <1>6, QuietStep

LEMMA RootStep ==
    ASSUME SessionsInv, [Next]_vars
    PROVE  RootInv'
<1> SUFFICES ASSUME NEW t \in TokenIds, tokens'[t].status # "none"
             PROVE  tokens'[tokens'[t].root].status # "none"
  BY DEF RootInv
<1>1. TokensKept /\ \A x \in TokenIds : tokens[x].root \in TokenIds
  BY TokensStep DEF SessionsInv, TypeOK, Token
<1>2. CASE tokens[t].status # "none"
  BY <1>1, <1>2 DEF TokensKept, SessionsInv, RootInv
<1>3. CASE tokens[t].status = "none"
  <2>1. Opened(t) \/ Rotated(t)
    BY <1>3, BornToken
  <2>2. CASE Opened(t)
    BY <2>2 DEF Opened
  <2>3. CASE Rotated(t)
    <3>1. PICK x \in TokenIds : tokens[x].status = "live" /\ tokens'[t].root = tokens[x].root
      BY <2>3 DEF Rotated
    <3> QED
      BY <1>1, <3>1 DEF TokensKept, SessionsInv, RootInv
  <2> QED
    BY <2>1, <2>2, <2>3
<1> QED
  BY <1>2, <1>3

LEMMA RotationStep ==
    ASSUME SessionsInv, [Next]_vars
    PROVE  OneLivePerLogin'
<1>1. TokensKept
  BY TokensStep DEF SessionsInv
\* A new pair shares its login with no other live pair.
<1>2. ASSUME NEW s \in TokenIds, NEW t \in TokenIds, s # t,
             tokens'[s].status = "live", tokens'[t].status = "live",
             tokens[s].status = "none", tokens'[s].root = tokens'[t].root
      PROVE  FALSE
  <2>1. Opened(s) \/ Rotated(s)
    BY <1>2, BornToken
  <2>2. tokens[t].status # "none"
    BY <1>2, <2>1 DEF Opened, Rotated
  <2>3. tokens[t].status = "live" /\ tokens'[t].root = tokens[t].root
    BY <1>1, <1>2, <2>2, LiveBefore DEF TokensKept
  <2>4. CASE Opened(s)
    BY <1>2, <2>3, <2>4 DEF Opened, SessionsInv, RootInv
  <2>5. CASE Rotated(s)
    <3>1. PICK x \in TokenIds :
            /\ tokens[x].status = "live" /\ tokens'[x].status = "revoked"
            /\ tokens'[s].root = tokens[x].root
      BY <2>5 DEF Rotated
    <3>2. x = t
      BY <1>2, <2>3, <3>1 DEF SessionsInv, OneLivePerLogin
    <3> QED
      BY <1>2, <3>1, <3>2
  <2> QED
    BY <2>1, <2>4, <2>5
<1> SUFFICES ASSUME NEW s \in TokenIds, NEW t \in TokenIds,
                    tokens'[s].status = "live", tokens'[t].status = "live",
                    tokens'[s].root = tokens'[t].root
             PROVE  s = t
  BY DEF OneLivePerLogin
<1>3. CASE tokens[s].status = "none" \/ tokens[t].status = "none"
  BY <1>2, <1>3
<1>4. CASE tokens[s].status # "none" /\ tokens[t].status # "none"
  <2>1. tokens[s].status = "live" /\ tokens[t].status = "live"
    BY <1>4, LiveBefore
  <2> QED
    BY <1>1, <1>4, <2>1 DEF TokensKept, SessionsInv, OneLivePerLogin
<1> QED
  BY <1>3, <1>4

-----------------------------------------------------------------------------

LEMMA InitInv == Init => SessionsInv
<1> SUFFICES ASSUME Init PROVE SessionsInv
  OBVIOUS
<1> USE SessionsAssumption
<1>1. \A t \in TokenIds : tokens[t].status = "none" /\ tokens[t] \in Token
  BY DEF Init, Token
<1>2. \A c \in ChallengeIds : challenges[c].status = "none" /\ challenges[c] \in Challenge
  BY DEF Init, Challenge, Purposes
<1>3. \A r \in Requests : req[r] = Idle /\ req[r].pc = "idle"
  BY DEF Init, Idle
<1>4. user \in User /\ user.version = 0
  BY DEF Init, User, NoUser
<1>5. TypeOK
  <2>1. otp \in [OtpKinds -> Otp]
    BY IdleType DEF Init
  <2>2. /\ tokens \in [TokenIds -> Token] /\ challenges \in [ChallengeIds -> Challenge]
        /\ req \in [Requests -> Request]
    BY <1>1, <1>2, <1>3, IdleType DEF Init
  <2> QED
    BY <1>4, <2>1, <2>2 DEF Init, TypeOK
<1>6. FenceInv
  BY <1>1, <1>2, <1>4 DEF Init, FenceInv, TokenInv, ChallengeInv
<1>7. (\A r \in Requests : RequestInv(r)) /\ OneRefresher
  BY <1>3 DEF RequestInv, OneRefresher
<1>8. RootInv /\ OneLivePerLogin
  BY <1>1 DEF RootInv, OneLivePerLogin
<1> QED
  BY <1>5, <1>6, <1>7, <1>8 DEF SessionsInv

LEMMA InvStep == SessionsInv /\ [Next]_vars => SessionsInv'
<1> SUFFICES ASSUME SessionsInv, [Next]_vars PROVE SessionsInv'
  OBVIOUS
<1>1. TypeOK'
  BY TypeStep DEF SessionsInv
<1>2. \A r \in Requests : RequestInv(r)'
  BY RequestStep
<1> QED
  BY <1>1, <1>2, FenceStep, RefresherStep, RootStep, RotationStep DEF SessionsInv

\* The inductive invariant holds whatever requests overlap.
THEOREM SessionsInvariant == Spec => []SessionsInv
BY InitInv, InvStep, PTL DEF Spec

\* Rows, objects held by requests and history stay typed.
THEOREM SessionsTypeCorrect == Spec => []TypeOK
<1>1. SessionsInv => TypeOK
  BY DEF SessionsInv
<1> QED
  BY <1>1, SessionsInvariant, PTL

\* Unless a request wrote a version it had read too early, an accepted session
\* goes back to a password check since the last revocation.
THEOREM RevocationIsComplete == Spec => []NoOldSessionUnlessLost
<1>1. SessionsInv => NoOldSessionUnlessLost
  BY DEF SessionsInv, FenceInv, TokenInv, NoOldSessionUnlessLost, NoOldSession, Accepted
<1> QED
  BY <1>1, SessionsInvariant, PTL

\* While e-mail two-step is on, an accepted session has answered a challenge,
\* under the same condition.
THEOREM TwoStepIsEnforced == Spec => []TwoStepEnforced
<1>1. SessionsInv => TwoStepEnforced
  BY DEF SessionsInv, FenceInv, TokenInv, TwoStepEnforced, Accepted
<1> QED
  BY <1>1, SessionsInvariant, PTL

\* A deleted account has no accepted session, under the same condition.
THEOREM DeletionIsFinal == Spec => []DeletedStaysClosed
<1>1. SessionsInv => DeletedStaysClosed
  BY DEF SessionsInv, FenceInv, TokenInv, DeletedStaysClosed, Accepted
<1> QED
  BY <1>1, SessionsInvariant, PTL

\* A login never has two live refresh tokens, without any condition.
THEOREM RotationIsExclusive == Spec => []OneLivePerLogin
<1>1. SessionsInv => OneLivePerLogin
  BY DEF SessionsInv
<1> QED
  BY <1>1, SessionsInvariant, PTL

-----------------------------------------------------------------------------
(***************************************************************************)
(* Sessions implement the registry: what a step does to the pairs and the  *)
(* checks that it shows.                                                   *)
(***************************************************************************)

SeenPairs == [t \in TokenIds |-> PairOf(t)]

SeenChecks == [c \in ChallengeIds |-> CheckOf(c)]

RegistryVars == <<SeenPairs, SeenChecks, epoch, user.twoStep /\ ~lost, user.deleted>>

\* The part of the registry that only a revocation changes.
Settings ==
    /\ epoch' = epoch
    /\ lost' = lost
    /\ user'.version = user.version
    /\ user'.twoStep = user.twoStep
    /\ user'.deleted = user.deleted

LEMMA SettingsKept ==
    ASSUME Settings
    PROVE  /\ (user.twoStep /\ ~lost)' = (user.twoStep /\ ~lost)
           /\ \A v : Valid(v)' = Valid(v)
BY DEF Settings, Valid

LEMMA PairStays ==
    ASSUME Settings, NEW t \in TokenIds, tokens'[t] = tokens[t]
    PROVE  PairOf(t)' = PairOf(t)
<1>1. Valid(tokens[t].ver)' = Valid(tokens[t].ver)
  BY DEF Settings, Valid
<1>2. PairState(t)' = PairState(t)
  BY <1>1 DEF PairState
<1> QED
  BY <1>2 DEF PairOf

LEMMA CheckStays ==
    ASSUME Settings, NEW c \in ChallengeIds,
           challenges'[c].status = "none" <=> challenges[c].status = "none",
           challenges[c].status # "none" =>
              /\ challenges'[c].purpose = challenges[c].purpose
              /\ challenges'[c].ver = challenges[c].ver
              /\ challenges'[c].grant = challenges[c].grant
    PROVE  CheckOf(c)' = CheckOf(c)
<1>1. CASE challenges[c].status = "none"
  BY <1>1 DEF CheckState, CheckOf
<1>2. CASE challenges[c].status # "none"
  <2>1. Valid(challenges[c].ver)' = Valid(challenges[c].ver)
    BY <1>2 DEF Settings, Valid
  <2>2. CheckState(c)' = CheckState(c)
    BY <1>2, <2>1 DEF CheckState
  <2> QED
    BY <1>2, <2>2 DEF CheckOf
<1> QED
  BY <1>1, <1>2

\* What a new pair and a new check of the current version are.
LEMMA PairBorn ==
    ASSUME Settings, NEW t \in TokenIds, NEW v, NEW g, NEW b \in BOOLEAN, NEW x,
           tokens'[t] = NewToken(v, g, b, x)
    PROVE  /\ Valid(v) => PairOf(t)' = Registry!Pair(g, b, x)
           /\ ~Valid(v) => PairOf(t)' = Registry!NoPair("closed")
<1>1. Valid(tokens[t].ver)' = Valid(v)
  BY DEF Settings, Valid, NewToken
<1>2. PairState(t)' = IF Valid(v) THEN "open" ELSE "closed"
  BY <1>1 DEF PairState, NewToken
<1>3. tokens'[t].grant = g /\ tokens'[t].stepped = b /\ tokens'[t].root = x
  BY DEF NewToken
<1>4. CASE Valid(v)
  <2>1. PairState(t)' = "open"
    BY <1>2, <1>4
  <2>2. PairOf(t)' = [state |-> "open", period |-> g, stepped |-> b, login |-> x]
    BY <1>3, <2>1 DEF PairOf
  <2> QED
    BY <1>4, <2>2 DEF Registry!Pair
<1>5. CASE ~Valid(v)
  <2>1. PairState(t)' = "closed"
    BY <1>2, <1>5
  <2> QED
    BY <1>5, <2>1 DEF PairOf, Registry!NoPair
<1> QED
  BY <1>4, <1>5

LEMMA OnePair ==
    ASSUME NEW t \in TokenIds, NEW x, PairOf(t)' = x,
           \A s \in TokenIds : s # t => PairOf(s)' = PairOf(s)
    PROVE  SeenPairs' = [SeenPairs EXCEPT ![t] = x]
BY DEF SeenPairs

LEMMA OneCheck ==
    ASSUME NEW d \in ChallengeIds, NEW x, CheckOf(d)' = x,
           \A c \in ChallengeIds : c # d => CheckOf(c)' = CheckOf(c)
    PROVE  SeenChecks' = [SeenChecks EXCEPT ![d] = x]
BY DEF SeenChecks

\* A step that changes no setting, no pair and no check is a stutter.
LEMMA RegistryStutter ==
    ASSUME Settings,
           \A t \in TokenIds : PairOf(t)' = PairOf(t),
           \A c \in ChallengeIds : CheckOf(c)' = CheckOf(c)
    PROVE  UNCHANGED RegistryVars
BY SettingsKept DEF SeenPairs, SeenChecks, RegistryVars, Settings

\* Issue shows one new check if it is for a login.
LEMMA IssueShows ==
    ASSUME TypeOK, Settings, NEW p, NEW v, NEW g, Issue(p, v, g)
    PROVE  IF p # "login" THEN \A c \in ChallengeIds : CheckOf(c)' = CheckOf(c)
           ELSE \E d \in ChallengeIds :
                  /\ SeenChecks[d].state = "none"
                  /\ SeenChecks' = [SeenChecks EXCEPT ![d] =
                       IF Valid(v) THEN Registry!Asked(g) ELSE Registry!NoCheck("closed")]
<1> DEFINE new == [status |-> "live", purpose |-> p, ver |-> v, attempts |-> 0, grant |-> g]
<1>1. PICK d \in ChallengeIds : FreshChallenge(d) /\ challenges' = [UseUp({p}) EXCEPT ![d] = new]
  BY DEF Issue
<1>2. challenges[d].status = "none" /\ challenges'[d] = new
  BY <1>1 DEF FreshChallenge, UseUp
<1>3. ASSUME NEW c \in ChallengeIds, c # d PROVE CheckOf(c)' = CheckOf(c)
  <2>1. challenges[c] \in Challenge
    BY DEF TypeOK
  <2>2. challenges'[c] = IF challenges[c].status = "live" /\ challenges[c].purpose \in {p}
                         THEN [challenges[c] EXCEPT !.status = "used"] ELSE challenges[c]
    BY <1>1, <1>3 DEF UseUp
  <2>3. /\ challenges'[c].status = "none" <=> challenges[c].status = "none"
        /\ challenges'[c].purpose = challenges[c].purpose
        /\ challenges'[c].ver = challenges[c].ver
        /\ challenges'[c].grant = challenges[c].grant
    BY <2>1, <2>2 DEF Challenge
  <2> QED
    BY <2>3, CheckStays
<1>4. CASE p # "login"
  <2>1. CheckState(d) = "none" /\ CheckState(d)' = "none"
    BY <1>2, <1>4 DEF CheckState
  <2>2. CheckOf(d)' = CheckOf(d)
    BY <2>1 DEF CheckOf
  <2> QED
    BY <1>3, <1>4, <2>2
<1>5. CASE p = "login"
  <2>1. CheckOf(d).state = "none"
    BY <1>2 DEF CheckState, CheckOf
  <2>2. Valid(challenges[d].ver)' = Valid(v)
    BY <1>2 DEF Settings, Valid
  <2>3. CheckState(d)' = IF Valid(v) THEN "open" ELSE "closed"
    BY <1>2, <1>5, <2>2 DEF CheckState
  <2>4. CheckOf(d)' = IF Valid(v) THEN Registry!Asked(g) ELSE Registry!NoCheck("closed")
    BY <1>2, <2>3 DEF CheckOf, Registry!Asked, Registry!NoCheck
  <2>5. SeenChecks' = [SeenChecks EXCEPT ![d] =
                         IF Valid(v) THEN Registry!Asked(g) ELSE Registry!NoCheck("closed")]
    BY <1>3, <2>4, OneCheck
  <2>6. SeenChecks[d].state = "none"
    BY <2>1 DEF SeenChecks
  <2> QED
    BY <1>5, <2>5, <2>6
<1> QED
  BY <1>4, <1>5

\* A live pair that is revoked is spent if it was valid, and stays closed otherwise.
LEMMA SpentPair ==
    ASSUME Settings, NEW t \in TokenIds, tokens[t] \in Token, tokens[t].status = "live",
           tokens'[t] = [tokens[t] EXCEPT !.status = "revoked"]
    PROVE  PairOf(t)' = IF Valid(tokens[t].ver) THEN [PairOf(t) EXCEPT !.state = "spent"]
                        ELSE PairOf(t)
<1>1. /\ tokens'[t].status = "revoked" /\ tokens'[t].ver = tokens[t].ver
      /\ tokens'[t].grant = tokens[t].grant /\ tokens'[t].stepped = tokens[t].stepped
      /\ tokens'[t].root = tokens[t].root
  BY DEF Token
<1>2. Valid(tokens[t].ver)' = Valid(tokens[t].ver)
  BY <1>1 DEF Settings, Valid
<1>3. CASE Valid(tokens[t].ver)
  <2>1. PairState(t) = "open" /\ PairState(t)' = "spent"
    BY <1>1, <1>2, <1>3 DEF PairState
  <2>2. /\ PairOf(t) = [state |-> "open", period |-> tokens[t].grant,
                        stepped |-> tokens[t].stepped, login |-> tokens[t].root]
        /\ PairOf(t)' = [state |-> "spent", period |-> tokens[t].grant,
                         stepped |-> tokens[t].stepped, login |-> tokens[t].root]
    BY <1>1, <2>1 DEF PairOf, Token
  <2> QED
    BY <1>3, <2>2
<1>4. CASE ~Valid(tokens[t].ver)
  <2>1. PairState(t) = "closed" /\ PairState(t)' = "closed"
    BY <1>1, <1>2, <1>4 DEF PairState
  <2> QED
    BY <1>4, <2>1 DEF PairOf
<1> QED
  BY <1>3, <1>4

\* A new pair of an old version joins the registry closed.
LEMMA LatePair ==
    ASSUME Settings, NEW t \in TokenIds, tokens[t].status = "none",
           PairOf(t)' = Registry!NoPair("closed"),
           \A s \in TokenIds : s # t => PairOf(s)' = PairOf(s),
           \A c \in ChallengeIds : CheckOf(c)' = CheckOf(c)
    PROVE  Registry!IssueClosed
<1>1. SeenPairs' = [SeenPairs EXCEPT ![t] = Registry!NoPair("closed")]
  BY OnePair
<1>2. SeenPairs[t].state = "none"
  BY DEF SeenPairs, PairOf, PairState
<1>3. SeenChecks' = SeenChecks
  BY DEF SeenChecks
<1> QED
  BY <1>1, <1>2, <1>3, SettingsKept DEF Registry!IssueClosed, SeenPairs, SeenChecks, Settings

LEMMA RegistryLogin ==
    ASSUME SessionsInv, Login
    PROVE  Registry!Next
<1>1. Settings
  BY DEF Login, Settings
<1>2. epoch \in Nat /\ TypeOK /\ (~lost => user.version = epoch)
  BY DEF SessionsInv, TypeOK, FenceInv
<1>3. ASSUME NEW t \in TokenIds, ~user.twoStep, FreshToken(t), challenges' = challenges,
             tokens' = [tokens EXCEPT ![t] = NewToken(user.version, epoch, FALSE, t)]
      PROVE  Registry!Next
  <2>1. tokens[t].status = "none" /\ tokens'[t] = NewToken(user.version, epoch, FALSE, t)
    BY <1>2, <1>3 DEF FreshToken, TypeOK
  <2>2. \A s \in TokenIds : s # t => PairOf(s)' = PairOf(s)
    BY <1>1, <1>2, <1>3, PairStays DEF TypeOK
  <2>3. \A c \in ChallengeIds : CheckOf(c)' = CheckOf(c)
    BY <1>1, <1>3, CheckStays
  <2>4. CASE lost
    <3>1. ~Valid(user.version)
      BY <2>4 DEF Valid
    <3>2. PairOf(t)' = Registry!NoPair("closed")
      BY <1>1, <2>1, <3>1, PairBorn
    <3>3. Registry!IssueClosed
      BY <1>1, <2>1, <2>2, <2>3, <3>2, LatePair
    <3> QED
      BY <3>3 DEF Registry!Next
  <2>5. CASE ~lost
    <3>1. PairOf(t)' = Registry!Pair(epoch, FALSE, t)
      BY <1>1, <2>1, <2>5, PairBorn DEF Valid
    <3>2. SeenPairs' = [SeenPairs EXCEPT ![t] = Registry!Pair(epoch, FALSE, t)]
      BY <2>2, <3>1, OnePair
    <3>3. SeenPairs[t].state = "none" /\ SeenChecks' = SeenChecks
      BY <2>1, <2>3 DEF SeenPairs, SeenChecks, PairOf, PairState
    <3>4. ~(user.twoStep /\ ~lost) /\ ~user.deleted
      BY <1>3 DEF Login, Findable
    <3>5. Registry!Login(t)
      BY <1>1, <3>2, <3>3, <3>4, SettingsKept DEF Registry!Login, SeenPairs, SeenChecks, Settings
    <3> QED
      BY <3>5 DEF Registry!Next
  <2> QED
    BY <2>4, <2>5
<1>4. CASE user.twoStep /\ Issue("login", user.version, epoch) /\ tokens' = tokens
  <2>1. PICK d \in ChallengeIds :
          /\ SeenChecks[d].state = "none"
          /\ SeenChecks' = [SeenChecks EXCEPT ![d] = IF Valid(user.version) THEN Registry!Asked(epoch)
                                                     ELSE Registry!NoCheck("closed")]
    BY <1>1, <1>2, <1>4, IssueShows
  <2>2. SeenPairs' = SeenPairs
    BY <1>1, <1>4, PairStays DEF SeenPairs
  <2>3. CASE lost
    <3>1. Registry!IssueClosed
      BY <1>1, <2>1, <2>2, <2>3, SettingsKept
         DEF Registry!IssueClosed, SeenPairs, SeenChecks, Settings, Valid
    <3> QED
      BY <3>1 DEF Registry!Next
  <2>4. CASE ~lost
    <3>1. (user.twoStep /\ ~lost) /\ ~user.deleted
      BY <1>4, <2>4 DEF Login, Findable
    <3>2. Registry!Ask(d)
      BY <1>1, <2>1, <2>2, <2>4, <3>1, SettingsKept
         DEF Registry!Ask, SeenPairs, SeenChecks, Settings, Valid
    <3> QED
      BY <3>2 DEF Registry!Next
  <2> QED
    BY <2>3, <2>4
<1> QED
  BY <1>3, <1>4 DEF Login

LEMMA RegistryLogout ==
    ASSUME TypeOK, NEW t \in TokenIds, Logout(t)
    PROVE  Registry!Next
<1> DEFINE S == {x \in {t} : Valid(tokens[x].ver)}
<1>1. Settings /\ challenges' = challenges
  BY DEF Logout, Settings
<1>2. tokens[t].status = "live" /\ tokens'[t] = [tokens[t] EXCEPT !.status = "revoked"]
  BY DEF Logout, TypeOK
<1>3. tokens[t] \in Token
  BY DEF TypeOK
<1>4. \A s \in TokenIds : s # t => PairOf(s)' = PairOf(s)
  BY <1>1, PairStays DEF Logout, TypeOK
<1>5. PairOf(t)' = IF t \in S THEN [PairOf(t) EXCEPT !.state = "spent"] ELSE PairOf(t)
  BY <1>1, <1>2, <1>3, SpentPair
<1>6. SeenPairs' = [s \in TokenIds |-> IF s \in S THEN [SeenPairs[s] EXCEPT !.state = "spent"]
                                       ELSE SeenPairs[s]]
  BY <1>4, <1>5 DEF SeenPairs
<1>7. \A s \in S : SeenPairs[s].state = "open"
  BY <1>2 DEF SeenPairs, PairOf, PairState
<1>8. SeenChecks' = SeenChecks
  BY <1>1, CheckStays DEF SeenChecks
<1>9. Registry!Spend(S)
  <2> HIDE DEF S
  <2> QED
    BY <1>1, <1>6, <1>7, <1>8, SettingsKept DEF Registry!Spend, SeenPairs, SeenChecks, Settings
<1>10. S \in SUBSET TokenIds
  OBVIOUS
<1> QED
  BY <1>9, <1>10 DEF Registry!Next

LEMMA RegistryRefresh ==
    ASSUME SessionsInv, NEW r \in Requests, RefreshCommit(r)
    PROVE  Registry!Next
<1>1. Settings /\ challenges' = challenges
  BY DEF RefreshCommit, Settings
<1>2. PICK x \in TokenIds :
        x = req[r].token /\ tokens[x].status = "live" /\ req[r].user.version = tokens[x].ver
  BY DEF SessionsInv, RequestInv, RefreshCommit
<1>3. PICK t \in TokenIds :
        /\ FreshToken(t)
        /\ tokens' = [tokens EXCEPT ![x].status = "revoked",
                        ![t] = NewToken(req[r].user.version, tokens[x].grant,
                                        tokens[x].stepped, tokens[x].root)]
  BY <1>2 DEF RefreshCommit
<1>4. t # x /\ tokens[t].status = "none" /\ tokens[x] \in Token
  BY <1>2, <1>3 DEF FreshToken, SessionsInv, TypeOK
<1>5. /\ tokens'[t] = NewToken(tokens[x].ver, tokens[x].grant, tokens[x].stepped, tokens[x].root)
      /\ tokens'[x] = [tokens[x] EXCEPT !.status = "revoked"]
      /\ \A y \in TokenIds : y # t /\ y # x => tokens'[y] = tokens[y]
  BY <1>2, <1>3, <1>4 DEF SessionsInv, TypeOK
<1>6. \A y \in TokenIds : y # t /\ y # x => PairOf(y)' = PairOf(y)
  BY <1>1, <1>5, PairStays
<1>7. PairOf(x)' = IF Valid(tokens[x].ver) THEN [PairOf(x) EXCEPT !.state = "spent"] ELSE PairOf(x)
  BY <1>1, <1>2, <1>4, <1>5, SpentPair
<1>8. /\ Valid(tokens[x].ver) => PairOf(t)' = Registry!Pair(tokens[x].grant, tokens[x].stepped, tokens[x].root)
      /\ ~Valid(tokens[x].ver) => PairOf(t)' = Registry!NoPair("closed")
  <2>1. tokens[x].stepped \in BOOLEAN
    BY <1>4 DEF Token
  <2> QED
    BY <1>1, <1>5, <2>1, PairBorn
<1>9. \A c \in ChallengeIds : CheckOf(c)' = CheckOf(c)
  BY <1>1, CheckStays
<1>10. CASE ~Valid(tokens[x].ver)
  <2>1. \A y \in TokenIds : y # t => PairOf(y)' = PairOf(y)
    BY <1>6, <1>7, <1>10
  <2>2. Registry!IssueClosed
    BY <1>1, <1>4, <1>8, <1>9, <1>10, <2>1, LatePair
  <2> QED
    BY <2>2 DEF Registry!Next
<1>11. CASE Valid(tokens[x].ver)
  <2>1. /\ SeenPairs[x].state = "open" /\ SeenPairs[x].period = tokens[x].grant
        /\ SeenPairs[x].stepped = tokens[x].stepped /\ SeenPairs[x].login = tokens[x].root
    <3>1. PairState(x) = "open"
      BY <1>2, <1>11 DEF PairState
    <3> QED
      BY <1>2, <1>4, <3>1 DEF SeenPairs, PairOf, Token
  <2>2. SeenPairs[t].state = "none"
    BY <1>4 DEF SeenPairs, PairOf, PairState
  <2>3. SeenPairs' = [SeenPairs EXCEPT ![x].state = "spent",
                         ![t] = Registry!Pair(SeenPairs[x].period, SeenPairs[x].stepped,
                                              SeenPairs[x].login)]
    <3>1. SeenPairs[x] = PairOf(x)
      BY <1>2 DEF SeenPairs
    <3>2. SeenPairs' = [SeenPairs EXCEPT ![x] = [SeenPairs[x] EXCEPT !.state = "spent"],
                           ![t] = Registry!Pair(tokens[x].grant, tokens[x].stepped, tokens[x].root)]
      BY <1>2, <1>4, <1>6, <1>7, <1>8, <1>11 DEF SeenPairs
    <3> QED
      BY <2>1, <3>2
  <2>4. SeenChecks' = SeenChecks
    BY <1>9 DEF SeenChecks
  <2>5. Registry!Renew(x, t)
    BY <1>1, <2>1, <2>2, <2>3, <2>4, SettingsKept
       DEF Registry!Renew, SeenPairs, SeenChecks, Settings
  <2> QED
    BY <1>2, <2>5 DEF Registry!Next
<1> QED
  BY <1>10, <1>11

\* Answering changes no check that the registry shows: it stays open, as a copy that was
\* loaded before the lock may be answered once more.
LEMMA AnswerShows ==
    ASSUME TypeOK, Settings, NEW c \in ChallengeIds, challenges[c].status # "none",
           NEW new, challenges' = [challenges EXCEPT ![c] = new],
           new.status # "none", new.purpose = challenges[c].purpose,
           new.ver = challenges[c].ver, new.grant = challenges[c].grant
    PROVE  \A d \in ChallengeIds : CheckOf(d)' = CheckOf(d)
<1> SUFFICES ASSUME NEW d \in ChallengeIds PROVE CheckOf(d)' = CheckOf(d)
  OBVIOUS
<1>1. CASE d = c
  BY <1>1, CheckStays DEF TypeOK
<1>2. CASE d # c
  BY <1>2, CheckStays DEF TypeOK
<1> QED
  BY <1>1, <1>2

LEMMA UsedShows ==
    ASSUME TypeOK, Settings, NEW c \in ChallengeIds, challenges[c].status # "none",
           challenges' = [challenges EXCEPT ![c].status = "used"]
    PROVE  \A d \in ChallengeIds : CheckOf(d)' = CheckOf(d)
<1> DEFINE new == [challenges[c] EXCEPT !.status = "used"]
<1>1. /\ new.status # "none" /\ new.purpose = challenges[c].purpose
      /\ new.ver = challenges[c].ver /\ new.grant = challenges[c].grant
  BY DEF TypeOK, Challenge
<1>2. challenges' = [challenges EXCEPT ![c] = new]
  OBVIOUS
<1> HIDE DEF new
<1> QED
  BY <1>1, <1>2, AnswerShows

LEMMA BadAnswerShows ==
    ASSUME TypeOK, Settings, NEW r \in Requests, NEW u, BadAnswer(r, u),
           req[r].challenge \in ChallengeIds, challenges[req[r].challenge].status # "none"
    PROVE  \A d \in ChallengeIds : CheckOf(d)' = CheckOf(d)
<1> DEFINE c == req[r].challenge
           n == req[r].copy.attempts + 1
           new == [challenges[c] EXCEPT !.attempts = n,
                                        !.status = IF n >= MaxAttempts THEN "used"
                                                   ELSE challenges[c].status]
<1>1. CASE challenges' = [challenges EXCEPT ![c] = new]
  <2>1. /\ new.status # "none" /\ new.purpose = challenges[c].purpose
        /\ new.ver = challenges[c].ver /\ new.grant = challenges[c].grant
    BY DEF TypeOK, Challenge
  <2> HIDE DEF new
  <2> QED
    BY <1>1, <2>1, AnswerShows
<1> QED
  BY <1>1, UsedShows DEF BadAnswer

LEMMA RegistryAnswer ==
    ASSUME SessionsInv, NEW r \in Requests, ConsumeLogin(r)
    PROVE  Registry!Next \/ UNCHANGED RegistryVars
<1> DEFINE c == req[r].challenge
<1>1. Settings /\ TypeOK
  BY DEF ConsumeLogin, Settings, SessionsInv
<1>2. c \in ChallengeIds /\ challenges[c].status # "none" /\ challenges[c].purpose = "login"
  BY DEF ConsumeLogin, SessionsInv, RequestInv
<1>3. \A d \in ChallengeIds : CheckOf(d)' = CheckOf(d)
  BY <1>1, <1>2, UsedShows, BadAnswerShows DEF ConsumeLogin
<1>4. CASE tokens' = tokens
  BY <1>1, <1>3, <1>4, PairStays, RegistryStutter
<1>5. ASSUME NEW t \in TokenIds, FreshToken(t), user.twoStep, Answerable(r, user),
             tokens' = [tokens EXCEPT ![t] = NewToken(user.version, challenges[c].grant, TRUE, t)]
      PROVE  Registry!Next
  <2>1. /\ tokens[t].status = "none"
        /\ tokens'[t] = NewToken(user.version, challenges[c].grant, TRUE, t)
        /\ challenges[c].ver = user.version
    BY <1>1, <1>5 DEF FreshToken, TypeOK, Answerable
  <2>2. \A s \in TokenIds : s # t => PairOf(s)' = PairOf(s)
    BY <1>1, <1>5, PairStays DEF TypeOK
  <2>3. CASE lost
    <3>1. PairOf(t)' = Registry!NoPair("closed")
      BY <1>1, <2>1, <2>3, PairBorn DEF Valid
    <3>2. Registry!IssueClosed
      BY <1>1, <1>3, <2>1, <2>2, <3>1, LatePair
    <3> QED
      BY <3>2 DEF Registry!Next
  <2>4. CASE ~lost
    <3>1. CheckState(c) = "open"
      BY <1>2, <2>1, <2>4 DEF CheckState, Valid
    <3>2. SeenChecks[c].state = "open" /\ SeenChecks[c].period = challenges[c].grant
      BY <1>2, <3>1 DEF SeenChecks, CheckOf
    <3>3. PairOf(t)' = Registry!Pair(challenges[c].grant, TRUE, t)
      BY <1>1, <2>1, <2>4, PairBorn DEF Valid
    <3>4. SeenPairs' = [SeenPairs EXCEPT ![t] = Registry!Pair(SeenChecks[c].period, TRUE, t)]
      BY <2>2, <3>2, <3>3, OnePair
    <3>5. SeenPairs[t].state = "none" /\ SeenChecks' = SeenChecks
      BY <1>3, <2>1 DEF SeenPairs, SeenChecks, PairOf, PairState
    <3>6. (user.twoStep /\ ~lost) /\ ~user.deleted
      BY <1>5, <2>4 DEF ConsumeLogin, TwoStepUsable, Usable
    <3>7. Registry!Answer(c, t)
      BY <1>1, <3>2, <3>4, <3>5, <3>6, SettingsKept
         DEF Registry!Answer, SeenPairs, SeenChecks, Settings
    <3> QED
      BY <1>2, <3>7 DEF Registry!Next
  <2> QED
    BY <2>3, <2>4
<1> QED
  BY <1>4, <1>5 DEF ConsumeLogin

LEMMA RegistryResend ==
    ASSUME SessionsInv, NEW r \in Requests, Resend(r)
    PROVE  Registry!Next \/ UNCHANGED RegistryVars
<1>1. Settings /\ TypeOK /\ \A t \in TokenIds : PairOf(t)' = PairOf(t)
  BY PairStays DEF Resend, Settings, SessionsInv
<1>2. PICK c \in ChallengeIds : c = req[r].challenge /\ challenges[c].status # "none"
  BY DEF Resend, SessionsInv, RequestInv
<1> DEFINE u == Locked(r)
           p == challenges[c].purpose
<1>3. CASE challenges' = [challenges EXCEPT ![c].status = "used"]
  BY <1>1, <1>2, <1>3, UsedShows, RegistryStutter
<1>4. CASE /\ challenges[c].ver = u.version /\ u.twoStep = (p # "enable")
           /\ Issue(p, u.version, challenges[c].grant)
  <2>1. CASE p # "login"
    BY <1>1, <1>4, <2>1, IssueShows, RegistryStutter
  <2>2. CASE p = "login"
    <3>1. u = user
      BY <1>2, <2>2 DEF Locked
    <3>2. user.twoStep /\ ~user.deleted /\ challenges[c].ver = user.version
      BY <1>2, <1>4, <2>2, <3>1 DEF Resend, TwoStepUsable, Usable
    <3>3. PICK d \in ChallengeIds :
            /\ SeenChecks[d].state = "none"
            /\ SeenChecks' = [SeenChecks EXCEPT ![d] =
                 IF Valid(u.version) THEN Registry!Asked(challenges[c].grant)
                 ELSE Registry!NoCheck("closed")]
      BY <1>1, <1>4, <2>2, IssueShows
    <3>4. SeenPairs' = SeenPairs
      BY <1>1 DEF SeenPairs
    <3>5. CASE lost
      <4>1. Registry!IssueClosed
        BY <1>1, <3>3, <3>4, <3>5, SettingsKept
           DEF Registry!IssueClosed, SeenPairs, SeenChecks, Settings, Valid
      <4> QED
        BY <4>1 DEF Registry!Next
    <3>6. CASE ~lost
      <4>1. Valid(u.version) /\ CheckState(c) = "open"
        BY <1>2, <2>2, <3>1, <3>2, <3>6 DEF CheckState, Valid
      <4>2. SeenChecks[c].state = "open" /\ SeenChecks[c].period = challenges[c].grant
        BY <1>2, <4>1 DEF SeenChecks, CheckOf
      <4>3. SeenChecks' = [SeenChecks EXCEPT ![d] = Registry!Asked(SeenChecks[c].period)]
        BY <3>3, <4>1, <4>2
      <4>4. Registry!AskAgain(c, d)
        BY <1>1, <3>2, <3>3, <3>4, <3>6, <4>2, <4>3, SettingsKept
           DEF Registry!AskAgain, SeenPairs, SeenChecks, Settings
      <4> QED
        BY <1>2, <4>4 DEF Registry!Next
    <3> QED
      BY <3>5, <3>6
  <2> QED
    BY <2>1, <2>2
<1> QED
  BY <1>2, <1>3, <1>4 DEF Resend

\* Challenges for the setting of an authenticated customer are not shown.
LEMMA RegistrySetting ==
    ASSUME SessionsInv, NEW r \in Requests,
           ConfirmSetting(r) \/ \E p \in {"enable", "disable"} : RequestSetting(r, p)
    PROVE  UNCHANGED RegistryVars
<1>1. Settings /\ TypeOK /\ \A t \in TokenIds : PairOf(t)' = PairOf(t)
  BY PairStays DEF ConfirmSetting, RequestSetting, Settings, SessionsInv
<1>2. ASSUME NEW p \in {"enable", "disable"}, RequestSetting(r, p)
      PROVE  \A c \in ChallengeIds : CheckOf(c)' = CheckOf(c)
  <2>1. p # "login" /\ Issue(p, req[r].user.version, epoch)
    BY <1>2 DEF RequestSetting
  <2> QED
    BY <1>1, <2>1, IssueShows
<1>3. CASE ConfirmSetting(r)
  <2>1. req[r].challenge \in ChallengeIds /\ challenges[req[r].challenge].status # "none"
    BY <1>3 DEF ConfirmSetting, SessionsInv, RequestInv
  <2>2. CASE challenges' = challenges
    BY <1>1, <2>2, CheckStays, RegistryStutter
  <2>3. CASE BadAnswer(r, req[r].user)
    BY <1>1, <2>1, <2>3, BadAnswerShows, RegistryStutter
  <2> QED
    BY <1>3, <2>2, <2>3 DEF ConfirmSetting
<1> QED
  BY <1>1, <1>2, <1>3, RegistryStutter

\* A commit that takes effect closes whatever the session version of its row refuses from
\* then on, and that is everything; a repeated suspension only revokes rows.
LEMMA CommitShows ==
    ASSUME SessionsInv, NEW r \in Requests, Commit(r)
    PROVE  /\ \A t \in TokenIds :
                /\ tokens'[t].status = "none" <=> tokens[t].status = "none"
                /\ tokens'[t].ver = tokens[t].ver
           /\ \A c \in ChallengeIds :
                /\ challenges'[c].status = "none" <=> challenges[c].status = "none"
                /\ challenges'[c].purpose = challenges[c].purpose
                /\ challenges'[c].ver = challenges[c].ver
                /\ challenges'[c].grant = challenges[c].grant
<1>1. TypeOK /\ RequestInv(r)
  BY DEF SessionsInv
<1>2. ASSUME NEW t \in TokenIds
      PROVE  /\ tokens'[t].status = "none" <=> tokens[t].status = "none"
             /\ tokens'[t].ver = tokens[t].ver
  <2>1. tokens[t] \in Token
    BY <1>1 DEF TypeOK
  <2>2. \/ tokens'[t] = tokens[t]
        \/ /\ t \in req[r].seen \cup LiveTokens
           /\ tokens'[t] = [tokens[t] EXCEPT !.status = "revoked"]
    BY DEF Commit
  <2>3. t \in req[r].seen \cup LiveTokens => tokens[t].status # "none"
    BY <1>1 DEF Commit, RequestInv, LiveTokens
  <2> QED
    BY <2>1, <2>2, <2>3 DEF Token
<1>3. ASSUME NEW c \in ChallengeIds
      PROVE  /\ challenges'[c].status = "none" <=> challenges[c].status = "none"
             /\ challenges'[c].purpose = challenges[c].purpose
             /\ challenges'[c].ver = challenges[c].ver
             /\ challenges'[c].grant = challenges[c].grant
  <2>1. challenges[c] \in Challenge
    BY <1>1 DEF TypeOK
  <2>2. \/ challenges'[c] = challenges[c]
        \/ /\ challenges[c].status = "live"
           /\ challenges'[c] = [challenges[c] EXCEPT !.status = "used"]
    BY DEF Commit, UseUp
  <2> QED
    BY <2>1, <2>2 DEF Challenge
<1> QED
  BY <1>2, <1>3

LEMMA RegistryRevoke ==
    ASSUME SessionsInv, NEW r \in Requests, Commit(r), Takes(req[r].op, req[r].user)
    PROVE  Registry!Revoke
<1> DEFINE u == req[r].user
           op == req[r].op
<1>1. epoch' = epoch + 1 /\ epoch \in Nat /\ u \in User /\ user \in User
  BY DEF Commit, SessionsInv, TypeOK, Request
<1>2. ~lost' => user'.version = epoch + 1 /\ FenceInv /\ ~lost
  BY <1>1, CommitFence DEF Commit, SessionsInv
<1>3. ASSUME NEW t \in TokenIds
      PROVE  PairOf(t)' = Registry!NoPair(IF SeenPairs[t].state = "none" THEN "none" ELSE "closed")
  <2>1. SeenPairs[t].state = "none" <=> tokens[t].status = "none"
    BY DEF SeenPairs, PairOf, PairState
  <2>2. /\ tokens'[t].status = "none" <=> tokens[t].status = "none"
        /\ tokens'[t].ver = tokens[t].ver
    BY CommitShows
  <2>3. CASE tokens[t].status = "none"
    <3>1. PairState(t)' = "none"
      BY <2>2, <2>3 DEF PairState
    <3> QED
      BY <2>1, <2>3, <3>1 DEF PairOf, Registry!NoPair
  <2>4. CASE tokens[t].status # "none"
    <3>1. tokens[t].ver \in Nat
      BY DEF SessionsInv, TypeOK, Token
    <3>2. ~lost' => tokens[t].ver <= epoch
      BY <1>2, <2>4 DEF FenceInv, TokenInv
    <3>3. ~Valid(tokens[t].ver)'
      BY <1>1, <1>2, <2>2, <3>1, <3>2 DEF Valid
    <3>4. PairState(t)' = "closed"
      BY <2>2, <2>4, <3>3 DEF PairState
    <3> QED
      BY <2>1, <2>4, <3>4 DEF PairOf, Registry!NoPair
  <2> QED
    BY <2>3, <2>4
<1>4. ASSUME NEW c \in ChallengeIds
      PROVE  CheckOf(c)' = Registry!NoCheck(IF SeenChecks[c].state = "none" THEN "none" ELSE "closed")
  <2>1. SeenChecks[c].state = "none"
        <=> challenges[c].status = "none" \/ challenges[c].purpose # "login"
    BY DEF SeenChecks, CheckOf, CheckState
  <2>2. /\ challenges'[c].status = "none" <=> challenges[c].status = "none"
        /\ challenges'[c].purpose = challenges[c].purpose
        /\ challenges'[c].ver = challenges[c].ver
    BY CommitShows
  <2>3. CASE challenges[c].status = "none" \/ challenges[c].purpose # "login"
    <3>1. CheckState(c)' = "none"
      BY <2>2, <2>3 DEF CheckState
    <3> QED
      BY <2>1, <2>3, <3>1 DEF CheckOf, Registry!NoCheck
  <2>4. CASE challenges[c].status # "none" /\ challenges[c].purpose = "login"
    <3>1. challenges[c].ver \in Nat
      BY DEF SessionsInv, TypeOK, Challenge
    <3>2. ~lost' => challenges[c].ver <= epoch
      BY <1>2, <2>4 DEF FenceInv, ChallengeInv
    <3>3. ~Valid(challenges[c].ver)'
      BY <1>1, <1>2, <2>2, <3>1, <3>2 DEF Valid
    <3>4. CheckState(c)' = "closed"
      BY <2>2, <2>4, <3>3 DEF CheckState
    <3> QED
      BY <2>1, <2>4, <3>4 DEF CheckOf, Registry!NoCheck
  <2> QED
    BY <2>3, <2>4
<1>5. user'.deleted \in {TRUE, user.deleted}
  <2>1. Changed(op, u).deleted = (u.deleted \/ op = "delete_account")
    BY DEF Changed
  <2>2. Changed(op, u).deleted = u.deleted \/ Changed(op, u).deleted = TRUE
    BY <1>1, <2>1 DEF User
  <2> QED
    BY <2>2 DEF Commit, Flush
<1>6. (user.twoStep /\ ~lost)' \in BOOLEAN
  OBVIOUS
<1>7. /\ SeenPairs' = [t \in TokenIds |->
           Registry!NoPair(IF SeenPairs[t].state = "none" THEN "none" ELSE "closed")]
      /\ SeenChecks' = [c \in ChallengeIds |->
           Registry!NoCheck(IF SeenChecks[c].state = "none" THEN "none" ELSE "closed")]
  <2>1. SeenPairs' = [t \in TokenIds |-> PairOf(t)'] /\ SeenChecks' = [c \in ChallengeIds |-> CheckOf(c)']
    BY DEF SeenPairs, SeenChecks
  <2> QED
    BY <1>3, <1>4, <2>1
<1> QED
  BY <1>1, <1>5, <1>6, <1>7 DEF Registry!Revoke, SeenPairs, SeenChecks

LEMMA RegistryRepeat ==
    ASSUME SessionsInv, NEW r \in Requests, Commit(r), ~Takes(req[r].op, req[r].user)
    PROVE  Registry!Next
<1> DEFINE u == req[r].user
           op == req[r].op
<1>1. TypeOK /\ RequestInv(r) /\ u \in User
  BY DEF SessionsInv, TypeOK, Request
<1>2. Settings /\ challenges' = challenges
  <2>1. epoch' = epoch /\ lost' = lost /\ op = "suspend" /\ challenges' = challenges
    BY <1>1 DEF Commit, Takes, TypeOK
  <2>2. Changed(op, u).version = u.version
    BY DEF Changed, NextVersion
  <2>3. Changed(op, u).twoStep = u.twoStep /\ Changed(op, u).deleted = u.deleted
    BY <1>1, <2>1 DEF Changed, User
  <2>4. /\ user'.version = user.version
        /\ user'.twoStep = user.twoStep
        /\ user'.deleted = user.deleted
    BY <2>2, <2>3 DEF Commit, Flush
  <2> QED
    BY <2>1, <2>4 DEF Settings
<1>3. PICK S \in SUBSET TokenIds :
        tokens' = [t \in TokenIds |-> IF t \in S THEN [tokens[t] EXCEPT !.status = "revoked"]
                                      ELSE tokens[t]]
  <2>1. PICK late \in SUBSET (LiveTokens \ req[r].seen) :
          tokens' = [t \in TokenIds |-> IF t \in req[r].seen \cup late
                                        THEN [tokens[t] EXCEPT !.status = "revoked"]
                                        ELSE tokens[t]]
    BY DEF Commit
  <2>2. req[r].seen \cup late \in SUBSET TokenIds
    BY <1>1 DEF TypeOK, Request, LiveTokens
  <2> QED
    BY <2>1, <2>2
<1> DEFINE T == {t \in TokenIds : PairOf(t).state = "open" /\ tokens'[t].status = "revoked"}
<1>4. ASSUME NEW t \in TokenIds
      PROVE  PairOf(t)' = IF t \in T THEN [PairOf(t) EXCEPT !.state = "spent"] ELSE PairOf(t)
  <2>1. tokens[t] \in Token
    BY <1>1 DEF TypeOK
  <2>2. CASE tokens'[t] = tokens[t]
    <3>1. PairOf(t)' = PairOf(t)
      BY <1>2, <2>2, PairStays
    <3>2. t \notin T
      BY <2>2 DEF PairOf, PairState
    <3> QED
      BY <3>1, <3>2
  <2>3. CASE tokens'[t] = [tokens[t] EXCEPT !.status = "revoked"] /\ tokens[t].status = "live"
    <3>1. PairOf(t)' = IF Valid(tokens[t].ver) THEN [PairOf(t) EXCEPT !.state = "spent"] ELSE PairOf(t)
      BY <1>2, <2>1, <2>3, SpentPair
    <3>2. tokens'[t].status = "revoked"
      BY <2>1, <2>3 DEF Token
    <3>3. t \in T <=> Valid(tokens[t].ver)
      BY <2>3, <3>2 DEF PairOf, PairState
    <3> HIDE DEF T
    <3> QED
      BY <3>1, <3>3
  <2>4. CASE tokens'[t] = [tokens[t] EXCEPT !.status = "revoked"] /\ tokens[t].status = "revoked"
    <3>1. tokens'[t] = tokens[t]
      BY <2>1, <2>4 DEF Token
    <3> QED
      BY <2>2, <3>1
  <2>5. /\ tokens'[t].status = "none" <=> tokens[t].status = "none"
    BY CommitShows
  <2>6. CASE tokens'[t] = [tokens[t] EXCEPT !.status = "revoked"] /\ tokens[t].status = "none"
    BY <2>1, <2>5, <2>6 DEF Token
  <2> HIDE DEF T
  <2>7. tokens'[t] = tokens[t] \/ tokens'[t] = [tokens[t] EXCEPT !.status = "revoked"]
    BY <1>3
  <2>8. tokens[t].status \in {"none", "live", "revoked"}
    BY <2>1 DEF Token
  <2> QED
    BY <2>2, <2>3, <2>4, <2>6, <2>7, <2>8
<1>5. T \in SUBSET TokenIds /\ \A t \in T : SeenPairs[t].state = "open"
  BY DEF SeenPairs
<1> HIDE DEF T
<1>6. SeenPairs' = [t \in TokenIds |-> IF t \in T THEN [SeenPairs[t] EXCEPT !.state = "spent"]
                                       ELSE SeenPairs[t]]
  BY <1>4 DEF SeenPairs
<1>7. SeenChecks' = SeenChecks
  BY <1>2, CheckStays DEF SeenChecks
<1>8. Registry!Spend(T)
  BY <1>2, <1>5, <1>6, <1>7, SettingsKept DEF Registry!Spend, SeenPairs, SeenChecks, Settings
<1> QED
  BY <1>5, <1>8 DEF Registry!Next

\* The steps that touch neither challenges nor tokens.
LEMMA RegistryQuiet ==
    ASSUME SessionsInv, Quiet, challenges' = challenges
    PROVE  UNCHANGED RegistryVars
<1>1. Settings
  BY DEF Quiet, Settings
<1> QED
  BY <1>1, PairStays, CheckStays, RegistryStutter DEF Quiet

LEMMA RegistryInit == Init => Registry!Init
<1> SUFFICES ASSUME Init PROVE Registry!Init
  OBVIOUS
<1>1. \A t \in TokenIds : PairOf(t) = Registry!NoPair("none")
  BY DEF Init, PairOf, PairState, Registry!NoPair
<1>2. \A c \in ChallengeIds : CheckOf(c) = Registry!NoCheck("none")
  BY DEF Init, CheckOf, CheckState, Registry!NoCheck
<1>3. epoch = 0 /\ (user.twoStep /\ ~lost) = FALSE /\ user.deleted = FALSE
  BY DEF Init, NoUser
<1> QED
  BY <1>1, <1>2, <1>3 DEF Registry!Init

LEMMA RegistryStep == SessionsInv /\ [Next]_vars => [Registry!Next]_RegistryVars
<1> SUFFICES ASSUME SessionsInv, [Next]_vars
             PROVE  Registry!Next \/ UNCHANGED RegistryVars
  OBVIOUS
<1>1. ASSUME \/ ResendVerification \/ VerifyEmail \/ RequestPasswordReset
             \/ VerifyPasswordResetOTP \/ Reactivate \/ UNCHANGED vars
      PROVE  UNCHANGED RegistryVars
  <2>1. Quiet /\ challenges' = challenges
    BY <1>1 DEF ResendVerification, VerifyEmail, RequestPasswordReset, VerifyPasswordResetOTP,
                Reactivate, vars, Quiet, SessionsInv, TypeOK, User
  <2> QED
    BY <2>1, RegistryQuiet
<1>2. ASSUME NEW r \in Requests,
             \/ \E t \in TokenIds : RefreshStart(r, t)
             \/ Authenticate(r)
             \/ \E c \in ChallengeIds : Probe(r, c)
             \/ RequestEmailChange(r) \/ ResetPassword(r) \/ Suspend(r)
             \/ \E op \in {"change_password", "delete_account"} : ChangeAccount(r, op)
             \/ ConfirmEmailChange(r) \/ Abort(r)
      PROVE  UNCHANGED RegistryVars
  <2>1. ASSUME NEW t \in TokenIds, RefreshStart(r, t) PROVE Quiet /\ challenges' = challenges
    BY <2>1 DEF RefreshStart, Quiet
  <2>2. ASSUME NEW c \in ChallengeIds, Probe(r, c) PROVE Quiet /\ challenges' = challenges
    BY <2>2 DEF Probe, Quiet
  <2>3. CASE Authenticate(r) \/ RequestEmailChange(r) \/ Abort(r)
    BY <2>3, RegistryQuiet DEF Authenticate, RequestEmailChange, Abort, Quiet
  <2>4. CASE \/ ResetPassword(r) \/ Suspend(r) \/ ConfirmEmailChange(r)
             \/ \E op \in {"change_password", "delete_account"} : ChangeAccount(r, op)
    BY <2>4, RegistryQuiet DEF ResetPassword, Suspend, ChangeAccount, ConfirmEmailChange, Quiet
  <2> QED
    BY <1>2, <2>1, <2>2, <2>3, <2>4, RegistryQuiet
<1>3. CASE Login
  BY <1>3, RegistryLogin
<1>4. ASSUME NEW t \in TokenIds, Logout(t) PROVE Registry!Next
  BY <1>4, RegistryLogout DEF SessionsInv
<1>5. ASSUME NEW r \in Requests, RefreshCommit(r) PROVE Registry!Next
  BY <1>5, RegistryRefresh
<1>6. ASSUME NEW r \in Requests, ConsumeLogin(r) PROVE Registry!Next \/ UNCHANGED RegistryVars
  BY <1>6, RegistryAnswer
<1>7. ASSUME NEW r \in Requests, Resend(r) PROVE Registry!Next \/ UNCHANGED RegistryVars
  BY <1>7, RegistryResend
<1>8. ASSUME NEW r \in Requests,
             ConfirmSetting(r) \/ \E p \in {"enable", "disable"} : RequestSetting(r, p)
      PROVE  UNCHANGED RegistryVars
  BY <1>8, RegistrySetting
<1>9. ASSUME NEW r \in Requests, Commit(r) PROVE Registry!Next
  <2>1. CASE Takes(req[r].op, req[r].user)
    <3>1. Registry!Revoke
      BY <1>9, <2>1, RegistryRevoke
    <3> QED
      BY <3>1 DEF Registry!Next
  <2> QED
    BY <1>9, <2>1, RegistryRepeat
<1> HIDE DEF Registry!Next
<1> QED
  BY <1>1, <1>2, <1>3, <1>4, <1>5, <1>6, <1>7, <1>8, <1>9 DEF Next

\* The refinement: whatever requests overlap and whatever objects they hold, sessions are
\* those of a registry of atomic operations, until a version is lost and all are given up.
THEOREM SessionsImplementRegistry == Spec => ImplementsRegistry
<1>1. Init => Registry!Init
  BY RegistryInit
<1>2. SessionsInv /\ [Next]_vars => [Registry!Next]_RegistryVars
  BY RegistryStep
<1> QED
  BY <1>1, <1>2, SessionsInvariant, PTL
     DEF Spec, ImplementsRegistry, Registry!Spec, Registry!registry, RegistryVars, SeenPairs, SeenChecks

\* What is closed: a pair that is revoked or a challenge of an ended period.
ClosedForGood ==
    [][/\ \A t \in TokenIds :
            /\ PairState(t) = "closed" => PairState(t)' = "closed"
            /\ PairState(t) = "spent" => PairState(t)' \in {"spent", "closed"}
       /\ \A c \in ChallengeIds : CheckState(c) = "closed" => CheckState(c)' = "closed"]_vars

\* Steps of the registry reopen nothing.
LEMMA PairsStayClosed ==
    ASSUME [Registry!Next]_RegistryVars, NEW t \in TokenIds
    PROVE  /\ SeenPairs[t].state = "closed" => SeenPairs'[t].state = "closed"
           /\ SeenPairs[t].state = "spent" => SeenPairs'[t].state \in {"spent", "closed"}
<1> DEFINE Goal == /\ SeenPairs[t].state = "closed" => SeenPairs'[t].state = "closed"
                   /\ SeenPairs[t].state = "spent" => SeenPairs'[t].state \in {"spent", "closed"}
<1>1. SeenPairs = [x \in TokenIds |-> SeenPairs[x]]
  BY DEF SeenPairs
<1>2. CASE SeenPairs' = SeenPairs
  BY <1>2
<1>3. ASSUME NEW x \in TokenIds, NEW new, SeenPairs[x].state = "none",
             SeenPairs' = [SeenPairs EXCEPT ![x] = new]
      PROVE  Goal
  BY <1>1, <1>3
<1>4. ASSUME NEW s \in TokenIds, NEW x \in TokenIds, Registry!Renew(s, x) PROVE Goal
  <2>1. /\ SeenPairs[s].state = "open" /\ SeenPairs[x].state = "none"
        /\ SeenPairs' = [SeenPairs EXCEPT ![s].state = "spent",
                           ![x] = Registry!Pair(SeenPairs[s].period, SeenPairs[s].stepped,
                                                SeenPairs[s].login)]
    BY <1>4 DEF Registry!Renew, SeenPairs
  <2>2. CASE t = x \/ t = s
    BY <2>1, <2>2
  <2>3. CASE t # x /\ t # s
    <3>1. SeenPairs'[t] = SeenPairs[t]
      BY <1>1, <2>1, <2>3
    <3> QED
      BY <3>1
  <2> QED
    BY <2>2, <2>3
<1>5. ASSUME NEW S \in SUBSET TokenIds, Registry!Spend(S) PROVE Goal
  <2>1. /\ \A x \in S : SeenPairs[x].state = "open"
        /\ SeenPairs' = [x \in TokenIds |-> IF x \in S THEN [SeenPairs[x] EXCEPT !.state = "spent"]
                                            ELSE SeenPairs[x]]
    BY <1>5 DEF Registry!Spend, SeenPairs
  <2>2. CASE t \in S
    BY <2>1, <2>2
  <2>3. CASE t \notin S
    BY <2>1, <2>3
  <2> QED
    BY <2>2, <2>3
<1>6. CASE Registry!Revoke
  <2>1. SeenPairs' = [x \in TokenIds |->
                        Registry!NoPair(IF SeenPairs[x].state = "none" THEN "none" ELSE "closed")]
    BY <1>6 DEF Registry!Revoke, SeenPairs
  <2>2. SeenPairs'[t].state = IF SeenPairs[t].state = "none" THEN "none" ELSE "closed"
    BY <2>1 DEF Registry!NoPair
  <2> QED
    BY <2>2
<1>7. CASE Registry!IssueClosed
  BY <1>2, <1>3, <1>7 DEF Registry!IssueClosed, SeenPairs
<1>8. ASSUME NEW x \in TokenIds, Registry!Login(x) \/ \E c \in ChallengeIds : Registry!Answer(c, x)
      PROVE  Goal
  BY <1>3, <1>8 DEF Registry!Login, Registry!Answer, SeenPairs
<1>9. ASSUME NEW c \in ChallengeIds, Registry!Ask(c) \/ \E d \in ChallengeIds : Registry!AskAgain(c, d)
      PROVE  Goal
  BY <1>2, <1>9 DEF Registry!Ask, Registry!AskAgain, SeenPairs
<1>10. CASE UNCHANGED RegistryVars
  BY <1>2, <1>10 DEF RegistryVars
<1>11. CASE Registry!Next
  <2>1. CASE \E S \in SUBSET TokenIds : Registry!Spend(S)
    BY <1>5, <2>1
  <2>2. CASE \E x \in TokenIds : \/ Registry!Login(x)
                                 \/ \E c \in ChallengeIds : Registry!Answer(c, x)
                                 \/ \E s \in TokenIds : Registry!Renew(s, x)
    BY <1>4, <1>8, <2>2
  <2>3. CASE \E c \in ChallengeIds : \/ Registry!Ask(c)
                                     \/ \E d \in ChallengeIds : Registry!AskAgain(c, d)
    BY <1>9, <2>3
  <2> QED
    BY <1>6, <1>7, <1>11, <2>1, <2>2, <2>3 DEF Registry!Next
<1> QED
  BY <1>10, <1>11

LEMMA ChecksStayClosed ==
    ASSUME [Registry!Next]_RegistryVars, NEW c \in ChallengeIds, SeenChecks[c].state = "closed"
    PROVE  SeenChecks'[c].state = "closed"
<1>1. SeenChecks = [x \in ChallengeIds |-> SeenChecks[x]]
  BY DEF SeenChecks
<1>2. CASE SeenChecks' = SeenChecks
  BY <1>2
<1>3. ASSUME NEW d \in ChallengeIds, NEW new, SeenChecks[d].state = "none",
             SeenChecks' = [SeenChecks EXCEPT ![d] = new]
      PROVE  SeenChecks'[c].state = "closed"
  BY <1>1, <1>3
<1>4. CASE Registry!Revoke
  <2>1. SeenChecks' = [x \in ChallengeIds |->
                         Registry!NoCheck(IF SeenChecks[x].state = "none" THEN "none" ELSE "closed")]
    BY <1>4 DEF Registry!Revoke, SeenChecks
  <2> QED
    BY <2>1 DEF Registry!NoCheck
<1>5. CASE Registry!IssueClosed
  BY <1>2, <1>3, <1>5 DEF Registry!IssueClosed, SeenChecks
<1>6. ASSUME NEW d \in ChallengeIds, Registry!Ask(d) \/ \E x \in ChallengeIds : Registry!AskAgain(x, d)
      PROVE  SeenChecks'[c].state = "closed"
  BY <1>3, <1>6 DEF Registry!Ask, Registry!AskAgain, SeenChecks
<1>7. ASSUME NEW x \in TokenIds,
             \/ Registry!Login(x)
             \/ \E d \in ChallengeIds : Registry!Answer(d, x)
             \/ \E s \in TokenIds : Registry!Renew(s, x)
      PROVE  SeenChecks'[c].state = "closed"
  BY <1>2, <1>7 DEF Registry!Login, Registry!Answer, Registry!Renew, SeenChecks
<1>8. ASSUME NEW S \in SUBSET TokenIds, Registry!Spend(S) PROVE SeenChecks'[c].state = "closed"
  BY <1>2, <1>8 DEF Registry!Spend, SeenChecks
<1>9. CASE UNCHANGED RegistryVars
  BY <1>2, <1>9 DEF RegistryVars
<1> QED
  BY <1>4, <1>5, <1>6, <1>7, <1>8, <1>9 DEF Registry!Next

\* A session that is revoked is not accepted again, not even after the account is
\* reactivated, a refresh token that has been rotated or logged out is not live again,
\* and a challenge of an ended period is not answered.
THEOREM RevokedStaysClosed == Spec => ClosedForGood
<1>1. ASSUME SessionsInv, [Next]_vars
      PROVE  /\ \A t \in TokenIds :
                  /\ PairState(t) = "closed" => PairState(t)' = "closed"
                  /\ PairState(t) = "spent" => PairState(t)' \in {"spent", "closed"}
             /\ \A c \in ChallengeIds : CheckState(c) = "closed" => CheckState(c)' = "closed"
  <2>1. [Registry!Next]_RegistryVars
    BY <1>1, RegistryStep
  <2>2. ASSUME NEW t \in TokenIds
        PROVE  SeenPairs[t].state = PairState(t) /\ SeenPairs'[t].state = PairState(t)'
    BY DEF SeenPairs, PairOf
  <2>3. ASSUME NEW c \in ChallengeIds
        PROVE  SeenChecks[c].state = CheckState(c) /\ SeenChecks'[c].state = CheckState(c)'
    BY DEF SeenChecks, CheckOf
  <2>4. ASSUME NEW t \in TokenIds
        PROVE  /\ PairState(t) = "closed" => PairState(t)' = "closed"
               /\ PairState(t) = "spent" => PairState(t)' \in {"spent", "closed"}
    BY <2>1, <2>2, PairsStayClosed
  <2>5. ASSUME NEW c \in ChallengeIds, CheckState(c) = "closed" PROVE CheckState(c)' = "closed"
    BY <2>1, <2>3, <2>5, ChecksStayClosed
  <2> QED
    BY <2>4, <2>5
<1>2. SessionsInv /\ [Next]_vars =>
        [/\ \A t \in TokenIds :
              /\ PairState(t) = "closed" => PairState(t)' = "closed"
              /\ PairState(t) = "spent" => PairState(t)' \in {"spent", "closed"}
         /\ \A c \in ChallengeIds : CheckState(c) = "closed" => CheckState(c)' = "closed"]_vars
  BY <1>1
<1> QED
  BY <1>2, SessionsInvariant, PTL DEF Spec, ClosedForGood

=============================================================================
