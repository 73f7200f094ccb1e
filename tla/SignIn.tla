-------------------------------- MODULE SignIn --------------------------------
(***************************************************************************)
(* Signing in, of the users of Organization: password with captcha and    *)
(* one-time code, passkeys, the external provider; sessions, lockout and   *)
(* the changes a user makes to its own account (governance internal/store  *)
(* auth.go, webauthn.go, oidc.go and their handlers).  A request is a      *)
(* sequence of transactions: call[c] is what it has read so far.           *)
(***************************************************************************)
EXTENDS Organization

CONSTANTS
  Caller,     \* requests in flight
  Member,     \* the users that sign in; the others only administrate
  Ticket,     \* captchas, challenges and flows that are ever drawn
  MaxTry      \* policy.MaxAttempts

VARIABLES
  ticket,    \* per one-time ticket: what it is for, whose it is, spent or not
  used,      \* history: how many requests went on with each ticket
  failure,   \* per user name: attempts and lock
  totp,      \* per user: "none", "pending", "enabled"
  passkey,   \* per user, None or the stored signature count
  call       \* the requests in flight

accountVars == <<ticket, used, failure, totp, passkey, call>>
vars == <<orgVars, accountVars>>

Idle == [pc |-> "idle", user |-> None, secret |-> 0, ticket |-> None]
Fresh == [for |-> "new", user |-> None]
NoFailure == [n |-> 0, lock |-> "no"]

AccountInit ==
  /\ ticket = [k \in Ticket |-> Fresh]
  /\ used = [k \in Ticket |-> 0]
  /\ failure = [u \in Member |-> NoFailure]
  /\ totp = [u \in Member |-> "none"]
  /\ passkey = [u \in Member |-> None]
  /\ call = [c \in Caller |-> Idle]

End(c) == call' = [call EXCEPT ![c] = Idle]
At(c, pc) == call[c].pc = pc
Goto(c, pc) == call' = [call EXCEPT ![c].pc = pc]

\* CreateCaptcha, createPasskeyChallenge, BeginOIDCLogin.
Draw(k, for, u) ==
  /\ ticket[k] = Fresh
  /\ ticket' = [ticket EXCEPT ![k] = [for |-> for, user |-> u]]

Spent == [for |-> "spent", user |-> None]

\* consumeCaptcha, consumePasskeyChallenge, ConsumeOIDCLogin: whoever deletes
\* the row goes on, whatever comes of it.
Consume(k, for, ok) ==
  /\ ticket' = IF ticket[k].for = for THEN [ticket EXCEPT ![k] = Spent] ELSE ticket
  /\ used' = IF ticket[k].for = for THEN [used EXCEPT ![k] = @ + 1] ELSE used

\* recordLoginFailure
RecordLoginFailure(u) ==
  LET f == failure[u]
      again == IF f.lock = "over" THEN 1 ELSE f.n + 1 IN
  failure' = [failure EXCEPT ![u] =
    [n |-> IF again > MaxTry THEN MaxTry ELSE again,
     lock |-> CASE f.lock = "locked" -> "locked"
                [] f.lock = "over" -> "no"
                [] OTHER -> IF again >= MaxTry THEN "locked" ELSE "no"]]

\* rejectLogin
Reject(c) ==
  /\ At(c, "reject")
  /\ RecordLoginFailure(call[c].user)
  /\ End(c)
  /\ UNCHANGED <<orgVars, ticket, used, totp, passkey>>

\* The five minutes of a lock are over.
LockEnds(u) ==
  /\ failure[u].lock = "locked"
  /\ failure' = [failure EXCEPT ![u].lock = "over"]
  /\ UNCHANGED <<orgVars, ticket, used, totp, passkey, call>>

(***************************************************************************)
(* Sessions.                                                               *)
(***************************************************************************)
\* Session: what each request with a token asks first.
Valid(t) ==
  /\ session[t] # None
  /\ LET u == session[t].user IN
     /\ Active(u)
     /\ IF session[t].issuer = "local" THEN user[u].password # 0 ELSE Linked(u)

\* Faulty variant: the password that was verified is not compared again.
OpensUnchecked(u, password) == Active(u) /\ user[u].password # 0

\* createAuthSession: the account as it is now; password 0 for a passkey.
Opens(u, password) ==
  /\ Active(u) /\ user[u].password # 0
  /\ password # 0 => user[u].password = password

CreateAuthSession(u, password) ==
  IF Opens(u, password)
  THEN \E t \in Token :
         /\ session[t] = None
         /\ session' = [session EXCEPT ![t] = [user |-> u, issuer |-> "local", password |-> password]]
  ELSE UNCHANGED session

\* Logout and RevokeAuthSession; a session's time is over.
SessionEnds(t) ==
  /\ session[t] # None
  /\ session' = [session EXCEPT ![t] = None]
  /\ UNCHANGED <<user, dept, role, grant, identity, drawn, accountVars>>

\* RevokeOtherAuthSessions
RevokeOtherAuthSessions(t) ==
  /\ "session" \in Asked
  /\ Valid(t)
  /\ session' = [s \in Token |-> IF s # t /\ session[s] # None /\ session[s].user = session[t].user
                                 THEN None ELSE session[s]]
  /\ UNCHANGED <<user, dept, role, grant, identity, drawn, accountVars>>

(***************************************************************************)
(* Password, captcha and one-time code.                                    *)
(***************************************************************************)
CreateCaptcha(k) ==
  /\ "login" \in Asked \/ "passkey" \in Asked
  /\ Draw(k, "captcha", None)
  /\ UNCHANGED <<orgVars, used, failure, totp, passkey, call>>

\* Login and BeginPasskeyAssertion start with loginLock; "secret" is the
\* password that is tried.
Begin(c, pc, u, secret, k) ==
  /\ At(c, "idle")
  /\ failure[u].lock # "locked"
  /\ call' = [call EXCEPT ![c] = [pc |-> pc, user |-> u, secret |-> secret, ticket |-> k]]
  /\ UNCHANGED <<orgVars, ticket, used, failure, totp, passkey>>
Login(c, u, secret, k) == "login" \in Asked /\ secret \in 1..drawn /\ Begin(c, "captcha", u, secret, k)

\* consumeCaptcha: "ok" is whether the answer was right.
Captcha(c, ok) ==
  /\ At(c, "captcha") \/ At(c, "passkey captcha")
  /\ Consume(call[c].ticket, "captcha", ok)
  /\ Goto(c, IF ticket[call[c].ticket].for # "captcha" \/ ~ok THEN "reject"
             ELSE IF At(c, "captcha") THEN "password" ELSE "options")
  /\ UNCHANGED <<orgVars, failure, totp, passkey>>

Password(c) ==
  /\ At(c, "password")
  /\ Goto(c, IF Active(call[c].user) /\ user[call[c].user].password = call[c].secret THEN "code" ELSE "reject")
  /\ UNCHANGED <<orgVars, ticket, used, failure, totp, passkey>>

\* verifyLoginMFA
VerifyLoginMFA(c, ok) ==
  /\ At(c, "code")
  /\ Goto(c, IF totp[call[c].user] = "enabled" /\ ~ok THEN "reject" ELSE "forget")
  /\ UNCHANGED <<orgVars, ticket, used, failure, totp, passkey>>

\* Login forgets the failures before it opens the session.
Forget(c) ==
  /\ At(c, "forget")
  /\ failure' = [failure EXCEPT ![call[c].user] = NoFailure]
  /\ Goto(c, "open")
  /\ UNCHANGED <<orgVars, ticket, used, totp, passkey>>

Open(c) ==
  /\ At(c, "open")
  /\ CreateAuthSession(call[c].user, call[c].secret)
  /\ End(c)
  /\ UNCHANGED <<user, dept, role, grant, identity, drawn, ticket, used, failure, totp, passkey>>

\* SetUserCredentials
SetUserCredentials(u) ==
  /\ ResetPassword(u)
  /\ failure' = [v \in Member |-> IF v = u THEN NoFailure ELSE failure[v]]
  /\ UNCHANGED <<ticket, used, totp, passkey, call>>

\* ChangePassword reads and verifies the password ...
ChangePassword(c, t, secret) ==
  /\ "credential" \in Asked
  /\ At(c, "idle") /\ Valid(t)
  /\ user[session[t].user].password = secret
  /\ call' = [call EXCEPT ![c] = [pc |-> "change", user |-> session[t].user, secret |-> secret, ticket |-> None]]
  /\ UNCHANGED <<orgVars, ticket, used, failure, totp, passkey>>

\* ... and replaces whatever password there is, under the lock of its row only:
\* createAuthSession holds that row against it.
Change(c) ==
  /\ At(c, "change") /\ drawn < MaxPassword
  /\ user' = [user EXCEPT ![call[c].user].password = drawn + 1]
  /\ drawn' = drawn + 1
  /\ session' = Without(call[c].user, {"local", "oidc"})
  /\ End(c)
  /\ UNCHANGED <<dept, role, grant, identity, ticket, used, failure, totp, passkey>>

\* BeginTOTPEnrollment, ConfirmTOTPEnrollment and DisableTOTP: what is written
\* rests on what was read before.
ReadTOTP(c, t, pc) ==
  /\ "totp" \in Asked
  /\ At(c, "idle") /\ Valid(t)
  /\ totp[session[t].user] = (CASE pc = "enroll" -> "none" [] pc = "confirm" -> "pending" [] OTHER -> "enabled")
  /\ call' = [call EXCEPT ![c] = [pc |-> pc, user |-> session[t].user, secret |-> 0, ticket |-> None]]
  /\ UNCHANGED <<orgVars, ticket, used, failure, totp, passkey>>
WriteTOTP(c) ==
  /\ call[c].pc \in {"enroll", "confirm", "disable"}
  /\ LET u == call[c].user IN
     totp' = [totp EXCEPT ![u] = CASE At(c, "enroll") -> "pending"
                                   [] At(c, "disable") -> "none"
                                   [] OTHER -> IF @ = "none" THEN @ ELSE "enabled"]
  /\ End(c)
  /\ UNCHANGED <<orgVars, ticket, used, failure, passkey>>

(***************************************************************************)
(* Passkeys.                                                               *)
(***************************************************************************)
BeginPasskeyRegistration(t, k) ==
  /\ "passkey" \in Asked
  /\ Valid(t)
  /\ Draw(k, "register", session[t].user)
  /\ UNCHANGED <<orgVars, used, failure, totp, passkey, call>>

\* authPasskeyRegistration, after the attestation was verified; the caller must
\* own the challenge.  The stored row follows the spent challenge.
CompletePasskeyRegistration(t, k) ==
  /\ Valid(t) /\ ticket[k].for = "register"
  /\ Consume(k, "register", TRUE)
  /\ passkey' = IF ticket[k].user = session[t].user /\ passkey[ticket[k].user] = None
                THEN [passkey EXCEPT ![ticket[k].user] = 0] ELSE passkey
  /\ UNCHANGED <<orgVars, failure, totp, call>>

DeletePasskey(t) ==
  /\ "passkey" \in Asked
  /\ Valid(t) /\ passkey[session[t].user] # None
  /\ passkey' = [passkey EXCEPT ![session[t].user] = None]
  /\ UNCHANGED <<orgVars, ticket, used, failure, totp, call>>

\* BeginPasskeyAssertion: lock and captcha as for a password.
BeginPasskeyAssertion(c, u, k) == "passkey" \in Asked /\ Begin(c, "passkey captcha", u, 0, k)
PasskeyOptions(c, k) ==
  /\ At(c, "options")
  /\ LET u == call[c].user IN
     IF Active(u) /\ user[u].password # 0 /\ passkey[u] # None
     THEN Draw(k, "authenticate", u) /\ End(c)
     ELSE Goto(c, "reject") /\ UNCHANGED ticket
  /\ UNCHANGED <<orgVars, used, failure, totp, passkey>>

\* CompletePasskeyAssertion spends the challenge ...
SpendChallenge(c, k) ==
  /\ At(c, "idle") /\ ticket[k].for = "authenticate"
  /\ Consume(k, "authenticate", TRUE)
  /\ call' = [call EXCEPT ![c] = [pc |-> "count", user |-> ticket[k].user, secret |-> 0, ticket |-> None]]
  /\ UNCHANGED <<orgVars, failure, totp, passkey>>

\* ... compares the signature count with the stored one ...
CountSignature(c, count) ==
  /\ At(c, "count")
  /\ LET stored == passkey[call[c].user] IN
     IF stored = None THEN End(c) /\ UNCHANGED passkey
     ELSE IF stored > 0 /\ count > 0 /\ count <= stored THEN End(c) /\ UNCHANGED passkey
     ELSE passkey' = [passkey EXCEPT ![call[c].user] = count] /\ Goto(c, "open")
  /\ UNCHANGED <<orgVars, ticket, used, failure, totp>>

(***************************************************************************)
(* The external provider.                                                  *)
(***************************************************************************)
BeginOIDCLogin(k) ==
  /\ "provider" \in Asked
  /\ Draw(k, "flow", None)
  /\ UNCHANGED <<orgVars, used, failure, totp, passkey, call>>

\* authOIDCCallback: the flow is spent, then the provider says who it is.
OIDCCallback(c, k) ==
  /\ At(c, "idle") /\ ticket[k].for = "flow"
  /\ Consume(k, "flow", TRUE)
  /\ call' = [call EXCEPT ![c] = [pc |-> "identity", user |-> None, secret |-> 0, ticket |-> None]]
  /\ UNCHANGED <<orgVars, failure, totp, passkey>>

\* CompleteOIDCLogin: an unknown subject becomes a new user where sign-up is
\* allowed, a known one signs in while user and link are.
CompleteOIDCLogin(c, s, u) ==
  /\ At(c, "identity")
  /\ End(c)
  /\ IF identity[s] = None
     THEN /\ ~Exists(u)
          /\ user' = [user EXCEPT ![u] = [status |-> "active", dept |-> None, password |-> 0]]
          /\ identity' = [identity EXCEPT ![s] = [user |-> u, on |-> TRUE]]
     ELSE identity[s].user = u /\ UNCHANGED <<user, identity>>
  /\ IF (identity'[s].on /\ user'[u].status = "active")
     THEN \E t \in Token :
            /\ session[t] = None
            /\ session' = [session EXCEPT ![t] = [user |-> u, issuer |-> "oidc", password |-> 0]]
     ELSE UNCHANGED session
  /\ UNCHANGED <<dept, role, grant, drawn, ticket, used, failure, totp, passkey>>

\* The provider refuses, sign-up is not allowed, or the request dies.
Abandon(c) ==
  /\ ~At(c, "idle")
  /\ End(c)
  /\ UNCHANGED <<orgVars, ticket, used, failure, totp, passkey>>

\* The administrator, about the users that sign in.
Administer ==
  /\ UNCHANGED accountVars
  /\ \E u \in Member :
       \/ \E status \in {"active", "suspended"} : UpsertUser(u, None, status)
       \/ UnlinkOIDCUser(u)
       \/ \E s \in Subject : LinkOIDCUser(u, s)

Request(c) ==
  \/ \E u \in Member, k \in Ticket :
       BeginPasskeyAssertion(c, u, k) \/ \E secret \in 1..MaxPassword : Login(c, u, secret, k)
  \/ Reject(c) \/ Password(c) \/ Forget(c) \/ Open(c) \/ Change(c) \/ WriteTOTP(c) \/ Abandon(c)
  \/ \E ok \in BOOLEAN : Captcha(c, ok) \/ VerifyLoginMFA(c, ok)
  \/ \E t \in Token : \/ \E secret \in 1..MaxPassword : ChangePassword(c, t, secret)
                      \/ \E pc \in {"enroll", "confirm", "disable"} : ReadTOTP(c, t, pc)
  \/ \E k \in Ticket : PasskeyOptions(c, k) \/ SpendChallenge(c, k) \/ OIDCCallback(c, k)
  \/ \E count \in 0..2 : CountSignature(c, count)
  \/ \E s \in Subject, u \in Member : CompleteOIDCLogin(c, s, u)

SignInNext ==
  \/ Administer
  \/ \E c \in Caller : Request(c)
  \/ \E u \in Member : SetUserCredentials(u) \/ LockEnds(u)
  \/ \E k \in Ticket : CreateCaptcha(k) \/ BeginOIDCLogin(k)
  \/ \E t \in Token : SessionEnds(t) \/ RevokeOtherAuthSessions(t) \/ DeletePasskey(t)
  \/ \E t \in Token, k \in Ticket : BeginPasskeyRegistration(t, k) \/ CompletePasskeyRegistration(t, k)

SignInSpec == Init /\ AccountInit /\ [][SignInNext]_vars

(***************************************************************************)
(* Properties.                                                             *)
(***************************************************************************)
\* Every session that is stored still has what it was opened on: an active user
\* and a password that exists (for one opened with a password, that very
\* password) or an enabled link, whatever reset, suspension or unlinking ran
\* while the request was on its way (auth.go 303-304: "a concurrent reset or
\* suspension cannot leave a newly issued session authenticated by an obsolete
\* password").
SessionRestsOnItsGrounds ==
  \A t \in Token : session[t] # None =>
    LET s == session[t] IN
    /\ Active(s.user)
    /\ s.issuer = "oidc" => Linked(s.user)
    /\ s.issuer = "local" => user[s.user].password # 0
    /\ s.password # 0 => user[s.user].password = s.password

\* A captcha, a challenge or a login flow serves one request, also when its
\* answer is wrong or two requests bring it at once (auth.go 190-191: "one image
\* permits exactly one login attempt"; webauthn.go 147-149).
TicketsServeOnce == \A k \in Ticket : used[k] <= 1
===============================================================================
