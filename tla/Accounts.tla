------------------------------ MODULE Accounts ------------------------------
(***************************************************************************)
(* auth.py with the account operations of user.py and security.py and the  *)
(* token checks of dependencies.py: one account, its one-time code, its    *)
(* login sessions, the JWTs that were issued and the blacklist.            *)
(*                                                                         *)
(* A request is a coroutine.  job[p].todo names the calls process p still  *)
(* makes, as the plan of its kind of request lists them; an action is the  *)
(* first of them and the code up to the next.  A check that fails drops    *)
(* the rest, and so does a call that raises, or the end of the process:    *)
(* what the request had still to do is then remembered in failed.          *)
(***************************************************************************)
EXTENDS Integers, Sequences, FiniteSets

CONSTANTS Procs,        \* request handlers
          Kinds,        \* the kinds of request that are made
          AccessLife,   \* JWT_ACCESS_TOKEN_EXPIRE_MINUTES, in ticks
          RefreshLife,  \* JWT_REFRESH_TOKEN_EXPIRE_DAYS, in ticks
          MaxTime,      \* bound: ticks in a behaviour
          MaxRequests,  \* bound: requests in a behaviour, one that dies counting twice
          MaxFaults     \* bound: requests that die, as failed tells them apart

AllKinds == {"register", "login", "login2fa", "verify", "sendOtp", "forgot", "reset", "refresh", "logout",
             "logoutAll", "changePassword", "toggle2fa", "changeEmail", "deleteAccount",
             "adminDisable", "adminEnable"}

ASSUME KindsAssumption == Kinds \subseteq AllKinds
ASSUME LivesAssumption == AccessLife \in Nat \ {0} /\ RefreshLife \in Nat \ {0}

VARIABLES user,       \* the document of the account
          passwords,  \* number of passwords the account has had
          codes,      \* codes[c]: the purpose the one-time code c was sent for
          redeemed,   \* which code some endpoint has accepted, and for what
          tokens,     \* tokens[j]: the token with jti j
          sessions,   \* the sessions collection, keyed by the first refresh jti
          blacklist,  \* the blacklist collection: jti -> expires_at
          revoked,    \* every jti that was ever blacklisted
          now,        \* the time
          job,        \* per process: the request it handles
          begun,      \* number of requests
          failed      \* the requests that died, each with the calls it still had to make

account == <<user, passwords>>
otps == <<codes, redeemed>>
logins == <<tokens, sessions>>
denied == <<blacklist, revoked>>
clock == <<now, begun, failed>>
vars == <<account, otps, logins, denied, clock, job>>

Purposes == {"verification", "login", "password_reset"}

\* code 0: otp_hash is None; password: the current one, by its number.
User == [exists : BOOLEAN, verified : BOOLEAN, active : BOOLEAN, twoFactor : BOOLEAN,
         password : Nat, code : Nat, purpose : Purposes, fresh : BOOLEAN]

Token == [type : {"access", "refresh"}, exp : Nat]

\* made: the password of the account when the session was inserted.
Session == [jti : Nat, active : BOOLEAN, ends : Nat, made : Nat]

Calls == {"findUser", "insertUser", "issueOtp", "clearOtp", "setVerified", "setPassword", "insertSession",
          "endSessions", "findRevoked", "findSession", "revoke", "rotate", "authToken", "authUser",
          "revokeAccess", "revokeRefresh", "endSession", "setTwoFactor", "setEmail", "deactivate", "activate"}

\* What a client sends (0 for what its kind of request does not have), and
\* what the request read: two_factor_enabled, and the session's key.  Once a
\* request has set the password, password is the new one.
Job == [kind : AllKinds, todo : Seq(Calls), access : Nat, refresh : Nat, code : Nat, password : Nat,
        twoFactor : BOOLEAN, session : Nat]

NoJob == [kind |-> "login", todo |-> <<>>, access |-> 0, refresh |-> 0, code |-> 0, password |-> 0,
          twoFactor |-> FALSE, session |-> 0]

\* Mutant of ChangePassword: sessions end before the password changes.
EndSessionsFirst == <<"authToken", "authUser", "endSessions", "setPassword">>

ChangePassword == <<"authToken", "authUser", "setPassword", "endSessions">>

\* The calls each kind of request makes when every check succeeds.
Plan(kind) ==
    CASE kind = "register"       -> <<"findUser", "insertUser">>
      [] kind = "login"          -> <<"findUser", "insertSession">>
      [] kind = "login2fa"       -> <<"findUser", "clearOtp", "insertSession">>
      [] kind = "verify"         -> <<"findUser", "setVerified">>
      [] kind = "sendOtp"        -> <<"findUser", "issueOtp">>
      [] kind = "forgot"         -> <<"findUser", "issueOtp">>
      [] kind = "reset"          -> <<"findUser", "setPassword", "endSessions">>
      [] kind = "refresh"        -> <<"findRevoked", "findSession", "revoke", "rotate">>
      [] kind = "logout"         -> <<"authToken", "authUser", "revokeAccess", "revokeRefresh", "endSession">>
      [] kind = "logoutAll"      -> <<"authToken", "authUser", "endSessions", "revokeAccess">>
      [] kind = "changePassword" -> ChangePassword
      [] kind = "toggle2fa"      -> <<"authToken", "authUser", "setTwoFactor">>
      [] kind = "changeEmail"    -> <<"authToken", "authUser", "setEmail">>
      [] kind = "deleteAccount"  -> <<"authToken", "authUser", "deactivate", "endSessions">>
      [] kind = "adminDisable"   -> <<"deactivate">>
      [] kind = "adminEnable"    -> <<"activate">>

WithToken == {"logout", "logoutAll", "changePassword", "toggle2fa", "changeEmail", "deleteAccount"}
WithCode == {"login2fa", "verify", "reset"}

\* A new password that validate_password_strength finds too weak is refused
\* after the other checks, and before anything is written.
WithNewPassword == {"register", "reset", "changePassword"}

PurposeOf(kind) ==
    CASE kind \in {"login", "login2fa"} -> "login"
      [] kind \in {"forgot", "reset"} -> "password_reset"
      [] OTHER -> "verification"

At(p, call) == job[p].todo # <<>> /\ Head(job[p].todo) = call
Continue(p) == job' = [job EXCEPT ![p].todo = Tail(@)]

\* Process p makes this call, and its request goes on.
Does(p, call) == At(p, call) /\ Continue(p)

Goto(p, todo) == job' = [job EXCEPT ![p].todo = todo]
Stop(p) == job' = [job EXCEPT ![p] = NoJob]

\* The request goes on after its next call if ok, and is refused otherwise.
ContinueIf(p, ok) == IF ok THEN Continue(p) ELSE Stop(p)

\* A call that only reads.
Reads == UNCHANGED <<account, otps, logins, denied, clock>>

Busy(p) == job[p].todo # <<>>
AtRest == \A p \in Procs : ~Busy(p)

Jtis(type) == {j \in DOMAIN tokens : tokens[j].type = type}

\* decode_token raises for an expired token.
Decodes(j) == tokens[j].exp > now

(***************************************************************************)
(* A request comes in; its token is decoded before the first call.         *)
(***************************************************************************)
Begin(p, kind) ==
    /\ ~Busy(p)
    /\ begun + Cardinality(failed) < MaxRequests
    /\ begun' = begun + 1
    /\ \E a \in (IF kind \in WithToken THEN {j \in Jtis("access") : Decodes(j)} ELSE {0}),
          r \in (CASE kind = "refresh" -> {j \in Jtis("refresh") : Decodes(j)}
                   [] kind = "logout" -> Jtis("refresh")
                   [] OTHER -> {0}),
          c \in (IF kind \in WithCode THEN DOMAIN codes ELSE {0}),
          w \in (IF kind \in {"login", "changePassword"} THEN 1 .. passwords ELSE {0}) :
            job' = [job EXCEPT ![p] = [NoJob EXCEPT !.kind = kind, !.todo = Plan(kind), !.access = a,
                                                    !.refresh = r, !.code = c, !.password = w]]
    /\ UNCHANGED <<account, otps, logins, denied, now, failed>>

(***************************************************************************)
(* The users collection.                                                   *)
(***************************************************************************)
NewCode == Len(codes) + 1

\* The document with a new one-time code, which is sent by email.
WithNewCode(u, purpose) == [u EXCEPT !.code = NewCode, !.purpose = purpose, !.fresh = TRUE]

WithoutCode(u) == [u EXCEPT !.code = 0]

\* Mutant of CodeMatches: the purpose of the code is not compared.
CodeOfAnyPurpose(j) == user.code = j.code /\ user.code # 0 /\ user.fresh

CodeMatches(j) == user.code = j.code /\ user.code # 0 /\ user.fresh /\ user.purpose = PurposeOf(j.kind)

\* The checks each handler makes of the user it found.
Accepts(j) ==
    CASE j.kind = "register" -> ~user.exists
      [] j.kind = "login" -> user.exists /\ user.password = j.password /\ user.verified
      [] j.kind = "sendOtp" -> user.exists /\ ~user.verified
      [] j.kind = "forgot" -> user.exists
      [] j.kind \in WithCode -> CodeMatches(j)

FindUser(p) ==
    LET j == job[p]
    IN  /\ At(p, "findUser")
        /\ \/ /\ Accepts(j)
              /\ IF j.kind = "login" /\ user.twoFactor THEN Goto(p, <<"issueOtp">>) ELSE Continue(p)
              /\ redeemed' = IF j.kind \in WithCode
                               THEN redeemed \cup {[code |-> j.code, purpose |-> PurposeOf(j.kind)]} ELSE redeemed
           \/ /\ Accepts(j) => j.kind \in WithNewPassword
              /\ Stop(p) /\ UNCHANGED redeemed
        /\ UNCHANGED <<account, codes, logins, denied, clock>>

\* One update_one of the user's document, nothing if there is none.
Update(u) ==
    /\ user' = IF user.exists THEN u ELSE user
    /\ UNCHANGED <<passwords, otps, logins, denied, clock>>

\* An update that stores a new code, which is sent by email, in document u.
UpdateAndSend(u, purpose) ==
    /\ user' = WithNewCode(u, purpose)
    /\ codes' = Append(codes, purpose)
    /\ UNCHANGED <<redeemed, logins, denied, clock>>

\* The unique index on email refuses a second account.
InsertUser(p) ==
    LET new == [user EXCEPT !.exists = TRUE, !.active = TRUE, !.password = 1]
    IN  /\ Does(p, "insertUser")
        /\ \/ user.exists /\ Reads
           \/ ~user.exists /\ UpdateAndSend(new, "verification") /\ passwords' = 1

\* _issue_otp
IssueOtp(p) ==
    Does(p, "issueOtp") /\ UpdateAndSend(user, PurposeOf(job[p].kind)) /\ UNCHANGED passwords

\* update_profile with a new email.
SetEmail(p) ==
    /\ Does(p, "setEmail")
    /\ UpdateAndSend([user EXCEPT !.verified = FALSE], "verification")
    /\ UNCHANGED passwords

\* Mutant of Cleared: the code stays.
KeptCode(u) == u

\* _OTP_CLEAR_FIELDS, when a login has used the code.
Cleared(u) == WithoutCode(u)

ClearOtp(p) == Does(p, "clearOtp") /\ Update(Cleared(user))

SetVerified(p) == Does(p, "setVerified") /\ Update(WithoutCode([user EXCEPT !.verified = TRUE]))

\* reset_password clears the code as well, change_password does not.
SetPassword(p) ==
    LET u == [user EXCEPT !.password = passwords + 1]
    IN  /\ At(p, "setPassword")
        /\ job' = [job EXCEPT ![p].todo = Tail(@), ![p].password = passwords + 1]
        /\ user' = IF job[p].kind = "reset" THEN WithoutCode(u) ELSE u
        /\ passwords' = passwords + 1
        /\ UNCHANGED <<otps, logins, denied, clock>>

\* The new value comes from the document that authenticated the request.
SetTwoFactor(p) == Does(p, "setTwoFactor") /\ Update([user EXCEPT !.twoFactor = ~job[p].twoFactor])

\* The owner deletes the account, or an administrator disables or enables it.
Deactivate(p) == Does(p, "deactivate") /\ Update([user EXCEPT !.active = FALSE])
Activate(p) == Does(p, "activate") /\ Update([user EXCEPT !.active = TRUE])

(***************************************************************************)
(* Tokens, sessions and the blacklist.                                     *)
(***************************************************************************)
\* An access and a refresh token, in that order.
NewPair == <<[type |-> "access", exp |-> now + AccessLife], [type |-> "refresh", exp |-> now + RefreshLife]>>
NewRefresh == Len(tokens) + 2

\* Mutant of IssueTokens: the tokens are not handed out.
IssueNone == tokens

\* create_access_token and create_refresh_token
IssueTokens == tokens \o NewPair

\* _issue_login_tokens
InsertSession(p) ==
    LET s == [jti |-> NewRefresh, active |-> TRUE, ends |-> now + RefreshLife, made |-> user.password]
    IN  /\ Does(p, "insertSession")
        /\ tokens' = IssueTokens
        /\ sessions' = [i \in DOMAIN sessions \cup {NewRefresh} |-> IF i = NewRefresh THEN s ELSE sessions[i]]
        /\ UNCHANGED <<account, otps, denied, clock>>

\* update_many: the sessions of I end.
EndThese(I) ==
    /\ sessions' = [i \in DOMAIN sessions |-> IF i \in I THEN [sessions[i] EXCEPT !.active = FALSE] ELSE sessions[i]]
    /\ UNCHANGED <<account, otps, tokens, denied, clock>>

EndSessions(p) == Does(p, "endSessions") /\ EndThese(DOMAIN sessions)

\* Mutant of SessionsOf: the session is not found.
NoSessionsOf(j) == {}

\* The session that has this refresh token now.
SessionsOf(j) == {i \in DOMAIN sessions : sessions[i].jti = j.refresh}

EndSession(p) == Does(p, "endSession") /\ EndThese(SessionsOf(job[p]))

FindRevoked(p) ==
    At(p, "findRevoked") /\ ContinueIf(p, job[p].refresh \notin DOMAIN blacklist) /\ Reads

FindSession(p) ==
    LET found == {i \in DOMAIN sessions : sessions[i].active /\ sessions[i].jti = job[p].refresh}
    IN  /\ At(p, "findSession")
        /\ \/ found = {} /\ Stop(p)
           \/ \E i \in found : job' = [job EXCEPT ![p].session = i, ![p].todo = Tail(@)]
        /\ Reads

\* update_one(..., upsert=True) of the blacklist.
Blacklist(j, until) ==
    /\ blacklist' = [i \in DOMAIN blacklist \cup {j} |-> IF i = j THEN until ELSE blacklist[i]]
    /\ revoked' = revoked \cup {j}
    /\ UNCHANGED <<account, otps, logins, clock>>

BlacklistRefresh(p) == Blacklist(job[p].refresh, tokens[job[p].refresh].exp)

\* In refresh, and in logout.
Revoke(p) == Does(p, "revoke") /\ BlacklistRefresh(p)
RevokeRefresh(p) == Does(p, "revokeRefresh") /\ BlacklistRefresh(p)

\* Mutant of AccessEnds: the entry goes one tick too early.
AccessEndsEarly == now + AccessLife - 1

\* When an access token has expired for certain.
AccessEnds == now + AccessLife

\* logout goes on with the refresh token, if that one decodes.
RevokeAccess(p) ==
    /\ At(p, "revokeAccess")
    /\ Blacklist(job[p].access, AccessEnds)
    /\ ContinueIf(p, job[p].kind = "logout" => Decodes(job[p].refresh))

\* The new pair is made, and the session found earlier gets its refresh jti.
Rotate(p) ==
    LET i == job[p].session
    IN  /\ Does(p, "rotate")
        /\ tokens' = tokens \o NewPair
        /\ sessions' = IF i \in DOMAIN sessions THEN [sessions EXCEPT ![i].jti = NewRefresh] ELSE sessions
        /\ UNCHANGED <<account, otps, denied, clock>>

\* get_current_user: the blacklist, then the user.
AuthToken(p) ==
    At(p, "authToken") /\ ContinueIf(p, job[p].access \notin DOMAIN blacklist) /\ Reads

AuthUser(p) ==
    LET j == job[p]
        ok == /\ user.exists /\ user.active
              /\ j.kind = "changePassword" => user.password = j.password
    IN  /\ At(p, "authUser")
        /\ \/ ok /\ job' = [job EXCEPT ![p].twoFactor = user.twoFactor, ![p].todo = Tail(@)]
           \/ (ok => j.kind \in WithNewPassword) /\ Stop(p)
        /\ Reads

\* The next call of the request raises, or the process ends: an error is
\* answered, except by logout, which answers success all the same, or nothing.
\* (A request that dies at its first call has done nothing.)
Fail(p) ==
    /\ Busy(p) /\ job[p].todo # Plan(job[p].kind)
    /\ Cardinality(failed) < MaxFaults
    /\ failed' = failed \cup {job[p]}
    /\ Stop(p)
    /\ UNCHANGED <<account, otps, logins, denied, now, begun>>

(***************************************************************************)
(* Time.  No request lasts a tick.                                         *)
(***************************************************************************)
Tick ==
    /\ AtRest
    /\ now < MaxTime
    /\ now' = now + 1
    /\ UNCHANGED <<account, otps, logins, denied, job, begun, failed>>

\* Ten minutes pass.
OtpExpires ==
    /\ AtRest
    /\ user.code # 0 /\ user.fresh
    /\ Update([user EXCEPT !.fresh = FALSE])
    /\ UNCHANGED job

\* The TTL indexes on expires_at.
ForgetRevoked(j) ==
    /\ blacklist[j] <= now
    /\ blacklist' = [i \in DOMAIN blacklist \ {j} |-> blacklist[i]]
    /\ UNCHANGED <<account, otps, logins, revoked, clock, job>>

ForgetSession(i) ==
    /\ sessions[i].ends <= now
    /\ sessions' = [k \in DOMAIN sessions \ {i} |-> sessions[k]]
    /\ UNCHANGED <<account, otps, tokens, denied, clock, job>>

(***************************************************************************)
(* The specification.                                                      *)
(***************************************************************************)
Step(p) ==
    \/ FindUser(p) \/ InsertUser(p) \/ IssueOtp(p) \/ ClearOtp(p) \/ SetVerified(p) \/ SetPassword(p)
    \/ SetTwoFactor(p) \/ Deactivate(p) \/ Activate(p) \/ SetEmail(p)
    \/ InsertSession(p) \/ EndSessions(p) \/ EndSession(p)
    \/ FindRevoked(p) \/ FindSession(p) \/ Revoke(p) \/ Rotate(p)
    \/ AuthToken(p) \/ AuthUser(p) \/ RevokeAccess(p) \/ RevokeRefresh(p)

NoUser == [exists |-> FALSE, verified |-> FALSE, active |-> FALSE, twoFactor |-> FALSE,
           password |-> 0, code |-> 0, purpose |-> "verification", fresh |-> FALSE]

\* No account yet, or a verified one that is logged in on one device.
Init ==
    /\ \/ /\ user = NoUser
          /\ passwords = 0 /\ tokens = <<>> /\ sessions = <<>>
       \/ /\ user = [NoUser EXCEPT !.exists = TRUE, !.verified = TRUE, !.active = TRUE, !.password = 1]
          /\ passwords = 1
          /\ tokens = <<[type |-> "access", exp |-> AccessLife], [type |-> "refresh", exp |-> RefreshLife]>>
          /\ sessions = [i \in {2} |-> [jti |-> 2, active |-> TRUE, ends |-> RefreshLife, made |-> 1]]
    /\ codes = <<>>
    /\ redeemed = {}
    /\ blacklist = <<>>
    /\ revoked = {}
    /\ now = 0
    /\ job = [p \in Procs |-> NoJob]
    /\ begun = 0
    /\ failed = {}

Next ==
    \/ \E p \in Procs : (\E kind \in Kinds : Begin(p, kind)) \/ Step(p) \/ Fail(p)
    \/ Tick
    \/ OtpExpires
    \/ \E j \in DOMAIN blacklist : ForgetRevoked(j)
    \/ \E i \in DOMAIN sessions : ForgetSession(i)

Spec == Init /\ [][Next]_vars

(***************************************************************************)
(* Properties.                                                             *)
(***************************************************************************)
\* Every document, token and request has its type.
TypeOK ==
    /\ user \in User
    /\ passwords \in Nat /\ now \in Nat /\ begun \in Nat
    /\ codes \in Seq(Purposes)
    /\ redeemed \subseteq [code : DOMAIN codes, purpose : Purposes]
    /\ tokens \in Seq(Token)
    /\ DOMAIN sessions \subseteq DOMAIN tokens
    /\ \A i \in DOMAIN sessions : sessions[i] \in Session
    /\ DOMAIN blacklist \subseteq revoked /\ revoked \subseteq DOMAIN tokens
    /\ \A j \in DOMAIN blacklist : blacklist[j] \in Nat
    /\ job \in [Procs -> Job]
    /\ failed \subseteq Job

\* A token that was blacklisted stays so for as long as it would decode: the
\* TTL index never forgets a token that has not expired.
RevokedStaysRevoked ==
    \A j \in revoked : Decodes(j) => j \in DOMAIN blacklist

\* Request j has revoked the refresh token of session i, and was to give i
\* another one or to end it.
Replacing(j, i) ==
    /\ j.refresh = sessions[i].jti
    /\ \/ j.todo = <<"rotate">> /\ j.session = i
       \/ j.todo = <<"endSession">>

\* When no request is at work, the owner of an active session can refresh
\* it: the session's refresh token decodes and is not blacklisted, whatever
\* refreshes and logouts met.  The exception is a session whose token a
\* request revoked that died before its next and last call.
SessionsRefreshable ==
    AtRest =>
        \A i \in DOMAIN sessions :
            sessions[i].active /\ sessions[i].ends > now =>
                LET j == sessions[i].jti
                IN  \/ tokens[j].type = "refresh" /\ Decodes(j) /\ j \notin DOMAIN blacklist
                    \/ \E r \in failed : Replacing(r, i)

\* Request j has given the account the password it has, and was to end the
\* sessions next.
Ending(j) == j.todo = <<"endSessions">> /\ j.password = user.password

\* When no request is at work, no session that was inserted under an earlier
\* password is active, unless the request that set this one died in between.
OldSessionsEnded ==
    AtRest => \/ \A i \in DOMAIN sessions : sessions[i].active => sessions[i].made = user.password
              \/ \E r \in failed : Ending(r)

\* A one-time code is only accepted by the endpoint it was sent for.
PurposeKept == \A r \in redeemed : codes[r.code] = r.purpose

\* Request j was accepted for the pending code, and was to clear it next.
Redeeming(j) ==
    /\ j.code = user.code
    /\ \/ j.todo = <<"clearOtp", "insertSession">>
       \/ j.todo = <<"setVerified">>
       \/ j.todo = <<"setPassword", "endSessions">> /\ j.kind = "reset"

\* When no request is at work, the pending code has not been accepted yet,
\* unless the request it was accepted from died before it cleared the code.
UsedCodesGone ==
    AtRest /\ user.code # 0 =>
        (\A r \in redeemed : r.code # user.code) \/ (\E r \in failed : Redeeming(r))
=============================================================================
