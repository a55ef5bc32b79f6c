--------------------------- MODULE AccountsProofs ---------------------------
(***************************************************************************)
(* The types of Accounts, that a token which was revoked stays so for as   *)
(* long as it decodes, that a one-time code serves one purpose, and what   *)
(* holds of sessions and codes at rest: for any number of request          *)
(* handlers, requests and tokens, and any lifetimes.                       *)
(***************************************************************************)
EXTENDS Accounts, SequenceTheorems, TLAPS

AccountOK == user \in User /\ passwords \in Nat

\* The pending code is the one that was sent with the pending purpose.
CodesOK ==
    /\ codes \in Seq(Purposes)
    /\ redeemed \subseteq [code : DOMAIN codes, purpose : Purposes]
    /\ user.code \in 0 .. Len(codes)
    /\ user.code # 0 => codes[user.code] = user.purpose
    /\ PurposeKept

\* logout blacklists an access token until now + AccessLife without decoding
\* it again; that is late enough because it was made at now or before.
TokensOK ==
    /\ tokens \in Seq(Token) /\ now \in Nat /\ begun \in Nat
    /\ \A j \in Jtis("access") : tokens[j].exp <= now + AccessLife

SessionsOK ==
    /\ DOMAIN sessions \subseteq DOMAIN tokens
    /\ \A i \in DOMAIN sessions : sessions[i] \in Session

DeniedOK ==
    /\ DOMAIN blacklist \subseteq revoked /\ revoked \subseteq DOMAIN tokens
    /\ \A j \in DOMAIN blacklist : blacklist[j] \in Nat
    /\ \A j \in revoked : Decodes(j) => j \in DOMAIN blacklist /\ blacklist[j] >= tokens[j].exp

\* The tokens a request has still to blacklist are tokens of the right type.
TodoOK(j, t) ==
    \A i \in DOMAIN j.todo :
        /\ j.todo[i] = "revokeAccess" => j.access \in DOMAIN t /\ t[j.access].type = "access"
        /\ j.todo[i] \in {"revoke", "revokeRefresh"} => j.refresh \in DOMAIN t

JobsOK == job \in [Procs -> Job] /\ \A p \in Procs : TodoOK(job[p], tokens)

FailedOK == failed \subseteq Job

IInv == AccountOK /\ CodesOK /\ TokensOK /\ SessionsOK /\ DeniedOK /\ JobsOK

(***************************************************************************)
(* The plans.                                                              *)
(***************************************************************************)
\* Only requests with an access token blacklist one, and only requests with a
\* refresh token.
LEMMA PlanOK ==
    ASSUME NEW kind \in AllKinds
    PROVE  /\ Plan(kind) \in Seq(Calls)
           /\ \A i \in DOMAIN Plan(kind) :
                /\ Plan(kind)[i] = "revokeAccess" => kind \in WithToken
                /\ Plan(kind)[i] \in {"revoke", "revokeRefresh"} => kind \in {"refresh", "logout"}
<1>1. CASE kind = "register"
  BY <1>1 DEF Plan, Calls
<1>2. CASE kind = "login"
  BY <1>2 DEF Plan, Calls
<1>3. CASE kind = "login2fa"
  BY <1>3 DEF Plan, Calls
<1>4. CASE kind = "verify"
  BY <1>4 DEF Plan, Calls
<1>5. CASE kind = "sendOtp"
  BY <1>5 DEF Plan, Calls
<1>6. CASE kind = "forgot"
  BY <1>6 DEF Plan, Calls
<1>7. CASE kind = "reset"
  BY <1>7 DEF Plan, Calls
<1>8. CASE kind = "refresh"
  BY <1>8 DEF Plan, Calls
<1>9. CASE kind = "logout"
  BY <1>9 DEF Plan, Calls, WithToken
<1>10. CASE kind = "logoutAll"
  BY <1>10 DEF Plan, Calls, WithToken
<1>11. CASE kind = "changePassword"
  BY <1>11 DEF Plan, Calls, WithToken, ChangePassword
<1>12. CASE kind = "toggle2fa"
  BY <1>12 DEF Plan, Calls, WithToken
<1>13. CASE kind = "changeEmail"
  BY <1>13 DEF Plan, Calls, WithToken
<1>14. CASE kind = "deleteAccount"
  BY <1>14 DEF Plan, Calls, WithToken
<1>15. CASE kind = "adminDisable"
  BY <1>15 DEF Plan, Calls
<1>16. CASE kind = "adminEnable"
  BY <1>16 DEF Plan, Calls
<1>17. QED
  BY <1>1, <1>2, <1>3, <1>4, <1>5, <1>6, <1>7, <1>8, <1>9, <1>10, <1>11, <1>12, <1>13, <1>14, <1>15, <1>16 DEF AllKinds

\* The purposes codes are sent for.
LEMMA PurposeOfType == \A kind : PurposeOf(kind) \in Purposes
BY DEF PurposeOf, Purposes

(***************************************************************************)
(* The account and its codes.                                              *)
(***************************************************************************)
\* An update that keeps the pending code or clears it.
LEMMA UpdateKeeps ==
    ASSUME AccountOK, CodesOK, UNCHANGED otps, NEW u \in User, user' \in {user, u}, passwords' \in Nat,
           u.code \in {0, user.code}, u.purpose = user.purpose
    PROVE  AccountOK' /\ CodesOK'
BY DEF AccountOK, CodesOK, PurposeKept, otps

\* An update that stores a new code.
LEMMA SendKeeps ==
    ASSUME AccountOK, CodesOK, NEW u \in User, NEW purpose \in Purposes,
           UpdateAndSend(u, purpose), passwords' \in Nat
    PROVE  AccountOK' /\ CodesOK'
<1>1. /\ user' = WithNewCode(u, purpose) /\ codes' = Append(codes, purpose) /\ redeemed' = redeemed
  BY DEF UpdateAndSend
<1>2. /\ user' \in User /\ user'.code = Len(codes) + 1 /\ user'.purpose = purpose
  <2>1. Len(codes) + 1 \in Nat
    BY DEF CodesOK
  <2>2. user' = [u EXCEPT !.code = Len(codes) + 1, !.purpose = purpose, !.fresh = TRUE]
    BY <1>1 DEF WithNewCode, NewCode
  <2>3. QED
    BY <2>1, <2>2 DEF User
<1>3. /\ codes' \in Seq(Purposes) /\ Len(codes') = Len(codes) + 1 /\ codes'[Len(codes) + 1] = purpose
      /\ \A c \in DOMAIN codes : c \in DOMAIN codes' /\ codes'[c] = codes[c]
  BY <1>1 DEF CodesOK
<1>4. PurposeKept'
  BY <1>1, <1>3 DEF CodesOK, PurposeKept
<1>5. redeemed' \subseteq [code : DOMAIN codes', purpose : Purposes]
  BY <1>1, <1>3 DEF CodesOK
<1>6. QED
  BY <1>1, <1>2, <1>3, <1>4, <1>5 DEF AccountOK, CodesOK

\* A code that is accepted was sent for the purpose it is accepted for.
LEMMA FindUserKeeps ==
    ASSUME AccountOK, CodesOK, NEW p \in Procs, FindUser(p)
    PROVE  AccountOK' /\ CodesOK'
<1>1. /\ UNCHANGED <<user, passwords, codes>>
      /\ \/ redeemed' = redeemed
         \/ /\ Accepts(job[p]) /\ job[p].kind \in WithCode
            /\ redeemed' = redeemed \cup {[code |-> job[p].code, purpose |-> PurposeOf(job[p].kind)]}
  BY DEF FindUser, account
<1>2. CASE redeemed' = redeemed
  BY <1>1, <1>2 DEF AccountOK, CodesOK, PurposeKept
<1>3. CASE /\ Accepts(job[p]) /\ job[p].kind \in WithCode
           /\ redeemed' = redeemed \cup {[code |-> job[p].code, purpose |-> PurposeOf(job[p].kind)]}
  <2>1. CodeMatches(job[p])
    BY <1>3 DEF Accepts, WithCode
  <2>2. /\ job[p].code = user.code /\ user.code # 0 /\ PurposeOf(job[p].kind) = user.purpose
    BY <2>1 DEF CodeMatches
  <2>3. job[p].code \in DOMAIN codes /\ codes[job[p].code] = PurposeOf(job[p].kind)
    BY <2>2 DEF CodesOK
  <2>4. QED
    BY <1>1, <1>3, <2>3, PurposeOfType DEF AccountOK, CodesOK, PurposeKept
<1>4. QED
  BY <1>1, <1>2, <1>3

\* The calls that update the user's document.
LEMMA UsersKeep ==
    ASSUME AccountOK, CodesOK, JobsOK, NEW p \in Procs,
           \/ InsertUser(p) \/ IssueOtp(p) \/ ClearOtp(p) \/ SetVerified(p) \/ SetPassword(p)
           \/ SetTwoFactor(p) \/ Deactivate(p) \/ Activate(p) \/ SetEmail(p)
    PROVE  AccountOK' /\ CodesOK'
<1>1. user \in User /\ passwords \in Nat /\ job[p] \in Job
  BY DEF AccountOK, JobsOK
<1>2. CASE InsertUser(p)
  <2>1. CASE Reads
    BY <2>1 DEF Reads, account, otps, AccountOK, CodesOK, PurposeKept
  <2>2. CASE UpdateAndSend([user EXCEPT !.exists = TRUE, !.active = TRUE, !.password = 1], "verification") /\ passwords' = 1
    <3>1. [user EXCEPT !.exists = TRUE, !.active = TRUE, !.password = 1] \in User
      BY <1>1 DEF User
    <3>2. QED
      BY <2>2, <3>1, SendKeeps DEF Purposes
  <2>3. QED
    BY <1>2, <2>1, <2>2 DEF InsertUser
<1>3. CASE IssueOtp(p)
  BY <1>1, <1>3, SendKeeps, PurposeOfType DEF IssueOtp
<1>4. CASE SetEmail(p)
  <2>1. [user EXCEPT !.verified = FALSE] \in User
    BY <1>1 DEF User
  <2>2. QED
    BY <1>1, <1>4, <2>1, SendKeeps DEF SetEmail, Purposes
<1>5. CASE ClearOtp(p)
  <2>1. WithoutCode(user) \in User /\ WithoutCode(user).code = 0 /\ WithoutCode(user).purpose = user.purpose
    BY <1>1 DEF User, WithoutCode
  <2>2. QED
    BY <1>1, <1>5, <2>1, UpdateKeeps DEF ClearOtp, Cleared, Update, otps
<1>6. CASE SetVerified(p)
  <2> DEFINE u == WithoutCode([user EXCEPT !.verified = TRUE])
  <2>1. u \in User /\ u.code = 0 /\ u.purpose = user.purpose
    BY <1>1 DEF User, WithoutCode
  <2>2. user' \in {user, u} /\ UNCHANGED <<passwords, otps>>
    BY <1>6 DEF SetVerified, Update
  <2>3. QED
    BY <1>1, <2>1, <2>2, UpdateKeeps
<1>7. CASE SetPassword(p)
  <2> DEFINE u == [user EXCEPT !.password = passwords + 1]
  <2>1. u \in User /\ u.code = user.code /\ u.purpose = user.purpose
    BY <1>1 DEF User
  <2>2. WithoutCode(u) \in User /\ WithoutCode(u).code = 0 /\ WithoutCode(u).purpose = user.purpose
    <3> HIDE DEF u
    <3> QED
      BY <2>1 DEF User, WithoutCode
  <2>3. user' \in {u, WithoutCode(u)} /\ passwords' \in Nat /\ UNCHANGED otps
    BY <1>1, <1>7 DEF SetPassword
  <2>4. QED
    BY <2>1, <2>2, <2>3, UpdateKeeps
<1>8. CASE SetTwoFactor(p)
  <2> DEFINE u == [user EXCEPT !.twoFactor = ~job[p].twoFactor]
  <2>1. u \in User /\ u.code = user.code /\ u.purpose = user.purpose
    BY <1>1 DEF User
  <2>2. user' \in {user, u} /\ UNCHANGED <<passwords, otps>>
    BY <1>8 DEF SetTwoFactor, Update
  <2>3. QED
    BY <1>1, <2>1, <2>2, UpdateKeeps
<1>9. ASSUME NEW b \in BOOLEAN, Update([user EXCEPT !.active = b])
      PROVE  AccountOK' /\ CodesOK'
  <2> DEFINE u == [user EXCEPT !.active = b]
  <2>1. u \in User /\ u.code = user.code /\ u.purpose = user.purpose
    BY <1>1 DEF User
  <2>2. user' \in {user, u} /\ UNCHANGED <<passwords, otps>>
    BY <1>9 DEF Update
  <2>3. QED
    BY <1>1, <2>1, <2>2, UpdateKeeps
<1>10. QED
  BY <1>2, <1>3, <1>4, <1>5, <1>6, <1>7, <1>8, <1>9 DEF Deactivate, Activate

LEMMA OtpExpiresKeeps ==
    ASSUME AccountOK, CodesOK, OtpExpires
    PROVE  AccountOK' /\ CodesOK'
<1> DEFINE u == [user EXCEPT !.fresh = FALSE]
<1>1. u \in User /\ u.code = user.code /\ u.purpose = user.purpose
  BY DEF User, AccountOK
<1>2. user' \in {user, u} /\ UNCHANGED <<passwords, otps>>
  BY DEF OtpExpires, Update
<1>3. QED
  BY <1>1, <1>2, UpdateKeeps DEF AccountOK

(***************************************************************************)
(* Tokens and sessions.                                                    *)
(***************************************************************************)
\* Tokens are only ever added, so what holds of one holds of it for good.
Grown ==
    /\ tokens' \in Seq(Token)
    /\ Len(tokens) <= Len(tokens')
    /\ \A j \in DOMAIN tokens : tokens'[j] = tokens[j]

LEMMA TokenType ==
    ASSUME TokensOK, NEW j \in DOMAIN tokens
    PROVE  tokens[j] \in Token /\ tokens[j].exp \in Nat
<1>1. tokens[j] \in Token
  BY DEF TokensOK
<1>2. QED
  BY <1>1 DEF Token

LEMMA PairGrows ==
    ASSUME TokensOK, tokens' = tokens \o NewPair, UNCHANGED clock
    PROVE  TokensOK' /\ Grown /\ NewRefresh \in DOMAIN tokens' /\ NewRefresh \in Nat
<1>1. /\ tokens \in Seq(Token) /\ now \in Nat /\ now + AccessLife \in Nat /\ now + RefreshLife \in Nat
      /\ UNCHANGED <<now, begun>>
  BY LivesAssumption DEF TokensOK, clock
<1>2. /\ NewPair \in Seq(Token) /\ Len(NewPair) = 2
      /\ NewPair[1] = [type |-> "access", exp |-> now + AccessLife] /\ NewPair[2].type = "refresh"
  BY <1>1 DEF NewPair, Token
<1>3. /\ tokens' \in Seq(Token) /\ Len(tokens') = Len(tokens) + 2
      /\ \A j \in 1 .. Len(tokens) + 2 : tokens'[j] = IF j <= Len(tokens) THEN tokens[j] ELSE NewPair[j - Len(tokens)]
  <2>1. tokens' \in Seq(Token) /\ Len(tokens') = Len(tokens) + 2
    <3>1. tokens \o NewPair \in Seq(Token) /\ Len(tokens \o NewPair) = Len(tokens) + Len(NewPair)
      BY <1>1, <1>2, ConcatProperties, Zenon
    <3>2. QED
      BY <1>2, <3>1
  <2>2. ASSUME NEW j \in 1 .. Len(tokens) + 2
        PROVE  tokens'[j] = IF j <= Len(tokens) THEN tokens[j] ELSE NewPair[j - Len(tokens)]
    <3>1. j \in 1 .. Len(tokens) + Len(NewPair)
      BY <1>2
    <3>2. QED
      BY <1>1, <1>2, <3>1, ConcatProperties
  <2>3. QED
    BY <2>1, <2>2
<1>4. ASSUME NEW j \in DOMAIN tokens', tokens'[j].type = "access"
      PROVE  tokens'[j].exp <= now + AccessLife
  <2>1. CASE j <= Len(tokens)
    BY <1>1, <1>3, <1>4, <2>1 DEF TokensOK, Jtis
  <2>2. CASE j = Len(tokens) + 1
    <3>1. tokens'[j] = NewPair[1]
      BY <1>1, <1>3, <2>2
    <3>2. QED
      BY <1>1, <1>2, <3>1
  <2>3. CASE j = Len(tokens) + 2
    <3>1. tokens'[j] = NewPair[2]
      BY <1>1, <1>3, <2>3
    <3>2. QED
      BY <1>2, <1>4, <3>1
  <2>4. QED
    BY <1>1, <1>3, <2>1, <2>2, <2>3
<1>5. QED
  BY <1>1, <1>3, <1>4 DEF TokensOK, Jtis, Grown, NewRefresh

\* What becomes of the sessions in a call.
LEMMA SessionsKeep ==
    ASSUME AccountOK, TokensOK, SessionsOK, NEW p \in Procs,
           InsertSession(p) \/ Rotate(p) \/ EndSessions(p) \/ EndSession(p)
    PROVE  TokensOK' /\ Grown /\ SessionsOK'
<1>1. CASE InsertSession(p)
  <2> DEFINE s == [jti |-> NewRefresh, active |-> TRUE, ends |-> now + RefreshLife, made |-> user.password]
  <2>1. TokensOK' /\ Grown /\ NewRefresh \in DOMAIN tokens' /\ NewRefresh \in Nat
    BY <1>1, PairGrows DEF InsertSession, IssueTokens
  <2>2. s \in Session
    BY <2>1, LivesAssumption DEF Session, AccountOK, User, TokensOK
  <2>3. /\ DOMAIN sessions' = DOMAIN sessions \cup {NewRefresh}
        /\ \A i \in DOMAIN sessions' : sessions'[i] = IF i = NewRefresh THEN s ELSE sessions[i]
    BY <1>1 DEF InsertSession
  <2> HIDE DEF s
  <2>4. QED
    BY <2>1, <2>2, <2>3 DEF SessionsOK, Grown, TokensOK
<1>2. CASE Rotate(p)
  <2>1. TokensOK' /\ Grown /\ NewRefresh \in Nat
    BY <1>2, PairGrows DEF Rotate
  <2>2. /\ DOMAIN sessions' = DOMAIN sessions
        /\ \A i \in DOMAIN sessions : sessions'[i] \in {sessions[i], [sessions[i] EXCEPT !.jti = NewRefresh]}
    BY <1>2 DEF Rotate
  <2>3. \A i \in DOMAIN sessions : [sessions[i] EXCEPT !.jti = NewRefresh] \in Session
    BY <2>1 DEF SessionsOK, Session
  <2>4. QED
    BY <2>1, <2>2, <2>3 DEF SessionsOK, Grown, TokensOK
<1>3. ASSUME NEW I, EndThese(I)
      PROVE  TokensOK' /\ Grown /\ SessionsOK'
  <2>1. UNCHANGED <<tokens, now, begun>>
    BY <1>3 DEF EndThese, clock
  <2>2. \A i \in DOMAIN sessions : [sessions[i] EXCEPT !.active = FALSE] \in Session
    BY DEF SessionsOK, Session
  <2>3. QED
    BY <1>3, <2>1, <2>2 DEF EndThese, TokensOK, Jtis, SessionsOK, Grown
<1>4. QED
  BY <1>1, <1>2, <1>3 DEF EndSessions, EndSession

LEMMA ForgetSessionKeeps ==
    ASSUME TokensOK, SessionsOK, NEW i \in DOMAIN sessions, ForgetSession(i)
    PROVE  TokensOK' /\ Grown /\ SessionsOK'
BY DEF ForgetSession, clock, TokensOK, Jtis, SessionsOK, Grown

\* Nothing of the tokens and sessions changes.
LEMMA LoginsStay ==
    ASSUME TokensOK, SessionsOK, UNCHANGED logins, begun' \in Nat, now' = now \/ now' = now + 1
    PROVE  TokensOK' /\ Grown /\ SessionsOK'
<1>1. UNCHANGED <<tokens, sessions>>
  BY DEF logins
<1>2. now' \in Nat /\ now + AccessLife <= now' + AccessLife
  BY LivesAssumption DEF TokensOK
<1>3. \A j \in Jtis("access") : tokens[j].exp \in Nat
  BY TokenType DEF Jtis
<1>4. QED
  BY <1>1, <1>2, <1>3, LivesAssumption DEF TokensOK, Jtis, SessionsOK, Grown

(***************************************************************************)
(* The blacklist.                                                          *)
(***************************************************************************)
\* An entry that lasts as long as its token keeps what was revoked revoked.
LEMMA BlacklistKeeps ==
    ASSUME TokensOK, DeniedOK, NEW j \in DOMAIN tokens, NEW until \in Nat, until >= tokens[j].exp,
           Blacklist(j, until)
    PROVE  DeniedOK'
<1>1. /\ DOMAIN blacklist' = DOMAIN blacklist \cup {j}
      /\ \A i \in DOMAIN blacklist' : blacklist'[i] = IF i = j THEN until ELSE blacklist[i]
      /\ revoked' = revoked \cup {j}
      /\ UNCHANGED <<tokens, now>>
  BY DEF Blacklist, logins, clock
<1>2. QED
  BY <1>1 DEF DeniedOK, Decodes

LEMMA DeniedSteps ==
    ASSUME TokensOK, DeniedOK, JobsOK, NEW p \in Procs, Revoke(p) \/ RevokeRefresh(p) \/ RevokeAccess(p)
    PROVE  DeniedOK'
<1>1. job[p].todo \in Seq(Calls) /\ TodoOK(job[p], tokens)
  BY DEF JobsOK, Job
<1>2. CASE Revoke(p) \/ RevokeRefresh(p)
  <2>1. job[p].todo # <<>> /\ job[p].todo[1] \in {"revoke", "revokeRefresh"}
    BY <1>1, <1>2 DEF Revoke, RevokeRefresh, Does, At
  <2>2. job[p].refresh \in DOMAIN tokens
    BY <1>1, <2>1 DEF TodoOK
  <2>3. tokens[job[p].refresh].exp \in Nat
    BY <2>2, TokenType
  <2>4. QED
    BY <1>2, <2>2, <2>3, BlacklistKeeps DEF Revoke, RevokeRefresh, BlacklistRefresh
<1>3. CASE RevokeAccess(p)
  <2>1. job[p].todo # <<>> /\ job[p].todo[1] = "revokeAccess"
    BY <1>1, <1>3 DEF RevokeAccess, At
  <2>2. job[p].access \in DOMAIN tokens /\ tokens[job[p].access].type = "access"
    BY <1>1, <2>1 DEF TodoOK
  <2>3. AccessEnds \in Nat /\ AccessEnds >= tokens[job[p].access].exp
    BY <2>2, LivesAssumption DEF TokensOK, Jtis, AccessEnds, Token
  <2>4. QED
    BY <1>3, <2>2, <2>3, BlacklistKeeps DEF RevokeAccess
<1>4. QED
  BY <1>2, <1>3

\* The TTL index removes only entries of tokens that no longer decode.
LEMMA ForgetKeeps ==
    ASSUME TokensOK, DeniedOK, NEW j \in DOMAIN blacklist, ForgetRevoked(j)
    PROVE  DeniedOK'
<1>1. /\ DOMAIN blacklist' = DOMAIN blacklist \ {j}
      /\ \A i \in DOMAIN blacklist' : blacklist'[i] = blacklist[i]
      /\ blacklist[j] <= now /\ UNCHANGED <<revoked, tokens, now>>
  BY DEF ForgetRevoked, logins, clock
<1>2. j \in revoked => ~Decodes(j)
  <2>1. ASSUME j \in revoked, Decodes(j)
        PROVE  FALSE
    <3>1. blacklist[j] \in Nat /\ tokens[j].exp \in Nat /\ now \in Nat
      BY <2>1, TokenType DEF DeniedOK, TokensOK
    <3>2. blacklist[j] >= tokens[j].exp /\ tokens[j].exp > now
      BY <2>1 DEF DeniedOK, Decodes
    <3>3. QED
      BY <1>1, <3>1, <3>2
  <2>2. QED
    BY <2>1
<1>3. QED
  BY <1>1, <1>2 DEF DeniedOK, Decodes

\* New tokens and time passing leave the blacklist right.
LEMMA DeniedStays ==
    ASSUME TokensOK, DeniedOK, Grown, UNCHANGED denied, now' = now \/ now' = now + 1
    PROVE  DeniedOK'
<1>1. UNCHANGED <<blacklist, revoked>> /\ DOMAIN tokens \subseteq DOMAIN tokens'
  BY DEF denied, Grown, TokensOK
<1>2. ASSUME NEW j \in revoked, Decodes(j)'
      PROVE  j \in DOMAIN blacklist /\ blacklist[j] >= tokens'[j].exp
  <2>1. j \in DOMAIN tokens /\ tokens'[j] = tokens[j] /\ tokens[j].exp \in Nat /\ now \in Nat
    BY TokenType DEF DeniedOK, Grown, TokensOK
  <2>2. Decodes(j)
    BY <1>2, <2>1 DEF Decodes
  <2>3. QED
    BY <2>1, <2>2 DEF DeniedOK
<1>3. QED
  BY <1>1, <1>2 DEF DeniedOK

(***************************************************************************)
(* The requests.                                                           *)
(***************************************************************************)
\* A request that goes on or ends has still to blacklist what it had before.
LEMMA JobsKeep ==
    ASSUME JobsOK, Grown, TokensOK, NEW p \in Procs, NEW j \in Job, job' = [job EXCEPT ![p] = j],
           \/ j.todo = <<>>
           \/ j.todo = <<"issueOtp">>
           \/ /\ job[p].todo # <<>> /\ j.todo = Tail(job[p].todo)
              /\ j.access = job[p].access /\ j.refresh = job[p].refresh
           \/ TodoOK(j, tokens)
    PROVE  JobsOK'
<1>1. /\ job \in [Procs -> Job] /\ DOMAIN tokens \subseteq DOMAIN tokens'
      /\ \A i \in DOMAIN tokens : tokens'[i] = tokens[i]
  BY DEF JobsOK, Grown, TokensOK
<1>2. \A k \in Job : TodoOK(k, tokens) => TodoOK(k, tokens')
  BY <1>1 DEF TodoOK
<1>3. TodoOK(j, tokens)
  <2>1. CASE j.todo = <<>> \/ j.todo = <<"issueOtp">>
    BY <2>1 DEF TodoOK
  <2>2. CASE /\ job[p].todo # <<>> /\ j.todo = Tail(job[p].todo)
             /\ j.access = job[p].access /\ j.refresh = job[p].refresh
    <3>1. job[p].todo \in Seq(Calls) /\ TodoOK(job[p], tokens)
      BY <1>1 DEF JobsOK, Job
    <3>2. \A i \in DOMAIN j.todo : i + 1 \in DOMAIN job[p].todo /\ j.todo[i] = job[p].todo[i + 1]
      BY <2>2, <3>1
    <3>3. QED
      BY <2>2, <3>1, <3>2 DEF TodoOK
  <2>3. QED
    BY <2>1, <2>2
<1>4. \A q \in Procs : TodoOK(job'[q], tokens')
  BY <1>1, <1>2, <1>3 DEF JobsOK
<1>5. QED
  BY <1>1, <1>4 DEF JobsOK

LEMMA JobsStay ==
    ASSUME JobsOK, Grown, TokensOK, UNCHANGED job
    PROVE  JobsOK'
<1>1. DOMAIN tokens \subseteq DOMAIN tokens' /\ \A i \in DOMAIN tokens : tokens'[i] = tokens[i]
  BY DEF Grown, TokensOK
<1>2. QED
  BY <1>1 DEF JobsOK, TodoOK

\* The two ways on that every call has.
LEMMA GoesOn ==
    ASSUME JobsOK, Grown, TokensOK, NEW p \in Procs, job[p].todo # <<>>, Continue(p) \/ Stop(p)
    PROVE  JobsOK'
<1>1. job[p] \in Job /\ job[p].todo \in Seq(Calls)
  BY DEF JobsOK, Job
<1>2. CASE Continue(p)
  <2> DEFINE j == [job[p] EXCEPT !.todo = Tail(@)]
  <2>1. j \in Job /\ j.todo = Tail(job[p].todo) /\ j.access = job[p].access /\ j.refresh = job[p].refresh
    <3>1. Tail(job[p].todo) \in Seq(Calls)
      BY <1>1
    <3>2. QED
      BY <1>1, <3>1 DEF Job
  <2>2. job' = [job EXCEPT ![p] = j]
    BY <1>2 DEF Continue
  <2> HIDE DEF j
  <2>3. QED
    BY <2>1, <2>2, JobsKeep
<1>3. CASE Stop(p)
  <2>1. NoJob \in Job /\ NoJob.todo = <<>>
    BY DEF NoJob, Job, AllKinds
  <2>2. QED
    BY <1>3, <2>1, JobsKeep DEF Stop
<1>4. QED
  BY <1>2, <1>3

\* The tokens that come with a request are of the right type.
LEMMA BeginKeeps ==
    ASSUME AccountOK, CodesOK, JobsOK, Grown, TokensOK, NEW p \in Procs, NEW kind \in Kinds, Begin(p, kind)
    PROVE  JobsOK'
<1>1. kind \in AllKinds
  BY KindsAssumption
<1>2. PICK a \in (IF kind \in WithToken THEN {j \in Jtis("access") : Decodes(j)} ELSE {0}),
           r \in (CASE kind = "refresh" -> {j \in Jtis("refresh") : Decodes(j)}
                    [] kind = "logout" -> Jtis("refresh")
                    [] OTHER -> {0}),
           c \in (IF kind \in WithCode THEN DOMAIN codes ELSE {0}),
           w \in (IF kind \in {"login", "changePassword"} THEN 1 .. passwords ELSE {0}) :
             job' = [job EXCEPT ![p] = [NoJob EXCEPT !.kind = kind, !.todo = Plan(kind), !.access = a,
                                                     !.refresh = r, !.code = c, !.password = w]]
  BY DEF Begin
<1> DEFINE j == [NoJob EXCEPT !.kind = kind, !.todo = Plan(kind), !.access = a,
                              !.refresh = r, !.code = c, !.password = w]
<1>3. a \in Nat /\ (kind \in WithToken => a \in Jtis("access"))
  BY <1>2 DEF Jtis, TokensOK
<1>4. r \in Nat /\ (kind \in {"refresh", "logout"} => r \in DOMAIN tokens)
  <2>1. Jtis("refresh") \subseteq DOMAIN tokens /\ DOMAIN tokens \subseteq Nat
    BY DEF Jtis, TokensOK
  <2>2. QED
    BY <1>2, <2>1
<1>5. c \in Nat /\ w \in Nat
  <2>1. DOMAIN codes \subseteq Nat /\ 1 .. passwords \subseteq Nat
    BY DEF CodesOK, AccountOK
  <2>2. QED
    BY <1>2, <2>1
<1>6. j \in Job /\ j.todo = Plan(kind) /\ j.access = a /\ j.refresh = r
  BY <1>1, <1>3, <1>4, <1>5, PlanOK DEF NoJob, Job
<1>7. job' = [job EXCEPT ![p] = j]
  BY <1>2
<1> HIDE DEF j
<1>8. TodoOK(j, tokens)
  BY <1>1, <1>3, <1>4, <1>6, PlanOK DEF TodoOK, Jtis
<1>9. QED
  BY <1>6, <1>7, <1>8, JobsKeep

(***************************************************************************)
(* The induction.                                                          *)
(***************************************************************************)
LEMMA AccountStays == AccountOK /\ CodesOK /\ UNCHANGED <<account, otps>> => AccountOK' /\ CodesOK'
BY DEF AccountOK, CodesOK, PurposeKept, account, otps

\* Calls that change nothing but what the request does next.
LEMMA RestStays ==
    ASSUME IInv, UNCHANGED <<logins, denied, clock>>
    PROVE  TokensOK' /\ Grown /\ SessionsOK' /\ DeniedOK'
<1>1. UNCHANGED <<now, begun>> /\ begun \in Nat
  BY DEF IInv, TokensOK, clock
<1>2. TokensOK' /\ Grown /\ SessionsOK'
  BY <1>1, LoginsStay DEF IInv
<1>3. QED
  BY <1>1, <1>2, DeniedStays DEF IInv

LEMMA FindUserStep ==
    ASSUME IInv, NEW p \in Procs, FindUser(p)
    PROVE  IInv'
<1>1. AccountOK' /\ CodesOK'
  BY FindUserKeeps DEF IInv
<1>2. TokensOK' /\ Grown /\ SessionsOK' /\ DeniedOK'
  BY RestStays DEF FindUser
<1>3. job[p].todo # <<>> /\ (Continue(p) \/ Stop(p) \/ Goto(p, <<"issueOtp">>))
  BY DEF FindUser, At
<1>4. CASE Goto(p, <<"issueOtp">>)
  <2> DEFINE j == [job[p] EXCEPT !.todo = <<"issueOtp">>]
  <2>1. <<"issueOtp">> \in Seq(Calls)
    BY DEF Calls
  <2>2. job[p] \in Job
    BY DEF IInv, JobsOK
  <2>3. j \in Job /\ j.todo = <<"issueOtp">>
    BY <2>1, <2>2 DEF Job
  <2>4. job' = [job EXCEPT ![p] = j]
    BY <1>4 DEF Goto
  <2> HIDE DEF j
  <2>5. JobsOK'
    BY <1>2, <2>3, <2>4, JobsKeep DEF IInv
  <2>6. QED
    BY <1>1, <1>2, <2>5 DEF IInv
<1>5. CASE Continue(p) \/ Stop(p)
  BY <1>1, <1>2, <1>3, <1>5, GoesOn DEF IInv
<1>6. QED
  BY <1>3, <1>4, <1>5

LEMMA UserStep ==
    ASSUME IInv, NEW p \in Procs,
           \/ InsertUser(p) \/ IssueOtp(p) \/ ClearOtp(p) \/ SetVerified(p) \/ SetPassword(p)
           \/ SetTwoFactor(p) \/ Deactivate(p) \/ Activate(p) \/ SetEmail(p)
    PROVE  IInv'
<1>1. AccountOK' /\ CodesOK'
  BY UsersKeep DEF IInv
<1>2. UNCHANGED <<logins, denied, clock>>
  BY DEF InsertUser, IssueOtp, ClearOtp, SetVerified, SetPassword, SetTwoFactor, Deactivate, Activate, SetEmail,
         Update, UpdateAndSend, Reads
<1>3. CASE ~SetPassword(p)
  <2>1. job[p].todo # <<>> /\ Continue(p)
    BY <1>3 DEF InsertUser, IssueOtp, ClearOtp, SetVerified, SetTwoFactor, Deactivate, Activate, SetEmail, Does, At
  <2>2. QED
    BY <1>1, <1>2, <2>1, RestStays, GoesOn DEF IInv
<1>4. CASE SetPassword(p)
  <2> DEFINE j == [job[p] EXCEPT !.todo = Tail(@), !.password = passwords + 1]
  <2>1. job[p].todo # <<>> /\ job' = [job EXCEPT ![p].todo = Tail(@), ![p].password = passwords + 1]
    BY <1>4 DEF SetPassword, At
  <2>2. job[p] \in Job /\ Tail(job[p].todo) \in Seq(Calls) /\ passwords + 1 \in Nat
    <3>1. job[p] \in Job /\ job[p].todo \in Seq(Calls)
      BY DEF IInv, JobsOK, Job
    <3>2. QED
      BY <2>1, <3>1 DEF IInv, AccountOK
  <2>3. j \in Job /\ j.todo = Tail(job[p].todo) /\ j.access = job[p].access /\ j.refresh = job[p].refresh
    BY <2>2 DEF Job
  <2>4. job' = [job EXCEPT ![p] = j]
    BY <2>1, <2>2 DEF IInv, JobsOK, Job
  <2> HIDE DEF j
  <2>5. TokensOK' /\ Grown /\ SessionsOK' /\ DeniedOK'
    BY <1>2, RestStays
  <2>6. JobsOK'
    BY <2>1, <2>3, <2>4, <2>5, JobsKeep DEF IInv
  <2>7. QED
    BY <1>1, <2>5, <2>6 DEF IInv
<1>5. QED
  BY <1>3, <1>4

LEMMA SessionStep ==
    ASSUME IInv, NEW p \in Procs, InsertSession(p) \/ Rotate(p) \/ EndSessions(p) \/ EndSession(p)
    PROVE  IInv'
<1>1. TokensOK' /\ Grown /\ SessionsOK'
  BY SessionsKeep DEF IInv
<1>2. UNCHANGED <<account, otps, denied, now>>
  BY DEF InsertSession, Rotate, EndSessions, EndSession, EndThese, clock
<1>3. job[p].todo # <<>> /\ Continue(p)
  BY DEF InsertSession, Rotate, EndSessions, EndSession, Does, At
<1>4. AccountOK' /\ CodesOK' /\ DeniedOK'
  BY <1>1, <1>2, AccountStays, DeniedStays DEF IInv
<1>5. QED
  BY <1>1, <1>3, <1>4, GoesOn DEF IInv

LEMMA DenyStep ==
    ASSUME IInv, NEW p \in Procs, Revoke(p) \/ RevokeRefresh(p) \/ RevokeAccess(p)
    PROVE  IInv'
<1>1. DeniedOK'
  BY DeniedSteps DEF IInv
<1>2. UNCHANGED <<account, otps, logins, clock>>
  BY DEF Revoke, RevokeRefresh, RevokeAccess, BlacklistRefresh, Blacklist
<1>3. job[p].todo # <<>> /\ (Continue(p) \/ Stop(p))
  BY DEF Revoke, RevokeRefresh, RevokeAccess, Does, At, ContinueIf
<1>4. TokensOK' /\ Grown /\ SessionsOK'
  <2>1. UNCHANGED <<now, begun>> /\ begun \in Nat
    BY <1>2 DEF IInv, TokensOK, clock
  <2>2. QED
    BY <1>2, <2>1, LoginsStay DEF IInv
<1>5. QED
  BY <1>1, <1>2, <1>3, <1>4, AccountStays, GoesOn DEF IInv

LEMMA ReadStep ==
    ASSUME IInv, NEW p \in Procs, FindRevoked(p) \/ FindSession(p) \/ AuthToken(p) \/ AuthUser(p)
    PROVE  IInv'
<1>1. Reads /\ job[p].todo # <<>>
  BY DEF FindRevoked, FindSession, AuthToken, AuthUser, At
<1>2. AccountOK' /\ CodesOK' /\ TokensOK' /\ Grown /\ SessionsOK' /\ DeniedOK'
  BY <1>1, AccountStays, RestStays DEF IInv, Reads
<1>3. job[p] \in Job /\ job[p].todo \in Seq(Calls) /\ Tail(job[p].todo) \in Seq(Calls)
  <2>1. job[p] \in Job /\ job[p].todo \in Seq(Calls)
    BY DEF IInv, JobsOK, Job
  <2>2. QED
    BY <1>1, <2>1
<1>4. CASE Continue(p) \/ Stop(p)
  BY <1>1, <1>2, <1>4, GoesOn DEF IInv
<1>5. ASSUME NEW i \in Nat, job' = [job EXCEPT ![p].session = i, ![p].todo = Tail(@)]
      PROVE  IInv'
  <2> DEFINE j == [job[p] EXCEPT !.session = i, !.todo = Tail(@)]
  <2>1. j \in Job /\ j.todo = Tail(job[p].todo) /\ j.access = job[p].access /\ j.refresh = job[p].refresh
    BY <1>3 DEF Job
  <2>2. job' = [job EXCEPT ![p] = j]
    BY <1>3, <1>5 DEF IInv, JobsOK, Job
  <2> HIDE DEF j
  <2>3. JobsOK'
    BY <1>1, <1>2, <2>1, <2>2, JobsKeep DEF IInv
  <2>4. QED
    BY <1>2, <2>3 DEF IInv
<1>6. CASE job' = [job EXCEPT ![p].twoFactor = user.twoFactor, ![p].todo = Tail(@)]
  <2> DEFINE j == [job[p] EXCEPT !.twoFactor = user.twoFactor, !.todo = Tail(@)]
  <2>1. user.twoFactor \in BOOLEAN
    BY DEF IInv, AccountOK, User
  <2>2. j \in Job /\ j.todo = Tail(job[p].todo) /\ j.access = job[p].access /\ j.refresh = job[p].refresh
    BY <1>3, <2>1 DEF Job
  <2>3. job' = [job EXCEPT ![p] = j]
    BY <1>3, <1>6 DEF IInv, JobsOK, Job
  <2> HIDE DEF j
  <2>4. JobsOK'
    BY <1>1, <1>2, <2>2, <2>3, JobsKeep DEF IInv
  <2>5. QED
    BY <1>2, <2>4 DEF IInv
<1>7. DOMAIN sessions \subseteq Nat
  BY DEF IInv, SessionsOK, TokensOK
<1>8. QED
  BY <1>4, <1>5, <1>6, <1>7 DEF FindRevoked, FindSession, AuthToken, AuthUser, ContinueIf

\* What no request does: time passes, codes and documents expire.
LEMMA OtherStep ==
    ASSUME IInv, \/ Tick \/ OtpExpires
                 \/ \E j \in DOMAIN blacklist : ForgetRevoked(j)
                 \/ \E i \in DOMAIN sessions : ForgetSession(i)
    PROVE  IInv'
<1>1. CASE Tick
  <2>1. /\ UNCHANGED <<account, otps, logins, denied, job, begun>> /\ now' = now + 1 /\ begun \in Nat
    BY <1>1 DEF Tick, IInv, TokensOK
  <2>2. TokensOK' /\ Grown /\ SessionsOK'
    BY <2>1, LoginsStay DEF IInv
  <2>3. QED
    BY <2>1, <2>2, AccountStays, DeniedStays, JobsStay DEF IInv
<1>2. CASE OtpExpires
  <2>1. UNCHANGED <<logins, denied, clock, job>>
    BY <1>2 DEF OtpExpires, Update
  <2>2. QED
    BY <1>2, <2>1, OtpExpiresKeeps, RestStays, JobsStay DEF IInv
<1>3. ASSUME NEW j \in DOMAIN blacklist, ForgetRevoked(j)
      PROVE  IInv'
  <2>1. UNCHANGED <<account, otps, logins, now, begun, job>> /\ begun \in Nat
    BY <1>3 DEF ForgetRevoked, clock, IInv, TokensOK
  <2>2. TokensOK' /\ Grown /\ SessionsOK'
    BY <2>1, LoginsStay DEF IInv
  <2>3. QED
    BY <1>3, <2>1, <2>2, AccountStays, ForgetKeeps, JobsStay DEF IInv
<1>4. ASSUME NEW i \in DOMAIN sessions, ForgetSession(i)
      PROVE  IInv'
  <2>1. UNCHANGED <<account, otps, denied, now, job>>
    BY <1>4 DEF ForgetSession, clock
  <2>2. TokensOK' /\ Grown /\ SessionsOK'
    BY <1>4, ForgetSessionKeeps DEF IInv
  <2>3. QED
    BY <2>1, <2>2, AccountStays, DeniedStays, JobsStay DEF IInv
<1>5. QED
  BY <1>1, <1>2, <1>3, <1>4

LEMMA BeginStep ==
    ASSUME IInv, NEW p \in Procs, NEW kind \in Kinds, Begin(p, kind)
    PROVE  IInv'
<1>1. UNCHANGED <<account, otps, logins, denied, now>> /\ begun' \in Nat
  BY DEF Begin, IInv, TokensOK
<1>2. TokensOK' /\ Grown /\ SessionsOK'
  BY <1>1, LoginsStay DEF IInv
<1>3. QED
  BY <1>1, <1>2, AccountStays, DeniedStays, BeginKeeps DEF IInv

LEMMA FailStep ==
    ASSUME IInv, NEW p \in Procs, Fail(p)
    PROVE  IInv'
<1>1. UNCHANGED <<account, otps, logins, denied, now, begun>> /\ begun \in Nat
  BY DEF Fail, IInv, TokensOK
<1>2. job[p].todo # <<>> /\ Stop(p)
  BY DEF Fail, Busy
<1>3. TokensOK' /\ Grown /\ SessionsOK'
  BY <1>1, LoginsStay DEF IInv
<1>4. QED
  BY <1>1, <1>2, <1>3, AccountStays, DeniedStays, GoesOn DEF IInv

LEMMA NextKeeps == IInv /\ [Next]_vars => IInv'
<1> SUFFICES ASSUME IInv, [Next]_vars
             PROVE  IInv'
  OBVIOUS
<1>1. CASE UNCHANGED vars
  <2>1. UNCHANGED <<account, otps, logins, denied, clock, job>>
    BY <1>1 DEF vars
  <2>2. QED
    BY <2>1, AccountStays, RestStays, JobsStay DEF IInv
<1>2. CASE Next
  BY <1>2, BeginStep, FindUserStep, UserStep, SessionStep, DenyStep, ReadStep, FailStep, OtherStep DEF Next, Step
<1>3. QED
  BY <1>1, <1>2

LEMMA InitHolds == Init => IInv
<1> SUFFICES ASSUME Init
             PROVE  IInv
  OBVIOUS
<1>1. NoJob \in Job /\ NoJob.todo = <<>>
  BY DEF NoJob, Job, AllKinds
<1>2. JobsOK
  BY <1>1 DEF Init, JobsOK, TodoOK
<1>3. AccountOK /\ user.code = 0
  <2>1. NoUser \in User /\ NoUser.code = 0
    BY DEF NoUser, User, Purposes
  <2>2. user \in {NoUser, [NoUser EXCEPT !.exists = TRUE, !.verified = TRUE, !.active = TRUE, !.password = 1]}
        /\ passwords \in Nat
    BY DEF Init
  <2>3. [NoUser EXCEPT !.exists = TRUE, !.verified = TRUE, !.active = TRUE, !.password = 1] \in User
    BY <2>1 DEF User
  <2>4. [NoUser EXCEPT !.exists = TRUE, !.verified = TRUE, !.active = TRUE, !.password = 1].code = 0
    BY <2>1 DEF User
  <2>5. CASE user = NoUser
    BY <2>1, <2>2, <2>5 DEF AccountOK
  <2>6. CASE user = [NoUser EXCEPT !.exists = TRUE, !.verified = TRUE, !.active = TRUE, !.password = 1]
    BY <2>2, <2>3, <2>4, <2>6, Zenon DEF AccountOK
  <2>7. QED
    BY <2>2, <2>5, <2>6
<1>4. CodesOK
  BY <1>3 DEF Init, CodesOK, PurposeKept
<1>5. TokensOK /\ SessionsOK
  <2>1. now = 0 /\ begun \in Nat
    BY DEF Init, clock
  <2>2. CASE tokens = <<>> /\ sessions = <<>>
    BY <2>1, <2>2 DEF TokensOK, SessionsOK, Jtis
  <2>3. CASE /\ tokens = <<[type |-> "access", exp |-> AccessLife], [type |-> "refresh", exp |-> RefreshLife]>>
             /\ sessions = [i \in {2} |-> [jti |-> 2, active |-> TRUE, ends |-> RefreshLife, made |-> 1]]
    BY <2>1, <2>3, LivesAssumption DEF TokensOK, SessionsOK, Jtis, Token, Session
  <2>4. QED
    BY <2>2, <2>3 DEF Init
<1>6. DeniedOK
  BY DEF Init, DeniedOK
<1>7. QED
  BY <1>2, <1>3, <1>4, <1>5, <1>6 DEF IInv

LEMMA Invariance == Spec => []IInv
BY InitHolds, NextKeeps, PTL DEF Spec

\* Only a request that dies is remembered as one.
LEMMA FailedNext ==
    ASSUME [Next]_vars
    PROVE  failed' = failed \/ \E p \in Procs : Fail(p)
BY DEF Next, Step, Begin, FindUser, InsertUser, IssueOtp, ClearOtp, SetVerified, SetPassword, SetTwoFactor,
   Deactivate, Activate, SetEmail, InsertSession, Rotate, EndSessions, EndSession, EndThese, FindRevoked,
   FindSession, Revoke, RevokeRefresh, RevokeAccess, BlacklistRefresh, Blacklist, AuthToken, AuthUser, Reads,
   Update, UpdateAndSend, Tick, OtpExpires, ForgetRevoked, ForgetSession, clock, vars

\* Every document, token and request of the account keeps its type.
THEOREM TypeCorrect == Spec => []TypeOK
<1>1. IInv /\ FailedOK => TypeOK
  BY DEF IInv, AccountOK, CodesOK, TokensOK, SessionsOK, DeniedOK, JobsOK, FailedOK, TypeOK
<1>2. Init => FailedOK
  BY DEF Init, FailedOK
<1>3. IInv /\ FailedOK /\ [Next]_vars => FailedOK'
  BY FailedNext DEF FailedOK, Fail, IInv, JobsOK
<1>4. QED
  BY <1>1, <1>2, <1>3, Invariance, PTL DEF Spec

\* A token that was blacklisted stays so for as long as it decodes: for any
\* lifetimes, however the requests that revoke tokens interleave with those
\* that use them and with the TTL index.
THEOREM RevokedStays == Spec => []RevokedStaysRevoked
<1>1. IInv => RevokedStaysRevoked
  BY DEF IInv, DeniedOK, RevokedStaysRevoked
<1>2. QED
  BY <1>1, Invariance, PTL

\* A one-time code is only accepted for the purpose it was sent for, however
\* many codes are sent and whatever requests meet.
THEOREM CodesKeepTheirPurpose == Spec => []PurposeKept
<1>1. IInv => PurposeKept
  BY DEF IInv, CodesOK
<1>2. QED
  BY <1>1, Invariance, PTL

(***************************************************************************)
(* What holds of an account whenever no request is at work: the sessions   *)
(* of older passwords have ended, codes that were used are gone, and every *)
(* active session can be refreshed.  Each of them fails in the middle of a *)
(* request, and holds again because some request still has the call to     *)
(* make that restores it.                                                  *)
(***************************************************************************)

(***************************************************************************)
(* What is left of a plan.                                                 *)
(***************************************************************************)
\* After this call, todo has these calls left.
Ends(todo, call, rest) ==
    \A k \in DOMAIN todo :
        todo[k] = call => /\ Len(todo) = k + Len(rest)
                          /\ \A m \in DOMAIN rest : todo[k + m] = rest[m]

\* A request that sets the password ends the sessions next, one that revokes
\* the token of a session replaces it or ends the session next, and one that
\* was accepted for its code has the rest of its plan to do.
Shaped(j) ==
    /\ Ends(j.todo, "setPassword", <<"endSessions">>)
    /\ Ends(j.todo, "findSession", <<"revoke", "rotate">>)
    /\ Ends(j.todo, "revoke", <<"rotate">>)
    /\ Ends(j.todo, "revokeRefresh", <<"endSession">>)
    /\ \A k \in DOMAIN j.todo : j.todo[k] = "revoke" => k = 1 \/ j.todo[k - 1] = "findSession"
    /\ \A k \in DOMAIN j.todo : j.todo[k] = "findUser" => k = 1 /\ j.todo = Plan(j.kind)

LEMMA EndsTail ==
    ASSUME NEW todo \in Seq(Calls), todo # <<>>, NEW call, NEW rest \in Seq(Calls), Ends(todo, call, rest)
    PROVE  /\ Ends(Tail(todo), call, rest)
           /\ Head(todo) = call => Tail(todo) = rest
<1>1. /\ Tail(todo) \in Seq(Calls) /\ Len(Tail(todo)) = Len(todo) - 1
      /\ Len(todo) \in Nat \ {0} /\ Len(rest) \in Nat
  OBVIOUS
<1>2. \A i \in 1 .. Len(todo) - 1 : Tail(todo)[i] = todo[i + 1]
  OBVIOUS
<1>3. ASSUME NEW k \in DOMAIN Tail(todo), Tail(todo)[k] = call
      PROVE  Len(Tail(todo)) = k + Len(rest) /\ \A m \in DOMAIN rest : Tail(todo)[k + m] = rest[m]
  <2>1. k \in Nat /\ k >= 1 /\ k + 1 \in DOMAIN todo /\ todo[k + 1] = call
    BY <1>1, <1>2, <1>3
  <2>2. Len(todo) = (k + 1) + Len(rest) /\ \A m \in DOMAIN rest : todo[(k + 1) + m] = rest[m]
    BY <2>1 DEF Ends
  <2>3. ASSUME NEW m \in DOMAIN rest
        PROVE  Tail(todo)[k + m] = rest[m]
    <3>1. m \in Nat /\ k + m \in 1 .. Len(todo) - 1 /\ (k + m) + 1 = (k + 1) + m
      <4>1. m \in 1 .. Len(rest)
        OBVIOUS
      <4>2. k \in Nat /\ k >= 1 /\ Len(todo) \in Nat /\ Len(rest) \in Nat /\ Len(todo) = (k + 1) + Len(rest)
        BY <1>1, <2>1, <2>2
      <4>3. \A x, l, r \in Nat : \A y \in 1 .. r :
              x >= 1 /\ l = (x + 1) + r => y \in Nat /\ x + y \in 1 .. l - 1 /\ (x + y) + 1 = (x + 1) + y
        OBVIOUS
      <4>4. QED
        BY <4>1, <4>2, <4>3
    <3>2. Tail(todo)[k + m] = todo[(k + m) + 1]
      BY <1>2, <3>1
    <3>3. QED
      BY <2>2, <3>1, <3>2
  <2>4. QED
    BY <1>1, <2>1, <2>2, <2>3
<1>4. ASSUME Head(todo) = call
      PROVE  Tail(todo) = rest
  <2>1. 1 \in DOMAIN todo /\ todo[1] = call
    BY <1>1, <1>4
  <2>2. Len(todo) = 1 + Len(rest) /\ \A m \in DOMAIN rest : todo[1 + m] = rest[m]
    BY <2>1 DEF Ends
  <2>3. Len(Tail(todo)) = Len(rest) /\ \A m \in 1 .. Len(rest) : Tail(todo)[m] = rest[m]
    BY <1>1, <1>2, <2>2
  <2>4. QED
    BY <1>1, <2>3, SeqEqual
<1>5. QED
  BY <1>3, <1>4 DEF Ends
LEMMA PlanShaped ==
    ASSUME NEW kind \in AllKinds, NEW j, j.kind = kind, j.todo = Plan(kind)
    PROVE  Shaped(j)
<1>1. CASE kind \in {"register", "login", "login2fa", "verify"}
  BY <1>1 DEF Plan, Shaped, Ends
<1>2. CASE kind \in {"sendOtp", "forgot", "reset", "adminDisable"}
  BY <1>2 DEF Plan, Shaped, Ends
<1>3. CASE kind = "refresh"
  BY <1>3 DEF Plan, Shaped, Ends
<1>4. CASE kind = "logoutAll"
  BY <1>4 DEF Plan, Shaped, Ends
<1>5. CASE kind = "logout"
  <2>1. j.todo = <<"authToken", "authUser", "revokeAccess", "revokeRefresh", "endSession">>
    BY <1>5 DEF Plan
  <2>2. Ends(j.todo, "setPassword", <<"endSessions">>) /\ Ends(j.todo, "findSession", <<"revoke", "rotate">>)
    BY <2>1 DEF Ends
  <2>3. Ends(j.todo, "revoke", <<"rotate">>) /\ Ends(j.todo, "revokeRefresh", <<"endSession">>)
    BY <2>1 DEF Ends
  <2>4. \A k \in DOMAIN j.todo : j.todo[k] \notin {"revoke", "findUser"}
    BY <2>1
  <2>5. QED
    BY <2>2, <2>3, <2>4 DEF Shaped
<1>6. CASE kind \in {"changePassword", "toggle2fa", "changeEmail"}
  BY <1>6 DEF Plan, Shaped, Ends, ChangePassword
<1>7. CASE kind \in {"deleteAccount", "adminEnable"}
  BY <1>7 DEF Plan, Shaped, Ends
<1>8. QED
  BY <1>1, <1>2, <1>3, <1>4, <1>5, <1>6, <1>7 DEF AllKinds

LEMMA TailShaped ==
    ASSUME NEW i, NEW j, i.todo \in Seq(Calls), i.todo # <<>>, Shaped(i),
           j.todo \in {<<>>, <<"issueOtp">>, Tail(i.todo)}
    PROVE  Shaped(j)
<1>1. CASE j.todo = <<>> \/ j.todo = <<"issueOtp">>
  BY <1>1 DEF Shaped, Ends
<1>2. CASE j.todo = Tail(i.todo)
  <2>1. /\ Ends(j.todo, "setPassword", <<"endSessions">>)
        /\ Ends(j.todo, "findSession", <<"revoke", "rotate">>)
        /\ Ends(j.todo, "revoke", <<"rotate">>)
        /\ Ends(j.todo, "revokeRefresh", <<"endSession">>)
    <3>1. /\ <<"endSessions">> \in Seq(Calls) /\ <<"revoke", "rotate">> \in Seq(Calls)
          /\ <<"rotate">> \in Seq(Calls) /\ <<"endSession">> \in Seq(Calls)
      BY DEF Calls
    <3>2. Ends(Tail(i.todo), "setPassword", <<"endSessions">>)
      BY <3>1, EndsTail DEF Shaped
    <3>3. Ends(Tail(i.todo), "findSession", <<"revoke", "rotate">>)
      BY <3>1, EndsTail DEF Shaped
    <3>4. Ends(Tail(i.todo), "revoke", <<"rotate">>)
      BY <3>1, EndsTail DEF Shaped
    <3>5. Ends(Tail(i.todo), "revokeRefresh", <<"endSession">>)
      BY <3>1, EndsTail DEF Shaped
    <3>6. QED
      BY <1>2, <3>2, <3>3, <3>4, <3>5
  <2>2. \A k \in DOMAIN j.todo : k \in Nat \ {0} /\ k + 1 \in DOMAIN i.todo /\ j.todo[k] = i.todo[k + 1]
    BY <1>2
  <2>3. \A k \in DOMAIN j.todo : j.todo[k] # "findUser"
    BY <2>2 DEF Shaped
  <2>4. ASSUME NEW k \in DOMAIN j.todo, j.todo[k] = "revoke", k # 1
        PROVE  j.todo[k - 1] = "findSession"
    <3>1. k - 1 \in DOMAIN j.todo
      BY <1>2, <2>2, <2>4
    <3>2. i.todo[k + 1] = "revoke" /\ k + 1 \in DOMAIN i.todo /\ k + 1 # 1 /\ (k + 1) - 1 = k
      BY <2>2, <2>4
    <3>3. i.todo[k] = "findSession"
      BY <3>2 DEF Shaped
    <3>4. j.todo[k - 1] = i.todo[(k - 1) + 1] /\ (k - 1) + 1 = k
      BY <2>2, <3>1
    <3>5. QED
      BY <3>3, <3>4
  <2>5. QED
    BY <2>1, <2>3, <2>4 DEF Shaped
<1>3. QED
  BY <1>1, <1>2

Shapes == \A p \in Procs : Shaped(job[p])

\* A step is one of one request, which goes on with its plan, gives it up, or
\* sends a code instead.
LEMMA StepOfOne ==
    ASSUME IInv, NEW p \in Procs, Step(p) \/ Fail(p)
    PROVE  /\ job[p].todo \in Seq(Calls) /\ job[p].todo # <<>>
           /\ job'[p].todo \in {<<>>, <<"issueOtp">>, Tail(job[p].todo)}
           /\ \A q \in Procs \ {p} : job'[q] = job[q]
<1>1. job \in [Procs -> Job] /\ job[p] \in Job /\ job[p].todo \in Seq(Calls)
  BY DEF IInv, JobsOK, Job
<1>2. NoJob.todo = <<>>
  BY DEF NoJob
<1>3. Continue(p) \/ Stop(p) => /\ job'[p].todo \in {<<>>, Tail(job[p].todo)}
                                /\ \A q \in Procs \ {p} : job'[q] = job[q]
  BY <1>1, <1>2 DEF Continue, Stop, Job
<1>4. CASE \/ InsertUser(p) \/ IssueOtp(p) \/ ClearOtp(p) \/ SetVerified(p)
           \/ SetTwoFactor(p) \/ Deactivate(p) \/ Activate(p) \/ SetEmail(p)
           \/ InsertSession(p) \/ Rotate(p) \/ EndSessions(p) \/ EndSession(p)
           \/ Revoke(p) \/ RevokeRefresh(p) \/ RevokeAccess(p) \/ FindRevoked(p) \/ AuthToken(p)
           \/ Fail(p)
  <2>1. job[p].todo # <<>> /\ (Continue(p) \/ Stop(p))
    BY <1>4 DEF InsertUser, IssueOtp, ClearOtp, SetVerified, SetTwoFactor, Deactivate, Activate,
                SetEmail, InsertSession, Rotate, EndSessions, EndSession, Revoke, RevokeRefresh, RevokeAccess,
                FindRevoked, AuthToken, Does, At, ContinueIf, Fail, Busy
  <2>2. QED
    BY <1>1, <1>3, <2>1
<1>5. CASE FindUser(p)
  BY <1>1, <1>3, <1>5 DEF FindUser, At, Goto, Job
<1>6. CASE FindSession(p) \/ AuthUser(p) \/ SetPassword(p)
  <2>1. job[p].todo # <<>>
    BY <1>6 DEF FindSession, AuthUser, SetPassword, At
  <2>2. \/ Continue(p) \/ Stop(p)
        \/ \E i : job' = [job EXCEPT ![p].session = i, ![p].todo = Tail(@)]
        \/ \E t : job' = [job EXCEPT ![p].twoFactor = t, ![p].todo = Tail(@)]
        \/ \E n : job' = [job EXCEPT ![p].todo = Tail(@), ![p].password = n]
    BY <1>6 DEF FindSession, AuthUser, SetPassword
  <2>3. ASSUME NEW i, job' = [job EXCEPT ![p].session = i, ![p].todo = Tail(@)]
        PROVE  job'[p].todo = Tail(job[p].todo) /\ \A q \in Procs \ {p} : job'[q] = job[q]
    BY <1>1, <2>3 DEF Job
  <2>4. ASSUME NEW t, job' = [job EXCEPT ![p].twoFactor = t, ![p].todo = Tail(@)]
        PROVE  job'[p].todo = Tail(job[p].todo) /\ \A q \in Procs \ {p} : job'[q] = job[q]
    BY <1>1, <2>4 DEF Job
  <2>5. ASSUME NEW n, job' = [job EXCEPT ![p].todo = Tail(@), ![p].password = n]
        PROVE  job'[p].todo = Tail(job[p].todo) /\ \A q \in Procs \ {p} : job'[q] = job[q]
    BY <1>1, <2>5 DEF Job
  <2>6. QED
    BY <1>1, <1>3, <2>1, <2>2, <2>3, <2>4, <2>5
<1>7. QED
  BY <1>4, <1>5, <1>6 DEF Step

\* The requests that are at work, and those that died.
Requests == {job[p] : p \in Procs} \cup failed

\* A request that makes no call is there after the step, if only as one that
\* died.
LEMMA Waits ==
    ASSUME IInv, [Next]_vars, NEW j \in Requests, j.todo # <<>>, \A q \in Procs : job[q] = j => ~Step(q)
    PROVE  j \in Requests'
<1>1. failed \subseteq failed'
  BY FailedNext DEF Fail
<1>2. ASSUME NEW q \in Procs, job[q] = j
      PROVE  job'[q] = job[q] \/ job[q] \in failed'
  <2>1. CASE \E p \in Procs : Step(p)
    BY <1>2, <2>1, StepOfOne
  <2>2. CASE \E p \in Procs : Fail(p)
    <3>1. PICK p \in Procs : Fail(p)
      BY <2>2
    <3>2. CASE p = q
      BY <3>1, <3>2 DEF Fail
    <3>3. CASE p # q
      BY <3>1, <3>3, StepOfOne
    <3>4. QED
      BY <3>2, <3>3
  <2>3. CASE \E p \in Procs : \E kind \in Kinds : Begin(p, kind)
    <3>1. PICK p \in Procs, kind \in Kinds : Begin(p, kind)
      BY <2>3
    <3>2. p # q
      BY <1>2, <3>1 DEF Begin, Busy
    <3>3. QED
      BY <3>1, <3>2 DEF Begin, IInv, JobsOK
  <2>4. QED
    BY <2>1, <2>2, <2>3 DEF Next, Tick, OtpExpires, ForgetRevoked, ForgetSession, vars
<1>3. QED
  BY <1>1, <1>2 DEF Requests

\* When no request is at work, one that has calls to make is one that died.
LEMMA RestOfDead ==
    ASSUME AtRest, NEW j \in Requests, j.todo # <<>>
    PROVE  j \in failed
BY DEF Requests, AtRest, Busy

LEMMA ShapesNext == IInv /\ Shapes /\ [Next]_vars => Shapes'
<1> SUFFICES ASSUME IInv, Shapes, [Next]_vars, NEW q \in Procs
             PROVE  Shaped(job'[q])
  BY DEF Shapes
<1>1. Shaped(job[q])
  BY DEF Shapes
<1>2. ASSUME NEW p \in Procs, Step(p) \/ Fail(p)
      PROVE  Shaped(job'[q])
  BY <1>1, <1>2, StepOfOne, TailShaped
<1>3. ASSUME NEW p \in Procs, NEW kind \in Kinds, Begin(p, kind)
      PROVE  Shaped(job'[q])
  <2>1. q # p => job'[q] = job[q]
    BY <1>3 DEF Begin, IInv, JobsOK
  <2>2. job'[p].todo = Plan(kind) /\ job'[p].kind = kind
    BY <1>3 DEF Begin, IInv, JobsOK, NoJob
  <2>3. QED
    BY <1>1, <2>1, <2>2, PlanShaped, KindsAssumption
<1>4. CASE UNCHANGED job
  BY <1>1, <1>4
<1>5. QED
  BY <1>2, <1>3, <1>4 DEF Next, Tick, OtpExpires, ForgetRevoked, ForgetSession, vars

\* What the shapes say of the next call.
LEMMA AfterCall ==
    ASSUME IInv, Shapes, NEW p \in Procs
    PROVE  /\ At(p, "setPassword") => Tail(job[p].todo) = <<"endSessions">>
           /\ At(p, "findSession") => Tail(job[p].todo) = <<"revoke", "rotate">>
           /\ At(p, "revoke") => Tail(job[p].todo) = <<"rotate">>
           /\ At(p, "revokeRefresh") => Tail(job[p].todo) = <<"endSession">>
           /\ At(p, "findUser") => job[p].todo = Plan(job[p].kind)
<1>1. job[p].todo \in Seq(Calls) /\ Shaped(job[p])
  BY DEF IInv, JobsOK, Job, Shapes
<1>2. /\ <<"endSessions">> \in Seq(Calls) /\ <<"revoke", "rotate">> \in Seq(Calls)
      /\ <<"rotate">> \in Seq(Calls) /\ <<"endSession">> \in Seq(Calls)
  BY DEF Calls
<1>3. At(p, "findUser") => job[p].todo = Plan(job[p].kind)
  BY <1>1 DEF At, Shaped
<1>4. ASSUME NEW call, NEW rest \in Seq(Calls), Ends(job[p].todo, call, rest), At(p, call)
      PROVE  Tail(job[p].todo) = rest
  BY <1>1, <1>4, EndsTail DEF At
<1>5. At(p, "setPassword") => Tail(job[p].todo) = <<"endSessions">>
  BY <1>1, <1>2, <1>4 DEF Shaped
<1>6. At(p, "findSession") => Tail(job[p].todo) = <<"revoke", "rotate">>
  BY <1>1, <1>2, <1>4 DEF Shaped
<1>7. At(p, "revoke") => Tail(job[p].todo) = <<"rotate">>
  BY <1>1, <1>2, <1>4 DEF Shaped
<1>8. At(p, "revokeRefresh") => Tail(job[p].todo) = <<"endSession">>
  BY <1>1, <1>2, <1>4 DEF Shaped
<1>9. QED
  BY <1>3, <1>5, <1>6, <1>7, <1>8

(***************************************************************************)
(* The sessions of an older password.                                      *)
(***************************************************************************)
\* How far a request comes as long as there is no account.
Unborn(j) ==
    \/ j.todo \in {<<>>, <<"insertUser">>, <<"deactivate">>, <<"activate">>}
    \/ j.todo = Plan(j.kind) /\ Head(j.todo) = "findUser"

NoAccount ==
    ~user.exists => /\ user.code = 0 /\ tokens = <<>> /\ DOMAIN sessions = {}
                    /\ \A p \in Procs : Unborn(job[p])

SomeEnding == \E j \in Requests : Ending(j)
Current == \A i \in DOMAIN sessions : sessions[i].active => sessions[i].made = user.password

PasswordInv == Shapes /\ NoAccount /\ (SomeEnding \/ Current)

\* Before the account exists there is no token and no code, so every request
\* but a registration is refused by its first check.
LEMMA NoAccountNext == IInv /\ PasswordInv /\ [Next]_vars => NoAccount'
<1> SUFFICES ASSUME IInv, PasswordInv, [Next]_vars, ~user'.exists
             PROVE  /\ user'.code = 0 /\ tokens' = <<>> /\ DOMAIN sessions' = {}
                    /\ \A p \in Procs : Unborn(job'[p])
  BY DEF NoAccount
<1>1. user \in User /\ job \in [Procs -> Job] /\ \A p \in Procs : job[p] \in Job /\ job[p].todo \in Seq(Calls)
  BY DEF IInv, AccountOK, JobsOK, Job
<1>2. ASSUME ~user.exists
      PROVE  /\ user'.code = 0 /\ tokens' = <<>> /\ DOMAIN sessions' = {}
             /\ \A p \in Procs : Unborn(job'[p])
  <2>1. user.code = 0 /\ tokens = <<>> /\ DOMAIN sessions = {} /\ \A p \in Procs : Unborn(job[p])
    BY <1>2 DEF PasswordInv, NoAccount
  <2>2. ASSUME NEW p \in Procs, Step(p)
        PROVE  UNCHANGED <<user, tokens, sessions>> /\ Unborn(job'[p])
    <3>1. job[p].todo # <<>> /\ Unborn(job[p]) /\ Head(job[p].todo) \in {"findUser", "insertUser", "deactivate", "activate"}
      BY <2>1, <2>2, StepOfOne DEF Unborn
    <3>2. CASE FindUser(p)
      <4>1. job[p].todo = Plan(job[p].kind) /\ job[p].kind \in AllKinds
        BY <1>1, <2>1, <3>2 DEF FindUser, At, Unborn, Job
      <4>2. UNCHANGED <<user, tokens, sessions>>
        BY <3>2 DEF FindUser, account, logins
      <4>3. Head(Plan(job[p].kind)) = "findUser"
        BY <3>2, <4>1 DEF FindUser, At
      <4>4. job[p].kind \in {"register", "login", "login2fa", "verify", "sendOtp", "forgot", "reset"}
        BY <4>1, <4>3 DEF AllKinds, Plan, ChangePassword
      <4>5. CASE job[p].kind = "register"
        <5>1. Plan(job[p].kind) = <<"findUser", "insertUser">>
          BY <4>5 DEF Plan
        <5>2. Continue(p) \/ Stop(p)
          BY <3>2, <4>5 DEF FindUser
        <5>3. Tail(job[p].todo) = <<"insertUser">>
          BY <4>1, <5>1
        <5>4. job'[p].todo \in {<<>>, Tail(job[p].todo)}
          BY <2>2, <4>5, <5>2, StepOfOne, <1>1 DEF Continue, Stop, NoJob, Job
        <5>5. QED
          BY <4>2, <5>3, <5>4 DEF Unborn
      <4>6. CASE job[p].kind # "register"
        <5>1. ~Accepts(job[p])
          BY <1>2, <2>1, <4>4, <4>6 DEF Accepts, CodeMatches, WithCode
        <5>2. job'[p].todo = <<>>
          BY <1>1, <3>2, <5>1 DEF FindUser, Stop, NoJob
        <5>3. QED
          BY <4>2, <5>2 DEF Unborn
      <4>7. QED
        BY <4>5, <4>6
    <3>3. CASE Deactivate(p) \/ Activate(p)
      <4>1. job[p].todo \in {<<"deactivate">>, <<"activate">>}
        BY <3>1, <3>3 DEF Deactivate, Activate, Does, At, Unborn
      <4>2. job'[p].todo = <<>>
        <5>1. Tail(<<"deactivate">>) = <<>> /\ Tail(<<"activate">>) = <<>>
          OBVIOUS
        <5>2. QED
          BY <1>1, <3>3, <4>1, <5>1 DEF Deactivate, Activate, Does, Continue, Job
      <4>3. UNCHANGED <<user, tokens, sessions>>
        BY <1>2, <3>3 DEF Deactivate, Activate, Update, logins
      <4>4. QED
        BY <4>2, <4>3 DEF Unborn
    <3>4. ~InsertUser(p)
      BY <1>1, <1>2 DEF InsertUser, UpdateAndSend, WithNewCode, User
    <3>5. QED
      BY <2>2, <3>1, <3>2, <3>3, <3>4
      DEF Step, IssueOtp, ClearOtp, SetVerified, SetPassword, SetTwoFactor, SetEmail, InsertSession, EndSessions,
          EndSession, FindRevoked, FindSession, Revoke, Rotate, AuthToken, AuthUser, RevokeAccess, RevokeRefresh,
          Does, At
  <2>3. ASSUME NEW p \in Procs, NEW kind \in Kinds, Begin(p, kind)
        PROVE  UNCHANGED <<user, tokens, sessions>> /\ \A q \in Procs : Unborn(job'[q])
    <3>1. Jtis("access") = {} /\ Jtis("refresh") = {}
      BY <2>1 DEF Jtis
    <3>2. kind \notin WithToken /\ kind # "refresh" /\ kind # "logout"
      BY <2>3, <3>1 DEF Begin
    <3>3. kind \in {"register", "login", "login2fa", "verify", "sendOtp", "forgot", "reset", "adminDisable", "adminEnable"}
      BY <3>2, KindsAssumption DEF AllKinds, WithToken
    <3>4. job'[p].todo = Plan(kind) /\ job'[p].kind = kind /\ \A q \in Procs \ {p} : job'[q] = job[q]
      BY <1>1, <2>3 DEF Begin, NoJob
    <3>5. Unborn(job'[p])
      <4>1. CASE kind = "adminDisable"
        BY <3>4, <4>1 DEF Plan, Unborn
      <4>2. CASE kind = "adminEnable"
        BY <3>4, <4>2 DEF Plan, Unborn
      <4>3. CASE kind \in {"register", "login", "login2fa", "verify", "sendOtp", "forgot", "reset"}
        <5>1. Head(Plan(kind)) = "findUser"
          BY <4>3 DEF Plan
        <5>2. QED
          BY <3>4, <5>1 DEF Unborn
      <4>4. QED
        BY <3>3, <4>1, <4>2, <4>3
    <3>6. QED
      BY <2>1, <2>3, <3>4, <3>5 DEF Begin, account, logins
  <2>7. ASSUME NEW p \in Procs, Fail(p)
        PROVE  /\ user'.code = 0 /\ tokens' = <<>> /\ DOMAIN sessions' = {}
               /\ \A q \in Procs : Unborn(job'[q])
    <3>1. UNCHANGED <<user, tokens, sessions>>
      BY <2>7 DEF Fail, account, logins
    <3>2. job' = [job EXCEPT ![p] = NoJob] /\ NoJob.todo = <<>>
      BY <2>7 DEF Fail, Stop, NoJob
    <3>3. Unborn(NoJob)
      BY <3>2 DEF Unborn
    <3>4. \A q \in Procs : Unborn(job'[q])
      BY <1>1, <2>1, <3>2, <3>3
    <3>5. QED
      BY <2>1, <3>1, <3>4
  <2>4. CASE \/ Tick \/ OtpExpires \/ UNCHANGED vars
             \/ \E j \in DOMAIN blacklist : ForgetRevoked(j)
             \/ \E i \in DOMAIN sessions : ForgetSession(i)
    BY <2>1, <2>4 DEF Tick, OtpExpires, ForgetRevoked, ForgetSession, account, logins, vars
  <2>5. ASSUME NEW p \in Procs, Step(p)
        PROVE  /\ user'.code = 0 /\ tokens' = <<>> /\ DOMAIN sessions' = {}
               /\ \A q \in Procs : Unborn(job'[q])
    BY <2>1, <2>2, <2>5, StepOfOne
  <2>6. QED
    BY <2>3, <2>1, <2>4, <2>5, <2>7 DEF Next
<1>3. CASE user.exists
  <2>1. user' = user \/ user'.exists
    BY <1>1, <1>3 DEF Next, Step, Fail, Begin, FindUser, InsertUser, IssueOtp, ClearOtp, SetVerified, SetPassword,
       SetTwoFactor, Deactivate, Activate, SetEmail, InsertSession, Rotate, EndSessions, EndSession, EndThese,
       FindRevoked, FindSession, Revoke, RevokeRefresh, RevokeAccess, BlacklistRefresh, Blacklist, AuthToken,
       AuthUser, Reads, Update, UpdateAndSend, WithNewCode, WithoutCode, Cleared, Tick, OtpExpires, ForgetRevoked,
       ForgetSession, account, vars, User
  <2>2. QED
    BY <1>3, <2>1
<1>4. QED
  BY <1>2, <1>3

\* Only two calls give the user another password.
LEMMA PasswordStays ==
    ASSUME AccountOK, [Next]_vars
    PROVE  \/ user'.password = user.password
           \/ \E p \in Procs : SetPassword(p)
           \/ ~user.exists
<1>1. user \in User
  BY DEF AccountOK
<1>2. QED
  BY <1>1 DEF Next, Step, Fail, Begin, FindUser, InsertUser, IssueOtp, ClearOtp, SetVerified,
     SetTwoFactor, Deactivate, Activate, SetEmail, InsertSession, Rotate, EndSessions, EndSession, EndThese,
     FindRevoked, FindSession, Revoke, RevokeRefresh, RevokeAccess, BlacklistRefresh, Blacklist, AuthToken,
     AuthUser, Reads, Update, UpdateAndSend, WithNewCode, WithoutCode, Cleared, Tick, OtpExpires, ForgetRevoked,
     ForgetSession, account, vars, User

\* No session becomes active, or is said to be made earlier or later, but one
\* that is inserted under the password of the moment.
LEMMA SessionsStay ==
    ASSUME SessionsOK, [Next]_vars
    PROVE  \A i \in DOMAIN sessions' :
             sessions'[i].active =>
               \/ i \in DOMAIN sessions /\ sessions[i].active /\ sessions'[i].made = sessions[i].made
               \/ sessions'[i].made = user.password /\ UNCHANGED user
<1>1. \A i \in DOMAIN sessions : sessions[i] \in Session
  BY DEF SessionsOK
<1>2. CASE \E p \in Procs : InsertSession(p)
  BY <1>2 DEF InsertSession, account
<1>3. CASE \E p \in Procs : Rotate(p)
  BY <1>1, <1>3 DEF Rotate, Session
<1>4. CASE \E p \in Procs : EndSessions(p) \/ EndSession(p)
  BY <1>1, <1>4 DEF EndSessions, EndSession, EndThese, Session
<1>5. CASE \E i \in DOMAIN sessions : ForgetSession(i)
  BY <1>5 DEF ForgetSession
<1>6. CASE UNCHANGED sessions
  BY <1>6
<1>7. QED
  BY <1>2, <1>3, <1>4, <1>5, <1>6 DEF Next, Step, Fail, Begin, FindUser, InsertUser, IssueOtp, ClearOtp, SetVerified,
     SetPassword, SetTwoFactor, Deactivate, Activate, SetEmail, FindRevoked, FindSession, Revoke, RevokeRefresh,
     RevokeAccess, BlacklistRefresh, Blacklist, AuthToken, AuthUser, Reads, Update, UpdateAndSend, Tick, OtpExpires,
     ForgetRevoked, logins, vars

LEMMA OlderEnding == IInv /\ PasswordInv /\ [Next]_vars => SomeEnding' \/ Current'
<1> SUFFICES ASSUME IInv, PasswordInv, [Next]_vars
             PROVE  SomeEnding' \/ Current'
  OBVIOUS
<1>1. CASE \E p \in Procs : SetPassword(p)
  <2>1. PICK p \in Procs : SetPassword(p)
    BY <1>1
  <2>2. job \in [Procs -> Job]
    BY DEF IInv, JobsOK
  <2>3. Tail(job[p].todo) = <<"endSessions">>
    BY <2>1, AfterCall DEF SetPassword, PasswordInv
  <2>4. job'[p].todo = <<"endSessions">> /\ job'[p].password = passwords + 1
    BY <2>1, <2>2, <2>3 DEF SetPassword, Job
  <2>5. user'.password = passwords + 1
    BY <2>1 DEF SetPassword, WithoutCode, IInv, AccountOK, User
  <2>6. QED
    BY <2>4, <2>5 DEF SomeEnding, Ending, Requests
<1>2. CASE \E p \in Procs : EndSessions(p)
  BY <1>2 DEF EndSessions, EndThese, Current, IInv, SessionsOK, Session
<1>3. CASE ~\E p \in Procs : SetPassword(p) \/ EndSessions(p)
  <2>1. CASE SomeEnding /\ user'.password = user.password
    <3>1. PICK j \in Requests : Ending(j)
      BY <2>1 DEF SomeEnding
    <3>2. ASSUME NEW q \in Procs, job[q] = j
          PROVE  ~Step(q)
      <4>1. job[q].todo = <<"endSessions">>
        BY <3>1, <3>2 DEF Ending
      <4>2. Head(job[q].todo) = "endSessions"
        BY <4>1
      <4>3. QED
        BY <1>3, <4>2 DEF Step, FindUser, InsertUser, IssueOtp, ClearOtp, SetVerified, SetPassword, SetTwoFactor,
           Deactivate, Activate, SetEmail, InsertSession, EndSession, FindRevoked, FindSession, Revoke,
           Rotate, AuthToken, AuthUser, RevokeAccess, RevokeRefresh, Does, At
    <3>3. j.todo # <<>>
      <4>1. <<"endSessions">> # <<>>
        OBVIOUS
      <4>2. QED
        BY <3>1, <4>1 DEF Ending
    <3>4. j \in Requests'
      BY <3>2, <3>3, Waits
    <3>5. QED
      BY <2>1, <3>1, <3>4 DEF SomeEnding, Ending
  <2>2. CASE Current /\ user'.password = user.password
    BY <2>2, SessionsStay DEF Current, IInv
  <2>3. CASE ~user.exists
    <3>1. DOMAIN sessions = {} /\ \A p \in Procs : Unborn(job[p])
      BY <2>3 DEF PasswordInv, NoAccount
    <3>2. \A p \in Procs : ~InsertSession(p)
      <4>1. ASSUME NEW p \in Procs, InsertSession(p)
            PROVE  FALSE
        BY <3>1, <4>1 DEF InsertSession, Does, At, Unborn
      <4>2. QED
        BY <4>1
    <3>3. DOMAIN sessions' = {}
      BY <3>1, <3>2 DEF Next, Step, Fail, Begin, FindUser, InsertUser, IssueOtp, ClearOtp, SetVerified,
         SetPassword, SetTwoFactor, Deactivate, Activate, SetEmail, Rotate, EndSessions, EndSession, EndThese,
         FindRevoked, FindSession, Revoke, RevokeRefresh, RevokeAccess, BlacklistRefresh, Blacklist, AuthToken,
         AuthUser, Reads, Update, UpdateAndSend, Tick, OtpExpires, ForgetRevoked, ForgetSession, logins, vars
    <3>4. QED
      BY <3>3 DEF Current
  <2>4. QED
    BY <1>3, <2>1, <2>2, <2>3, PasswordStays DEF PasswordInv, IInv
<1>4. QED
  BY <1>1, <1>2, <1>3

LEMMA PasswordInit == Init => PasswordInv
<1>1. NoJob.todo = <<>> /\ NoJob.kind = "login"
  BY DEF NoJob
<1>2. ASSUME Init
      PROVE  \A p \in Procs : Shaped(job[p]) /\ Unborn(job[p])
  BY <1>1, <1>2 DEF Init, Shaped, Ends, Unborn
<1>3. ASSUME Init
      PROVE  Current /\ (~user.exists => user.code = 0 /\ tokens = <<>> /\ DOMAIN sessions = {})
  <2>1. CASE user = NoUser /\ passwords = 0 /\ tokens = <<>> /\ sessions = <<>>
    BY <2>1 DEF Current, NoUser
  <2>2. CASE /\ user = [NoUser EXCEPT !.exists = TRUE, !.verified = TRUE, !.active = TRUE, !.password = 1]
             /\ sessions = [i \in {2} |-> [jti |-> 2, active |-> TRUE, ends |-> RefreshLife, made |-> 1]]
    <3>1. user.exists /\ user.password = 1
      BY <2>2 DEF NoUser
    <3>2. \A i \in DOMAIN sessions : sessions[i].made = 1
      BY <2>2
    <3>3. QED
      BY <3>1, <3>2 DEF Current
  <2>3. QED
    BY <1>3, <2>1, <2>2 DEF Init
<1>4. QED
  BY <1>2, <1>3 DEF PasswordInv, Shapes, NoAccount

LEMMA PasswordInvariance == Spec => [](IInv /\ PasswordInv)
<1>1. IInv /\ PasswordInv /\ [Next]_vars => PasswordInv'
  BY ShapesNext, NoAccountNext, OlderEnding DEF PasswordInv
<1>2. QED
  BY <1>1, PasswordInit, Invariance, PTL DEF Spec

\* Once no request is at work, every active session was inserted under the
\* password the account has now: change_password and reset_password end the
\* others in their last call, whatever comes in between, unless the request
\* dies between its last two calls.
THEOREM OlderSessionsEnd == Spec => []OldSessionsEnded
<1>1. PasswordInv => OldSessionsEnded
  <2>1. <<"endSessions">> # <<>>
    OBVIOUS
  <2>2. \A j : Ending(j) => j.todo # <<>>
    BY <2>1 DEF Ending
  <2>3. AtRest /\ SomeEnding => \E j \in failed : Ending(j)
    BY <2>2, RestOfDead DEF SomeEnding
  <2>4. QED
    BY <2>3 DEF PasswordInv, Current, OldSessionsEnded
<1>2. QED
  BY <1>1, PasswordInvariance, PTL

(***************************************************************************)
(* Codes that were used.                                                   *)
(***************************************************************************)
LEMMA RedeemingBusy == \A j : Redeeming(j) => j.todo # <<>>
<1>1. <<"clearOtp", "insertSession">> # <<>> /\ <<"setVerified">> # <<>> /\ <<"setPassword", "endSessions">> # <<>>
  OBVIOUS
<1>2. QED
  BY <1>1 DEF Redeeming

Used(c) == \E r \in redeemed : r.code = c

CodeInv == user.code # 0 /\ Used(user.code) => \E j \in Requests : Redeeming(j)

\* The pending code is the one from before, none, or one no one has seen yet.
LEMMA CodeMoves ==
    ASSUME AccountOK, CodesOK, [Next]_vars
    PROVE  user'.code \in {user.code, 0, Len(codes) + 1}
<1>1. user \in User
  BY DEF AccountOK
<1>2. CASE \E p \in Procs : \/ InsertUser(p) \/ IssueOtp(p) \/ SetEmail(p)
  BY <1>1, <1>2 DEF InsertUser, IssueOtp, SetEmail, UpdateAndSend, WithNewCode, NewCode, Reads, account, User
<1>3. CASE \E p \in Procs : \/ ClearOtp(p) \/ SetVerified(p) \/ SetPassword(p) \/ SetTwoFactor(p)
                            \/ Deactivate(p) \/ Activate(p)
  BY <1>1, <1>3 DEF ClearOtp, SetVerified, SetPassword, SetTwoFactor, Deactivate, Activate, Update, Cleared,
                    WithoutCode, User
<1>4. CASE OtpExpires
  BY <1>1, <1>4 DEF OtpExpires, Update, User
<1>5. CASE UNCHANGED user
  BY <1>5
<1>6. QED
  BY <1>2, <1>3, <1>4, <1>5 DEF Next, Step, Fail, Begin, FindUser, InsertSession, Rotate, EndSessions, EndSession,
     EndThese, FindRevoked, FindSession, Revoke, RevokeRefresh, RevokeAccess, BlacklistRefresh, Blacklist, AuthToken,
     AuthUser, Reads, Tick, ForgetRevoked, ForgetSession, account, vars

\* A code is accepted by a request that goes on to clear it.
LEMMA CodeAccepted ==
    ASSUME IInv, PasswordInv, NEW p \in Procs, FindUser(p), redeemed' # redeemed
    PROVE  Redeeming(job[p])'
<1>1. At(p, "findUser") /\ Accepts(job[p]) /\ job[p].kind \in WithCode
  BY DEF FindUser
<1>2. Continue(p)
  BY <1>1 DEF FindUser, WithCode
<1>3. job[p].todo = Plan(job[p].kind)
  BY <1>1, AfterCall DEF PasswordInv
<1>4. /\ job'[p].todo = Tail(Plan(job[p].kind)) /\ job'[p].kind = job[p].kind
      /\ job'[p].code = user'.code
  <2>1. job'[p].todo = Tail(Plan(job[p].kind)) /\ job'[p].kind = job[p].kind /\ job'[p].code = job[p].code
    BY <1>2, <1>3 DEF Continue, IInv, JobsOK, Job
  <2>2. job[p].code = user.code
    BY <1>1 DEF Accepts, CodeMatches, WithCode
  <2>3. user' = user
    BY DEF FindUser, account
  <2>4. QED
    BY <2>1, <2>2, <2>3
<1>5. CASE job[p].kind = "login2fa"
  BY <1>4, <1>5 DEF Plan, Redeeming
<1>6. CASE job[p].kind = "verify"
  BY <1>4, <1>6 DEF Plan, Redeeming
<1>7. CASE job[p].kind = "reset"
  BY <1>4, <1>7 DEF Plan, Redeeming
<1>8. QED
  BY <1>1, <1>5, <1>6, <1>7 DEF WithCode

\* Its next call leaves no code pending.
LEMMA CodeCleared ==
    ASSUME IInv, PasswordInv, NEW p \in Procs, Redeeming(job[p]), Step(p)
    PROVE  user'.code = 0
<1>1. user \in User
  BY DEF IInv, AccountOK
<1>2. Head(job[p].todo) \in {"clearOtp", "setVerified", "setPassword"}
  BY DEF Redeeming
<1>3. CASE ClearOtp(p) \/ SetVerified(p)
  BY <1>1, <1>3 DEF ClearOtp, SetVerified, Update, Cleared, WithoutCode, User, PasswordInv, NoAccount
<1>4. CASE SetPassword(p)
  <2>1. job[p].kind = "reset"
    BY <1>4 DEF SetPassword, At, Redeeming
  <2>2. QED
    BY <1>1, <1>4, <2>1 DEF SetPassword, WithoutCode, User
<1>5. QED
  BY <1>2, <1>3, <1>4
  DEF Step, FindUser, InsertUser, IssueOtp, SetTwoFactor, Deactivate, Activate, SetEmail, InsertSession, EndSessions,
      EndSession, FindRevoked, FindSession, Revoke, Rotate, AuthToken, AuthUser, RevokeAccess, RevokeRefresh, Does, At

LEMMA CodeNext == IInv /\ PasswordInv /\ CodeInv /\ [Next]_vars => CodeInv'
<1> SUFFICES ASSUME IInv, PasswordInv, CodeInv, [Next]_vars, user'.code # 0, Used(user.code)'
             PROVE  \E j \in Requests' : Redeeming(j)'
  BY DEF CodeInv
<1>1. CASE redeemed' # redeemed
  <2>1. PICK p \in Procs : FindUser(p)
    BY <1>1 DEF Next, Step, Fail, Begin, InsertUser, IssueOtp, ClearOtp, SetVerified, SetPassword, SetTwoFactor,
       Deactivate, Activate, SetEmail, InsertSession, Rotate, EndSessions, EndSession, EndThese, FindRevoked,
       FindSession, Revoke, RevokeRefresh, RevokeAccess, BlacklistRefresh, Blacklist, AuthToken, AuthUser, Reads,
       Update, UpdateAndSend, Tick, OtpExpires, ForgetRevoked, ForgetSession, otps, vars
  <2>2. QED
    BY <1>1, <2>1, CodeAccepted DEF Requests
<1>2. CASE redeemed' = redeemed
  <2>1. \A r \in redeemed : r.code # Len(codes) + 1
    BY DEF IInv, CodesOK
  <2>2. user'.code = user.code /\ Used(user.code) /\ user.code # 0
    BY <1>2, <2>1, CodeMoves DEF Used, IInv
  <2>3. PICK j \in Requests : Redeeming(j)
    BY <2>2 DEF CodeInv
  <2>4. \A q \in Procs : job[q] = j => ~Step(q)
    BY <2>3, CodeCleared
  <2>5. j.todo # <<>>
    BY <2>3, RedeemingBusy
  <2>6. j \in Requests'
    BY <2>4, <2>5, Waits
  <2>7. QED
    BY <2>2, <2>3, <2>6 DEF Redeeming
<1>3. QED
  BY <1>1, <1>2

\* Once no request is at work, the code that is pending has not been accepted
\* by any endpoint, however requests to redeem it and to send new ones meet,
\* unless it was accepted from a request that died before it cleared the code.
THEOREM CodesAreUsedUp == Spec => []UsedCodesGone
<1>1. Init => CodeInv
  BY DEF Init, CodeInv, Used
<1>2. IInv /\ CodeInv => UsedCodesGone
  <2>1. AtRest => \A j \in Requests : Redeeming(j) => j \in failed
    BY RedeemingBusy, RestOfDead
  <2>2. QED
    BY <2>1 DEF CodeInv, Used, UsedCodesGone
<1>3. QED
  BY <1>1, <1>2, CodeNext, PasswordInvariance, PTL DEF Spec

(***************************************************************************)
(* The sessions that can be refreshed.                                     *)
(***************************************************************************)
\* The refresh token of a session outlives it.
TokenOfSession(i) ==
    LET s == sessions[i]
    IN  /\ s.jti \in DOMAIN tokens /\ tokens[s.jti].type = "refresh" /\ tokens[s.jti].exp >= s.ends
        /\ s.ends <= now + RefreshLife

\* A request that found a session to refresh found the only one with its token.
Found(p) ==
    job[p].todo = <<"revoke", "rotate">> =>
        \A i \in DOMAIN sessions : sessions[i].jti = job[p].refresh => i = job[p].session

RefreshInv ==
    /\ \A i \in DOMAIN sessions : TokenOfSession(i)
    /\ \A i, k \in DOMAIN sessions : sessions[i].jti = sessions[k].jti => i = k
    /\ \A p \in Procs : Found(p)
    /\ \A i \in DOMAIN sessions :
         sessions[i].active /\ sessions[i].jti \in DOMAIN blacklist => \E j \in Requests : Replacing(j, i)

\* What a step makes of sessions: most stay or end, at most one is new or gets
\* the new refresh token.
Stays(i) ==
    /\ i \in DOMAIN sessions
    /\ sessions'[i].jti = sessions[i].jti /\ sessions'[i].ends = sessions[i].ends
    /\ sessions'[i].active => sessions[i].active

Renewed(i) == sessions'[i].jti = NewRefresh /\ sessions'[i].ends <= now + RefreshLife

\* The pair of tokens that is handed out: the second one is a refresh token.
LEMMA PairIssued ==
    ASSUME TokensOK, tokens' = tokens \o NewPair
    PROVE  /\ NewRefresh \in DOMAIN tokens' /\ NewRefresh \notin DOMAIN tokens
           /\ tokens'[NewRefresh].type = "refresh" /\ tokens'[NewRefresh].exp = now + RefreshLife
           /\ \A j \in DOMAIN tokens : j \in DOMAIN tokens' /\ tokens'[j] = tokens[j]
<1>1. tokens \in Seq(Token) /\ now + AccessLife \in Nat /\ now + RefreshLife \in Nat
  BY LivesAssumption DEF TokensOK
<1>2. /\ NewPair \in Seq(Token) /\ Len(NewPair) = 2
      /\ NewPair[2] = [type |-> "refresh", exp |-> now + RefreshLife]
  BY <1>1 DEF NewPair, Token
<1>3. /\ Len(tokens \o NewPair) = Len(tokens) + Len(NewPair) /\ tokens \o NewPair \in Seq(Token)
      /\ \A j \in 1 .. Len(tokens) + Len(NewPair) :
           (tokens \o NewPair)[j] = IF j <= Len(tokens) THEN tokens[j] ELSE NewPair[j - Len(tokens)]
  BY <1>1, <1>2, ConcatProperties
<1>4. NewRefresh = Len(tokens) + 2 /\ Len(tokens) \in Nat
  BY <1>1 DEF NewRefresh
<1>5. tokens'[NewRefresh] = NewPair[2] /\ NewRefresh \in DOMAIN tokens' /\ NewRefresh \notin DOMAIN tokens
  <2>1. NewRefresh - Len(tokens) = 2 /\ ~(NewRefresh <= Len(tokens)) /\ NewRefresh \in 1 .. Len(tokens) + Len(NewPair)
    BY <1>2, <1>4
  <2>2. DOMAIN tokens' = 1 .. Len(tokens) + Len(NewPair) /\ DOMAIN tokens = 1 .. Len(tokens)
    BY <1>1, <1>3
  <2>3. QED
    BY <1>3, <1>4, <2>1, <2>2
<1>6. \A j \in DOMAIN tokens : j \in DOMAIN tokens' /\ tokens'[j] = tokens[j]
  <2>1. DOMAIN tokens' = 1 .. Len(tokens) + Len(NewPair) /\ DOMAIN tokens = 1 .. Len(tokens)
    BY <1>1, <1>3
  <2>2. \A j \in 1 .. Len(tokens) : j <= Len(tokens) /\ j \in 1 .. Len(tokens) + Len(NewPair)
    BY <1>2, <1>4
  <2>3. QED
    BY <1>3, <2>1, <2>2
<1>7. QED
  BY <1>2, <1>5, <1>6

LEMMA SessionsMove ==
    ASSUME IInv, RefreshInv, [Next]_vars
    PROVE  /\ now' \in {now, now + 1}
           /\ \/ /\ tokens' = tokens
                 /\ \A i \in DOMAIN sessions' : Stays(i)
              \/ /\ tokens' = tokens \o NewPair /\ now' = now /\ blacklist' = blacklist
                 /\ \E p \in Procs : InsertSession(p) \/ Rotate(p)
                 /\ \A i \in DOMAIN sessions' : Stays(i) \/ Renewed(i)
                 /\ \A i, k \in DOMAIN sessions' : Renewed(i) /\ Renewed(k) => i = k
<1>1. now \in Nat /\ now + RefreshLife \in Nat /\ \A i \in DOMAIN sessions : sessions[i] \in Session
  BY LivesAssumption DEF IInv, TokensOK, SessionsOK
<1>2. ASSUME tokens' = tokens \o NewPair, NEW i \in DOMAIN sessions
      PROVE  sessions[i].jti # NewRefresh
  BY <1>2, PairIssued DEF IInv, RefreshInv, TokenOfSession
<1>3. CASE \E p \in Procs : InsertSession(p)
  <2>1. PICK p \in Procs : InsertSession(p)
    BY <1>3
  <2>2. tokens' = tokens \o NewPair /\ now' = now /\ blacklist' = blacklist
    BY <2>1 DEF InsertSession, IssueTokens, clock, denied
  <2>3. /\ DOMAIN sessions' = DOMAIN sessions \cup {NewRefresh}
        /\ sessions'[NewRefresh].jti = NewRefresh /\ sessions'[NewRefresh].ends = now + RefreshLife
        /\ \A i \in DOMAIN sessions' : i # NewRefresh => sessions'[i] = sessions[i]
    BY <2>1 DEF InsertSession
  <2>4. \A i \in DOMAIN sessions' : IF i = NewRefresh THEN Renewed(i) ELSE Stays(i) /\ ~Renewed(i)
    BY <1>1, <1>2, <2>2, <2>3 DEF Stays, Renewed
  <2>5. QED
    BY <2>1, <2>2, <2>4
<1>4. CASE \E p \in Procs : Rotate(p)
  <2>1. PICK p \in Procs : Rotate(p)
    BY <1>4
  <2>2. tokens' = tokens \o NewPair /\ now' = now /\ blacklist' = blacklist
    BY <2>1 DEF Rotate, clock, denied
  <2>3. /\ DOMAIN sessions' = DOMAIN sessions
        /\ \A i \in DOMAIN sessions : sessions'[i] = IF i = job[p].session THEN [sessions[i] EXCEPT !.jti = NewRefresh]
                                                                         ELSE sessions[i]
    BY <2>1 DEF Rotate
  <2>4. \A i \in DOMAIN sessions : sessions[i].ends <= now + RefreshLife
    BY DEF RefreshInv, TokenOfSession
  <2>5. \A i \in DOMAIN sessions' : IF i = job[p].session THEN Renewed(i) ELSE Stays(i) /\ ~Renewed(i)
    BY <1>1, <1>2, <2>2, <2>3, <2>4 DEF Stays, Renewed, Session
  <2>6. QED
    BY <2>1, <2>2, <2>5
<1>5. CASE \E p \in Procs : EndSessions(p) \/ EndSession(p)
  <2>1. PICK I : EndThese(I)
    BY <1>5 DEF EndSessions, EndSession
  <2>2. QED
    BY <1>1, <2>1 DEF EndThese, Stays, Session, clock
<1>6. CASE \E i \in DOMAIN sessions : ForgetSession(i)
  BY <1>6 DEF ForgetSession, Stays, clock
<1>7. CASE UNCHANGED <<tokens, sessions>> /\ now' \in {now, now + 1}
  BY <1>7 DEF Stays
<1>8. QED
  BY <1>3, <1>4, <1>5, <1>6, <1>7 DEF Next, Step, Fail, Begin, FindUser, InsertUser, IssueOtp, ClearOtp, SetVerified,
     SetPassword, SetTwoFactor, Deactivate, Activate, SetEmail, FindRevoked, FindSession, Revoke, RevokeRefresh,
     RevokeAccess, BlacklistRefresh, Blacklist, AuthToken, AuthUser, Reads, Update, UpdateAndSend, Tick, OtpExpires,
     ForgetRevoked, logins, clock, vars

LEMMA TokensNext ==
    ASSUME IInv, RefreshInv, [Next]_vars
    PROVE  /\ \A i \in DOMAIN sessions' : TokenOfSession(i)'
           /\ \A i, k \in DOMAIN sessions' : sessions'[i].jti = sessions'[k].jti => i = k
<1>1. now \in Nat /\ now' \in Nat /\ now <= now' /\ RefreshLife \in Nat
  BY SessionsMove, LivesAssumption DEF IInv, TokensOK
<1>2. \A i \in DOMAIN sessions : sessions[i] \in Session /\ TokenOfSession(i)
  BY DEF IInv, SessionsOK, RefreshInv
<1>3. ASSUME NEW i \in DOMAIN sessions', Stays(i)
      PROVE  TokenOfSession(i)' /\ i \in DOMAIN sessions /\ sessions'[i].jti = sessions[i].jti
                                /\ sessions[i].jti \in DOMAIN tokens
  <2>1. /\ sessions[i].jti \in DOMAIN tokens /\ tokens[sessions[i].jti].type = "refresh"
        /\ tokens[sessions[i].jti].exp >= sessions[i].ends
        /\ sessions[i].ends <= now + RefreshLife /\ sessions[i].ends \in Nat
    BY <1>2, <1>3 DEF Stays, TokenOfSession, Session
  <2>2. sessions[i].jti \in DOMAIN tokens' /\ tokens'[sessions[i].jti] = tokens[sessions[i].jti]
    BY <2>1, SessionsMove, PairIssued DEF IInv
  <2>3. QED
    BY <1>1, <1>3, <2>1, <2>2 DEF Stays, TokenOfSession
<1>4. ASSUME tokens' = tokens \o NewPair, now' = now, NEW i \in DOMAIN sessions', Renewed(i)
      PROVE  TokenOfSession(i)' /\ sessions'[i].jti \notin DOMAIN tokens
  BY <1>1, <1>4, PairIssued DEF Renewed, TokenOfSession, IInv
<1>5. CASE \A i \in DOMAIN sessions' : Stays(i)
  BY <1>3, <1>5 DEF RefreshInv
<1>6. CASE /\ tokens' = tokens \o NewPair /\ now' = now
           /\ \A i \in DOMAIN sessions' : Stays(i) \/ Renewed(i)
           /\ \A i, k \in DOMAIN sessions' : Renewed(i) /\ Renewed(k) => i = k
  BY <1>3, <1>4, <1>6 DEF RefreshInv
<1>7. QED
  BY <1>5, <1>6, SessionsMove

\* A list of calls by its first one and the others.
LEMMA FirstAndOthers ==
    ASSUME NEW t \in Seq(Calls), t # <<>>
    PROVE  /\ Len(t) \in Nat \ {0} /\ Head(t) = t[1] /\ 1 \in DOMAIN t
           /\ Len(Tail(t)) = 1 => Len(t) = 2 /\ t[2] = Tail(t)[1]
           /\ Len(Tail(t)) = 2 => 2 \in DOMAIN t /\ t[2] = Tail(t)[1]
<1>1. /\ Len(t) \in Nat \ {0} /\ Tail(t) \in Seq(Calls) /\ Len(Tail(t)) = Len(t) - 1
      /\ Head(t) = t[1] /\ DOMAIN t = 1 .. Len(t)
  OBVIOUS
<1>2. \A i \in 1 .. Len(t) - 1 : Tail(t)[i] = t[i + 1]
  OBVIOUS
<1>3. ASSUME Len(Tail(t)) \in {1, 2}
      PROVE  Len(t) = Len(Tail(t)) + 1 /\ 2 \in DOMAIN t /\ t[2] = Tail(t)[1]
  <2>1. Len(t) = Len(Tail(t)) + 1 /\ 1 \in 1 .. Len(t) - 1 /\ 2 \in 1 .. Len(t) /\ 1 + 1 = 2
    BY <1>1, <1>3
  <2>2. Tail(t)[1] = t[1 + 1]
    BY <1>2, <2>1
  <2>3. QED
    BY <1>1, <2>1, <2>2
<1>4. 1 + 1 = 2
  OBVIOUS
<1>5. QED
  BY <1>1, <1>3, <1>4

\* Only the call that finds the session leads to the two that replace it.
LEMMA FoundByStep ==
    ASSUME IInv, Shapes, [Next]_vars, NEW q \in Procs, job'[q].todo = <<"revoke", "rotate">>
    PROVE  job'[q] = job[q] \/ FindSession(q)
<1>1. job[q].todo \in Seq(Calls) /\ Shaped(job[q])
  BY DEF IInv, JobsOK, Job, Shapes
<1>2. <<"revoke", "rotate">> # <<>> /\ <<"revoke", "rotate">> # <<"issueOtp">> /\ <<"revoke", "rotate">>[1] = "revoke"
  OBVIOUS
<1>3. CASE Step(q)
  <2>1. job[q].todo # <<>> /\ Tail(job[q].todo) = <<"revoke", "rotate">>
    BY <1>2, <1>3, StepOfOne
  <2>2. /\ 2 \in DOMAIN job[q].todo /\ job[q].todo[2] = "revoke"
        /\ Head(job[q].todo) = job[q].todo[1]
    <3> DEFINE t == job[q].todo
               r == <<"revoke", "rotate">>
    <3>1. Len(r) = 2 /\ r[1] = "revoke"
      OBVIOUS
    <3>2. t \in Seq(Calls) /\ t # <<>> /\ Tail(t) = r
      BY <1>1, <2>1
    <3> HIDE DEF t, r
    <3>3. 2 \in DOMAIN t /\ t[2] = "revoke" /\ Head(t) = t[1]
      BY <3>1, <3>2, FirstAndOthers
    <3>4. QED
      BY <3>3 DEF t
  <2>3. \A k \in DOMAIN job[q].todo : job[q].todo[k] = "revoke" => k = 1 \/ job[q].todo[k - 1] = "findSession"
    BY <1>1 DEF Shaped
  <2>4. Head(job[q].todo) = "findSession"
    <3>1. 2 # 1 /\ 2 - 1 = 1
      OBVIOUS
    <3>2. job[q].todo[2 - 1] = "findSession"
      BY <2>2, <2>3, <3>1
    <3>3. QED
      BY <2>2, <3>1, <3>2
  <2>5. QED
    BY <1>3, <2>4 DEF Step, FindUser, InsertUser, IssueOtp, ClearOtp, SetVerified, SetPassword, SetTwoFactor,
       Deactivate, Activate, SetEmail, InsertSession, EndSessions, EndSession, FindRevoked, Revoke, Rotate,
       AuthToken, AuthUser, RevokeAccess, RevokeRefresh, Does, At
<1>4. CASE \E kind \in Kinds : Begin(q, kind)
  <2>1. PICK kind \in Kinds : Begin(q, kind)
    BY <1>4
  <2>2. job'[q].todo = Plan(kind) /\ kind \in AllKinds
    BY <2>1, KindsAssumption DEF Begin, IInv, JobsOK, NoJob
  <2>3. Plan(kind)[1] # "revoke"
    BY <2>2 DEF Plan, ChangePassword, AllKinds
  <2>4. Plan(kind)[1] = "revoke"
    BY <1>2, <2>2
  <2>5. FALSE
    BY <2>3, <2>4
  <2>6. QED
    BY <2>5
<1>5. CASE ~Step(q) /\ ~\E kind \in Kinds : Begin(q, kind)
  <2>1. CASE \E p \in Procs : Step(p)
    BY <1>5, <2>1, StepOfOne
  <2>5. CASE \E p \in Procs : Fail(p)
    <3>1. PICK p \in Procs : Fail(p)
      BY <2>5
    <3>2. p # q
      <4>1. p = q => job'[q].todo = <<>>
        BY <3>1 DEF Fail, Stop, NoJob, IInv, JobsOK
      <4>2. QED
        BY <1>2, <4>1
    <3>3. QED
      BY <3>1, <3>2, StepOfOne
  <2>2. CASE \E p \in Procs : \E kind \in Kinds : Begin(p, kind)
    <3>1. PICK p \in Procs, kind \in Kinds : Begin(p, kind)
      BY <2>2
    <3>2. p # q
      BY <1>5, <3>1
    <3>3. QED
      BY <3>1, <3>2 DEF Begin, IInv, JobsOK
  <2>3. \/ job' = job
        \/ \E p \in Procs : Step(p) \/ Fail(p)
        \/ \E p \in Procs : \E kind \in Kinds : Begin(p, kind)
    BY DEF Next, Tick, OtpExpires, ForgetRevoked, ForgetSession, vars
  <2>4. QED
    BY <2>1, <2>2, <2>3, <2>5
<1>6. QED
  BY <1>3, <1>4, <1>5

LEMMA FoundNext ==
    ASSUME IInv, Shapes, RefreshInv, [Next]_vars, NEW q \in Procs
    PROVE  Found(q)'
<1> SUFFICES ASSUME job'[q].todo = <<"revoke", "rotate">>, NEW i \in DOMAIN sessions',
                    sessions'[i].jti = job'[q].refresh
             PROVE  i = job'[q].session
  BY DEF Found
<1>1. CASE FindSession(q)
  <2>1. UNCHANGED <<tokens, sessions>>
    BY <1>1 DEF FindSession, Reads, logins
  <2>2. ~Stop(q)
    BY DEF Stop, NoJob, IInv, JobsOK
  <2>3. PICK k \in DOMAIN sessions : /\ sessions[k].jti = job[q].refresh
                                     /\ job' = [job EXCEPT ![q].session = k, ![q].todo = Tail(@)]
    BY <1>1, <2>2 DEF FindSession
  <2>4. job'[q].session = k /\ job'[q].refresh = job[q].refresh
    BY <2>3 DEF IInv, JobsOK, Job
  <2>5. QED
    BY <2>1, <2>3, <2>4 DEF RefreshInv
<1>2. CASE job'[q] = job[q]
  <2>1. job[q].refresh \in DOMAIN tokens
    <3>1. job[q].todo[1] = "revoke" /\ 1 \in DOMAIN job[q].todo
      BY <1>2
    <3>2. QED
      BY <3>1 DEF IInv, JobsOK, TodoOK
  <2>2. CASE Stays(i)
    BY <1>2, <2>2 DEF Stays, RefreshInv, Found
  <2>3. CASE ~Stays(i)
    <3>1. sessions'[i].jti = NewRefresh /\ NewRefresh \notin DOMAIN tokens
      BY <2>3, SessionsMove, PairIssued DEF Renewed, IInv
    <3>2. QED
      BY <1>2, <2>1, <3>1
  <2>4. QED
    BY <2>2, <2>3
<1>3. QED
  BY <1>1, <1>2, FoundByStep

LEMMA ReplacingNext ==
    ASSUME IInv, Shapes, RefreshInv, [Next]_vars, NEW i \in DOMAIN sessions', sessions'[i].active,
           sessions'[i].jti \in DOMAIN blacklist'
    PROVE  \E j \in Requests' : Replacing(j, i)'
<1>1. DOMAIN blacklist \subseteq DOMAIN tokens /\ job \in [Procs -> Job] /\ \A p \in Procs : job[p].todo \in Seq(Calls)
  BY DEF IInv, DeniedOK, JobsOK, Job
<1>2. Stays(i)
  BY <1>1, SessionsMove, PairIssued DEF Renewed, IInv
<1>3. /\ i \in DOMAIN sessions /\ sessions'[i].jti = sessions[i].jti /\ sessions[i].active
      /\ sessions[i].jti \in DOMAIN tokens /\ tokens[sessions[i].jti].type = "refresh"
  BY <1>2 DEF Stays, RefreshInv, TokenOfSession
<1>4. CASE sessions[i].jti \in DOMAIN blacklist
  <2>1. PICK j \in Requests : Replacing(j, i)
    BY <1>3, <1>4 DEF RefreshInv
  <2>2. ASSUME NEW p \in Procs, job[p] = j
        PROVE  ~Step(p)
    <3>1. Replacing(job[p], i)
      BY <2>1, <2>2
    <3>2. ~Rotate(p)
      <4>1. ASSUME Rotate(p)
            PROVE  FALSE
        <5>1. job[p].session = i /\ tokens' = tokens \o NewPair
          BY <3>1, <4>1 DEF Replacing, Rotate, Does, At
        <5>2. sessions'[i].jti = NewRefresh
          BY <1>3, <4>1, <5>1 DEF Rotate, IInv, SessionsOK, Session
        <5>3. QED
          BY <1>3, <5>1, <5>2, PairIssued DEF IInv
      <4>2. QED
        BY <4>1
    <3>3. ~EndSession(p)
      <4>1. ASSUME EndSession(p)
            PROVE  FALSE
        <5>1. job[p].refresh = sessions[i].jti
          BY <3>1, <4>1 DEF Replacing, EndSession, Does, At
        <5>2. i \in SessionsOf(job[p])
          BY <1>3, <5>1 DEF SessionsOf
        <5>3. ~sessions'[i].active
          BY <1>3, <4>1, <5>2 DEF EndSession, EndThese, IInv, SessionsOK, Session
        <5>4. QED
          BY <5>3
      <4>2. QED
        BY <4>1
    <3>4. job[p].todo # <<>> /\ Head(job[p].todo) \in {"rotate", "endSession"}
      <4>1. /\ <<"rotate">> # <<>> /\ Head(<<"rotate">>) = "rotate"
            /\ <<"endSession">> # <<>> /\ Head(<<"endSession">>) = "endSession"
        OBVIOUS
      <4>2. job[p].todo = <<"rotate">> \/ job[p].todo = <<"endSession">>
        BY <3>1 DEF Replacing
      <4>3. CASE job[p].todo = <<"rotate">>
        BY <4>1, <4>3
      <4>4. CASE job[p].todo = <<"endSession">>
        BY <4>1, <4>4
      <4>5. QED
        BY <4>2, <4>3, <4>4
    <3>5. QED
      BY <3>2, <3>3, <3>4 DEF Step, FindUser, InsertUser, IssueOtp, ClearOtp, SetVerified, SetPassword, SetTwoFactor,
         Deactivate, Activate, SetEmail, InsertSession, EndSessions, FindRevoked, FindSession, Revoke,
         AuthToken, AuthUser, RevokeAccess, RevokeRefresh, Does, At
  <2>3. j.todo # <<>>
    <3>1. <<"rotate">> # <<>> /\ <<"endSession">> # <<>>
      OBVIOUS
    <3>2. QED
      BY <2>1, <3>1 DEF Replacing
  <2>4. j \in Requests'
    BY <2>2, <2>3, Waits
  <2>5. QED
    BY <1>3, <2>1, <2>4 DEF Replacing
<1>5. CASE sessions[i].jti \notin DOMAIN blacklist
  <2>1. PICK p \in Procs : Revoke(p) \/ RevokeRefresh(p) \/ RevokeAccess(p)
    BY <1>3, <1>5 DEF Next, Step, Fail, Begin, FindUser, InsertUser, IssueOtp, ClearOtp, SetVerified, SetPassword,
       SetTwoFactor, Deactivate, Activate, SetEmail, InsertSession, Rotate, EndSessions, EndSession, EndThese,
       FindRevoked, FindSession, AuthToken, AuthUser, Reads, Update, UpdateAndSend, Tick, OtpExpires,
       ForgetRevoked, ForgetSession, denied, vars
  <2>2. CASE Revoke(p)
    <3>1. sessions[i].jti = job[p].refresh
      BY <1>3, <1>5, <2>2 DEF Revoke, BlacklistRefresh, Blacklist
    <3>2. At(p, "revoke") /\ Tail(job[p].todo) = <<"rotate">> /\ Continue(p)
      BY <2>2, AfterCall DEF Revoke, Does
    <3>3. job[p].todo = <<"revoke", "rotate">>
      <4>1. Len(job[p].todo) = 2 /\ job[p].todo[1] = "revoke" /\ job[p].todo[2] = "rotate"
        <5> DEFINE t == job[p].todo
                   r == <<"rotate">>
        <5>1. Len(r) = 1 /\ r[1] = "rotate"
          OBVIOUS
        <5>2. t \in Seq(Calls) /\ t # <<>> /\ Head(t) = "revoke" /\ Tail(t) = r
          BY <1>1, <3>2 DEF At
        <5> HIDE DEF t, r
        <5>3. Len(t) = 2 /\ t[2] = r[1]
          BY <5>1, <5>2, FirstAndOthers
        <5>4. t[1] = "revoke"
          BY <5>2, FirstAndOthers
        <5>5. QED
          BY <5>1, <5>3, <5>4 DEF t
      <4>2. \A t \in Seq(Calls) : Len(t) = 2 => t = <<t[1], t[2]>>
        OBVIOUS
      <4>3. QED
        BY <1>1, <4>1, <4>2
    <3>4. i = job[p].session
      BY <1>3, <3>1, <3>3 DEF RefreshInv, Found
    <3>5. /\ job'[p].todo = <<"rotate">> /\ job'[p].session = job[p].session
          /\ job'[p].refresh = job[p].refresh
      BY <1>1, <3>2 DEF Continue, Job
    <3>6. QED
      BY <1>3, <3>1, <3>4, <3>5 DEF Replacing, Requests
  <2>3. CASE RevokeRefresh(p)
    <3>1. sessions[i].jti = job[p].refresh
      BY <1>3, <1>5, <2>3 DEF RevokeRefresh, BlacklistRefresh, Blacklist
    <3>2. At(p, "revokeRefresh") /\ Tail(job[p].todo) = <<"endSession">> /\ Continue(p)
      BY <2>3, AfterCall DEF RevokeRefresh, Does
    <3>3. job'[p].todo = <<"endSession">> /\ job'[p].refresh = job[p].refresh
      BY <1>1, <3>2 DEF Continue, Job
    <3>4. QED
      BY <1>3, <3>1, <3>3 DEF Replacing, Requests
  <2>4. CASE RevokeAccess(p)
    <3>1. sessions[i].jti = job[p].access
      BY <1>3, <1>5, <2>4 DEF RevokeAccess, Blacklist
    <3>2. 1 \in DOMAIN job[p].todo /\ job[p].todo[1] = "revokeAccess"
      BY <1>1, <2>4 DEF RevokeAccess, At
    <3>3. tokens[job[p].access].type = "access"
      BY <3>2 DEF IInv, JobsOK, TodoOK
    <3>4. QED
      BY <1>3, <3>1, <3>3
  <2>5. QED
    BY <2>1, <2>2, <2>3, <2>4
<1>6. QED
  BY <1>4, <1>5

\* Once no request is at work, every active session can be refreshed: its
\* token decodes as long as the session lasts, and the request that revoked it
\* gave the session another one or ended it, whatever came in between, or died
\* before it did.
THEOREM SessionsCanBeRefreshed == Spec => []SessionsRefreshable
<1>1. Init => RefreshInv
  <2> SUFFICES ASSUME Init
               PROVE  RefreshInv
    OBVIOUS
  <2>1. NoJob.todo = <<>> /\ <<"revoke", "rotate">> # <<>>
    BY DEF NoJob
  <2>2. \A p \in Procs : Found(p)
    BY <2>1 DEF Init, Found
  <2>3. CASE sessions = <<>>
    BY <2>2, <2>3 DEF RefreshInv
  <2>4. CASE /\ tokens = <<[type |-> "access", exp |-> AccessLife], [type |-> "refresh", exp |-> RefreshLife]>>
             /\ sessions = [i \in {2} |-> [jti |-> 2, active |-> TRUE, ends |-> RefreshLife, made |-> 1]]
    <3>1. now = 0 /\ DOMAIN blacklist = {}
      BY DEF Init
    <3>2. QED
      BY <2>2, <2>4, <3>1, LivesAssumption DEF RefreshInv, TokenOfSession
  <2>5. QED
    BY <2>3, <2>4 DEF Init
<1>2. IInv /\ PasswordInv /\ RefreshInv /\ [Next]_vars => RefreshInv'
  BY TokensNext, FoundNext, ReplacingNext DEF RefreshInv, PasswordInv
<1>3. IInv /\ RefreshInv => SessionsRefreshable
  <2>1. <<"rotate">> # <<>> /\ <<"endSession">> # <<>>
    OBVIOUS
  <2>2. AtRest => \A j \in Requests : \A i : Replacing(j, i) => j \in failed
    BY <2>1, RestOfDead DEF Replacing
  <2> SUFFICES ASSUME IInv, RefreshInv, AtRest, NEW i \in DOMAIN sessions, sessions[i].active, sessions[i].ends > now
               PROVE  LET j == sessions[i].jti
                      IN  \/ tokens[j].type = "refresh" /\ Decodes(j) /\ j \notin DOMAIN blacklist
                          \/ \E r \in failed : Replacing(r, i)
    BY DEF SessionsRefreshable
  <2>3. /\ tokens[sessions[i].jti].type = "refresh" /\ tokens[sessions[i].jti].exp >= sessions[i].ends
        /\ sessions[i].jti \notin DOMAIN blacklist \/ \E r \in failed : Replacing(r, i)
    BY <2>2 DEF RefreshInv, TokenOfSession
  <2>4. tokens[sessions[i].jti].exp \in Nat /\ sessions[i].ends \in Nat /\ now \in Nat
    BY TokenType DEF IInv, SessionsOK, Session, TokensOK, RefreshInv, TokenOfSession
  <2>5. QED
    BY <2>3, <2>4 DEF Decodes
<1>4. QED
  BY <1>1, <1>2, <1>3, PasswordInvariance, PTL DEF Spec
=============================================================================
