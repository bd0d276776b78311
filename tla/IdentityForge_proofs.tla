------------------------ MODULE IdentityForge_proofs ------------------------
(***************************************************************************)
(* Theorems about IdentityForge, for every set of users, requests and ids. *)
(***************************************************************************)
EXTENDS IdentityForge, TLAPS

\* A request that awaits a call holds the local variables that call needs.
LEMMA RequestShapes ==
  ASSUME NEW q \in Request
  PROVE  /\ q.at \in {"authenticated", "authorized"} =>
              q \in [at: {"authenticated", "authorized"}, op: UserOps \cup AdminOps,
                     user: Users, sid: Sids]
         /\ q.at \in UserPoints => q \in [at: UserPoints, user: Users]
         /\ q.at \in LinkPoints => q \in [at: LinkPoints, user: Users, link: Links]
         /\ q.at = "login.lock" =>
              q \in [at: {"login.lock"}, user: Users, since: Nat]
         /\ q.at \in CreatePoints =>
              q \in [at: CreatePoints, user: Users, link: Links, since: Nat]
         /\ q.at = "login.commit" =>
              q \in [at: {"login.commit"}, user: Users, password: Passwords,
                     sid: Sids, jti: Jtis, since: Nat]
         /\ q.at = "refresh.commit" =>
              q \in [at: {"refresh.commit"}, user: Users, old: Jtis, sid: Sids,
                     jti: Jtis, since: Nat]
         /\ q.at = "changePassword.commit" =>
              q \in [at: {"changePassword.commit"}, user: Users, password: Passwords]
         /\ q.at = "signup.commit" =>
              q \in [at: {"signup.commit"}, user: Users, password: Passwords,
                     link: Links, since: Nat]
         /\ q.at = "reset.commit" =>
              q \in [at: {"reset.commit"}, user: Users, password: Passwords,
                     link: Links]
         /\ q.at = "updateRole.commit" =>
              q \in [at: {"updateRole.commit"}, user: Users, role: {"USER", "ADMIN"}]
         /\ q.at = "updateStatus.commit" =>
              q \in [at: {"updateStatus.commit"}, user: Users,
                     status: {"ACTIVE", "SUSPENDED", "BANNED"}]
BY DEF Request, Idle, UserPoints, LinkPoints, CreatePoints

LEMMA AwaitType ==
  ASSUME TypeOK, NEW r \in Requests, NEW q \in Request, Await(r, q)
  PROVE  req' \in [Requests -> Request]
BY DEF TypeOK, Await

LEMMA AnswerType ==
  ASSUME TypeOK, NEW r \in Requests, Answer(r)
  PROVE  req' \in [Requests -> Request]
<1>1. Idle \in Request  BY DEF Request
<1> QED  BY <1>1, AwaitType DEF Answer

\* The points whose request dates what it writes.
StampPoints == CreatePoints \cup {"login.lock", "login.commit", "refresh.commit",
                                 "signup.commit"}

LEMMA StampType ==
  ASSUME TypeOK, NEW r \in Requests, req[r].at \in StampPoints
  PROVE  /\ req[r].since \in Nat /\ now \in Nat
         /\ \A stamp \in Stamps(req[r]) :
              /\ stamp \in Nat /\ req[r].since <= stamp /\ stamp <= now
              /\ RefreshExpiresAt(stamp) \in Nat
              /\ LinkExpiresAt(stamp) \in Nat
              /\ stamp + ACCOUNT_LOCK_DURATION \in Nat
<1>1. req[r] \in Request /\ now \in Nat  BY DEF TypeOK
<1>2. req[r].since \in Nat
  BY <1>1, RequestShapes DEF StampPoints, CreatePoints
<1> QED  BY <1>1, <1>2, DurationsAssumption
         DEF Stamps, RefreshExpiresAt, LinkExpiresAt

\* The rows and the pair of a sign-in, all with one stamp.
LEMMA LoginCommitRows ==
  ASSUME TypeOK, NEW r \in Requests, LoginCommit(r)
  PROVE  \E stamp \in Stamps(req[r]),
            s \in SessionRow, t \in RefreshTokenRow, p \in TokenPair :
           /\ session' = session \cup {s} /\ refreshToken' = refreshToken \cup {t}
           /\ issued' = issued \cup {p}
           /\ s.id = req[r].sid /\ s.userId = req[r].user
           /\ s.expiresAt = RefreshExpiresAt(stamp)
           /\ t.jti = req[r].jti /\ t.userId = req[r].user
           /\ t.sessionId = req[r].sid /\ t.expiresAt = RefreshExpiresAt(stamp)
           /\ p.jti = req[r].jti /\ p.sub = req[r].user /\ p.sid = req[r].sid
           /\ p.parent = NoJti /\ p.password = req[r].password /\ p.iat = stamp
<1> DEFINE q == req[r]
           s(stamp) == [id |-> q.sid, userId |-> q.user, isCurrent |-> TRUE,
                        expiresAt |-> RefreshExpiresAt(stamp)]
           t(stamp) == [jti |-> q.jti, userId |-> q.user, sessionId |-> q.sid,
                        expiresAt |-> RefreshExpiresAt(stamp)]
           p(stamp) == [jti |-> q.jti, sub |-> q.user, sid |-> q.sid,
                        parent |-> NoJti, password |-> q.password, iat |-> stamp]
<1>1. PICK stamp \in Stamps(q) : /\ session' = session \cup {s(stamp)}
                                 /\ refreshToken' = refreshToken \cup {t(stamp)}
                                 /\ issued' = issued \cup {p(stamp)}
  BY DEF LoginCommit
<1>2. /\ q.user \in Users /\ q.password \in Passwords
      /\ q.sid \in Sids /\ q.jti \in Jtis
  BY RequestShapes DEF LoginCommit, TypeOK
<1>3. stamp \in Nat /\ RefreshExpiresAt(stamp) \in Nat
  BY StampType DEF LoginCommit, StampPoints
<1>4. s(stamp) \in SessionRow
  <2>1. TRUE \in BOOLEAN  OBVIOUS
  <2> HIDE DEF q
  <2> QED  BY <1>2, <1>3, <2>1, Zenon DEF SessionRow
<1>5. t(stamp) \in RefreshTokenRow  BY <1>2, <1>3 DEF RefreshTokenRow
<1>6. p(stamp) \in TokenPair  BY <1>2, <1>3 DEF TokenPair
<1>7. /\ s(stamp).id = q.sid /\ s(stamp).userId = q.user
      /\ s(stamp).expiresAt = RefreshExpiresAt(stamp)
      /\ t(stamp).jti = q.jti /\ t(stamp).userId = q.user
      /\ t(stamp).sessionId = q.sid /\ t(stamp).expiresAt = RefreshExpiresAt(stamp)
      /\ p(stamp).jti = q.jti /\ p(stamp).sub = q.user /\ p(stamp).sid = q.sid
      /\ p(stamp).parent = NoJti /\ p(stamp).password = q.password
      /\ p(stamp).iat = stamp
  OBVIOUS
<1> HIDE DEF s, t, p
<1> QED  BY <1>1, <1>4, <1>5, <1>6, <1>7

\* The row and the pair a rotation puts in the place of the old ones.
LEMMA RefreshCommitRows ==
  ASSUME TypeOK, NEW r \in Requests, RefreshCommit(r)
  PROVE  \E stamp \in Stamps(req[r]), o \in issued,
            t \in RefreshTokenRow, n \in TokenPair :
           /\ session' = session /\ issued' = issued \cup {n}
           /\ refreshToken' = {x \in refreshToken : x.jti # req[r].old} \cup {t}
           /\ o.jti = req[r].old
           /\ t.jti = req[r].jti /\ t.userId = req[r].user
           /\ t.sessionId = req[r].sid /\ t.expiresAt = RefreshExpiresAt(stamp)
           /\ n.jti = req[r].jti /\ n.parent = req[r].old /\ n.iat = stamp
           /\ n.sid = o.sid /\ n.sub = o.sub /\ n.password = o.password
<1> DEFINE q == req[r]
           t(stamp) == [jti |-> q.jti, userId |-> q.user, sessionId |-> q.sid,
                        expiresAt |-> RefreshExpiresAt(stamp)]
           n(stamp, o) == [o EXCEPT !.jti = q.jti, !.parent = q.old, !.iat = stamp]
<1>1. PICK stamp \in Stamps(q), o \in issued :
        /\ session' = session /\ issued' = issued \cup {n(stamp, o)}
        /\ refreshToken' = {x \in refreshToken : x.jti # q.old} \cup {t(stamp)}
        /\ o.jti = q.old
  BY DEF RefreshCommit
<1>2. q.user \in Users /\ q.old \in Jtis /\ q.sid \in Sids /\ q.jti \in Jtis
  BY RequestShapes DEF RefreshCommit, TypeOK
<1>3. stamp \in Nat /\ RefreshExpiresAt(stamp) \in Nat
  BY StampType DEF RefreshCommit, StampPoints
<1>4. o \in TokenPair  BY DEF TypeOK
<1>5. t(stamp) \in RefreshTokenRow  BY <1>2, <1>3 DEF RefreshTokenRow
<1>6. n(stamp, o) \in TokenPair  BY <1>2, <1>3, <1>4 DEF TokenPair
<1>7. /\ t(stamp).jti = q.jti /\ t(stamp).userId = q.user
      /\ t(stamp).sessionId = q.sid /\ t(stamp).expiresAt = RefreshExpiresAt(stamp)
  OBVIOUS
<1>8. /\ n(stamp, o).jti = q.jti /\ n(stamp, o).parent = q.old
      /\ n(stamp, o).iat = stamp /\ n(stamp, o).sid = o.sid
      /\ n(stamp, o).sub = o.sub /\ n(stamp, o).password = o.password
  BY <1>4 DEF TokenPair
<1> HIDE DEF t, n
<1> QED  BY <1>1, <1>5, <1>6, <1>7, <1>8

LEMMA PurgeType ==
  ASSUME TypeOK, NEW u \in Users, Purge(u)
  PROVE  /\ session' \subseteq SessionRow
         /\ refreshToken' \subseteq RefreshTokenRow
         /\ issued' \subseteq TokenPair
BY DEF TypeOK, Purge, EndSessionsOf

LEMMA StatusEditType ==
  ASSUME NEW f \in [Users -> UserRow], NEW u \in Users, NEW s \in Statuses,
         NEW b \in BOOLEAN
  PROVE  /\ [f EXCEPT ![u].isEmailVerified = b, ![u].status = s]
               \in [Users -> UserRow]
         /\ [f EXCEPT ![u].status = s, ![u].deletedAt = b] \in [Users -> UserRow]
<1>1. [f EXCEPT ![u].isEmailVerified = b, ![u].status = s] \in [Users -> UserRow]
  BY DEF UserRow
<1>2. [f EXCEPT ![u].status = s, ![u].deletedAt = b] \in [Users -> UserRow]
  BY DEF UserRow
<1> QED  BY <1>1, <1>2

LEMMA InitType == ASSUME Init PROVE TypeOK
<1>1. (CHOOSE p \in Passwords : TRUE) \in Passwords  BY PasswordsAssumption
<1>2. user \in [Users -> UserRow]  BY <1>1 DEF Init, NewUser, UserRow, Statuses
<1>3. Idle \in Request  BY DEF Request
<1> QED  BY <1>2, <1>3 DEF Init, TypeOK

LEMMA AuthStepType ==
  ASSUME TypeOK, NEW r \in Requests, AuthStep(r)
  PROVE  TypeOK'
<1>0. req[r] \in Request  BY DEF TypeOK
<1>1. CASE LoginCount(r)
  <2> DEFINE u == req[r].user
             attempts == user[u].failedLoginAttempts + 1
  <2>1. u \in Users  BY <1>0, <1>1, RequestShapes DEF LoginCount, UserPoints
  <2>2. attempts \in Nat  BY <2>1 DEF TypeOK, UserRow
  <2>3. user' \in [Users -> UserRow]
    BY <1>1, <2>1, <2>2 DEF LoginCount, TypeOK, UserRow
  <2>4. [at |-> "login.lock", user |-> u, since |-> now] \in Request
    BY <2>1 DEF Request, TypeOK
  <2>5. req' \in [Requests -> Request]
    BY <1>1, <2>4, AwaitType, AnswerType DEF LoginCount
  <2> QED  BY <1>1, <2>3, <2>5 DEF LoginCount, TypeOK, tokenVars, linkVars
<1>2. CASE LoginLock(r)
  <2>1. req[r].user \in Users  BY <1>0, <1>2, RequestShapes DEF LoginLock
  <2>2. PICK stamp \in Stamps(req[r]) :
          user' = [user EXCEPT ![req[r].user].lockUntil =
                                 stamp + ACCOUNT_LOCK_DURATION]
    BY <1>2 DEF LoginLock
  <2>a. stamp + ACCOUNT_LOCK_DURATION \in Nat
    BY <1>2, StampType DEF LoginLock, StampPoints
  <2>3. user' \in [Users -> UserRow]
    BY <2>1, <2>2, <2>a DEF TypeOK, UserRow
  <2>4. req' \in [Requests -> Request]  BY <1>2, AnswerType DEF LoginLock
  <2> QED  BY <1>2, <2>3, <2>4 DEF LoginLock, TypeOK, tokenVars, linkVars
<1>3. CASE LoginCommit(r)
  <2>1. /\ session' \subseteq SessionRow /\ refreshToken' \subseteq RefreshTokenRow
        /\ issued' \subseteq TokenPair
    BY <1>3, LoginCommitRows DEF TypeOK
  <2>2. user' \in [Users -> UserRow]
    <3>1. req[r].user \in Users  BY <1>0, <1>3, RequestShapes DEF LoginCommit
    <3>2. user' = [user EXCEPT ![req[r].user].failedLoginAttempts = 0,
                               ![req[r].user].lockUntil = 0]
      BY <1>3 DEF LoginCommit
    <3> QED  BY <3>1, <3>2 DEF TypeOK, UserRow
  <2>3. req' \in [Requests -> Request]  BY <1>3, AnswerType DEF LoginCommit
  <2> QED  BY <1>3, <2>1, <2>2, <2>3 DEF LoginCommit, TypeOK, linkVars
<1>4. CASE RefreshCommit(r)
  <2>1. refreshToken' \subseteq RefreshTokenRow /\ issued' \subseteq TokenPair
    BY <1>4, RefreshCommitRows DEF TypeOK
  <2>2. req' \in [Requests -> Request]  BY <1>4, AnswerType DEF RefreshCommit
  <2> QED  BY <1>4, <2>1, <2>2 DEF RefreshCommit, TypeOK, linkVars
<1>5. CASE RefreshLost(r)
  <2>1. req' \in [Requests -> Request]  BY <1>5, AnswerType DEF RefreshLost
  <2> QED  BY <1>5, <2>1 DEF RefreshLost, TypeOK, tokenVars, linkVars
<1>6. CASE \E current, new \in Passwords : ChangePasswordRead(r, current, new)
  <2>1. PICK current, new \in Passwords : ChangePasswordRead(r, current, new)
    BY <1>6
  <2>2. req[r].user \in Users
    BY <1>0, <2>1, RequestShapes DEF ChangePasswordRead
  <2>3. [at |-> "changePassword.commit", user |-> req[r].user, password |-> new]
          \in Request
    BY <2>2 DEF Request
  <2>4. req' \in [Requests -> Request]
    BY <2>1, <2>3, AwaitType, AnswerType DEF ChangePasswordRead
  <2> QED  BY <2>1, <2>4 DEF ChangePasswordRead, TypeOK, tokenVars, linkVars
<1>7. CASE ChangePasswordCommit(r)
  <2>1. req[r].user \in Users /\ req[r].password \in Passwords
    BY <1>0, <1>7, RequestShapes DEF ChangePasswordCommit
  <2>2. user' \in [Users -> UserRow]
    BY <1>7, <2>1 DEF ChangePasswordCommit, TypeOK, UserRow
  <2>3. req' \in [Requests -> Request]  BY <1>7, AnswerType DEF ChangePasswordCommit
  <2> QED  BY <1>7, <2>1, <2>2, <2>3, PurgeType
           DEF ChangePasswordCommit, TypeOK, linkVars
<1>8. CASE RevokeAllSessions(r)
  <2>1. req[r].user \in Users  BY <1>0, <1>8, RequestShapes DEF RevokeAllSessions
  <2>2. req' \in [Requests -> Request]  BY <1>8, AnswerType DEF RevokeAllSessions
  <2> QED  BY <1>8, <2>1, <2>2, PurgeType DEF RevokeAllSessions, TypeOK, linkVars
<1> QED  BY <1>1, <1>2, <1>3, <1>4, <1>5, <1>6, <1>7, <1>8 DEF AuthStep

LEMMA RecoveryStepType ==
  ASSUME TypeOK, NEW r \in Requests, RecoveryStep(r)
  PROVE  TypeOK'
<1>0. req[r] \in Request  BY DEF TypeOK
<1>1. CASE SignupCommit(r)
  <2>1. /\ req[r].user \in Users /\ req[r].password \in Passwords
        /\ req[r].link \in Links
    BY <1>0, <1>1, RequestShapes DEF SignupCommit
  <2>2. NewUser(req[r].password) \in UserRow
    BY <2>1 DEF NewUser, UserRow, Statuses
  <2>3. user' \in [Users -> UserRow]  BY <1>1, <2>1, <2>2 DEF SignupCommit, TypeOK
  <2>4. \A stamp \in Stamps(req[r]) : LinkExpiresAt(stamp) \in Nat
    BY <1>1, StampType DEF SignupCommit, StampPoints
  <2>5. emailVerificationToken' \subseteq EmailVerificationTokenRow
    BY <1>1, <2>1, <2>4 DEF SignupCommit, TypeOK, EmailVerificationTokenRow
  <2>6. [at |-> "enqueue", user |-> req[r].user, link |-> req[r].link] \in Request
    BY <2>1 DEF Request, LinkPoints
  <2>7. req' \in [Requests -> Request]  BY <1>1, <2>6, AwaitType DEF SignupCommit
  <2> QED  BY <1>1, <2>3, <2>5, <2>7 DEF SignupCommit, TypeOK, tokenVars
<1>2. CASE SignupLost(r)
  <2>1. req' \in [Requests -> Request]  BY <1>2, AnswerType DEF SignupLost
  <2> QED  BY <1>2, <2>1 DEF SignupLost, TypeOK, tokenVars, linkVars
<1>3. CASE VerifyCommit(r)
  <2>1. req[r].user \in Users
    BY <1>0, <1>3, RequestShapes DEF VerifyCommit, LinkPoints
  <2>2. user' \in [Users -> UserRow]
    <3>1. "ACTIVE" \in Statuses /\ TRUE \in BOOLEAN  BY DEF Statuses
    <3> QED  BY <1>3, <2>1, <3>1, StatusEditType, Zenon DEF VerifyCommit, TypeOK
  <2>3. req' \in [Requests -> Request]  BY <1>3, AnswerType DEF VerifyCommit
  <2> QED  BY <1>3, <2>2, <2>3 DEF VerifyCommit, TypeOK, tokenVars
<1>4. CASE VerifyLost(r)
  <2>1. req' \in [Requests -> Request]  BY <1>4, AnswerType DEF VerifyLost
  <2> QED  BY <1>4, <2>1 DEF VerifyLost, TypeOK, tokenVars, linkVars
<1>5. CASE ResendRead(r)
  <2>1. req[r].user \in Users  BY <1>0, <1>5, RequestShapes DEF ResendRead
  <2>2. [at |-> "resend.delete", user |-> req[r].user] \in Request
    BY <2>1 DEF Request, UserPoints
  <2>3. req' \in [Requests -> Request]
    BY <1>5, <2>2, AwaitType, AnswerType DEF ResendRead
  <2> QED  BY <1>5, <2>3 DEF ResendRead, TypeOK, tokenVars, linkVars
<1>6. CASE ResendDelete(r)
  <2>1. req[r].user \in Users
    BY <1>0, <1>6, RequestShapes DEF ResendDelete, UserPoints
  <2>2. req' \in [Requests -> Request]
    <3>1. CASE FreshLinks = {}  BY <1>6, <3>1, AnswerType DEF ResendDelete
    <3>2. CASE FreshLinks # {}
      <4>1. PICK link \in FreshLinks :
              Await(r, [at |-> "resend.create", user |-> req[r].user,
                        link |-> link, since |-> now])
        BY <1>6, <3>2 DEF ResendDelete
      <4>2. link \in Links  BY DEF FreshLinks
      <4>3. [at |-> "resend.create", user |-> req[r].user,
             link |-> link, since |-> now] \in Request
        BY <2>1, <4>2 DEF Request, CreatePoints, TypeOK
      <4> QED  BY <4>1, <4>3, AwaitType
    <3> QED  BY <3>1, <3>2
  <2> QED  BY <1>6, <2>2 DEF ResendDelete, TypeOK, tokenVars
<1>7. CASE ResendCreate(r)
  <2>1. req[r].user \in Users /\ req[r].link \in Links
    BY <1>0, <1>7, RequestShapes DEF ResendCreate, CreatePoints
  <2>2. \A stamp \in Stamps(req[r]) : LinkExpiresAt(stamp) \in Nat
    BY <1>7, StampType DEF ResendCreate, StampPoints, CreatePoints
  <2>3. emailVerificationToken' \subseteq EmailVerificationTokenRow
    BY <1>7, <2>1, <2>2 DEF ResendCreate, TypeOK, EmailVerificationTokenRow
  <2>4. [at |-> "enqueue", user |-> req[r].user, link |-> req[r].link] \in Request
    BY <2>1 DEF Request, LinkPoints
  <2>5. req' \in [Requests -> Request]  BY <1>7, <2>4, AwaitType DEF ResendCreate
  <2> QED  BY <1>7, <2>3, <2>5 DEF ResendCreate, TypeOK, tokenVars
<1>8. CASE ForgotDelete(r)
  <2>a. req[r].user \in Users /\ req[r].link \in Links
    BY <1>0, <1>8, RequestShapes DEF ForgotDelete, LinkPoints
  <2>1. [at |-> "forgot.create", user |-> req[r].user, link |-> req[r].link,
         since |-> now] \in Request
    BY <2>a DEF Request, CreatePoints, TypeOK
  <2>2. req' \in [Requests -> Request]  BY <1>8, <2>1, AwaitType DEF ForgotDelete
  <2> QED  BY <1>8, <2>2 DEF ForgotDelete, TypeOK, tokenVars
<1>9. CASE ForgotCreate(r)
  <2>1. req[r].user \in Users /\ req[r].link \in Links
    BY <1>0, <1>9, RequestShapes DEF ForgotCreate, CreatePoints
  <2>a. PICK stamp \in Stamps(req[r]) :
          passwordResetToken' = passwordResetToken \cup
            {[link |-> req[r].link, userId |-> req[r].user,
              expiresAt |-> LinkExpiresAt(stamp), usedAt |-> FALSE]}
    BY <1>9 DEF ForgotCreate
  <2>2. LinkExpiresAt(stamp) \in Nat
    BY <1>9, StampType DEF ForgotCreate, StampPoints, CreatePoints
  <2> DEFINE row == [link |-> req[r].link, userId |-> req[r].user,
                     expiresAt |-> LinkExpiresAt(stamp), usedAt |-> FALSE]
  <2>3. row \in PasswordResetTokenRow
    <3>1. FALSE \in BOOLEAN  OBVIOUS
    <3> QED  BY <2>1, <2>2, <3>1, Zenon DEF PasswordResetTokenRow
  <2>4. passwordResetToken' \subseteq PasswordResetTokenRow
    <3>1. passwordResetToken' = passwordResetToken \cup {row}  BY <2>a
    <3> HIDE DEF row
    <3> QED  BY <2>3, <3>1 DEF TypeOK
  <2>5. [at |-> "enqueue", user |-> req[r].user, link |-> req[r].link] \in Request
    BY <2>1 DEF LinkPoints, Request
  <2>6. req' \in [Requests -> Request]  BY <1>9, <2>5, AwaitType DEF ForgotCreate
  <2> QED  BY <1>9, <2>4, <2>6 DEF ForgotCreate, TypeOK, tokenVars
<1>10. CASE ResetCommit(r)
  <2>1. req[r].user \in Users /\ req[r].password \in Passwords
    BY <1>0, <1>10, RequestShapes DEF ResetCommit
  <2>2. user' \in [Users -> UserRow]
    BY <1>10, <2>1 DEF ResetCommit, TypeOK, UserRow
  <2>3. passwordResetToken' \subseteq PasswordResetTokenRow
    BY <1>10 DEF ResetCommit, TypeOK, PasswordResetTokenRow
  <2>4. req' \in [Requests -> Request]  BY <1>10, AnswerType DEF ResetCommit
  <2> QED  BY <1>10, <2>1, <2>2, <2>3, <2>4, PurgeType DEF ResetCommit, TypeOK
<1>11. CASE ResetLost(r)
  <2>1. req' \in [Requests -> Request]  BY <1>11, AnswerType DEF ResetLost
  <2> QED  BY <1>11, <2>1 DEF ResetLost, TypeOK, tokenVars, linkVars
<1>12. CASE Enqueue(r)
  <2>1. req[r].user \in Users /\ req[r].link \in Links
    BY <1>0, <1>12, RequestShapes DEF Enqueue, LinkPoints
  <2>2. req' \in [Requests -> Request]  BY <1>12, AnswerType DEF Enqueue
  <2> QED  BY <1>12, <2>1, <2>2 DEF Enqueue, TypeOK, tokenVars
<1> QED
  BY <1>1, <1>2, <1>3, <1>4, <1>5, <1>6, <1>7, <1>8, <1>9, <1>10, <1>11, <1>12
  DEF RecoveryStep

LEMMA AdminStepType ==
  ASSUME TypeOK, NEW r \in Requests, AdminStep(r)
  PROVE  TypeOK'
<1>0. req[r] \in Request  BY DEF TypeOK
<1>1. ASSUME NEW u \in Users, SoftDelete(u)
      PROVE  /\ user' \in [Users -> UserRow]
             /\ session' \subseteq SessionRow
             /\ refreshToken' \subseteq RefreshTokenRow
             /\ issued' \subseteq TokenPair
  <2>1. user' \in [Users -> UserRow]
    <3>1. "DELETED" \in Statuses /\ TRUE \in BOOLEAN  BY DEF Statuses
    <3> QED  BY <1>1, <3>1, StatusEditType, Zenon DEF SoftDelete, TypeOK
  <2> QED  BY <1>1, <2>1, PurgeType DEF SoftDelete
<1>2. CASE DeleteAccountRead(r)
  <2>1. req[r].user \in Users  BY <1>0, <1>2, RequestShapes DEF DeleteAccountRead, At
  <2>2. [at |-> "deleteAccount.commit", user |-> req[r].user] \in Request
    BY <2>1 DEF Request, UserPoints
  <2>3. req' \in [Requests -> Request]
    BY <1>2, <2>2, AwaitType, AnswerType DEF DeleteAccountRead
  <2> QED  BY <1>2, <2>3 DEF DeleteAccountRead, TypeOK, tokenVars, linkVars
<1>3. CASE DeleteAccountCommit(r)
  <2>1. req[r].user \in Users
    BY <1>0, <1>3, RequestShapes DEF DeleteAccountCommit, UserPoints
  <2>2. req' \in [Requests -> Request]  BY <1>3, AnswerType DEF DeleteAccountCommit
  <2> QED  BY <1>1, <1>3, <2>1, <2>2 DEF DeleteAccountCommit, TypeOK, linkVars
<1>4. CASE \E sid \in Sids : RevokeSession(r, sid)
  <2>1. req' \in [Requests -> Request]  BY <1>4, AnswerType DEF RevokeSession
  <2> QED  BY <1>4, <2>1 DEF RevokeSession, TypeOK, linkVars
<1>5. CASE AuthenticateAdmin(r)
  <2>1. [req[r] EXCEPT !.at = "authorized"] \in Request
    BY <1>0, <1>5, RequestShapes DEF AuthenticateAdmin, Request
  <2>2. req' \in [Requests -> Request]
    BY <1>5, <2>1, AwaitType, AnswerType DEF AuthenticateAdmin
  <2> QED  BY <1>5, <2>2 DEF AuthenticateAdmin, TypeOK, tokenVars, linkVars
<1>6. CASE \E u \in Users, role \in {"USER", "ADMIN"} :
             UpdateUserRoleRead(r, u, role)
  <2>1. PICK u \in Users, role \in {"USER", "ADMIN"} : UpdateUserRoleRead(r, u, role)
    BY <1>6
  <2>2. [at |-> "updateRole.commit", user |-> u, role |-> role] \in Request
    BY DEF Request
  <2>3. req' \in [Requests -> Request]
    BY <2>1, <2>2, AwaitType, AnswerType DEF UpdateUserRoleRead
  <2> QED  BY <2>1, <2>3 DEF UpdateUserRoleRead, TypeOK, tokenVars, linkVars
<1>7. CASE UpdateUserRoleCommit(r)
  <2>1. req[r].user \in Users /\ req[r].role \in {"USER", "ADMIN"}
    BY <1>0, <1>7, RequestShapes DEF UpdateUserRoleCommit
  <2>2. user' \in [Users -> UserRow]
    BY <1>7, <2>1 DEF UpdateUserRoleCommit, TypeOK, UserRow
  <2>3. req' \in [Requests -> Request]  BY <1>7, AnswerType DEF UpdateUserRoleCommit
  <2> QED  BY <1>7, <2>2, <2>3 DEF UpdateUserRoleCommit, TypeOK, tokenVars, linkVars
<1>8. CASE \E u \in Users, status \in {"ACTIVE", "SUSPENDED", "BANNED"} :
             UpdateUserStatusRead(r, u, status)
  <2>1. PICK u \in Users, status \in {"ACTIVE", "SUSPENDED", "BANNED"} :
          UpdateUserStatusRead(r, u, status)
    BY <1>8
  <2>2. [at |-> "updateStatus.commit", user |-> u, status |-> status] \in Request
    BY DEF Request
  <2>3. req' \in [Requests -> Request]
    BY <2>1, <2>2, AwaitType, AnswerType DEF UpdateUserStatusRead
  <2> QED  BY <2>1, <2>3 DEF UpdateUserStatusRead, TypeOK, tokenVars, linkVars
<1>9. CASE UpdateUserStatusCommit(r)
  <2>1. req[r].user \in Users /\ req[r].status \in {"ACTIVE", "SUSPENDED", "BANNED"}
    BY <1>0, <1>9, RequestShapes DEF UpdateUserStatusCommit
  <2>2. user' \in [Users -> UserRow]
    BY <1>9, <2>1 DEF UpdateUserStatusCommit, TypeOK, UserRow, Statuses
  <2>3. req' \in [Requests -> Request]  BY <1>9, AnswerType DEF UpdateUserStatusCommit
  <2> QED  BY <1>9, <2>2, <2>3 DEF UpdateUserStatusCommit, TypeOK, tokenVars, linkVars
<1>10. CASE \E u \in Users : DeleteUserRead(r, u)
  <2>1. PICK u \in Users : DeleteUserRead(r, u)  BY <1>10
  <2>2. [at |-> "deleteUser.commit", user |-> u] \in Request
    BY DEF Request, UserPoints
  <2>3. req' \in [Requests -> Request]
    BY <2>1, <2>2, AwaitType, AnswerType DEF DeleteUserRead
  <2> QED  BY <2>1, <2>3 DEF DeleteUserRead, TypeOK, tokenVars, linkVars
<1>11. CASE DeleteUserCommit(r)
  <2>1. req[r].user \in Users
    BY <1>0, <1>11, RequestShapes DEF DeleteUserCommit, UserPoints
  <2>2. req' \in [Requests -> Request]  BY <1>11, AnswerType DEF DeleteUserCommit
  <2> QED  BY <1>1, <1>11, <2>1, <2>2 DEF DeleteUserCommit, TypeOK, linkVars
<1> QED
  BY <1>2, <1>3, <1>4, <1>5, <1>6, <1>7, <1>8, <1>9, <1>10, <1>11 DEF AdminStep

LEMMA ArriveType ==
  ASSUME TypeOK, NEW r \in Requests, Arrive(r)
  PROVE  TypeOK'
<1>1. ASSUME NEW q \in Request, Await(r, q),
             UNCHANGED <<user, tokenVars, linkVars, now>>
      PROVE  TypeOK'
  BY <1>1, AwaitType DEF TypeOK, tokenVars, linkVars
<1>2. CASE \E p \in issued, op \in UserOps \cup AdminOps : Authenticate(r, op, p)
  <2>1. PICK p \in issued, op \in UserOps \cup AdminOps : Authenticate(r, op, p)
    BY <1>2
  <2>2. p.sub \in Users /\ p.sid \in Sids  BY DEF TypeOK, TokenPair
  <2>3. [at |-> "authenticated", op |-> op, user |-> p.sub, sid |-> p.sid] \in Request
    BY <2>2 DEF Request
  <2> QED  BY <1>1, <2>1, <2>3 DEF Authenticate
<1>3. CASE \E u \in Users : LoginRefuse(r, u)
  BY <1>3 DEF LoginRefuse, TypeOK, vars, tokenVars, linkVars
<1>4. CASE \E u \in Users, password \in Passwords :
             LoginWrongPassword(r, u, password) \/ LoginRightPassword(r, u, password)
  <2>1. PICK u \in Users, password \in Passwords :
          LoginWrongPassword(r, u, password) \/ LoginRightPassword(r, u, password)
    BY <1>4
  <2>2. CASE LoginWrongPassword(r, u, password)
    <3>1. [at |-> "login.count", user |-> u] \in Request
      BY DEF Request, UserPoints
    <3> QED  BY <1>1, <2>2, <3>1 DEF LoginWrongPassword
  <2>3. CASE LoginRightPassword(r, u, password)
    <3>1. PICK jti \in FreshJtis, sid \in FreshSids :
            Await(r, [at |-> "login.commit", user |-> u, password |-> password,
                      sid |-> sid, jti |-> jti, since |-> now])
      BY <2>3 DEF LoginRightPassword
    <3>2. [at |-> "login.commit", user |-> u, password |-> password,
           sid |-> sid, jti |-> jti, since |-> now] \in Request
      BY DEF Request, FreshJtis, FreshSids, TypeOK
    <3> QED  BY <1>1, <2>3, <3>1, <3>2 DEF LoginRightPassword
  <2> QED  BY <2>1, <2>2, <2>3
<1>5. CASE \E p \in issued : RefreshRead(r, p)
  <2>1. PICK p \in issued : RefreshRead(r, p)  BY <1>5
  <2>2. PICK t \in refreshToken, jti \in FreshJtis :
          Await(r, [at |-> "refresh.commit", user |-> p.sub, old |-> t.jti,
                    sid |-> t.sessionId, jti |-> jti, since |-> now])
    BY <2>1 DEF RefreshRead
  <2>3. /\ p.sub \in Users /\ t.jti \in Jtis /\ t.sessionId \in Sids /\ jti \in Jtis
    BY DEF TypeOK, TokenPair, RefreshTokenRow, FreshJtis
  <2>4. [at |-> "refresh.commit", user |-> p.sub, old |-> t.jti,
         sid |-> t.sessionId, jti |-> jti, since |-> now] \in Request
    BY <2>3 DEF Request, TypeOK
  <2> QED  BY <1>1, <2>1, <2>2, <2>4 DEF RefreshRead
<1>6. CASE \E u \in Users, password \in Passwords : SignupRead(r, u, password)
  <2>1. PICK u \in Users, password \in Passwords : SignupRead(r, u, password)
    BY <1>6
  <2>2. PICK link \in FreshLinks :
          Await(r, [at |-> "signup.commit", user |-> u, password |-> password,
                    link |-> link, since |-> now])
    BY <2>1 DEF SignupRead
  <2>3. [at |-> "signup.commit", user |-> u, password |-> password,
         link |-> link, since |-> now]
          \in Request
    BY DEF Request, FreshLinks, TypeOK
  <2> QED  BY <1>1, <2>1, <2>2, <2>3 DEF SignupRead
<1>7. CASE \E m \in mailed : VerifyRead(r, m)
  <2>1. PICK t \in emailVerificationToken :
          Await(r, [at |-> "verify.commit", user |-> t.userId, link |-> t.link])
    BY <1>7 DEF VerifyRead
  <2>2. t.userId \in Users /\ t.link \in Links
    BY DEF TypeOK, EmailVerificationTokenRow
  <2>3. [at |-> "verify.commit", user |-> t.userId, link |-> t.link] \in Request
    BY <2>2 DEF Request, LinkPoints
  <2> QED  BY <1>1, <1>7, <2>1, <2>3 DEF VerifyRead
<1>8. CASE \E u \in Users : ForgotRead(r, u)
  <2>1. PICK u \in Users : ForgotRead(r, u)  BY <1>8
  <2>2. PICK link \in FreshLinks :
          Await(r, [at |-> "forgot.delete", user |-> u, link |-> link])
    BY <2>1 DEF ForgotRead
  <2>3. [at |-> "forgot.delete", user |-> u, link |-> link] \in Request
    BY DEF Request, LinkPoints, FreshLinks
  <2> QED  BY <1>1, <2>1, <2>2, <2>3 DEF ForgotRead
<1>9. CASE \E m \in mailed, new \in Passwords : ResetRead(r, m, new)
  <2>1. PICK m \in mailed, new \in Passwords : ResetRead(r, m, new)  BY <1>9
  <2>2. PICK t \in passwordResetToken :
          Await(r, [at |-> "reset.commit", user |-> t.userId, password |-> new,
                    link |-> t.link])
    BY <2>1 DEF ResetRead
  <2>3. t.userId \in Users /\ t.link \in Links
    BY DEF TypeOK, PasswordResetTokenRow
  <2>4. [at |-> "reset.commit", user |-> t.userId, password |-> new, link |-> t.link]
          \in Request
    BY <2>3 DEF Request
  <2> QED  BY <1>1, <2>1, <2>2, <2>4 DEF ResetRead
<1> QED
  BY <1>2, <1>3, <1>4, <1>5, <1>6, <1>7, <1>8, <1>9
  DEF Arrive, AuthArrival, RecoveryArrival

LEMMA StepType == ASSUME TypeOK, [Next]_vars PROVE TypeOK'
<1>1. ASSUME NEW r \in Requests, Abort(r) PROVE TypeOK'
  BY <1>1, AnswerType DEF Abort, TypeOK, tokenVars, linkVars
<1>2. ASSUME NEW p \in issued, Logout(p) PROVE TypeOK'
  BY <1>2 DEF Logout, EndSessionsOf, TypeOK, linkVars
<1>3. CASE Tick
  BY <1>3 DEF Tick, TypeOK, tokenVars, linkVars
<1>4. CASE UNCHANGED vars
  BY <1>4 DEF TypeOK, vars, tokenVars, linkVars
<1> QED
  BY <1>1, <1>2, <1>3, <1>4, ArriveType, AuthStepType, RecoveryStepType,
     AdminStepType
  DEF Next, Step

\* In every state of every instance the tables hold rows of the schema and
\* every request holds the locals its next call needs, so that no handler of
\* auth.service.ts, user.service.ts or admin.service.ts reads what it lacks.
THEOREM TypeCorrect == Spec => []TypeOK
<1>1. Init => TypeOK  BY InitType
<1>2. TypeOK /\ [Next]_vars => TypeOK'  BY StepType
<1> QED  BY <1>1, <1>2, PTL DEF Spec

-----------------------------------------------------------------------------
(* Rotation.  A step does one of five things to tokens: nothing, take a    *)
(* request to the commit of a new token, commit a sign-in, commit a        *)
(* rotation, or end sessions.                                              *)

MintPoints == {"login.commit", "refresh.commit"}

\* No request gets to a commit of a token.
NoneMints == \A x \in Requests : req'[x] = req[x] \/ req'[x].at \notin MintPoints

\* Sessions end, each with its token rows.
Ends ==
  \/ \E u \in Users : Purge(u)
  \/ \E p \in issued : Logout(p)
  \/ \E r \in Requests, sid \in Sids : RevokeSession(r, sid)

Mints(r) ==
  \/ \E u \in Users, password \in Passwords : LoginRightPassword(r, u, password)
  \/ \E p \in issued : RefreshRead(r, p)

LEMMA AwaitNoneMints ==
  ASSUME TypeOK, NEW r \in Requests, NEW q, Await(r, q), q.at \notin MintPoints
  PROVE  NoneMints
BY DEF TypeOK, Await, NoneMints

LEMMA AnswerNoneMints ==
  ASSUME TypeOK, NEW r \in Requests, Answer(r)
  PROVE  NoneMints
<1>1. Idle.at \notin MintPoints  BY DEF Idle, MintPoints
<1> QED  BY <1>1, AwaitNoneMints DEF Answer

LEMMA AuthStepEffect ==
  ASSUME TypeOK, NEW r \in Requests, AuthStep(r)
  PROVE  \/ NoneMints /\ (UNCHANGED tokenVars \/ Ends)
         \/ LoginCommit(r) \/ RefreshCommit(r)
<1>0. req[r] \in Request  BY DEF TypeOK
<1>1. CASE LoginCount(r)
  <2> DEFINE q == [at |-> "login.lock", user |-> req[r].user, since |-> now]
  <2>1. q.at \notin MintPoints  BY DEF MintPoints
  <2> QED  BY <1>1, <2>1, AwaitNoneMints, AnswerNoneMints DEF LoginCount
<1>2. CASE LoginLock(r)  BY <1>2, AnswerNoneMints DEF LoginLock
<1>3. CASE RefreshLost(r)  BY <1>3, AnswerNoneMints DEF RefreshLost
<1>4. CASE \E current, new \in Passwords : ChangePasswordRead(r, current, new)
  <2>1. PICK current, new \in Passwords : ChangePasswordRead(r, current, new)
    BY <1>4
  <2> DEFINE q == [at |-> "changePassword.commit", user |-> req[r].user,
                   password |-> new]
  <2>2. q.at \notin MintPoints  BY DEF MintPoints
  <2> QED  BY <2>1, <2>2, AwaitNoneMints, AnswerNoneMints DEF ChangePasswordRead
<1>5. CASE ChangePasswordCommit(r)
  <2>1. req[r].user \in Users
    BY <1>0, <1>5, RequestShapes DEF ChangePasswordCommit
  <2> QED  BY <1>5, <2>1, AnswerNoneMints DEF ChangePasswordCommit, Ends
<1>6. CASE RevokeAllSessions(r)
  <2>1. req[r].user \in Users  BY <1>0, <1>6, RequestShapes DEF RevokeAllSessions
  <2> QED  BY <1>6, <2>1, AnswerNoneMints DEF RevokeAllSessions, Ends
<1> QED  BY <1>1, <1>2, <1>3, <1>4, <1>5, <1>6 DEF AuthStep

LEMMA RecoveryStepEffect ==
  ASSUME TypeOK, NEW r \in Requests, RecoveryStep(r)
  PROVE  NoneMints /\ (UNCHANGED tokenVars \/ Ends)
<1>0. req[r] \in Request  BY DEF TypeOK
<1>1. CASE SignupCommit(r) \/ ResendCreate(r) \/ ForgotCreate(r)
  <2> DEFINE q == [at |-> "enqueue", user |-> req[r].user, link |-> req[r].link]
  <2>1. q.at \notin MintPoints  BY DEF MintPoints
  <2> QED  BY <1>1, <2>1, AwaitNoneMints DEF SignupCommit, ResendCreate, ForgotCreate
<1>2. CASE \/ SignupLost(r) \/ VerifyCommit(r) \/ VerifyLost(r)
           \/ ResetLost(r) \/ Enqueue(r)
  BY <1>2, AnswerNoneMints
  DEF SignupLost, VerifyCommit, VerifyLost, ResetLost, Enqueue
<1>3. CASE ResendRead(r)
  <2> DEFINE q == [at |-> "resend.delete", user |-> req[r].user]
  <2>1. q.at \notin MintPoints  BY DEF MintPoints
  <2> QED  BY <1>3, <2>1, AwaitNoneMints, AnswerNoneMints DEF ResendRead
<1>4. CASE ResendDelete(r)
  <2>1. CASE Answer(r)  BY <1>4, <2>1, AnswerNoneMints DEF ResendDelete
  <2>2. ASSUME NEW link,
               Await(r, [at |-> "resend.create", user |-> req[r].user,
                         link |-> link, since |-> now])
        PROVE  NoneMints
    <3> DEFINE q == [at |-> "resend.create", user |-> req[r].user,
                     link |-> link, since |-> now]
    <3>1. q.at \notin MintPoints  BY DEF MintPoints
    <3> QED  BY <2>2, <3>1, AwaitNoneMints
  <2> QED  BY <1>4, <2>1, <2>2 DEF ResendDelete
<1>5. CASE ForgotDelete(r)
  <2> DEFINE q == [at |-> "forgot.create", user |-> req[r].user,
                   link |-> req[r].link, since |-> now]
  <2>1. q.at \notin MintPoints  BY DEF MintPoints
  <2> QED  BY <1>5, <2>1, AwaitNoneMints DEF ForgotDelete
<1>6. CASE ResetCommit(r)
  <2>1. req[r].user \in Users  BY <1>0, <1>6, RequestShapes DEF ResetCommit
  <2> QED  BY <1>6, <2>1, AnswerNoneMints DEF ResetCommit, Ends
<1> QED  BY <1>1, <1>2, <1>3, <1>4, <1>5, <1>6 DEF RecoveryStep

LEMMA AdminStepEffect ==
  ASSUME TypeOK, NEW r \in Requests, AdminStep(r)
  PROVE  NoneMints /\ (UNCHANGED tokenVars \/ Ends)
<1>0. req[r] \in Request  BY DEF TypeOK
<1>1. CASE DeleteAccountRead(r)
  <2> DEFINE q == [at |-> "deleteAccount.commit", user |-> req[r].user]
  <2>1. q.at \notin MintPoints  BY DEF MintPoints
  <2> QED  BY <1>1, <2>1, AwaitNoneMints, AnswerNoneMints DEF DeleteAccountRead
<1>2. CASE DeleteAccountCommit(r) \/ DeleteUserCommit(r)
  <2>1. req[r].user \in Users
    BY <1>0, <1>2, RequestShapes DEF DeleteAccountCommit, DeleteUserCommit, UserPoints
  <2> QED  BY <1>2, <2>1, AnswerNoneMints
           DEF DeleteAccountCommit, DeleteUserCommit, SoftDelete, Ends
<1>3. CASE \E sid \in Sids : RevokeSession(r, sid)
  <2>1. NoneMints  BY <1>3, AnswerNoneMints DEF RevokeSession
  <2> QED  BY <1>3, <2>1 DEF Ends
<1>4. CASE AuthenticateAdmin(r)
  <2>1. [req[r] EXCEPT !.at = "authorized"].at \notin MintPoints
    BY <1>0, <1>4, RequestShapes DEF AuthenticateAdmin, MintPoints
  <2> QED  BY <1>4, <2>1, AwaitNoneMints, AnswerNoneMints DEF AuthenticateAdmin
<1>5. CASE UpdateUserRoleCommit(r) \/ UpdateUserStatusCommit(r)
  BY <1>5, AnswerNoneMints DEF UpdateUserRoleCommit, UpdateUserStatusCommit
<1>6. ASSUME NEW u, NEW role, UpdateUserRoleRead(r, u, role)
      PROVE  NoneMints /\ UNCHANGED tokenVars
  <2> DEFINE q == [at |-> "updateRole.commit", user |-> u, role |-> role]
  <2>1. q.at \notin MintPoints  BY DEF MintPoints
  <2> QED  BY <1>6, <2>1, AwaitNoneMints, AnswerNoneMints DEF UpdateUserRoleRead
<1>7. ASSUME NEW u, NEW status, UpdateUserStatusRead(r, u, status)
      PROVE  NoneMints /\ UNCHANGED tokenVars
  <2> DEFINE q == [at |-> "updateStatus.commit", user |-> u, status |-> status]
  <2>1. q.at \notin MintPoints  BY DEF MintPoints
  <2> QED  BY <1>7, <2>1, AwaitNoneMints, AnswerNoneMints DEF UpdateUserStatusRead
<1>8. ASSUME NEW u, DeleteUserRead(r, u)
      PROVE  NoneMints /\ UNCHANGED tokenVars
  <2> DEFINE q == [at |-> "deleteUser.commit", user |-> u]
  <2>1. q.at \notin MintPoints  BY DEF MintPoints
  <2> QED  BY <1>8, <2>1, AwaitNoneMints, AnswerNoneMints DEF DeleteUserRead
<1> QED  BY <1>1, <1>2, <1>3, <1>4, <1>5, <1>6, <1>7, <1>8 DEF AdminStep

LEMMA ArriveEffect ==
  ASSUME TypeOK, NEW r \in Requests, Arrive(r)
  PROVE  UNCHANGED tokenVars /\ (NoneMints \/ Mints(r))
<1>1. ASSUME NEW op, NEW p, Authenticate(r, op, p)
      PROVE  UNCHANGED tokenVars /\ NoneMints
  <2> DEFINE q == [at |-> "authenticated", op |-> op, user |-> p.sub, sid |-> p.sid]
  <2>1. q.at \notin MintPoints  BY DEF MintPoints
  <2> QED  BY <1>1, <2>1, AwaitNoneMints DEF Authenticate
<1>2. ASSUME NEW u, LoginRefuse(r, u)
      PROVE  UNCHANGED tokenVars /\ NoneMints
  BY <1>2 DEF LoginRefuse, NoneMints, vars
<1>3. ASSUME NEW u, NEW password, LoginWrongPassword(r, u, password)
      PROVE  UNCHANGED tokenVars /\ NoneMints
  <2> DEFINE q == [at |-> "login.count", user |-> u]
  <2>1. q.at \notin MintPoints  BY DEF MintPoints
  <2> QED  BY <1>3, <2>1, AwaitNoneMints DEF LoginWrongPassword
<1>4. ASSUME NEW u \in Users, NEW password \in Passwords,
             LoginRightPassword(r, u, password)
      PROVE  UNCHANGED tokenVars /\ Mints(r)
  <2>1. UNCHANGED tokenVars  BY <1>4 DEF LoginRightPassword
  <2> QED  BY <1>4, <2>1 DEF Mints
<1>5. ASSUME NEW p \in issued, RefreshRead(r, p)
      PROVE  UNCHANGED tokenVars /\ Mints(r)
  <2>1. UNCHANGED tokenVars  BY <1>5 DEF RefreshRead
  <2> QED  BY <1>5, <2>1 DEF Mints
<1>6. ASSUME NEW u, NEW password, SignupRead(r, u, password)
      PROVE  UNCHANGED tokenVars /\ NoneMints
  <2>1. PICK link \in FreshLinks :
          Await(r, [at |-> "signup.commit", user |-> u, password |-> password,
                    link |-> link, since |-> now])
    BY <1>6 DEF SignupRead
  <2> DEFINE q == [at |-> "signup.commit", user |-> u, password |-> password,
                   link |-> link, since |-> now]
  <2>2. q.at \notin MintPoints  BY DEF MintPoints
  <2> QED  BY <1>6, <2>1, <2>2, AwaitNoneMints DEF SignupRead
<1>7. ASSUME NEW m, VerifyRead(r, m)
      PROVE  UNCHANGED tokenVars /\ NoneMints
  <2>1. PICK t \in emailVerificationToken :
          Await(r, [at |-> "verify.commit", user |-> t.userId, link |-> t.link])
    BY <1>7 DEF VerifyRead
  <2> DEFINE q == [at |-> "verify.commit", user |-> t.userId, link |-> t.link]
  <2>2. q.at \notin MintPoints  BY DEF MintPoints
  <2> QED  BY <1>7, <2>1, <2>2, AwaitNoneMints DEF VerifyRead
<1>8. ASSUME NEW u, ForgotRead(r, u)
      PROVE  UNCHANGED tokenVars /\ NoneMints
  <2>1. PICK link \in FreshLinks :
          Await(r, [at |-> "forgot.delete", user |-> u, link |-> link])
    BY <1>8 DEF ForgotRead
  <2> DEFINE q == [at |-> "forgot.delete", user |-> u, link |-> link]
  <2>2. q.at \notin MintPoints  BY DEF MintPoints
  <2> QED  BY <1>8, <2>1, <2>2, AwaitNoneMints DEF ForgotRead
<1>9. ASSUME NEW m, NEW new, ResetRead(r, m, new)
      PROVE  UNCHANGED tokenVars /\ NoneMints
  <2>1. PICK t \in passwordResetToken :
          Await(r, [at |-> "reset.commit", user |-> t.userId, password |-> new,
                    link |-> t.link])
    BY <1>9 DEF ResetRead
  <2> DEFINE q == [at |-> "reset.commit", user |-> t.userId, password |-> new,
                   link |-> t.link]
  <2>2. q.at \notin MintPoints  BY DEF MintPoints
  <2> QED  BY <1>9, <2>1, <2>2, AwaitNoneMints DEF ResetRead
<1> QED
  BY <1>1, <1>2, <1>3, <1>4, <1>5, <1>6, <1>7, <1>8, <1>9
  DEF Arrive, AuthArrival, RecoveryArrival

LEMMA StepEffect ==
  ASSUME TypeOK, [Next]_vars
  PROVE  \/ NoneMints /\ (UNCHANGED tokenVars \/ Ends)
         \/ \E r \in Requests : UNCHANGED tokenVars /\ Mints(r)
         \/ \E r \in Requests : LoginCommit(r) \/ RefreshCommit(r)
<1>1. CASE \E r \in Requests : Arrive(r) \/ Step(r)
  BY <1>1, ArriveEffect, AuthStepEffect, RecoveryStepEffect, AdminStepEffect DEF Step
<1>2. ASSUME NEW r \in Requests, Abort(r)
      PROVE  NoneMints /\ UNCHANGED tokenVars
  BY <1>2, AnswerNoneMints DEF Abort
<1>3. ASSUME NEW p \in issued, Logout(p)
      PROVE  NoneMints /\ Ends
  BY <1>3 DEF Logout, NoneMints, Ends
<1>4. CASE Tick \/ UNCHANGED vars
  BY <1>4 DEF Tick, NoneMints, vars
<1> QED  BY <1>1, <1>2, <1>3, <1>4 DEF Next

-----------------------------------------------------------------------------
(* The inductive invariant of rotation, effect by effect.                  *)

LEMMA InitRotation == ASSUME Init PROVE RotationInv
BY DEF Init, RotationInv, SessionHasOneToken, RotatedOnce, TokenProvenance,
       InFlightTokens, Minting, Idle

\* Requests that stay where they are, or leave, disturb no reservation.
LEMMA NoneMintsInFlight ==
  ASSUME InFlightTokens, NoneMints, UNCHANGED issued
  PROVE  InFlightTokens'
BY DEF InFlightTokens, NoneMints, MintPoints, Minting

LEMMA QuietRotation ==
  ASSUME RotationInv, NoneMints, UNCHANGED tokenVars
  PROVE  RotationInv'
<1>1. InFlightTokens'  BY NoneMintsInFlight DEF RotationInv, tokenVars
<1> QED
  BY <1>1 DEF RotationInv, SessionHasOneToken, RotatedOnce, TokenProvenance, tokenVars

\* A session row that stays keeps its token row, and the other way round.
LEMMA EndsTogether ==
  ASSUME RotationInv, Ends
  PROVE  /\ session' \subseteq session /\ refreshToken' \subseteq refreshToken
         /\ UNCHANGED issued
         /\ \A s \in session', t \in refreshToken :
              t.sessionId = s.id => t \in refreshToken'
         /\ \A t \in refreshToken', s \in session :
              t.sessionId = s.id => s \in session'
<1>1. \A s \in session, t \in refreshToken : t.sessionId = s.id => t.userId = s.userId
  BY DEF RotationInv, SessionHasOneToken
<1>2. \A s1, s2 \in session : s1.id = s2.id => s1 = s2
  BY DEF RotationInv, SessionHasOneToken
<1>3. ASSUME NEW u \in Users, Purge(u)
      PROVE  /\ session' = {s \in session : s.userId # u}
             /\ refreshToken' = {t \in refreshToken : t.userId # u /\ ~Orphaned(t, u)}
             /\ UNCHANGED issued
  BY <1>3 DEF Purge, EndSessionsOf
<1>4. CASE \E u \in Users : Purge(u)
  BY <1>1, <1>2, <1>3, <1>4 DEF Orphaned
<1>5. CASE \E p \in issued : Logout(p)
  <2>1. PICK p \in issued :
          /\ session' = {s \in session : s.userId # p.sub}
          /\ refreshToken' =
               {t \in refreshToken : t.jti # p.jti /\ ~Orphaned(t, p.sub)}
          /\ UNCHANGED issued
    BY <1>5 DEF Logout, EndSessionsOf
  <2>2. \A t \in refreshToken : t.jti = p.jti => t.userId = p.sub
    BY DEF RotationInv, TokenProvenance
  <2>3. \A s \in session', t \in refreshToken :
          t.sessionId = s.id => t \in refreshToken'
    BY <1>1, <1>2, <2>1, <2>2 DEF Orphaned
  <2>4. \A t \in refreshToken', s \in session : t.sessionId = s.id => s \in session'
    BY <2>1 DEF Orphaned
  <2> QED  BY <2>1, <2>3, <2>4
<1>6. CASE \E r \in Requests, sid \in Sids : RevokeSession(r, sid)
  <2>1. PICK r \in Requests, sid \in Sids : RevokeSession(r, sid)  BY <1>6
  <2> DEFINE revoked == {s \in session :
                           s.id = sid /\ s.userId = req[r].user /\ ~s.isCurrent}
  <2>2. /\ session' = session \ revoked
        /\ refreshToken' = {t \in refreshToken :
                              \A s \in revoked : t.sessionId # s.id}
        /\ UNCHANGED issued
    BY <2>1 DEF RevokeSession
  <2>3. \A s \in session', t \in refreshToken :
          t.sessionId = s.id => t \in refreshToken'
    BY <1>2, <2>2
  <2>4. \A t \in refreshToken', s \in session : t.sessionId = s.id => s \in session'
    BY <2>2
  <2> QED  BY <2>2, <2>3, <2>4
<1> QED  BY <1>4, <1>5, <1>6 DEF Ends

LEMMA EndsRotation ==
  ASSUME RotationInv, NoneMints, Ends
  PROVE  RotationInv'
<1>1. InFlightTokens'  BY EndsTogether, NoneMintsInFlight DEF RotationInv
<1>2. SessionHasOneToken'
  BY EndsTogether DEF RotationInv, SessionHasOneToken
<1>3. RotatedOnce' /\ TokenProvenance'
  BY EndsTogether DEF RotationInv, RotatedOnce, TokenProvenance
<1> QED  BY <1>1, <1>2, <1>3 DEF RotationInv

\* A request takes up fresh ids.
LEMMA MintsRotation ==
  ASSUME TypeOK, RotationInv, NEW r \in Requests, Mints(r), UNCHANGED tokenVars
  PROVE  RotationInv'
<1>1. InFlightTokens'
  <2>1. CASE \E u \in Users, password \in Passwords :
               LoginRightPassword(r, u, password)
    <3>1. PICK u \in Users, password \in Passwords,
               jti \in FreshJtis, sid \in FreshSids :
            Await(r, [at |-> "login.commit", user |-> u, password |-> password,
                      sid |-> sid, jti |-> jti, since |-> now])
      BY <2>1 DEF LoginRightPassword
    <3> DEFINE q == [at |-> "login.commit", user |-> u, password |-> password,
                     sid |-> sid, jti |-> jti, since |-> now]
    <3>2. \A x \in Requests : req'[x] = IF x = r THEN q ELSE req[x]
      BY <3>1 DEF Await, TypeOK
    <3>3. /\ \A p \in issued : p.jti # jti /\ p.sid # sid
          /\ \A x \in Requests : Minting(x) => req[x].jti # jti
          /\ \A x \in Requests : req[x].at = "login.commit" => req[x].sid # sid
      BY <3>1 DEF FreshJtis, FreshSids, Minting
    <3>4. q.at = "login.commit" /\ q.jti = jti /\ q.sid = sid  OBVIOUS
    <3>5. issued' = issued  BY DEF tokenVars
    <3> HIDE DEF q
    <3>6. req'[r] = q /\ \A x \in Requests \ {r} : req'[x] = req[x]  BY <3>2
    <3>7. \A x \in Requests : req'[x].at \in MintPoints =>
            \A p \in issued' : p.jti # req'[x].jti
      BY <3>3, <3>4, <3>5, <3>6 DEF RotationInv, InFlightTokens, Minting, MintPoints
    <3>8. \A x \in Requests \ {r} :
            /\ req'[x].at \in MintPoints => req'[x].jti # req'[r].jti
            /\ req'[x].at = "login.commit" => req'[x].sid # req'[r].sid
      <4>1. req'[r].jti = jti /\ req'[r].sid = sid  BY <3>4, <3>6
      <4>2. \A x \in Requests \ {r} : req'[x].at \in MintPoints => req[x].jti # jti
        BY <3>3, <3>6 DEF Minting, MintPoints
      <4>3. \A x \in Requests \ {r} : req'[x].at = "login.commit" => req[x].sid # sid
        BY <3>3, <3>6
      <4> QED  BY <3>6, <4>1, <4>2, <4>3
    <3>9. \A x, y \in Requests \ {r} :
            /\ /\ req'[x].at \in MintPoints /\ req'[y].at \in MintPoints
               /\ req'[x].jti = req'[y].jti
               => x = y
            /\ /\ req'[x].at = "login.commit" /\ req'[y].at = "login.commit"
               /\ req'[x].sid = req'[y].sid
               => x = y
      BY <3>6 DEF RotationInv, InFlightTokens, Minting, MintPoints
    <3>10. \A x \in Requests : req'[x].at = "login.commit" =>
             \A p \in issued' : p.sid # req'[x].sid
      BY <3>3, <3>4, <3>5, <3>6 DEF RotationInv, InFlightTokens
    <3>11. \A x \in Requests : req'[x].at = "refresh.commit" =>
             \E p \in issued' : /\ p.jti = req'[x].old
                                /\ p.sid = req'[x].sid /\ p.sub = req'[x].user
      BY <3>4, <3>5, <3>6 DEF RotationInv, InFlightTokens
    <3>12. \A x, y \in Requests :
             /\ req'[x].at \in MintPoints /\ req'[y].at \in MintPoints
             /\ req'[x].jti = req'[y].jti
             => x = y
      BY <3>8, <3>9
    <3>13. \A x, y \in Requests :
             /\ req'[x].at = "login.commit" /\ req'[y].at = "login.commit"
             /\ req'[x].sid = req'[y].sid
             => x = y
      BY <3>8, <3>9
    <3> QED
      BY <3>7, <3>10, <3>11, <3>12, <3>13 DEF InFlightTokens, Minting, MintPoints
  <2>2. CASE \E p \in issued : RefreshRead(r, p)
    <3>1. PICK p \in issued, t \in refreshToken, jti \in FreshJtis :
            /\ t.jti = p.jti
            /\ Await(r, [at |-> "refresh.commit", user |-> p.sub, old |-> t.jti,
                         sid |-> t.sessionId, jti |-> jti, since |-> now])
      BY <2>2 DEF RefreshRead
    <3> DEFINE q == [at |-> "refresh.commit", user |-> p.sub, old |-> t.jti,
                     sid |-> t.sessionId, jti |-> jti, since |-> now]
    <3>2. \A x \in Requests : req'[x] = IF x = r THEN q ELSE req[x]
      BY <3>1 DEF Await, TypeOK
    <3>3. /\ \A i \in issued : i.jti # jti
          /\ \A x \in Requests : Minting(x) => req[x].jti # jti
      BY <3>1 DEF FreshJtis, Minting
    <3>4. p.jti = t.jti /\ p.sid = t.sessionId
      BY <3>1 DEF RotationInv, TokenProvenance
    <3>5. /\ q.at = "refresh.commit" /\ q.jti = jti
          /\ p.jti = q.old /\ p.sid = q.sid /\ p.sub = q.user
      BY <3>4
    <3>6. issued' = issued  BY DEF tokenVars
    <3> HIDE DEF q
    <3> QED  BY <3>2, <3>3, <3>5, <3>6 DEF RotationInv, InFlightTokens, Minting
  <2> QED  BY <2>1, <2>2 DEF Mints
<1> QED
  BY <1>1 DEF RotationInv, SessionHasOneToken, RotatedOnce, TokenProvenance, tokenVars

LEMMA LoginCommitRotation ==
  ASSUME TypeOK, RotationInv, NEW r \in Requests, LoginCommit(r)
  PROVE  RotationInv'
<1> DEFINE q == req[r]
<1>1. PICK s \in SessionRow, t \in RefreshTokenRow, p \in TokenPair :
        /\ session' = session \cup {s} /\ refreshToken' = refreshToken \cup {t}
        /\ issued' = issued \cup {p}
        /\ s.id = q.sid /\ s.userId = q.user
        /\ t.jti = q.jti /\ t.userId = q.user /\ t.sessionId = q.sid
        /\ p.jti = q.jti /\ p.sub = q.user /\ p.sid = q.sid /\ p.parent = NoJti
  BY LoginCommitRows
<1>2. \A i \in issued : i.jti # q.jti /\ i.sid # q.sid
  BY DEF LoginCommit, RotationInv, InFlightTokens, Minting
<1>3. /\ \A x \in session : x.id # q.sid
      /\ \A x \in refreshToken : x.jti # q.jti /\ x.sessionId # q.sid
  BY <1>2 DEF RotationInv, SessionHasOneToken, TokenProvenance
<1>4. /\ req'[r].at \notin MintPoints
      /\ \A x \in Requests : x # r => req'[x] = req[x]
  BY DEF LoginCommit, Answer, Await, Idle, MintPoints, TypeOK
<1>5. /\ Minting(r) /\ req[r].at = "login.commit"
      /\ \A x \in Requests \ {r} : Minting(x) => req[x].jti # q.jti
      /\ \A x \in Requests \ {r} : req[x].at = "login.commit" => req[x].sid # q.sid
  BY DEF LoginCommit, RotationInv, InFlightTokens, Minting
<1>6. SessionHasOneToken'
  BY <1>1, <1>3 DEF RotationInv, SessionHasOneToken
<1>7. RotatedOnce'
  BY <1>1 DEF RotationInv, RotatedOnce
<1>8. TokenProvenance'
  <2>1. \A x \in issued : x.parent # NoJti => x.parent # q.jti
    BY <1>2 DEF RotationInv, TokenProvenance
  <2> QED  BY <1>1, <1>2, <2>1 DEF RotationInv, TokenProvenance
<1>9. InFlightTokens'
  BY <1>1, <1>4, <1>5 DEF RotationInv, InFlightTokens, Minting, MintPoints
<1> QED  BY <1>6, <1>7, <1>8, <1>9 DEF RotationInv

LEMMA RefreshCommitRotation ==
  ASSUME TypeOK, RotationInv, NEW r \in Requests, RefreshCommit(r)
  PROVE  RotationInv'
<1> DEFINE q == req[r]
<1>0. q \in Request /\ q.at = "refresh.commit"  BY DEF TypeOK, RefreshCommit
<1>1. q.jti \in Jtis /\ q.old \in Jtis  BY <1>0, RequestShapes
<1>2. PICK p \in issued, t \in RefreshTokenRow, n \in TokenPair :
        /\ session' = session /\ issued' = issued \cup {n}
        /\ refreshToken' = {x \in refreshToken : x.jti # q.old} \cup {t}
        /\ p.jti = q.old
        /\ n.jti = q.jti /\ n.parent = q.old /\ n.sid = p.sid /\ n.sub = p.sub
        /\ t.jti = q.jti /\ t.userId = q.user /\ t.sessionId = q.sid
  BY RefreshCommitRows
<1>3. p.sid = q.sid /\ p.sub = q.user
  BY <1>0, <1>2 DEF RotationInv, InFlightTokens, TokenProvenance
<1>4. \A i \in issued : i.jti # q.jti
  BY <1>0 DEF RotationInv, InFlightTokens, Minting
\* The row it replaces, and the only row of the session.
<1>5. PICK o \in refreshToken : o.jti = q.old  BY DEF RefreshCommit, Rotatable
<1>6. o.sessionId = q.sid /\ o.userId = q.user
  BY <1>2, <1>3, <1>5 DEF RotationInv, TokenProvenance
<1>7. \A x \in refreshToken : x.sessionId = q.sid <=> x.jti = q.old
  BY <1>2, <1>3, <1>5, <1>6 DEF RotationInv, TokenProvenance, SessionHasOneToken
<1>8. \A i \in issued : i.parent # q.old
  <2>1. q.old # NoJti  BY <1>1, NoJtiAssumption
  <2> QED  BY <1>5, <2>1 DEF RotationInv, TokenProvenance
<1>9. /\ req'[r].at \notin MintPoints
       /\ \A x \in Requests : x # r => req'[x] = req[x]
  BY DEF RefreshCommit, Answer, Await, Idle, MintPoints, TypeOK
<1>10. \A x \in Requests \ {r} : Minting(x) => req[x].jti # q.jti
  BY <1>0 DEF RotationInv, InFlightTokens, Minting
<1>11. SessionHasOneToken'
  <2>1. \A s \in session : \E x \in refreshToken' :
          x.sessionId = s.id /\ x.userId = s.userId
    <3>1. SUFFICES ASSUME NEW s \in session
                   PROVE  \E x \in refreshToken' :
                            x.sessionId = s.id /\ x.userId = s.userId
      OBVIOUS
    <3>2. PICK x \in refreshToken : x.sessionId = s.id /\ x.userId = s.userId
      BY DEF RotationInv, SessionHasOneToken
    <3>3. CASE x.jti = q.old
      <4>1. x = o  BY <1>5, <1>6, <1>7, <3>3 DEF RotationInv, SessionHasOneToken
      <4> QED  BY <1>2, <1>6, <3>2, <4>1
    <3>4. CASE x.jti # q.old  BY <1>2, <3>2, <3>4
    <3> QED  BY <3>3, <3>4
  <2>2. \A x \in refreshToken' : \E s \in session : s.id = x.sessionId
    BY <1>2, <1>5, <1>6 DEF RotationInv, SessionHasOneToken
  <2>3. \A x, y \in refreshToken' : x.sessionId = y.sessionId => x = y
    BY <1>2, <1>7 DEF RotationInv, SessionHasOneToken
  <2> QED  BY <1>2, <2>1, <2>2, <2>3 DEF RotationInv, SessionHasOneToken
<1>12. RotatedOnce'  BY <1>2, <1>8 DEF RotationInv, RotatedOnce
<1>13. TokenProvenance'
  <2>1. \A x \in refreshToken' : \E i \in issued' :
          i.jti = x.jti /\ i.sub = x.userId /\ i.sid = x.sessionId
    BY <1>2, <1>3 DEF RotationInv, TokenProvenance
  <2>2. \A i, j \in issued' : i.jti = j.jti => i = j
    BY <1>2, <1>4 DEF RotationInv, TokenProvenance
  <2>3. \A i \in issued' : i.parent # NoJti =>
          /\ \E j \in issued' : j.jti = i.parent
          /\ \A x \in refreshToken' : x.jti # i.parent
    BY <1>2, <1>4 DEF RotationInv, TokenProvenance
  <2> QED  BY <2>1, <2>2, <2>3 DEF TokenProvenance
<1>14. InFlightTokens'
  <2>1. \A x \in Requests : req'[x].at \in MintPoints =>
          /\ x # r /\ req'[x] = req[x] /\ Minting(x)
          /\ req[x].jti # n.jti
    BY <1>2, <1>9, <1>10 DEF Minting, MintPoints
  <2>2. \A x \in Requests : req'[x].at \in MintPoints =>
          \A i \in issued' : i.jti # req'[x].jti
    BY <1>2, <2>1 DEF RotationInv, InFlightTokens
  <2>3. \A x, y \in Requests :
          /\ req'[x].at \in MintPoints /\ req'[y].at \in MintPoints
          /\ req'[x].jti = req'[y].jti
          => x = y
    BY <2>1 DEF RotationInv, InFlightTokens
  <2>4. \A x \in Requests : req'[x].at = "login.commit" =>
          \A i \in issued' : i.sid # req'[x].sid
    BY <1>2, <2>1 DEF RotationInv, InFlightTokens, MintPoints
  <2>5. \A x, y \in Requests :
          /\ req'[x].at = "login.commit" /\ req'[y].at = "login.commit"
          /\ req'[x].sid = req'[y].sid
          => x = y
    BY <2>1 DEF RotationInv, InFlightTokens, MintPoints
  <2>6. \A x \in Requests : req'[x].at = "refresh.commit" =>
          \E i \in issued' : /\ i.jti = req'[x].old
                             /\ i.sid = req'[x].sid /\ i.sub = req'[x].user
    BY <1>2, <2>1 DEF RotationInv, InFlightTokens, MintPoints
  <2> QED
    BY <2>2, <2>3, <2>4, <2>5, <2>6 DEF InFlightTokens, Minting, MintPoints
<1> QED  BY <1>11, <1>12, <1>13, <1>14 DEF RotationInv

LEMMA StepRotation ==
  ASSUME TypeOK, RotationInv, [Next]_vars
  PROVE  RotationInv'
BY StepEffect, QuietRotation, EndsRotation, MintsRotation, LoginCommitRotation,
   RefreshCommitRotation

\* The inductive invariant holds of every instance.
THEOREM Rotation == Spec => []RotationInv
<1>1. Init => RotationInv  BY InitRotation
<1>2. TypeOK /\ RotationInv /\ [Next]_vars => RotationInv'  BY StepRotation
<1> QED  BY <1>1, <1>2, TypeCorrect, PTL DEF Spec

\* Whatever number of devices present one refresh token at once, and whatever
\* logouts and purges run beside them, refreshToken gives it one successor.
THEOREM SingleUse == Spec => []RotatedOnce
<1>1. RotationInv => RotatedOnce  BY DEF RotationInv
<1> QED  BY <1>1, Rotation, PTL

\* Every session row has exactly one token row, of the same owner, and no
\* token row is without its session, although no transaction reads what the
\* others are about to write.
THEOREM SessionsMatchTokens == Spec => []SessionHasOneToken
<1>1. RotationInv => SessionHasOneToken  BY DEF RotationInv
<1> QED  BY <1>1, Rotation, PTL

-----------------------------------------------------------------------------
(* The tables implement RefreshFamily.                                     *)

FamilyVars == <<[s \in Sids |-> TokensOf(s)], [s \in Sids |-> LiveToken(s)]>>

\* The row of a session is its live token, and it is a token of the supply.
LEMMA LiveIs ==
  ASSUME TypeOK, RotationInv
  PROVE  /\ \A t \in refreshToken : LiveToken(t.sessionId) = t.jti /\ t.jti \in Jtis
         /\ \A s : (\A t \in refreshToken : t.sessionId # s) => LiveToken(s) = NoJti
<1>1. ASSUME NEW t \in refreshToken
      PROVE  LiveToken(t.sessionId) = t.jti /\ t.jti \in Jtis
  <2>1. \A x \in refreshToken : x.sessionId = t.sessionId => x = t
    BY DEF RotationInv, SessionHasOneToken
  <2>2. (CHOOSE x \in refreshToken : x.sessionId = t.sessionId) = t  BY <2>1
  <2>3. LiveToken(t.sessionId) = t.jti  BY <2>2 DEF LiveToken
  <2>4. t \in RefreshTokenRow  BY DEF TypeOK
  <2> QED  BY <2>3, <2>4 DEF RefreshTokenRow
<1> QED  BY <1>1 DEF LiveToken

LEMMA LivePrime ==
  ASSUME TypeOK', RotationInv'
  PROVE  /\ \A t \in refreshToken' :
              LiveToken(t.sessionId)' = t.jti /\ t.jti \in Jtis
         /\ \A s : (\A t \in refreshToken' : t.sessionId # s)
                    => LiveToken(s)' = NoJti
<1>1. ASSUME NEW t \in refreshToken'
      PROVE  LiveToken(t.sessionId)' = t.jti /\ t.jti \in Jtis
  <2>1. \A x \in refreshToken' : x.sessionId = t.sessionId => x = t
    BY DEF RotationInv, SessionHasOneToken
  <2>2. (CHOOSE x \in refreshToken' : x.sessionId = t.sessionId) = t  BY <2>1
  <2>3. LiveToken(t.sessionId)' = t.jti  BY <2>2 DEF LiveToken
  <2>4. t \in RefreshTokenRow  BY DEF TypeOK
  <2> QED  BY <2>3, <2>4 DEF RefreshTokenRow
<1> QED  BY <1>1 DEF LiveToken

LEMMA InitFamily == ASSUME Init PROVE Family!Init
BY DEF Init, Family!Init, TokensOf, LiveToken

LEMMA QuietFamily == ASSUME UNCHANGED tokenVars PROVE UNCHANGED FamilyVars
BY DEF tokenVars, FamilyVars, TokensOf, LiveToken

LEMMA EndsFamily ==
  ASSUME TypeOK, RotationInv, TypeOK', RotationInv', Ends
  PROVE  Family!Next
<1> DEFINE S == {s \in Sids : \A t \in refreshToken' : t.sessionId # s}
<1>1. \A s \in Sids : TokensOf(s)' = TokensOf(s)  BY EndsTogether DEF TokensOf
<1>2. \A s \in Sids : LiveToken(s)' = IF s \in S THEN NoJti ELSE LiveToken(s)
  BY EndsTogether, LiveIs, LivePrime
<1>3. Family!End(S)  BY <1>1, <1>2 DEF Family!End
<1>4. S \in SUBSET Sids  OBVIOUS
<1> QED  BY <1>3, <1>4 DEF Family!Next

\* A new token of session sid: all that Open and Rotate have in common.
LEMMA AdoptFamily ==
  ASSUME TypeOK, RotationInv, TypeOK', RotationInv',
         NEW sid \in Sids, NEW jti \in Jtis, NEW p, NEW t,
         p.jti = jti, p.sid = sid, t.jti = jti, t.sessionId = sid,
         issued' = issued \cup {p}, t \in refreshToken',
         \A i \in issued : i.jti # jti,
         \A x \in refreshToken' : x \in refreshToken \/ x = t,
         \A x \in refreshToken : x.sessionId = sid \/ x \in refreshToken'
  PROVE  Family!Adopt(sid, jti)
<1>1. jti \notin Family!Everywhere  BY DEF Family!Everywhere, TokensOf
<1>2. \A s \in Sids :
        TokensOf(s)' = IF s = sid THEN TokensOf(s) \cup {jti} ELSE TokensOf(s)
  BY DEF TokensOf
<1>3. LiveToken(sid)' = jti  BY LivePrime
<1>4. ASSUME NEW s \in Sids, s # sid
      PROVE  LiveToken(s)' = LiveToken(s)
  <2>1. CASE \E x \in refreshToken : x.sessionId = s
    BY <1>4, <2>1, LiveIs, LivePrime
  <2>2. CASE \A x \in refreshToken : x.sessionId # s
    BY <1>4, <2>2, LiveIs, LivePrime
  <2> QED  BY <2>1, <2>2
<1> QED  BY <1>1, <1>2, <1>3, <1>4 DEF Family!Adopt

LEMMA LoginCommitFamily ==
  ASSUME TypeOK, RotationInv, TypeOK', RotationInv',
         NEW r \in Requests, LoginCommit(r)
  PROVE  Family!Next
<1> DEFINE q == req[r]
<1>1. q \in Request /\ q.at = "login.commit"  BY DEF TypeOK, LoginCommit
<1>2. q.sid \in Sids /\ q.jti \in Jtis  BY <1>1, RequestShapes
<1>3. PICK t \in RefreshTokenRow, p \in TokenPair :
        /\ refreshToken' = refreshToken \cup {t} /\ issued' = issued \cup {p}
        /\ p.jti = q.jti /\ p.sid = q.sid /\ t.jti = q.jti /\ t.sessionId = q.sid
  BY LoginCommitRows
<1>4. \A i \in issued : i.jti # q.jti /\ i.sid # q.sid
  BY <1>1 DEF RotationInv, InFlightTokens, Minting
<1>5. Family!Adopt(q.sid, q.jti)  BY <1>2, <1>3, <1>4, AdoptFamily
<1>6. TokensOf(q.sid) = {}  BY <1>4 DEF TokensOf
<1> QED  BY <1>2, <1>5, <1>6 DEF Family!Next, Family!Open

LEMMA RefreshCommitFamily ==
  ASSUME TypeOK, RotationInv, TypeOK', RotationInv',
         NEW r \in Requests, RefreshCommit(r)
  PROVE  Family!Next
<1> DEFINE q == req[r]
<1>1. q \in Request /\ q.at = "refresh.commit"  BY DEF TypeOK, RefreshCommit
<1>2. q.sid \in Sids /\ q.jti \in Jtis  BY <1>1, RequestShapes
<1>3. PICK p \in issued, t \in RefreshTokenRow, n \in TokenPair :
        /\ issued' = issued \cup {n} /\ p.jti = q.old
        /\ refreshToken' = {x \in refreshToken : x.jti # q.old} \cup {t}
        /\ n.jti = q.jti /\ n.sid = p.sid /\ t.jti = q.jti /\ t.sessionId = q.sid
  BY RefreshCommitRows
<1>4. p.sid = q.sid
  BY <1>1, <1>3 DEF RotationInv, InFlightTokens, TokenProvenance
<1>5. PICK o \in refreshToken : o.jti = q.old  BY DEF RefreshCommit, Rotatable
<1>6. \A x \in refreshToken : x.jti = q.old => x.sessionId = q.sid
  BY <1>3, <1>4 DEF RotationInv, TokenProvenance
<1>7. \A i \in issued : i.jti # q.jti
  BY <1>1 DEF RotationInv, InFlightTokens, Minting
<1>8. Family!Adopt(q.sid, q.jti)
  BY <1>2, <1>3, <1>4, <1>6, <1>7, AdoptFamily
<1>9. LiveToken(q.sid) # NoJti  BY <1>5, <1>6, LiveIs, NoJtiAssumption
<1> QED  BY <1>2, <1>8, <1>9 DEF Family!Next, Family!Rotate

LEMMA StepFamily ==
  ASSUME TypeOK, RotationInv, TypeOK', RotationInv', [Next]_vars
  PROVE  Family!Next \/ UNCHANGED FamilyVars
BY StepEffect, QuietFamily, EndsFamily, LoginCommitFamily, RefreshCommitFamily

\* The tables and their transactions implement the abstract token family:
\* each sign-in opens a session with an unused token, each rotation replaces
\* the session's live token by an unused one, everything else that touches
\* tokens ends sessions; so no token is accepted twice, and none after its
\* session has ended.
THEOREM ImplementsFamily == Spec => RefreshFamilySpec
<1>1. Init => Family!Init  BY InitFamily
<1>2. TypeOK /\ RotationInv /\ TypeOK' /\ RotationInv' /\ [Next]_vars
        => Family!Next \/ UNCHANGED FamilyVars
  BY StepFamily
<1>3. TypeOK /\ RotationInv /\ TypeOK' /\ RotationInv' /\ [Next]_vars
        => [Family!Next]_<<[s \in Sids |-> TokensOf(s)],
                           [s \in Sids |-> LiveToken(s)]>>
  BY <1>2 DEF FamilyVars
<1> QED
  BY <1>1, <1>3, TypeCorrect, Rotation, PTL DEF Spec, RefreshFamilySpec, Family!Spec

-----------------------------------------------------------------------------
(* What RefreshFamily promises is so of the tables.                        *)

Promised == INSTANCE RefreshFamily_proofs
              WITH used <- [s \in Sids |-> TokensOf(s)],
                   live <- [s \in Sids |-> LiveToken(s)]

\* A pair that was handed out and has no row has none ever again, and a session
\* that has lost its last token is given no other.
RevokedForGood ==
  [][\A p \in issued :
       /\ (\A t \in refreshToken : t.jti # p.jti)
            => \A t \in refreshToken' : t.jti # p.jti
       /\ (\A t \in refreshToken : t.sessionId # p.sid)
            => \A t \in refreshToken' : t.sessionId # p.sid]_vars

\* The promise of one step, read in the tables.
LEMMA PromiseInTables ==
  ASSUME TypeOK, RotationInv, TypeOK', RotationInv', NEW p \in issued,
         [Promised!KeepsRetired]_FamilyVars
  PROVE  /\ (\A t \in refreshToken : t.jti # p.jti)
              => \A t \in refreshToken' : t.jti # p.jti
         /\ (\A t \in refreshToken : t.sessionId # p.sid)
              => \A t \in refreshToken' : t.sessionId # p.sid
<1>1. /\ p.sid \in Sids /\ p.jti \in Jtis
      /\ p.jti \in TokensOf(p.sid)
  BY DEF TypeOK, TokenPair, TokensOf
<1>2. \A s \in Sids :
        /\ [x \in Sids |-> LiveToken(x)][s] = LiveToken(s)
        /\ [x \in Sids |-> LiveToken(x)]'[s] = LiveToken(s)'
        /\ [x \in Sids |-> TokensOf(x)][s] = TokensOf(s)
  OBVIOUS
<1>3. p.jti \in Promised!Everywhere
  BY <1>1, <1>2 DEF Promised!Everywhere
<1>4. /\ (\A s \in Sids : LiveToken(s) # p.jti) => \A s \in Sids : LiveToken(s)' # p.jti
      /\ LiveToken(p.sid) = NoJti => LiveToken(p.sid)' = NoJti
  <2>1. CASE UNCHANGED FamilyVars
    <3>1. \A s \in Sids : LiveToken(s)' = LiveToken(s)
      BY <1>2, <2>1 DEF FamilyVars
    <3> QED  BY <1>1, <3>1
  <2>2. CASE ~UNCHANGED FamilyVars
    BY <1>1, <1>2, <1>3, <2>2 DEF Promised!KeepsRetired
  <2> QED  BY <2>1, <2>2
<1>5. ASSUME \A t \in refreshToken : t.jti # p.jti, NEW t \in refreshToken'
      PROVE  t.jti # p.jti
  <2>1. \A s \in Sids : LiveToken(s) # p.jti
    BY <1>1, <1>5, LiveIs, NoJtiAssumption
  <2>2. t.sessionId \in Sids /\ LiveToken(t.sessionId)' = t.jti
    BY <1>5, LivePrime DEF TypeOK, RefreshTokenRow
  <2> QED  BY <1>4, <2>1, <2>2
<1>6. ASSUME \A t \in refreshToken : t.sessionId # p.sid, NEW t \in refreshToken'
      PROVE  t.sessionId # p.sid
  <2>1. LiveToken(p.sid)' = NoJti  BY <1>4, <1>6, LiveIs
  <2>2. LiveToken(t.sessionId)' = t.jti /\ t.jti \in Jtis  BY <1>6, LivePrime
  <2> QED  BY <2>1, <2>2, NoJtiAssumption
<1> QED  BY <1>5, <1>6

\* Revocation is for good: no interleaving of rotations, sign-ins, logouts and
\* purges makes a token that was replaced or revoked good again, or gives a
\* session that was ended a new one.  A consequence of the refinement.
THEOREM RevocationsLast == Spec => RevokedForGood
<1>1. Family!Init => Promised!Init  BY DEF Family!Init, Promised!Init
<1>2. [Family!Next]_FamilyVars => [Promised!Next]_FamilyVars
  BY DEF Family!Next, Promised!Next, Family!Open, Promised!Open,
         Family!Rotate, Promised!Rotate, Family!Adopt, Promised!Adopt,
         Family!End, Promised!End, Family!Everywhere, Promised!Everywhere
<1>3. Family!Spec => Promised!Spec
  BY <1>1, <1>2, PTL DEF Family!Spec, Promised!Spec, FamilyVars
<1>4. Promised!Spec => Promised!RetiredForGood
  BY NoJtiAssumption, Promised!FamilyRetires
<1> DEFINE Q == \A p \in issued :
                  /\ (\A t \in refreshToken : t.jti # p.jti)
                       => \A t \in refreshToken' : t.jti # p.jti
                  /\ (\A t \in refreshToken : t.sessionId # p.sid)
                       => \A t \in refreshToken' : t.sessionId # p.sid
<1>5. TypeOK /\ RotationInv /\ TypeOK' /\ RotationInv'
      /\ [Promised!KeepsRetired]_FamilyVars => [Q]_vars
  BY PromiseInTables
<1>6. Promised!RetiredForGood => [][Promised!KeepsRetired]_FamilyVars
  BY PTL DEF Promised!RetiredForGood, FamilyVars
<1> QED
  BY <1>3, <1>4, <1>5, <1>6, ImplementsFamily, TypeCorrect, Rotation, PTL
  DEF RefreshFamilySpec, RevokedForGood
=============================================================================
