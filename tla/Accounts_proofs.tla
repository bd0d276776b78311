--------------------------- MODULE Accounts_proofs ---------------------------
(***************************************************************************)
(* Theorems about accounts: the lock, the roles and the one-time links of  *)
(* IdentityForge, for every set of users, requests and links.              *)
(***************************************************************************)
EXTENDS IdentityForge_proofs

-----------------------------------------------------------------------------
(* What a step does to requests and to rows, once for all the properties.  *)

\* Request r moves, alone, and is where it now is for the reason its handler has.
Moved(r) ==
  /\ \A x \in Requests : x # r => req'[x] = req[x]
  /\ req'[r].at = "authenticated" => HasAccount(req'[r].user)
  /\ req'[r].at = "authorized" =>
       req[r].at = "authenticated" /\ user[req[r].user].role = "ADMIN"
  /\ req'[r].at = "updateRole.commit" => req[r].at = "authorized"
  /\ req'[r].at = "login.count" => MaySignIn(req'[r].user)
  /\ req'[r].at = "login.lock" =>
       /\ req[r].at = "login.count"
       /\ req'[r].user = req[r].user /\ req'[r].since = now
  /\ req'[r].at = "login.commit" =>
       /\ MaySignIn(req'[r].user)
       /\ user[req'[r].user].password = req'[r].password
  /\ req'[r].at = "resend.delete" =>
       req[r].at = "authenticated" /\ req'[r].user = req[r].user
  /\ req'[r].at = "resend.create" =>
       ResendDelete(r) /\ req'[r].user = req[r].user
  /\ req'[r].at \in {"signup.commit", "resend.create", "forgot.delete"} =>
       req'[r].link \in FreshLinks
  /\ req'[r].at = "forgot.create" =>
       /\ ForgotDelete(r)
       /\ req'[r].user = req[r].user /\ req'[r].link = req[r].link
  /\ req'[r].at = "enqueue" =>
       /\ req[r].at \in {"signup.commit", "resend.create", "forgot.create"}
       /\ req'[r].link = req[r].link
  /\ req'[r].at = "verify.commit" => \E t \in emailVerificationToken :
       t.link = req'[r].link /\ t.userId = req'[r].user
  /\ req'[r].at = "reset.commit" => \E t \in passwordResetToken :
       t.link = req'[r].link /\ ~t.usedAt

LEMMA AwaitMoves ==
  ASSUME TypeOK, NEW r \in Requests, NEW q, Await(r, q)
  PROVE  req'[r] = q /\ \A x \in Requests : x # r => req'[x] = req[x]
BY DEF TypeOK, Await

\* Answering is a move, and so is going on to a call nothing is said of.
PlainPoints == {"idle", "changePassword.commit", "refresh.commit",
                "deleteAccount.commit", "deleteUser.commit",
                "updateStatus.commit"}

LEMMA PlainMoves ==
  ASSUME TypeOK, NEW r \in Requests, NEW q, Await(r, q), q.at \in PlainPoints
  PROVE  Moved(r)
BY AwaitMoves DEF Moved, PlainPoints

LEMMA AnswerMoves ==
  ASSUME TypeOK, NEW r \in Requests, Answer(r)
  PROVE  Moved(r)
<1>1. Idle.at \in PlainPoints  BY DEF Idle, PlainPoints
<1> QED  BY <1>1, PlainMoves DEF Answer

LEMMA AuthStepMoves ==
  ASSUME TypeOK, NEW r \in Requests, AuthStep(r)
  PROVE  Moved(r)
<1>1. CASE LoginCount(r)
  <2> DEFINE q == [at |-> "login.lock", user |-> req[r].user, since |-> now]
  <2>1. q.at = "login.lock" /\ q.user = req[r].user /\ q.since = now  OBVIOUS
  <2>2. Answer(r) \/ Await(r, q)  BY <1>1 DEF LoginCount
  <2> HIDE DEF q
  <2>3. CASE Await(r, q)
    <3>1. req'[r] = q /\ \A x \in Requests : x # r => req'[x] = req[x]
      BY <2>3, AwaitMoves
    <3> QED  BY <1>1, <2>1, <3>1 DEF LoginCount, Moved
  <2> QED  BY <2>2, <2>3, AnswerMoves
<1>2. CASE \E current, new \in Passwords : ChangePasswordRead(r, current, new)
  <2>1. PICK current, new \in Passwords : ChangePasswordRead(r, current, new)
    BY <1>2
  <2> DEFINE q == [at |-> "changePassword.commit", user |-> req[r].user,
                   password |-> new]
  <2>2. q.at \in PlainPoints  BY DEF PlainPoints
  <2> QED  BY <2>1, <2>2, PlainMoves, AnswerMoves DEF ChangePasswordRead
<1>3. CASE \/ LoginLock(r) \/ LoginCommit(r) \/ RefreshCommit(r) \/ RefreshLost(r)
           \/ ChangePasswordCommit(r) \/ RevokeAllSessions(r)
  BY <1>3, AnswerMoves
  DEF LoginLock, LoginCommit, RefreshCommit, RefreshLost, ChangePasswordCommit,
      RevokeAllSessions
<1> QED  BY <1>1, <1>2, <1>3 DEF AuthStep

LEMMA RecoveryStepMoves ==
  ASSUME TypeOK, NEW r \in Requests, RecoveryStep(r)
  PROVE  Moved(r)
<1>0. req[r] \in Request  BY DEF TypeOK
<1>1. CASE SignupCommit(r) \/ ResendCreate(r) \/ ForgotCreate(r)
  <2> DEFINE q == [at |-> "enqueue", user |-> req[r].user, link |-> req[r].link]
  <2>1. q.at = "enqueue" /\ q.link = req[r].link  OBVIOUS
  <2>2. /\ Await(r, q)
        /\ req[r].at \in {"signup.commit", "resend.create", "forgot.create"}
    BY <1>1 DEF SignupCommit, ResendCreate, ForgotCreate
  <2> HIDE DEF q
  <2> QED  BY <2>1, <2>2, AwaitMoves DEF Moved
<1>2. CASE ResendRead(r)
  <2> DEFINE q == [at |-> "resend.delete", user |-> req[r].user]
  <2>1. q.at = "resend.delete" /\ q.user = req[r].user  OBVIOUS
  <2>2. /\ req[r].at = "authenticated"
        /\ Answer(r) \/ Await(r, q)
    BY <1>2 DEF ResendRead
  <2> HIDE DEF q
  <2> QED  BY <2>1, <2>2, AwaitMoves, AnswerMoves DEF Moved
<1>3. CASE ResendDelete(r)
  <2>1. ASSUME NEW link \in FreshLinks,
               Await(r, [at |-> "resend.create", user |-> req[r].user,
                         link |-> link, since |-> now])
        PROVE  Moved(r)
    <3> DEFINE q == [at |-> "resend.create", user |-> req[r].user,
                     link |-> link, since |-> now]
    <3>1. q.at = "resend.create" /\ q.user = req[r].user /\ q.link = link  OBVIOUS
    <3>2. Await(r, q)  BY <2>1
    <3> HIDE DEF q
    <3> QED  BY <1>3, <3>1, <3>2, AwaitMoves DEF Moved
  <2> QED  BY <1>3, <2>1, AnswerMoves DEF ResendDelete
<1>4. CASE ForgotDelete(r)
  <2> DEFINE q == [at |-> "forgot.create", user |-> req[r].user,
                   link |-> req[r].link, since |-> now]
  <2>1. /\ q.at = "forgot.create"
        /\ q.user = req[r].user /\ q.link = req[r].link
    OBVIOUS
  <2>2. Await(r, q)  BY <1>4 DEF ForgotDelete
  <2> HIDE DEF q
  <2> QED  BY <1>4, <2>1, <2>2, AwaitMoves DEF Moved
<1>5. CASE \/ SignupLost(r) \/ VerifyCommit(r) \/ VerifyLost(r) \/ ResetCommit(r)
           \/ ResetLost(r) \/ Enqueue(r)
  BY <1>5, AnswerMoves
  DEF SignupLost, VerifyCommit, VerifyLost, ResetCommit, ResetLost, Enqueue
<1> QED  BY <1>1, <1>2, <1>3, <1>4, <1>5 DEF RecoveryStep

LEMMA AdminStepMoves ==
  ASSUME TypeOK, NEW r \in Requests, AdminStep(r)
  PROVE  Moved(r)
<1>0. req[r] \in Request  BY DEF TypeOK
<1>1. CASE DeleteAccountRead(r)
  <2> DEFINE q == [at |-> "deleteAccount.commit", user |-> req[r].user]
  <2>1. q.at \in PlainPoints  BY DEF PlainPoints
  <2> QED  BY <1>1, <2>1, PlainMoves, AnswerMoves DEF DeleteAccountRead
<1>2. CASE AuthenticateAdmin(r)
  <2> DEFINE q == [req[r] EXCEPT !.at = "authorized"]
  <2>1. q.at = "authorized"
    BY <1>0, <1>2, RequestShapes DEF AuthenticateAdmin
  <2>2. /\ req[r].at = "authenticated"
        /\ Answer(r) \/ (Await(r, q) /\ user[req[r].user].role = "ADMIN")
    BY <1>2 DEF AuthenticateAdmin
  <2> HIDE DEF q
  <2> QED  BY <2>1, <2>2, AwaitMoves, AnswerMoves DEF Moved
<1>3. ASSUME NEW u, NEW role, UpdateUserRoleRead(r, u, role)
      PROVE  Moved(r)
  <2> DEFINE q == [at |-> "updateRole.commit", user |-> u, role |-> role]
  <2>1. q.at = "updateRole.commit"  OBVIOUS
  <2>2. req[r].at = "authorized" /\ (Answer(r) \/ Await(r, q))
    BY <1>3 DEF UpdateUserRoleRead, At
  <2> HIDE DEF q
  <2> QED  BY <2>1, <2>2, AwaitMoves, AnswerMoves DEF Moved
<1>4. ASSUME NEW u, NEW status, UpdateUserStatusRead(r, u, status)
      PROVE  Moved(r)
  <2> DEFINE q == [at |-> "updateStatus.commit", user |-> u, status |-> status]
  <2>1. q.at \in PlainPoints  BY DEF PlainPoints
  <2> QED  BY <1>4, <2>1, PlainMoves, AnswerMoves DEF UpdateUserStatusRead
<1>5. ASSUME NEW u, DeleteUserRead(r, u)
      PROVE  Moved(r)
  <2> DEFINE q == [at |-> "deleteUser.commit", user |-> u]
  <2>1. q.at \in PlainPoints  BY DEF PlainPoints
  <2> QED  BY <1>5, <2>1, PlainMoves, AnswerMoves DEF DeleteUserRead
<1>6. CASE \/ DeleteAccountCommit(r) \/ DeleteUserCommit(r)
           \/ UpdateUserRoleCommit(r) \/ UpdateUserStatusCommit(r)
           \/ \E sid \in Sids : RevokeSession(r, sid)
  BY <1>6, AnswerMoves
  DEF DeleteAccountCommit, DeleteUserCommit, UpdateUserRoleCommit,
      UpdateUserStatusCommit, RevokeSession
<1> QED  BY <1>1, <1>2, <1>3, <1>4, <1>5, <1>6 DEF AdminStep

LEMMA ArriveMoves ==
  ASSUME TypeOK, NEW r \in Requests, Arrive(r)
  PROVE  UNCHANGED req \/ Moved(r)
<1>1. ASSUME NEW op, NEW p \in issued, Authenticate(r, op, p)
      PROVE  Moved(r)
  <2> DEFINE q == [at |-> "authenticated", op |-> op, user |-> p.sub, sid |-> p.sid]
  <2>1. q.at = "authenticated" /\ q.user = p.sub  OBVIOUS
  <2>2. Await(r, q) /\ HasAccount(p.sub)  BY <1>1 DEF Authenticate
  <2> HIDE DEF q
  <2> QED  BY <2>1, <2>2, AwaitMoves DEF Moved
<1>2. ASSUME NEW u, LoginRefuse(r, u)
      PROVE  UNCHANGED req
  BY <1>2 DEF LoginRefuse, vars
<1>3. ASSUME NEW u, NEW password, LoginWrongPassword(r, u, password)
      PROVE  Moved(r)
  <2> DEFINE q == [at |-> "login.count", user |-> u]
  <2>1. q.at = "login.count" /\ q.user = u  OBVIOUS
  <2>2. Await(r, q) /\ MaySignIn(u)  BY <1>3 DEF LoginWrongPassword
  <2> HIDE DEF q
  <2> QED  BY <2>1, <2>2, AwaitMoves DEF Moved
<1>4. ASSUME NEW u, NEW password, LoginRightPassword(r, u, password)
      PROVE  Moved(r)
  <2>1. PICK jti \in FreshJtis, sid \in FreshSids :
          Await(r, [at |-> "login.commit", user |-> u, password |-> password,
                    sid |-> sid, jti |-> jti, since |-> now])
    BY <1>4 DEF LoginRightPassword
  <2> DEFINE q == [at |-> "login.commit", user |-> u, password |-> password,
                   sid |-> sid, jti |-> jti, since |-> now]
  <2>2. q.at = "login.commit" /\ q.user = u /\ q.password = password  OBVIOUS
  <2>3. MaySignIn(u) /\ user[u].password = password
    BY <1>4 DEF LoginRightPassword
  <2> HIDE DEF q
  <2> QED  BY <2>1, <2>2, <2>3, AwaitMoves DEF Moved
<1>5. ASSUME NEW p \in issued, RefreshRead(r, p)
      PROVE  Moved(r)
  <2>1. PICK t \in refreshToken, jti \in FreshJtis :
          Await(r, [at |-> "refresh.commit", user |-> p.sub, old |-> t.jti,
                    sid |-> t.sessionId, jti |-> jti, since |-> now])
    BY <1>5 DEF RefreshRead
  <2> DEFINE q == [at |-> "refresh.commit", user |-> p.sub, old |-> t.jti,
                   sid |-> t.sessionId, jti |-> jti, since |-> now]
  <2>2. q.at \in PlainPoints  BY DEF PlainPoints
  <2> QED  BY <2>1, <2>2, PlainMoves
<1>6. ASSUME NEW u, NEW password, SignupRead(r, u, password)
      PROVE  Moved(r)
  <2>1. PICK link \in FreshLinks :
          Await(r, [at |-> "signup.commit", user |-> u, password |-> password,
                    link |-> link, since |-> now])
    BY <1>6 DEF SignupRead
  <2> DEFINE q == [at |-> "signup.commit", user |-> u, password |-> password,
                   link |-> link, since |-> now]
  <2>2. q.at = "signup.commit" /\ q.link = link  OBVIOUS
  <2> HIDE DEF q
  <2> QED  BY <2>1, <2>2, AwaitMoves DEF Moved
<1>7. ASSUME NEW m, VerifyRead(r, m)
      PROVE  Moved(r)
  <2>1. PICK t \in emailVerificationToken :
          Await(r, [at |-> "verify.commit", user |-> t.userId, link |-> t.link])
    BY <1>7 DEF VerifyRead
  <2> DEFINE q == [at |-> "verify.commit", user |-> t.userId, link |-> t.link]
  <2>2. q.at = "verify.commit" /\ q.user = t.userId /\ q.link = t.link  OBVIOUS
  <2> HIDE DEF q
  <2> QED  BY <2>1, <2>2, AwaitMoves DEF Moved
<1>8. ASSUME NEW u, ForgotRead(r, u)
      PROVE  Moved(r)
  <2>1. PICK link \in FreshLinks :
          Await(r, [at |-> "forgot.delete", user |-> u, link |-> link])
    BY <1>8 DEF ForgotRead
  <2> DEFINE q == [at |-> "forgot.delete", user |-> u, link |-> link]
  <2>2. q.at = "forgot.delete" /\ q.link = link  OBVIOUS
  <2> HIDE DEF q
  <2> QED  BY <2>1, <2>2, AwaitMoves DEF Moved
<1>9. ASSUME NEW m, NEW new, ResetRead(r, m, new)
      PROVE  Moved(r)
  <2>1. PICK t \in passwordResetToken :
          /\ ~t.usedAt
          /\ Await(r, [at |-> "reset.commit", user |-> t.userId, password |-> new,
                       link |-> t.link])
    BY <1>9 DEF ResetRead, Redeemable
  <2> DEFINE q == [at |-> "reset.commit", user |-> t.userId, password |-> new,
                   link |-> t.link]
  <2>2. q.at = "reset.commit" /\ q.link = t.link  OBVIOUS
  <2> HIDE DEF q
  <2> QED  BY <2>1, <2>2, AwaitMoves DEF Moved
<1> QED
  BY <1>1, <1>2, <1>3, <1>4, <1>5, <1>6, <1>7, <1>8, <1>9
  DEF Arrive, AuthArrival, RecoveryArrival

LEMMA StepMoves ==
  ASSUME TypeOK, [Next]_vars
  PROVE  UNCHANGED req \/ \E r \in Requests : Moved(r)
<1>1. ASSUME NEW r \in Requests, Arrive(r) \/ Step(r) \/ Abort(r)
      PROVE  UNCHANGED req \/ Moved(r)
  <2>1. CASE Abort(r)  BY <2>1, AnswerMoves DEF Abort
  <2> QED
    BY <1>1, <2>1, ArriveMoves, AuthStepMoves, RecoveryStepMoves, AdminStepMoves
    DEF Step
<1>2. ASSUME NEW p \in issued, Logout(p) PROVE UNCHANGED req
  BY <1>2 DEF Logout
<1>3. CASE Tick \/ UNCHANGED vars  BY <1>3 DEF Tick, vars
<1> QED  BY <1>1, <1>2, <1>3 DEF Next

\* The actions that write a column of User other than the counter and the lock.
Edits(r) ==
  \/ VerifyCommit(r) \/ ChangePasswordCommit(r) \/ ResetCommit(r)
  \/ DeleteAccountCommit(r) \/ DeleteUserCommit(r)
  \/ UpdateUserRoleCommit(r) \/ UpdateUserStatusCommit(r)

LEMMA ArriveKeepsRows ==
  ASSUME NEW r \in Requests, Arrive(r)
  PROVE  UNCHANGED <<user, tokenVars, linkVars, now>>
<1>1. ASSUME NEW op, NEW p, Authenticate(r, op, p)
      PROVE  UNCHANGED <<user, tokenVars, linkVars, now>>
  BY <1>1 DEF Authenticate
<1>2. ASSUME NEW u, LoginRefuse(r, u)
      PROVE  UNCHANGED <<user, tokenVars, linkVars, now>>
  BY <1>2 DEF LoginRefuse, vars
<1>3. ASSUME NEW u, NEW password,
             LoginWrongPassword(r, u, password) \/ LoginRightPassword(r, u, password)
      PROVE  UNCHANGED <<user, tokenVars, linkVars, now>>
  BY <1>3 DEF LoginWrongPassword, LoginRightPassword
<1>4. ASSUME NEW p, RefreshRead(r, p)
      PROVE  UNCHANGED <<user, tokenVars, linkVars, now>>
  BY <1>4 DEF RefreshRead
<1>5. ASSUME NEW x, NEW y, \/ SignupRead(r, x, y) \/ VerifyRead(r, x)
                           \/ ForgotRead(r, x) \/ ResetRead(r, x, y)
      PROVE  UNCHANGED <<user, tokenVars, linkVars, now>>
  BY <1>5 DEF SignupRead, VerifyRead, ForgotRead, ResetRead
<1> QED
  BY <1>1, <1>2, <1>3, <1>4, <1>5 DEF Arrive, AuthArrival, RecoveryArrival

\* Who writes the User table ...
LEMMA UserEffect ==
  ASSUME [Next]_vars
  PROVE  \/ UNCHANGED user
         \/ \E r \in Requests : \/ LoginCount(r) \/ LoginLock(r) \/ LoginCommit(r)
                                \/ SignupCommit(r) \/ Edits(r)
<1>1. ASSUME NEW r \in Requests, AuthStep(r)
      PROVE  \/ UNCHANGED user
             \/ LoginCount(r) \/ LoginLock(r) \/ LoginCommit(r) \/ Edits(r)
  BY <1>1 DEF AuthStep, RefreshCommit, RefreshLost, ChangePasswordRead,
              RevokeAllSessions, Edits
<1>2. ASSUME NEW r \in Requests, RecoveryStep(r)
      PROVE  UNCHANGED user \/ SignupCommit(r) \/ Edits(r)
  BY <1>2 DEF RecoveryStep, SignupLost, VerifyLost, ResendRead, ResendDelete,
              ResendCreate, ForgotDelete, ForgotCreate, ResetLost, Enqueue, Edits
<1>3. ASSUME NEW r \in Requests, AdminStep(r)
      PROVE  UNCHANGED user \/ Edits(r)
  BY <1>3 DEF AdminStep, DeleteAccountRead, RevokeSession, AuthenticateAdmin,
              UpdateUserRoleRead, UpdateUserStatusRead, DeleteUserRead, Edits
<1>4. ASSUME NEW r \in Requests, Abort(r) PROVE UNCHANGED user
  BY <1>4 DEF Abort
<1>5. ASSUME NEW p \in issued, Logout(p) PROVE UNCHANGED user
  BY <1>5 DEF Logout
<1>6. CASE Tick \/ UNCHANGED vars  BY <1>6 DEF Tick, vars
<1> QED
  BY <1>1, <1>2, <1>3, <1>4, <1>5, <1>6, ArriveKeepsRows DEF Next, Step

\* ... and who the tables of links.
LEMMA LinkEffect ==
  ASSUME [Next]_vars
  PROVE  /\ \/ UNCHANGED emailVerificationToken
            \/ \E r \in Requests : \/ SignupCommit(r) \/ VerifyCommit(r)
                                   \/ ResendDelete(r) \/ ResendCreate(r)
         /\ \/ UNCHANGED passwordResetToken
            \/ \E r \in Requests : \/ ForgotDelete(r) \/ ForgotCreate(r)
                                   \/ ResetCommit(r)
<1>1. ASSUME NEW r \in Requests, AuthStep(r)
      PROVE  UNCHANGED <<emailVerificationToken, passwordResetToken>>
  BY <1>1 DEF AuthStep, LoginCount, LoginLock, LoginCommit, RefreshCommit,
              RefreshLost, ChangePasswordRead, ChangePasswordCommit,
              RevokeAllSessions, linkVars
<1>2. ASSUME NEW r \in Requests, RecoveryStep(r)
      PROVE  /\ \/ UNCHANGED emailVerificationToken
                \/ SignupCommit(r) \/ VerifyCommit(r)
                \/ ResendDelete(r) \/ ResendCreate(r)
             /\ \/ UNCHANGED passwordResetToken
                \/ ForgotDelete(r) \/ ForgotCreate(r) \/ ResetCommit(r)
  BY <1>2 DEF RecoveryStep, SignupCommit, SignupLost, VerifyCommit, VerifyLost,
              ResendRead, ResendDelete, ResendCreate, ForgotDelete, ForgotCreate,
              ResetCommit, ResetLost, Enqueue, linkVars
<1>3. ASSUME NEW r \in Requests, AdminStep(r)
      PROVE  UNCHANGED <<emailVerificationToken, passwordResetToken>>
  BY <1>3 DEF AdminStep, DeleteAccountRead, DeleteAccountCommit, RevokeSession,
              AuthenticateAdmin, UpdateUserRoleRead, UpdateUserRoleCommit,
              UpdateUserStatusRead, UpdateUserStatusCommit, DeleteUserRead,
              DeleteUserCommit, linkVars
<1>4. ASSUME NEW r \in Requests, Abort(r)
      PROVE  UNCHANGED <<emailVerificationToken, passwordResetToken>>
  BY <1>4 DEF Abort, linkVars
<1>5. ASSUME NEW p \in issued, Logout(p)
      PROVE  UNCHANGED <<emailVerificationToken, passwordResetToken>>
  BY <1>5 DEF Logout, linkVars
<1>6. CASE Tick \/ UNCHANGED vars  BY <1>6 DEF Tick, vars, linkVars
<1>7. ASSUME NEW r \in Requests, Arrive(r)
      PROVE  UNCHANGED <<emailVerificationToken, passwordResetToken>>
  BY <1>7, ArriveKeepsRows DEF linkVars
<1> QED
  BY <1>1, <1>2, <1>3, <1>4, <1>5, <1>6, <1>7 DEF Next, Step

\* What an edit may change in a row.
LEMMA EditRows ==
  ASSUME TypeOK, NEW r \in Requests, Edits(r)
  PROVE  \A u \in Users :
           /\ user'[u].failedLoginAttempts = user[u].failedLoginAttempts
           /\ user'[u].lockUntil = user[u].lockUntil
           /\ user[u].status # "NONE" => user'[u].status # "NONE"
           /\ \/ user'[u].role = user[u].role
              \/ UpdateUserRoleCommit(r)
           /\ \/ user'[u].status = user[u].status
              \/ /\ user'[u].status = "DELETED" /\ req[r].user = u
                 /\ DeleteAccountCommit(r) \/ DeleteUserCommit(r)
              \/ /\ user'[u].status = "ACTIVE" /\ req[r].user = u
                 /\ VerifyCommit(r)
              \/ /\ user'[u].status # "DELETED" /\ req[r].user = u
                 /\ UpdateUserStatusCommit(r)
           /\ \/ user'[u].password = user[u].password
              \/ /\ ChangePasswordCommit(r) \/ ResetCommit(r)
                 /\ req[r].user = u
<1>0. user \in [Users -> UserRow] /\ req[r] \in Request  BY DEF TypeOK
<1>1. CASE VerifyCommit(r)
  BY <1>0, <1>1 DEF VerifyCommit, UserRow
<1>2. CASE ChangePasswordCommit(r) \/ ResetCommit(r)
  BY <1>0, <1>2 DEF ChangePasswordCommit, ResetCommit, UserRow
<1>3. CASE DeleteAccountCommit(r) \/ DeleteUserCommit(r)
  BY <1>0, <1>3 DEF DeleteAccountCommit, DeleteUserCommit, SoftDelete, UserRow
<1>4. CASE UpdateUserRoleCommit(r)
  BY <1>0, <1>4 DEF UpdateUserRoleCommit, UserRow
<1>5. CASE UpdateUserStatusCommit(r)
  <2>1. req[r].status \notin {"NONE", "DELETED"}
    BY <1>0, <1>5, RequestShapes DEF UpdateUserStatusCommit
  <2> QED  BY <1>0, <1>5, <2>1 DEF UpdateUserStatusCommit, UserRow
<1> QED  BY <1>1, <1>2, <1>3, <1>4, <1>5 DEF Edits

LEMMA ClockEffect ==
  ASSUME [Next]_vars
  PROVE  now' = now \/ now' = now + 1
<1>1. ASSUME NEW r \in Requests, AuthStep(r) PROVE now' = now
  BY <1>1 DEF AuthStep, LoginCount, LoginLock, LoginCommit, RefreshCommit,
              RefreshLost, ChangePasswordRead, ChangePasswordCommit,
              RevokeAllSessions
<1>2. ASSUME NEW r \in Requests, RecoveryStep(r) PROVE now' = now
  BY <1>2 DEF RecoveryStep, SignupCommit, SignupLost, VerifyCommit, VerifyLost,
              ResendRead, ResendDelete, ResendCreate, ForgotDelete, ForgotCreate,
              ResetCommit, ResetLost, Enqueue
<1>3. ASSUME NEW r \in Requests, AdminStep(r) PROVE now' = now
  BY <1>3 DEF AdminStep, DeleteAccountRead, DeleteAccountCommit, RevokeSession,
              AuthenticateAdmin, UpdateUserRoleRead, UpdateUserRoleCommit,
              UpdateUserStatusRead, UpdateUserStatusCommit, DeleteUserRead,
              DeleteUserCommit
<1>4. ASSUME NEW r \in Requests, Abort(r) PROVE now' = now  BY <1>4 DEF Abort
<1>5. ASSUME NEW p \in issued, Logout(p) PROVE now' = now  BY <1>5 DEF Logout
<1>6. CASE Tick \/ UNCHANGED vars  BY <1>6 DEF Tick, vars
<1> QED
  BY <1>1, <1>2, <1>3, <1>4, <1>5, <1>6, ArriveKeepsRows DEF Next, Step

-----------------------------------------------------------------------------
(* An address without a row has nothing else either.                       *)

\* Points a request reaches only on behalf of an account.
OwnerPoints == {"authenticated", "login.count", "login.lock", "login.commit",
                "resend.delete", "resend.create"}

\* No lock, session or verification link, and no request on its behalf, before
\* the row is there.
AccountFirst ==
  /\ \A u \in Users : user[u].lockUntil # 0 => HasAccount(u)
  /\ \A s \in session : HasAccount(s.userId)
  /\ \A t \in emailVerificationToken : HasAccount(t.userId)
  /\ \A r \in Requests : req[r].at \in OwnerPoints => HasAccount(req[r].user)

\* What the five actions that write a whole row, the counter or the lock do.
LEMMA RowWrites ==
  ASSUME TypeOK, NEW r \in Requests
  PROVE  /\ LoginCount(r) \/ LoginLock(r) \/ LoginCommit(r) =>
              \A u \in Users : /\ user'[u].status = user[u].status
                               /\ user'[u].role = user[u].role
                               /\ user'[u].password = user[u].password
                               /\ u # req[r].user => user'[u] = user[u]
         /\ SignupCommit(r) =>
              \A u \in Users : u # req[r].user => user'[u] = user[u]
         /\ SignupCommit(r) =>
              /\ req[r].user \in Users
              /\ user'[req[r].user].status = "PENDING_VERIFICATION"
              /\ user'[req[r].user].role = "USER"
              /\ user'[req[r].user].failedLoginAttempts = 0
              /\ user'[req[r].user].lockUntil = 0
<1>0. user \in [Users -> UserRow] /\ req[r] \in Request  BY DEF TypeOK
<1>1. LoginCount(r) \/ LoginLock(r) \/ LoginCommit(r) =>
        \A u \in Users : /\ user'[u].status = user[u].status
                         /\ user'[u].role = user[u].role
                         /\ user'[u].password = user[u].password
                         /\ u # req[r].user => user'[u] = user[u]
  <2>1. LoginCount(r) => \E x : user' =
          [user EXCEPT ![req[r].user].failedLoginAttempts = x]
    BY DEF LoginCount
  <2>2. LoginLock(r) => \E x : user' = [user EXCEPT ![req[r].user].lockUntil = x]
    BY DEF LoginLock
  <2>3. LoginCommit(r) =>
          user' = [user EXCEPT ![req[r].user].failedLoginAttempts = 0,
                               ![req[r].user].lockUntil = 0]
    BY SMT DEF LoginCommit
  <2>4. ASSUME LoginCount(r)
        PROVE  \A u \in Users : /\ user'[u].status = user[u].status
                                /\ user'[u].role = user[u].role
                                /\ user'[u].password = user[u].password
                                /\ u # req[r].user => user'[u] = user[u]
    <3>1. PICK x : user' = [user EXCEPT ![req[r].user].failedLoginAttempts = x]
      BY <2>1, <2>4
    <3> QED  BY <1>0, <3>1 DEF UserRow
  <2>5. ASSUME LoginLock(r)
        PROVE  \A u \in Users : /\ user'[u].status = user[u].status
                                /\ user'[u].role = user[u].role
                                /\ user'[u].password = user[u].password
                                /\ u # req[r].user => user'[u] = user[u]
    <3>1. PICK x : user' = [user EXCEPT ![req[r].user].lockUntil = x]
      BY <2>2, <2>5
    <3> QED  BY <1>0, <3>1 DEF UserRow
  <2>6. ASSUME LoginCommit(r)
        PROVE  \A u \in Users : /\ user'[u].status = user[u].status
                                /\ user'[u].role = user[u].role
                                /\ user'[u].password = user[u].password
                                /\ u # req[r].user => user'[u] = user[u]
    BY <1>0, <2>3, <2>6 DEF UserRow
  <2> QED  BY <2>4, <2>5, <2>6
<1>2. SignupCommit(r) => req[r].user \in Users
  BY <1>0, RequestShapes DEF SignupCommit
<1>3. SignupCommit(r) =>
        /\ \A u \in Users : u # req[r].user => user'[u] = user[u]
        /\ user'[req[r].user] = NewUser(req[r].password)
  BY <1>0, <1>2 DEF SignupCommit
<1>4. \A password : /\ NewUser(password).status = "PENDING_VERIFICATION"
                   /\ NewUser(password).role = "USER"
                   /\ NewUser(password).failedLoginAttempts = 0
                   /\ NewUser(password).lockUntil = 0
  BY DEF NewUser
<1> QED  BY <1>1, <1>2, <1>3, <1>4

LEMMA AccountStays ==
  ASSUME TypeOK, [Next]_vars
  PROVE  \A u \in Users : HasAccount(u) => HasAccount(u)'
<1>1. ASSUME NEW r \in Requests, SignupCommit(r)
      PROVE  \A u \in Users : HasAccount(u) => HasAccount(u)'
  BY <1>1, RowWrites DEF HasAccount
<1>2. ASSUME NEW r \in Requests, LoginCount(r) \/ LoginLock(r) \/ LoginCommit(r)
      PROVE  \A u \in Users : HasAccount(u) => HasAccount(u)'
  BY <1>2, RowWrites DEF HasAccount
<1>3. ASSUME NEW r \in Requests, Edits(r)
      PROVE  \A u \in Users : HasAccount(u) => HasAccount(u)'
  BY <1>3, EditRows DEF HasAccount
<1>4. CASE UNCHANGED user  BY <1>4 DEF HasAccount
<1> QED  BY <1>1, <1>2, <1>3, <1>4, UserEffect

LEMMA InitAccountFirst == ASSUME Init PROVE AccountFirst
<1>1. \A u \in Users : user[u].lockUntil = 0
  BY DEF Init, NewUser
<1> QED  BY <1>1 DEF Init, AccountFirst, Idle, OwnerPoints

LEMMA StepAccountFirst ==
  ASSUME TypeOK, RotationInv, AccountFirst, [Next]_vars
  PROVE  AccountFirst'
<1>1. \A u \in Users : HasAccount(u) => HasAccount(u)'  BY AccountStays
<1>2. \A r \in Requests : req[r].at \in OwnerPoints =>
        req[r].user \in Users /\ HasAccount(req[r].user)
  <2>1. \A r \in Requests : req[r] \in Request  BY DEF TypeOK
  <2> QED  BY <2>1, RequestShapes DEF AccountFirst, OwnerPoints, UserPoints, CreatePoints
<1>3. \A u \in Users : user'[u].lockUntil # 0 => HasAccount(u)'
  <2>1. ASSUME NEW r \in Requests, LoginCount(r) \/ LoginLock(r) \/ LoginCommit(r)
        PROVE  \A u \in Users : user'[u].lockUntil # 0 => HasAccount(u)'
    <3>1. req[r].at \in OwnerPoints
      BY <2>1 DEF LoginCount, LoginLock, LoginCommit, OwnerPoints
    <3> QED  BY <1>1, <1>2, <2>1, <3>1, RowWrites DEF AccountFirst
  <2>2. ASSUME NEW r \in Requests, SignupCommit(r)
        PROVE  \A u \in Users : user'[u].lockUntil # 0 => HasAccount(u)'
    BY <1>1, <2>2, RowWrites DEF AccountFirst
  <2>3. ASSUME NEW r \in Requests, Edits(r)
        PROVE  \A u \in Users : user'[u].lockUntil # 0 => HasAccount(u)'
    BY <1>1, <2>3, EditRows DEF AccountFirst
  <2> QED  BY <1>1, <2>1, <2>2, <2>3, UserEffect DEF AccountFirst
<1>4. \A s \in session' : HasAccount(s.userId)'
  <2>1. \A s \in session : HasAccount(s.userId)'
    BY <1>1 DEF AccountFirst, TypeOK, SessionRow
  <2>2. ASSUME NEW r \in Requests, LoginCommit(r), NEW s \in session'
        PROVE  s \in session \/ HasAccount(s.userId)'
    <3>1. req[r].at \in OwnerPoints  BY <2>2 DEF LoginCommit, OwnerPoints
    <3>2. s \in session \/ s.userId = req[r].user  BY <2>2 DEF LoginCommit
    <3> QED  BY <1>1, <1>2, <3>1, <3>2
  <2>3. ASSUME NEW r \in Requests, RefreshCommit(r) PROVE session' = session
    BY <2>3 DEF RefreshCommit
  <2> QED  BY <2>1, <2>2, <2>3, StepEffect, EndsTogether DEF tokenVars
<1>5. \A t \in emailVerificationToken' : HasAccount(t.userId)'
  <2>1. \A t \in emailVerificationToken : HasAccount(t.userId)'
    BY <1>1 DEF AccountFirst, TypeOK, EmailVerificationTokenRow
  <2>2. ASSUME NEW r \in Requests, SignupCommit(r), NEW t \in emailVerificationToken'
        PROVE  t \in emailVerificationToken \/ HasAccount(t.userId)'
    <3>1. t \in emailVerificationToken \/ t.userId = req[r].user
      BY <2>2 DEF SignupCommit
    <3> QED  BY <2>2, <3>1, RowWrites DEF HasAccount
  <2>3. ASSUME NEW r \in Requests, ResendCreate(r), NEW t \in emailVerificationToken'
        PROVE  t \in emailVerificationToken \/ HasAccount(t.userId)'
    <3>1. t \in emailVerificationToken \/ t.userId = req[r].user
      BY <2>3 DEF ResendCreate
    <3>2. req[r].at \in OwnerPoints  BY <2>3 DEF ResendCreate, OwnerPoints
    <3> QED  BY <1>1, <1>2, <3>1, <3>2
  <2>4. ASSUME NEW r \in Requests, VerifyCommit(r) \/ ResendDelete(r)
        PROVE  emailVerificationToken' \subseteq emailVerificationToken
    BY <2>4 DEF VerifyCommit, ResendDelete
  <2> QED  BY <2>1, <2>2, <2>3, <2>4, LinkEffect
<1>6. \A r \in Requests : req'[r].at \in OwnerPoints => HasAccount(req[r].user)'
  <2>1. \A r \in Requests : req'[r] \in Request  BY StepType DEF TypeOK
  <2>2. ASSUME NEW r \in Requests, Moved(r), req'[r].at \in OwnerPoints
        PROVE  HasAccount(req'[r].user)
    BY <1>2, <2>2 DEF Moved, OwnerPoints, MaySignIn, ResendDelete
  <2>3. \A r \in Requests : req'[r].at \in OwnerPoints => req'[r].user \in Users
    BY <2>1, RequestShapes DEF OwnerPoints, UserPoints, CreatePoints
  <2>4. ASSUME NEW x \in Requests, req'[x] = req[x], req'[x].at \in OwnerPoints
        PROVE  HasAccount(req'[x].user)
    BY <2>4 DEF AccountFirst
  <2>5. ASSUME NEW x \in Requests, req'[x].at \in OwnerPoints
        PROVE  HasAccount(req'[x].user)
    <3>1. CASE UNCHANGED req  BY <2>4, <2>5, <3>1
    <3>2. ASSUME NEW r \in Requests, Moved(r)
          PROVE  HasAccount(req'[x].user)
      BY <2>2, <2>4, <2>5, <3>2 DEF Moved
    <3> QED  BY <3>1, <3>2, StepMoves
  <2> QED  BY <1>1, <2>3, <2>5 DEF HasAccount
<1> QED  BY <1>3, <1>4, <1>5, <1>6 DEF AccountFirst

\* Nothing exists in the name of an address that has no account, in any state.
THEOREM AccountsFirst == Spec => []AccountFirst
<1>1. Init => AccountFirst  BY InitAccountFirst
<1>2. TypeOK /\ RotationInv /\ AccountFirst /\ [Next]_vars => AccountFirst'
  BY StepAccountFirst
<1> QED  BY <1>1, <1>2, TypeCorrect, Rotation, PTL DEF Spec

-----------------------------------------------------------------------------
(* The lock.                                                               *)

\* No lock ends later than one that is set now.
LockWithin ==
  \A u \in Users : user[u].lockUntil <= now + ACCOUNT_LOCK_DURATION

LEMMA LockColumns ==
  ASSUME TypeOK, NEW r \in Requests
  PROVE  /\ LoginCount(r) =>
              /\ req[r].user \in Users
              /\ user'[req[r].user].failedLoginAttempts =
                   user[req[r].user].failedLoginAttempts + 1
              /\ user'[req[r].user].lockUntil = user[req[r].user].lockUntil
         /\ LoginLock(r) =>
              /\ req[r].user \in Users
              /\ user'[req[r].user].failedLoginAttempts =
                   user[req[r].user].failedLoginAttempts
              /\ req[r].since \in Nat /\ user'[req[r].user].lockUntil \in Nat
              /\ req[r].since + ACCOUNT_LOCK_DURATION
                   <= user'[req[r].user].lockUntil
              /\ user'[req[r].user].lockUntil <= now + ACCOUNT_LOCK_DURATION
         /\ LoginCommit(r) =>
              /\ req[r].user \in Users
              /\ user'[req[r].user].failedLoginAttempts = 0
              /\ user'[req[r].user].lockUntil = 0
<1>1. user \in [Users -> UserRow] /\ req[r] \in Request  BY DEF TypeOK
<1>2. LoginCount(r) \/ LoginLock(r) \/ LoginCommit(r) => req[r].user \in Users
  BY <1>1, RequestShapes DEF LoginCount, LoginLock, LoginCommit, UserPoints
<1>3. ASSUME LoginLock(r)
      PROVE  \E stamp \in Stamps(req[r]) :
               /\ user'[req[r].user].lockUntil = stamp + ACCOUNT_LOCK_DURATION
               /\ user'[req[r].user].failedLoginAttempts =
                    user[req[r].user].failedLoginAttempts
  <2>1. PICK stamp \in Stamps(req[r]) :
          user' = [user EXCEPT ![req[r].user].lockUntil =
                                 stamp + ACCOUNT_LOCK_DURATION]
    BY <1>3 DEF LoginLock
  <2>2. user[req[r].user] \in UserRow  BY <1>1, <1>2, <1>3
  <2> QED  BY <1>1, <1>2, <1>3, <2>1, <2>2 DEF UserRow
<1>4. LoginLock(r) => req[r].at \in StampPoints  BY DEF LoginLock, StampPoints
<1>5. LoginLock(r) => /\ req[r].since \in Nat /\ now \in Nat
                      /\ user'[req[r].user].lockUntil \in Nat
                      /\ req[r].since + ACCOUNT_LOCK_DURATION
                           <= user'[req[r].user].lockUntil
                      /\ user'[req[r].user].lockUntil
                           <= now + ACCOUNT_LOCK_DURATION
  BY <1>3, <1>4, StampType, DurationsAssumption
<1>6. LoginCount(r) =>
        /\ user'[req[r].user].failedLoginAttempts =
             user[req[r].user].failedLoginAttempts + 1
        /\ user'[req[r].user].lockUntil = user[req[r].user].lockUntil
  BY <1>1, <1>2 DEF LoginCount, UserRow
<1>7. LoginCommit(r) =>
        /\ user'[req[r].user].failedLoginAttempts = 0
        /\ user'[req[r].user].lockUntil = 0
  <2>1. SUFFICES ASSUME LoginCommit(r)
                 PROVE  /\ user'[req[r].user].failedLoginAttempts = 0
                        /\ user'[req[r].user].lockUntil = 0
    OBVIOUS
  <2>2. user' = [user EXCEPT ![req[r].user].failedLoginAttempts = 0,
                             ![req[r].user].lockUntil = 0]
    BY <2>1 DEF LoginCommit
  <2> QED  BY <1>1, <1>2, <2>1, <2>2 DEF UserRow
<1> QED  BY <1>2, <1>3, <1>5, <1>6, <1>7

LEMMA StepLockWithin ==
  ASSUME TypeOK, LockWithin, [Next]_vars
  PROVE  LockWithin'
<1>1. /\ now \in Nat /\ ACCOUNT_LOCK_DURATION \in Nat
      /\ \A u \in Users : user[u].lockUntil \in Nat
  BY DurationsAssumption DEF TypeOK, UserRow
<1>2. now' = now \/ now' = now + 1  BY ClockEffect
<1>3. SUFFICES ASSUME NEW u \in Users
               PROVE  \/ user'[u].lockUntil = user[u].lockUntil
                      \/ user'[u].lockUntil \in Nat
                         /\ user'[u].lockUntil <= now + ACCOUNT_LOCK_DURATION
  BY <1>1, <1>2, <1>3 DEF LockWithin
<1>4. ASSUME NEW r \in Requests, LoginCount(r) \/ LoginLock(r) \/ LoginCommit(r)
      PROVE  \/ user'[u].lockUntil = user[u].lockUntil
             \/ user'[u].lockUntil \in Nat
                /\ user'[u].lockUntil <= now + ACCOUNT_LOCK_DURATION
  BY <1>1, <1>4, LockColumns, RowWrites
<1>5. ASSUME NEW r \in Requests, SignupCommit(r)
      PROVE  \/ user'[u].lockUntil = user[u].lockUntil
             \/ user'[u].lockUntil = 0
  BY <1>5, RowWrites
<1>6. ASSUME NEW r \in Requests, Edits(r)
      PROVE  user'[u].lockUntil = user[u].lockUntil
  BY <1>6, EditRows
<1> QED  BY <1>1, <1>4, <1>5, <1>6, UserEffect

\* A request that is about to lock an account does so, or dies.
LEMMA LockLeaves ==
  ASSUME TypeOK, [Next]_vars,
         NEW r \in Requests, req[r].at = "login.lock", req'[r] # req[r]
  PROVE  LoginLock(r) \/ Abort(r)
<1>1. ASSUME NEW x \in Requests, x # r, Moved(x)
      PROVE  FALSE
  BY <1>1 DEF Moved
<1>2. ASSUME NEW x \in Requests, x # r, Arrive(x) \/ Step(x) \/ Abort(x)
      PROVE  FALSE
  <2>1. UNCHANGED req \/ Moved(x)
    BY <1>2, ArriveMoves, AuthStepMoves, RecoveryStepMoves, AdminStepMoves,
       AnswerMoves DEF Step, Abort
  <2> QED  BY <1>1, <1>2, <2>1
<1>3. req[r] # Idle  BY DEF Idle
<1>4. ~Arrive(r)
  <2>1. ASSUME NEW x, NEW y
        PROVE  /\ ~Authenticate(r, x, y) /\ ~LoginWrongPassword(r, x, y)
               /\ ~LoginRightPassword(r, x, y) /\ ~LoginRefuse(r, x)
               /\ ~RefreshRead(r, x) /\ ~SignupRead(r, x, y) /\ ~VerifyRead(r, x)
               /\ ~ForgotRead(r, x) /\ ~ResetRead(r, x, y)
    BY <1>3 DEF Authenticate, LoginWrongPassword, LoginRightPassword, LoginRefuse,
                RefreshRead, SignupRead, VerifyRead, ForgotRead, ResetRead
  <2> QED  BY <2>1 DEF Arrive, AuthArrival, RecoveryArrival
<1>5. AuthStep(r) => LoginLock(r)
  BY DEF AuthStep, LoginCount, LoginCommit, RefreshCommit, RefreshLost,
         ChangePasswordRead, ChangePasswordCommit, RevokeAllSessions
<1>6. ~RecoveryStep(r)
  BY DEF RecoveryStep, SignupCommit, SignupLost, VerifyCommit, VerifyLost,
         ResendRead, ResendDelete, ResendCreate, ForgotDelete, ForgotCreate,
         ResetCommit, ResetLost, Enqueue
<1>7. ~AdminStep(r)
  BY DEF AdminStep, At, DeleteAccountRead, DeleteAccountCommit, RevokeSession,
         AuthenticateAdmin, UpdateUserRoleRead, UpdateUserRoleCommit,
         UpdateUserStatusRead, UpdateUserStatusCommit, DeleteUserRead,
         DeleteUserCommit
<1>8. ASSUME NEW p \in issued, Logout(p) PROVE FALSE  BY <1>8 DEF Logout
<1>9. ~Tick /\ ~UNCHANGED vars  BY DEF Tick, vars
<1> QED
  BY <1>2, <1>4, <1>5, <1>6, <1>7, <1>8, <1>9 DEF Next, Step

\* A request that is about to lock another account, or is not moving, stays.
LEMMA LockersStay ==
  ASSUME TypeOK, NEW r \in Requests, NEW u,
         \A x \in Requests : x # r => req'[x] = req[x],
         ~(req[r].at = "login.lock" /\ req[r].user = u)
  PROVE  \A x \in Requests : req[x].at = "login.lock" /\ req[x].user = u =>
           req'[x].at = "login.lock" /\ req'[x].user = u
OBVIOUS

LEMMA StepOnlyDeathLosesLock ==
  ASSUME TypeOK, [Next]_vars, NEW u \in Users, LockMissing(u)', ~LockMissing(u)
  PROVE  \E r \in Requests : /\ req[r].at = "login.lock" /\ req[r].user = u
                             /\ req'[r] = Idle /\ user' = user
<1>0. /\ now \in Nat /\ ACCOUNT_LOCK_DURATION \in Nat \ {0}
      /\ MAX_FAILED_LOGIN \in Nat \ {0}
  BY DurationsAssumption DEF TypeOK
<1>1. /\ user'[u].failedLoginAttempts >= MAX_FAILED_LOGIN
      /\ user'[u].lockUntil = 0
      /\ \A r \in Requests : ~(req'[r].at = "login.lock" /\ req'[r].user = u)
  BY DEF LockMissing
\* If the row is as it was, a request has left.
<1>2. ASSUME user'[u].failedLoginAttempts = user[u].failedLoginAttempts,
             user'[u].lockUntil = user[u].lockUntil
      PROVE  \E r \in Requests : /\ req[r].at = "login.lock" /\ req[r].user = u
                                 /\ LoginLock(r) \/ Abort(r)
  <2>1. PICK r \in Requests : req[r].at = "login.lock" /\ req[r].user = u
    BY <1>1, <1>2 DEF LockMissing
  <2>2. req'[r] # req[r]  BY <1>1, <2>1
  <2> QED  BY <2>1, <2>2, LockLeaves
<1>3. ASSUME NEW r \in Requests, req[r].user = u, LoginLock(r)
      PROVE  FALSE
  BY <1>0, <1>1, <1>3, LockColumns
<1>4. ASSUME NEW r \in Requests, Abort(r)
      PROVE  req'[r] = Idle /\ user' = user
  BY <1>4 DEF Abort, Answer, Await, TypeOK
<1>5. CASE user' = user
  BY <1>2, <1>3, <1>4, <1>5
\* Whoever writes the row: not the counter, which goes on to the lock ...
<1>6. ASSUME NEW r \in Requests, LoginCount(r)
      PROVE  req[r].user # u
  <2>1. SUFFICES ASSUME req[r].user = u PROVE FALSE  OBVIOUS
  <2>2. Exhausted(user[u].failedLoginAttempts + 1)
    BY <1>1, <1>6, <2>1, LockColumns DEF Exhausted
  <2> DEFINE q == [at |-> "login.lock", user |-> u, since |-> now]
  <2>3. Await(r, q)  BY <1>6, <2>1, <2>2 DEF LoginCount
  <2>4. q.at = "login.lock" /\ q.user = u  OBVIOUS
  <2> HIDE DEF q
  <2>5. req'[r] = q  BY <2>3, AwaitMoves
  <2> QED  BY <1>1, <2>4, <2>5
\* ... nor those that clear it; and an edit leaves both columns alone.
<1>7. ASSUME NEW r \in Requests, LoginCommit(r) \/ SignupCommit(r)
      PROVE  req[r].user # u
  BY <1>0, <1>1, <1>7, LockColumns, RowWrites
<1>8. ASSUME NEW r \in Requests,
             LoginCount(r) \/ LoginLock(r) \/ LoginCommit(r) \/ SignupCommit(r)
      PROVE  FALSE
  <2>1. req[r].user # u  BY <1>3, <1>6, <1>7, <1>8
  <2>2. user'[u] = user[u]  BY <1>8, <2>1, RowWrites
  <2>3. Moved(r)
    BY <1>8, AuthStepMoves, RecoveryStepMoves DEF AuthStep, RecoveryStep
  <2>4. PICK x \in Requests : req[x].at = "login.lock" /\ req[x].user = u
    BY <1>2, <2>2
  <2> QED  BY <1>1, <2>1, <2>3, <2>4 DEF Moved
<1>9. ASSUME NEW r \in Requests, Edits(r)
      PROVE  FALSE
  <2>1. PICK x \in Requests : req[x].at = "login.lock" /\ req[x].user = u
    BY <1>2, <1>9, EditRows
  <2>2. req[r].at # "login.lock"
    BY <1>9 DEF Edits, VerifyCommit, ChangePasswordCommit, ResetCommit,
                DeleteAccountCommit, DeleteUserCommit, UpdateUserRoleCommit,
                UpdateUserStatusCommit
  <2>3. Moved(r)
    BY <1>9, AuthStepMoves, RecoveryStepMoves, AdminStepMoves
    DEF Edits, AuthStep, RecoveryStep, AdminStep
  <2> QED  BY <1>1, <2>1, <2>2, <2>3 DEF Moved
<1> QED  BY <1>5, <1>8, <1>9, UserEffect

\* Whatever wrong and right passwords are tried at once, the limit locks the
\* account unless the request dies between its increment and its lock.
THEOREM LimitLocks == Spec => OnlyDeathLosesLock
<1>1. TypeOK /\ [Next]_vars =>
        [\A u \in Users : LockMissing(u)' /\ ~LockMissing(u) =>
           \E r \in Requests : /\ req[r].at = "login.lock" /\ req[r].user = u
                               /\ req'[r] = Idle /\ user' = user]_vars
  BY StepOnlyDeathLosesLock
<1> QED  BY <1>1, TypeCorrect, PTL DEF Spec, OnlyDeathLosesLock

LEMMA StepLockStands ==
  ASSUME TypeOK, AccountFirst, LockWithin, [Next]_vars, NEW u \in Users, Locked(u)
  PROVE  /\ SigningIn(u)' \subseteq SigningIn(u)
         /\ user'[u].lockUntil <= user[u].lockUntil =>
              Undermining(u)' \subseteq Undermining(u)
         /\ user'[u].lockUntil < user[u].lockUntil =>
              \E r \in Undermining(u) : req'[r] = Idle
<1> DEFINE until == user[u].lockUntil
           later == user'[u].lockUntil
<1>0. /\ now \in Nat /\ until \in Nat /\ until > now
      /\ until <= now + ACCOUNT_LOCK_DURATION /\ ACCOUNT_LOCK_DURATION \in Nat
      /\ later \in Nat
  BY StepType, DurationsAssumption DEF TypeOK, UserRow, Locked, LockWithin
<1>1. ASSUME NEW r \in Requests, req'[r].at = "login.commit", req'[r].user = u
      PROVE  req'[r] = req[r]
  <2>1. ~Moved(r)  BY <1>1 DEF Moved, MaySignIn
  <2> QED  BY <2>1, StepMoves DEF Moved
<1>2. SigningIn(u)' \subseteq SigningIn(u)  BY <1>1 DEF SigningIn
\* A lock that is counted now is dated no earlier than the one in force.
<1>3. ASSUME later <= until, NEW r \in Undermining(u)'
      PROVE  r \in Undermining(u)
  <2>1. CASE r \in SigningIn(u)'  BY <1>2, <2>1 DEF Undermining
  <2>2. CASE r \in Locking(u)' /\ req'[r].since + ACCOUNT_LOCK_DURATION < later
    <3>1. r \in Requests /\ req'[r].at = "login.lock" /\ req'[r].user = u
      BY <2>2 DEF Locking
    <3>2. ~Moved(r)
      <4>1. SUFFICES ASSUME req'[r].since = now PROVE FALSE
        BY <3>1 DEF Moved
      <4> QED  BY <1>0, <1>3, <2>2, <4>1
    <3>3. req'[r] = req[r]  BY <3>1, <3>2, StepMoves DEF Moved
    <3>4. req[r].since \in Nat
      BY <3>1, <3>3, StampType DEF StampPoints
    <3>5. req[r].since + ACCOUNT_LOCK_DURATION < until
      BY <1>0, <1>3, <2>2, <3>3, <3>4
    <3> QED  BY <3>1, <3>3, <3>5 DEF Undermining, Locking
  <2> QED  BY <1>3, <2>1, <2>2 DEF Undermining
<1>4. ASSUME later < until
      PROVE  \E r \in Undermining(u) : req'[r] = Idle
  <2>1. ASSUME NEW r \in Requests, LoginCount(r) \/ LoginLock(r) \/ LoginCommit(r)
        PROVE  r \in Undermining(u) /\ req'[r] = Idle
    <3>1. req[r].user = u  BY <1>0, <1>4, <2>1, RowWrites
    <3>2. ~LoginCount(r)  BY <1>0, <1>4, <3>1, LockColumns
    <3>3. req'[r] = Idle
      BY <2>1, <3>2, AwaitMoves DEF LoginLock, LoginCommit, Answer
    <3>4. CASE LoginCommit(r)
      BY <3>1, <3>3, <3>4 DEF LoginCommit, SigningIn, Undermining
    <3>5. CASE LoginLock(r)
      <4>1. /\ req[r].since \in Nat
            /\ req[r].since + ACCOUNT_LOCK_DURATION <= later
        BY <3>1, <3>5, LockColumns
      <4>2. req[r].since + ACCOUNT_LOCK_DURATION < until  BY <1>0, <1>4, <4>1
      <4>3. r \in Locking(u)  BY <3>1, <3>5 DEF LoginLock, Locking
      <4> QED  BY <3>3, <4>2, <4>3 DEF Undermining
    <3> QED  BY <2>1, <3>2, <3>4, <3>5
  <2>2. ASSUME NEW r \in Requests, SignupCommit(r)
        PROVE  FALSE
    <3>1. req[r].user # u
      BY <1>0, <2>2 DEF AccountFirst, SignupCommit
    <3> QED  BY <1>0, <1>4, <2>2, <3>1, RowWrites
  <2>3. ASSUME NEW r \in Requests, Edits(r)
        PROVE  FALSE
    BY <1>0, <1>4, <2>3, EditRows
  <2>4. Undermining(u) \subseteq Requests  BY DEF Undermining, SigningIn, Locking
  <2>5. ~UNCHANGED user  BY <1>0, <1>4
  <2> QED  BY <2>1, <2>2, <2>3, <2>4, <2>5, UserEffect
<1> QED  BY <1>2, <1>3, <1>4

\* No lock is set further ahead than its duration, in any state.
THEOREM LocksEnd == Spec => []LockWithin
<1>1. Init => LockWithin
  <2>1. ASSUME Init, NEW u \in Users PROVE user[u].lockUntil = 0 /\ now = 0
    BY <2>1 DEF Init, NewUser
  <2>2. 0 <= 0 + ACCOUNT_LOCK_DURATION  BY DurationsAssumption
  <2> QED  BY <2>1, <2>2 DEF LockWithin
<1>2. TypeOK /\ LockWithin /\ [Next]_vars => LockWithin'  BY StepLockWithin
<1> QED  BY <1>1, <1>2, TypeCorrect, PTL DEF Spec

\* No sign-in starts while an account is locked, and what lifts or shortens its
\* lock was on its way before: a sign-in, or a failure whose lock is dated earlier.
THEOREM LocksStand == Spec => LockStands
<1>1. TypeOK /\ AccountFirst /\ LockWithin /\ [Next]_vars =>
        [\A u \in Users : Locked(u) =>
           /\ SigningIn(u)' \subseteq SigningIn(u)
           /\ user'[u].lockUntil <= user[u].lockUntil =>
                Undermining(u)' \subseteq Undermining(u)
           /\ user'[u].lockUntil < user[u].lockUntil =>
                \E r \in Undermining(u) : req'[r] = Idle]_vars
  BY StepLockStands
<1> QED  BY <1>1, LocksEnd, TypeCorrect, AccountsFirst, PTL DEF Spec, LockStands

-----------------------------------------------------------------------------
(* Roles.                                                                  *)

LEMMA StepRoles ==
  ASSUME TypeOK, [Next]_vars, NoAdminPower
  PROVE  NoAdminPower'
<1>1. \A r \in Requests : req[r].at # "updateRole.commit"  BY DEF NoAdminPower
<1>2. \A u \in Users : user'[u].role # "ADMIN"
  <2>1. ASSUME NEW r \in Requests, LoginCount(r) \/ LoginLock(r) \/ LoginCommit(r)
        PROVE  \A u \in Users : user'[u].role # "ADMIN"
    BY <2>1, RowWrites DEF NoAdminPower
  <2>2. ASSUME NEW r \in Requests, SignupCommit(r)
        PROVE  \A u \in Users : user'[u].role # "ADMIN"
    BY <2>2, RowWrites DEF NoAdminPower
  <2>3. ASSUME NEW r \in Requests, Edits(r)
        PROVE  \A u \in Users : user'[u].role # "ADMIN"
    <3>1. ~UpdateUserRoleCommit(r)  BY <1>1 DEF UpdateUserRoleCommit
    <3> QED  BY <2>3, <3>1, EditRows DEF NoAdminPower
  <2> QED  BY <2>1, <2>2, <2>3, UserEffect DEF NoAdminPower
<1>3. \A r \in Requests : req'[r].at \notin {"authorized", "updateRole.commit"}
  <2>1. ASSUME NEW r \in Requests, Moved(r)
        PROVE  req'[r].at \notin {"authorized", "updateRole.commit"}
    <3>1. req[r].at = "authenticated" => req[r].user \in Users
      BY RequestShapes DEF TypeOK
    <3> QED  BY <2>1, <3>1 DEF Moved, NoAdminPower
  <2>2. ASSUME NEW r \in Requests, req'[r] = req[r]
        PROVE  req'[r].at \notin {"authorized", "updateRole.commit"}
    BY <2>2 DEF NoAdminPower
  <2> QED  BY <2>1, <2>2, StepMoves DEF Moved
<1> QED  BY <1>2, <1>3 DEF NoAdminPower

\* A service without administrators, in its tables and in its requests, has
\* none ever again.
THEOREM RolesNotFromNothing == Spec => AdminRoleNotFromNothing
<1>1. TypeOK /\ [Next]_vars => [NoAdminPower => NoAdminPower']_vars
  BY StepRoles
<1> QED  BY <1>1, TypeCorrect, PTL DEF Spec, AdminRoleNotFromNothing

-----------------------------------------------------------------------------
(* One-time links.                                                         *)

\* A link is drawn before it is stored; from then on requests hold it.
DrawPoints == {"signup.commit", "resend.create", "forgot.delete", "forgot.create"}
HoldPoints == LinkPoints \cup CreatePoints \cup {"signup.commit", "reset.commit"}

\* A link names one row of its table, a link that is yet to be stored is
\* nobody else's, and an activation is about the user whose link it has read.
LinkInv ==
  /\ \A t1, t2 \in emailVerificationToken : t1.link = t2.link => t1 = t2
  /\ \A t1, t2 \in passwordResetToken : t1.link = t2.link => t1 = t2
  /\ \A r \in Requests : req[r].at \in DrawPoints =>
       \A t \in emailVerificationToken \cup passwordResetToken :
         t.link # req[r].link
  /\ \A r1, r2 \in Requests :
       /\ req[r1].at \in DrawPoints /\ req[r2].at \in HoldPoints
       /\ req[r1].link = req[r2].link
       => r1 = r2
  /\ \A r \in Requests : req[r].at = "verify.commit" =>
       \A t \in emailVerificationToken :
         t.link = req[r].link => t.userId = req[r].user

\* Request r stores the link it has drawn.
Stores(r) ==
  /\ \A x \in Requests : x # r => req'[x] = req[x]
  /\ req[r].at \in DrawPoints
  /\ req'[r].at = "enqueue" /\ req'[r].link = req[r].link

\* The rows of verification links come by a request that stores its link; the
\* others stay or go.
LEMMA VerificationRows ==
  ASSUME TypeOK, [Next]_vars
  PROVE  \/ emailVerificationToken' \subseteq emailVerificationToken
         \/ \E r \in Requests, t \in emailVerificationToken' :
              /\ Stores(r) /\ t.link = req[r].link
              /\ emailVerificationToken' = emailVerificationToken \cup {t}
<1>1. ASSUME NEW r \in Requests, SignupCommit(r) \/ ResendCreate(r)
      PROVE  \E t \in emailVerificationToken' :
               /\ Stores(r) /\ t.link = req[r].link
               /\ emailVerificationToken' = emailVerificationToken \cup {t}
  <2> DEFINE t(stamp) == [link |-> req[r].link, userId |-> req[r].user,
                          expiresAt |-> LinkExpiresAt(stamp)]
             q == [at |-> "enqueue", user |-> req[r].user, link |-> req[r].link]
  <2>1. PICK stamp \in Stamps(req[r]) :
          /\ emailVerificationToken' = emailVerificationToken \cup {t(stamp)}
          /\ Await(r, q)
          /\ req[r].at \in DrawPoints
    BY <1>1 DEF SignupCommit, ResendCreate, DrawPoints
  <2>2. /\ t(stamp).link = req[r].link
        /\ q.at = "enqueue" /\ q.link = req[r].link
    OBVIOUS
  <2> HIDE DEF t, q
  <2> QED  BY <2>1, <2>2, AwaitMoves DEF Stores
<1>2. ASSUME NEW r \in Requests, VerifyCommit(r) \/ ResendDelete(r)
      PROVE  emailVerificationToken' \subseteq emailVerificationToken
  BY <1>2 DEF VerifyCommit, ResendDelete
<1> QED  BY <1>1, <1>2, LinkEffect

\* Of reset links the same, save that a use marks the row.
LEMMA ResetRows ==
  ASSUME TypeOK, [Next]_vars
  PROVE  \/ passwordResetToken' \subseteq passwordResetToken
         \/ \E r \in Requests, t \in passwordResetToken' :
              /\ Stores(r) /\ t.link = req[r].link
              /\ passwordResetToken' = passwordResetToken \cup {t}
         \/ \E link : passwordResetToken' =
              {IF t.link = link THEN [t EXCEPT !.usedAt = TRUE] ELSE t :
                 t \in passwordResetToken}
<1>1. ASSUME NEW r \in Requests, ForgotCreate(r)
      PROVE  \E t \in passwordResetToken' :
               /\ Stores(r) /\ t.link = req[r].link
               /\ passwordResetToken' = passwordResetToken \cup {t}
  <2> DEFINE t(stamp) == [link |-> req[r].link, userId |-> req[r].user,
                          expiresAt |-> LinkExpiresAt(stamp), usedAt |-> FALSE]
             q == [at |-> "enqueue", user |-> req[r].user, link |-> req[r].link]
  <2>1. PICK stamp \in Stamps(req[r]) :
          /\ passwordResetToken' = passwordResetToken \cup {t(stamp)}
          /\ Await(r, q)
          /\ req[r].at \in DrawPoints
    BY <1>1 DEF ForgotCreate, DrawPoints
  <2>2. /\ t(stamp).link = req[r].link
        /\ q.at = "enqueue" /\ q.link = req[r].link
    OBVIOUS
  <2> HIDE DEF t, q
  <2> QED  BY <2>1, <2>2, AwaitMoves DEF Stores
<1>2. ASSUME NEW r \in Requests, ForgotDelete(r)
      PROVE  passwordResetToken' \subseteq passwordResetToken
  BY <1>2 DEF ForgotDelete
<1>3. ASSUME NEW r \in Requests, ResetCommit(r)
      PROVE  \E link : passwordResetToken' =
               {IF t.link = link THEN [t EXCEPT !.usedAt = TRUE] ELSE t :
                  t \in passwordResetToken}
  BY <1>3 DEF ResetCommit
<1> QED  BY <1>1, <1>2, <1>3, LinkEffect

\* A row that is marked used is the row it was in all else.
LEMMA MarkedRows ==
  ASSUME TypeOK, NEW link, NEW t \in passwordResetToken
  PROVE  LET m == IF t.link = link THEN [t EXCEPT !.usedAt = TRUE] ELSE t
         IN m.link = t.link /\ (t.usedAt => m = t)
<1>1. t \in PasswordResetTokenRow  BY DEF TypeOK
<1> QED  BY <1>1 DEF PasswordResetTokenRow

\* The links of rows are those of earlier rows and of the request that stores.
LEMMA RowLinks ==
  ASSUME TypeOK, [Next]_vars,
         NEW t \in emailVerificationToken' \cup passwordResetToken'
  PROVE  \/ \E o \in emailVerificationToken \cup passwordResetToken :
              o.link = t.link
         \/ \E r \in Requests : Stores(r) /\ t.link = req[r].link
<1>1. ASSUME NEW link, passwordResetToken' =
               {IF o.link = link THEN [o EXCEPT !.usedAt = TRUE] ELSE o :
                  o \in passwordResetToken},
             t \in passwordResetToken'
      PROVE  \E o \in passwordResetToken : o.link = t.link
  BY <1>1, MarkedRows
<1> QED  BY <1>1, VerificationRows, ResetRows

\* What is drawn is nobody's.
LEMMA DrawnIsNew ==
  ASSUME LinkInv, NEW r \in Requests, Moved(r), req'[r].at \in DrawPoints
  PROVE  /\ \A t \in emailVerificationToken \cup passwordResetToken :
              t.link # req'[r].link
         /\ \A x \in Requests : x # r /\ req[x].at \in HoldPoints =>
              req[x].link # req'[r].link
<1>1. CASE req'[r].link \in FreshLinks
  BY <1>1 DEF FreshLinks, HoldPoints
<1>2. CASE req[r].at = "forgot.delete" /\ req'[r].link = req[r].link
  BY <1>2 DEF LinkInv, DrawPoints
<1> QED  BY <1>1, <1>2 DEF Moved, DrawPoints, ForgotDelete

LEMMA StepLinks ==
  ASSUME TypeOK, LinkInv, [Next]_vars
  PROVE  LinkInv'
<1>1. \A t1, t2 \in emailVerificationToken' : t1.link = t2.link => t1 = t2
  BY VerificationRows DEF LinkInv, Stores
<1>2. \A t1, t2 \in passwordResetToken' : t1.link = t2.link => t1 = t2
  <2>1. ASSUME NEW link, passwordResetToken' =
                 {IF o.link = link THEN [o EXCEPT !.usedAt = TRUE] ELSE o :
                    o \in passwordResetToken}
        PROVE  \A t1, t2 \in passwordResetToken' : t1.link = t2.link => t1 = t2
    <3> DEFINE m(o) == IF o.link = link THEN [o EXCEPT !.usedAt = TRUE] ELSE o
    <3>1. \A o \in passwordResetToken : m(o).link = o.link  BY MarkedRows
    <3>2. \A t \in passwordResetToken' : \E o \in passwordResetToken : t = m(o)
      BY <2>1
    <3> HIDE DEF m
    <3> QED  BY <3>1, <3>2 DEF LinkInv
  <2>2. ASSUME NEW r \in Requests, Stores(r), NEW t, t.link = req[r].link,
               passwordResetToken' = passwordResetToken \cup {t}
        PROVE  \A t1, t2 \in passwordResetToken' : t1.link = t2.link => t1 = t2
    BY <2>2 DEF LinkInv, Stores
  <2>3. CASE passwordResetToken' \subseteq passwordResetToken
    BY <2>3 DEF LinkInv
  <2> QED  BY <2>1, <2>2, <2>3, ResetRows
<1>3. ASSUME NEW r \in Requests, req'[r].at \in DrawPoints,
             NEW t \in emailVerificationToken' \cup passwordResetToken'
      PROVE  t.link # req'[r].link
  <2>1. CASE \E o \in emailVerificationToken \cup passwordResetToken :
               o.link = t.link
    BY <1>3, <2>1, StepMoves, DrawnIsNew DEF LinkInv, Moved
  <2>2. ASSUME NEW x \in Requests, Stores(x), t.link = req[x].link
        PROVE  t.link # req'[r].link
    <3>1. r # x /\ req'[r] = req[r]
      BY <1>3, <2>2 DEF Stores, DrawPoints
    <3> QED  BY <1>3, <2>2, <3>1 DEF Stores, LinkInv, DrawPoints, HoldPoints, LinkPoints, CreatePoints
  <2> QED  BY <2>1, <2>2, RowLinks
<1>4. ASSUME NEW r1 \in Requests, NEW r2 \in Requests, r1 # r2,
             req'[r1].at \in DrawPoints, req'[r2].at \in HoldPoints
      PROVE  req'[r1].link # req'[r2].link
  <2>1. CASE req'[r1] = req[r1] /\ req'[r2] = req[r2]
    BY <1>4, <2>1 DEF LinkInv
  <2>2. CASE Moved(r1) /\ req'[r2] = req[r2]
    BY <1>4, <2>2, DrawnIsNew
  <2>3. CASE Moved(r2) /\ req'[r1] = req[r1]
    <3>1. CASE req'[r2].at \in DrawPoints
      <4>1. req[r1].at \in HoldPoints
        BY <1>4, <2>3 DEF DrawPoints, HoldPoints, LinkPoints, CreatePoints
      <4> QED  BY <1>4, <2>3, <3>1, <4>1, DrawnIsNew
    <3>2. CASE req'[r2].at = "enqueue"
      <4>1. req[r2].at \in HoldPoints /\ req'[r2].link = req[r2].link
        BY <2>3, <3>2 DEF Moved, HoldPoints, LinkPoints, CreatePoints
      <4> QED  BY <1>4, <2>3, <4>1 DEF LinkInv
    <3>3. CASE req'[r2].at \in {"verify.commit", "reset.commit"}
      <4>1. \E t \in emailVerificationToken \cup passwordResetToken :
              t.link = req'[r2].link
        BY <2>3, <3>3 DEF Moved
      <4> QED  BY <1>4, <2>3, <4>1 DEF LinkInv
    <3> QED  BY <1>4, <3>1, <3>2, <3>3 DEF HoldPoints, LinkPoints, CreatePoints,
                                                DrawPoints
  <2> QED  BY <1>4, <2>1, <2>2, <2>3, StepMoves DEF Moved
<1>5. ASSUME NEW r \in Requests, req'[r].at = "verify.commit",
             NEW t \in emailVerificationToken', t.link = req'[r].link
      PROVE  t.userId = req'[r].user
  <2>1. t \in emailVerificationToken
    <3>1. ASSUME NEW x \in Requests, Stores(x), t.link = req[x].link
          PROVE  FALSE
      <4>1. r # x /\ req'[r] = req[r]  BY <1>5, <3>1 DEF Stores
      <4> QED  BY <1>5, <3>1, <4>1 DEF Stores, LinkInv, HoldPoints, LinkPoints, CreatePoints
    <3> QED  BY <3>1, VerificationRows
  <2>2. CASE req'[r] = req[r]  BY <1>5, <2>1, <2>2 DEF LinkInv
  <2>3. CASE Moved(r)  BY <1>5, <2>1, <2>3 DEF Moved, LinkInv
  <2> QED  BY <2>2, <2>3, StepMoves DEF Moved
<1> QED  BY <1>1, <1>2, <1>3, <1>4, <1>5 DEF LinkInv

\* Every instance: links are told apart from the moment they are drawn.
THEOREM LinksAreUnique == Spec => []LinkInv
<1>1. Init => LinkInv
  <2>1. ASSUME Init, NEW r \in Requests
        PROVE  req[r].at \notin DrawPoints /\ req[r].at # "verify.commit"
    BY <2>1 DEF Init, Idle, DrawPoints
  <2> QED  BY <2>1 DEF Init, LinkInv
<1>2. TypeOK /\ LinkInv /\ [Next]_vars => LinkInv'  BY StepLinks
<1> QED  BY <1>1, <1>2, TypeCorrect, PTL DEF Spec

LEMMA StepActivation ==
  ASSUME TypeOK, LinkInv, [Next]_vars, NEW u \in Users,
         user[u].status # "ACTIVE", user'[u].status = "ACTIVE"
  PROVE  \/ \E t \in emailVerificationToken \ emailVerificationToken' : t.userId = u
         \/ \E r \in Requests : /\ req[r].at = "updateStatus.commit"
                                /\ req[r].user = u /\ req'[r] = Idle
<1>1. ASSUME NEW r \in Requests, VerifyCommit(r), req[r].user = u
      PROVE  \E t \in emailVerificationToken \ emailVerificationToken' : t.userId = u
  <2>1. PICK t \in emailVerificationToken : t.link = req[r].link
    BY <1>1 DEF VerifyCommit, Verifiable
  <2>2. t.userId = u  BY <1>1, <2>1 DEF VerifyCommit, LinkInv
  <2>3. t \notin emailVerificationToken'  BY <1>1, <2>1 DEF VerifyCommit
  <2> QED  BY <2>1, <2>2, <2>3
<1>2. ASSUME NEW r \in Requests, UpdateUserStatusCommit(r)
      PROVE  req[r].at = "updateStatus.commit" /\ req'[r] = Idle
  BY <1>2 DEF UpdateUserStatusCommit, Answer, Await, TypeOK
<1>3. ASSUME NEW r \in Requests,
             LoginCount(r) \/ LoginLock(r) \/ LoginCommit(r) \/ SignupCommit(r)
      PROVE  FALSE
  BY <1>3, RowWrites
<1>4. ASSUME NEW r \in Requests, Edits(r)
      PROVE  \/ VerifyCommit(r) /\ req[r].user = u
             \/ UpdateUserStatusCommit(r) /\ req[r].user = u
  BY <1>4, EditRows
<1> QED  BY <1>1, <1>2, <1>3, <1>4, UserEffect

\* No account becomes active without an administrator or a link that is gone
\* from then on.
THEOREM ActivationCostsLink == Spec => ActivationSpendsLink
<1>1. TypeOK /\ LinkInv /\ [Next]_vars =>
        [\A u \in Users :
           user[u].status # "ACTIVE" /\ user'[u].status = "ACTIVE" =>
             \/ \E t \in emailVerificationToken \ emailVerificationToken' :
                  t.userId = u
             \/ \E r \in Requests : /\ req[r].at = "updateStatus.commit"
                                   /\ req[r].user = u /\ req'[r] = Idle]_vars
  BY StepActivation
<1> QED  BY <1>1, TypeCorrect, LinksAreUnique, PTL DEF Spec, ActivationSpendsLink

LEMMA StepUsedLinks ==
  ASSUME TypeOK, LinkInv, [Next]_vars, NEW t \in passwordResetToken, t.usedAt
  PROVE  /\ t \in passwordResetToken'
         /\ Redeeming(t.link)' \subseteq Redeeming(t.link)
<1>1. t \in passwordResetToken'
  <2>1. ASSUME NEW r \in Requests, ResetCommit(r)
        PROVE  t \in passwordResetToken'
    <3> DEFINE m(o) == IF o.link = req[r].link THEN [o EXCEPT !.usedAt = TRUE] ELSE o
    <3>1. m(t) = t  BY MarkedRows
    <3>2. passwordResetToken' = {m(o) : o \in passwordResetToken}
      BY <2>1 DEF ResetCommit
    <3> HIDE DEF m
    <3> QED  BY <3>1, <3>2
  <2>2. ASSUME NEW r \in Requests, ForgotDelete(r) \/ ForgotCreate(r)
        PROVE  t \in passwordResetToken'
    BY <2>2 DEF ForgotDelete, ForgotCreate
  <2> QED  BY <2>1, <2>2, LinkEffect
<1>2. ASSUME NEW r \in Requests, Moved(r), req'[r].at = "reset.commit"
      PROVE  req'[r].link # t.link
  BY <1>2 DEF Moved, LinkInv
<1>3. ASSUME NEW r \in Requests, req'[r].at = "reset.commit", req'[r].link = t.link
      PROVE  req'[r] = req[r]
  <2>1. ~Moved(r)  BY <1>2, <1>3
  <2> QED  BY <2>1, StepMoves DEF Moved
<1> QED  BY <1>1, <1>3 DEF Redeeming

\* A used reset link is on record for ever, and nobody gets past the check of
\* resetPassword with it again.
THEOREM UsedLinksStaySpent == Spec => UsedLinkIsSpent
<1>1. TypeOK /\ LinkInv /\ [Next]_vars =>
        [\A t \in passwordResetToken : t.usedAt =>
           /\ t \in passwordResetToken'
           /\ Redeeming(t.link)' \subseteq Redeeming(t.link)]_vars
  BY StepUsedLinks
<1> QED  BY <1>1, TypeCorrect, LinksAreUnique, PTL DEF Spec, UsedLinkIsSpent
=============================================================================
