---------------------------- MODULE AuthSessions ----------------------------
(***************************************************************************)
(* Sign-in and the life of a session: the middleware authenticateUser, and *)
(* login, logout, refreshToken, changePassword and revokeAllSessions of    *)
(* src/src/modules/auth/auth.service.ts.  A request the code answers       *)
(* without touching a row takes no step here, except where its refusal     *)
(* ends a request that is already in progress.                             *)
(***************************************************************************)
EXTENDS IdentityStore

\* authenticateUser, mounted before the handlers of UserOps and AdminOps: the
\* cookie's JWT is valid and the row it names is neither blocked nor locked.
Authenticate(r, op, p) ==
  /\ op \in Ops \cap (UserOps \cup AdminOps)
  /\ req[r] = Idle
  /\ AccessValid(p)
  /\ HasAccount(p.sub) /\ ~Blocked(p.sub) /\ ~Locked(p.sub)
  /\ Await(r, [at |-> "authenticated", op |-> op, user |-> p.sub, sid |-> p.sid])
  /\ UNCHANGED <<user, tokenVars, linkVars, now>>

-----------------------------------------------------------------------------
\* login: the row read first decides everything up to the password check.
MaySignInLocked(u) == HasAccount(u) /\ ~Blocked(u)   \* mutant: no lock check
MaySignInBlocked(u) == HasAccount(u) /\ ~Locked(u)   \* mutant: no status check
MaySignIn(u) == HasAccount(u) /\ ~Blocked(u) /\ ~Locked(u)

\* 401 or 403 before the password is looked at.
LoginRefuse(r, u) ==
  /\ "login" \in Ops
  /\ req[r] = Idle
  /\ ~MaySignIn(u)
  /\ UNCHANGED vars

LoginWrongPassword(r, u, password) ==
  /\ "login" \in Ops
  /\ req[r] = Idle
  /\ MaySignIn(u) /\ user[u].password # password
  /\ user[u].failedLoginAttempts < MaxAttempts
  /\ Await(r, [at |-> "login.count", user |-> u])
  /\ UNCHANGED <<user, tokenVars, linkVars, now>>

\* The ids are drawn when the transaction starts; reserving them here shows
\* nothing to anyone and keeps the supply from running out half way.
LoginRightPassword(r, u, password) ==
  /\ "login" \in Ops
  /\ req[r] = Idle
  /\ MaySignIn(u) /\ user[u].password = password
  /\ \E jti \in FreshJtis, sid \in FreshSids :
       Await(r, [at |-> "login.commit", user |-> u, password |-> password,
                 sid |-> sid, jti |-> jti, since |-> now])
  /\ UNCHANGED <<user, tokenVars, linkVars, now>>

\* Does a count of failed attempts lock the account?
ExhaustedLate(attempts) == attempts > MAX_FAILED_LOGIN   \* mutant: off by one
ExhaustedOnce(attempts) == attempts = MAX_FAILED_LOGIN   \* mutant: once only
Exhausted(attempts) == attempts >= MAX_FAILED_LOGIN

\* The increment is one UPDATE that returns the new count.
LoginCount(r) ==
  /\ req[r].at = "login.count"
  /\ LET u == req[r].user
         attempts == user[u].failedLoginAttempts + 1
     IN /\ user' = [user EXCEPT ![u].failedLoginAttempts = attempts]
        /\ IF Exhausted(attempts)
           THEN Await(r, [at |-> "login.lock", user |-> u, since |-> now])
           ELSE Answer(r)
  /\ UNCHANGED <<tokenVars, linkVars, now>>

\* The lock runs from when the handler saw the count, not from when the update
\* reaches the row: it can shorten a lock that was counted later, or be over.
LoginLock(r) ==
  /\ req[r].at = "login.lock"
  /\ \E stamp \in Stamps(req[r]) :
       user' = [user EXCEPT ![req[r].user].lockUntil = stamp + ACCOUNT_LOCK_DURATION]
  /\ Answer(r)
  /\ UNCHANGED <<tokenVars, linkVars, now>>

\* What a new row's expiresAt is: the lifetime in seconds, added to a Date
\* that counts milliseconds.
RefreshExpiresAt(stamp) == stamp + JWT_REFRESH_EXPIRES_IN

\* The transaction of a login, and the pair of cookies it sets: the JWTs are
\* signed and the rows dated before it starts.
LoginCommit(r) ==
  /\ req[r].at = "login.commit"
  /\ \E stamp \in Stamps(req[r]) : LET q == req[r] IN
     /\ session' = session \cup
          {[id |-> q.sid, userId |-> q.user, isCurrent |-> TRUE,
            expiresAt |-> RefreshExpiresAt(stamp)]}
     /\ refreshToken' = refreshToken \cup
          {[jti |-> q.jti, userId |-> q.user, sessionId |-> q.sid,
            expiresAt |-> RefreshExpiresAt(stamp)]}
     /\ issued' = issued \cup
          {[jti |-> q.jti, sub |-> q.user, sid |-> q.sid, parent |-> NoJti,
            password |-> q.password, iat |-> stamp]}
     /\ user' = [user EXCEPT ![q.user].failedLoginAttempts = 0,
                             ![q.user].lockUntil = 0]
  /\ Answer(r)
  /\ UNCHANGED <<linkVars, now>>

-----------------------------------------------------------------------------
\* logout looks only at the JWT: the row of its jti goes, and every session
\* of its user.  One transaction, so the request needs no slot.
Logout(p) ==
  /\ "logout" \in Ops
  /\ RefreshValid(p)
  /\ refreshToken' = {t \in refreshToken : t.jti # p.jti /\ ~Orphaned(t, p.sub)}
  /\ EndSessionsOf(p.sub)
  /\ UNCHANGED <<user, issued, linkVars, req, now>>

-----------------------------------------------------------------------------
\* refreshToken: the row of the presented jti exists and has not expired.
\* (A User row is never removed, so the read of it that follows always finds
\* it; nothing of that row but its existence is used.)
RefreshRead(r, p) ==
  /\ "refresh" \in Ops
  /\ req[r] = Idle
  /\ RefreshValid(p)
  /\ \E t \in refreshToken, jti \in FreshJtis :
       /\ t.jti = p.jti
       /\ t.expiresAt >= now
       /\ Await(r, [at |-> "refresh.commit", user |-> p.sub, old |-> t.jti,
                    sid |-> t.sessionId, jti |-> jti, since |-> now])
  /\ UNCHANGED <<user, tokenVars, linkVars, now>>

\* Mutants: deleteMany, which is content with no row; and no row needed at all.
RotatableAgain(q) == \E s \in session : s.id = q.sid
RotatableAlways(q) == TRUE

\* The transaction's delete by tokenHash, and its update of the session,
\* both need their row to be there still.
Rotatable(q) == /\ \E t \in refreshToken : t.jti = q.old
                /\ \E s \in session : s.id = q.sid

\* The rotation: the old row is replaced by a new one of the same session.
RefreshCommit(r) ==
  /\ req[r].at = "refresh.commit"
  /\ \E stamp \in Stamps(req[r]) : LET q == req[r] IN
     /\ Rotatable(q)
     /\ refreshToken' = {t \in refreshToken : t.jti # q.old} \cup
          {[jti |-> q.jti, userId |-> q.user, sessionId |-> q.sid,
            expiresAt |-> RefreshExpiresAt(stamp)]}
     /\ \E p \in issued :
          /\ p.jti = q.old
          /\ issued' = issued \cup
               {[p EXCEPT !.jti = q.jti, !.parent = q.old, !.iat = stamp]}
  /\ Answer(r)
  /\ UNCHANGED <<user, session, linkVars, now>>

\* Mutant: the rolled back rotation is tried again instead of answered.
RefreshRetry(r) ==
  /\ req[r].at = "refresh.commit"
  /\ ~Rotatable(req[r])
  /\ UNCHANGED vars

\* P2025: someone else took the row; the transaction is rolled back.
RefreshLost(r) ==
  /\ req[r].at = "refresh.commit"
  /\ ~Rotatable(req[r])
  /\ Answer(r)
  /\ UNCHANGED <<user, tokenVars, linkVars, now>>

-----------------------------------------------------------------------------
\* changePassword compares both passwords with the hash it has read ...
ChangePasswordRead(r, current, new) ==
  /\ req[r].at = "authenticated" /\ req[r].op = "changePassword"
  /\ LET u == req[r].user IN
     IF current = user[u].password /\ new # user[u].password
     THEN Await(r, [at |-> "changePassword.commit", user |-> u, password |-> new])
     ELSE Answer(r)
  /\ UNCHANGED <<user, tokenVars, linkVars, now>>

\* Mutant: only the password is written.
ChangePasswordNoPurge(r) ==
  /\ req[r].at = "changePassword.commit"
  /\ user' = [user EXCEPT ![req[r].user].password = req[r].password]
  /\ Answer(r)
  /\ UNCHANGED <<tokenVars, linkVars, now>>

\* ... and writes the new one with the purge of the user's sessions.
ChangePasswordCommit(r) ==
  /\ req[r].at = "changePassword.commit"
  /\ user' = [user EXCEPT ![req[r].user].password = req[r].password]
  /\ Purge(req[r].user)
  /\ Answer(r)
  /\ UNCHANGED <<linkVars, now>>

RevokeAllSessions(r) ==
  /\ req[r].at = "authenticated" /\ req[r].op = "revokeAll"
  /\ Purge(req[r].user)
  /\ Answer(r)
  /\ UNCHANGED <<user, linkVars, now>>

-----------------------------------------------------------------------------
\* The calls a request makes once it is in progress.
AuthStep(r) ==
  \/ LoginCount(r) \/ LoginLock(r) \/ LoginCommit(r)
  \/ RefreshCommit(r) \/ RefreshLost(r)
  \/ \E current, new \in Passwords : ChangePasswordRead(r, current, new)
  \/ ChangePasswordCommit(r)
  \/ RevokeAllSessions(r)

\* A request arrives.
AuthArrival(r) ==
  \/ \E p \in issued, op \in UserOps \cup AdminOps : Authenticate(r, op, p)
  \/ \E u \in Users : LoginRefuse(r, u)
  \/ \E u \in Users, password \in Passwords :
       LoginWrongPassword(r, u, password) \/ LoginRightPassword(r, u, password)
  \/ \E p \in issued : RefreshRead(r, p)
=============================================================================
