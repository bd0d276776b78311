--------------------------- MODULE IdentityForge ---------------------------
(***************************************************************************)
(* The service as a whole: every endpoint that reads or writes accounts,   *)
(* sessions, tokens and links, interleaved call by call over one database; *)
(* and what must, or is said to, hold of it.                               *)
(***************************************************************************)
EXTENDS AuthSessions, AccountRecovery, AccountAdmin

Arrive(r) == AuthArrival(r) \/ RecoveryArrival(r)

Step(r) == AuthStep(r) \/ RecoveryStep(r) \/ AdminStep(r)

Next == \/ \E r \in Requests : Arrive(r) \/ Step(r) \/ Abort(r)
        \/ \E p \in issued : Logout(p)
        \/ Tick

Spec == Init /\ [][Next]_vars

\* A handler that awaits a call is resumed: Node runs every settled promise.
FairSpec == Spec /\ \A r \in Requests : WF_vars(Step(r))

-----------------------------------------------------------------------------
(* Sessions and refresh tokens.                                            *)

\* The transactions that insert, rotate and purge keep session and token
\* rows in step under every interleaving of their stale reads: a session row
\* has exactly one token row, with the same owner, and no token row outlives
\* its session.
SessionHasOneToken ==
  /\ \A s \in session : \E t \in refreshToken :
       t.sessionId = s.id /\ t.userId = s.userId
  /\ \A t \in refreshToken : \E s \in session : s.id = t.sessionId
  /\ \A t1, t2 \in refreshToken : t1.sessionId = t2.sessionId => t1 = t2
  /\ \A s1, s2 \in session : s1.id = s2.id => s1 = s2

\* Of two requests that present the same refresh token at most one is given a
\* successor, whatever either of them had read: rotation cannot fork.
RotatedOnce ==
  \A p, q \in issued : p.parent = q.parent /\ p.parent # NoJti => p = q

\* What the two are an induction from.  A token row stems from a pair that was
\* handed out, ids of pairs are unique, and a replaced token has no row ...
TokenProvenance ==
  /\ \A t \in refreshToken : \E p \in issued :
       p.jti = t.jti /\ p.sub = t.userId /\ p.sid = t.sessionId
  /\ \A p, q \in issued : p.jti = q.jti => p = q
  /\ \A p \in issued : p.parent # NoJti =>
       /\ \E q \in issued : q.jti = p.parent
       /\ \A t \in refreshToken : t.jti # p.parent

Minting(r) == req[r].at \in {"login.commit", "refresh.commit"}

\* ... and the ids a request is about to commit are nobody else's, while the
\* token it is about to replace is of the session and user it has noted.
InFlightTokens ==
  /\ \A r \in Requests : Minting(r) => \A p \in issued : p.jti # req[r].jti
  /\ \A r1, r2 \in Requests :
       Minting(r1) /\ Minting(r2) /\ req[r1].jti = req[r2].jti => r1 = r2
  /\ \A r \in Requests :
       req[r].at = "login.commit" => \A p \in issued : p.sid # req[r].sid
  /\ \A r1, r2 \in Requests :
       req[r1].at = "login.commit" /\ req[r2].at = "login.commit"
         /\ req[r1].sid = req[r2].sid => r1 = r2
  /\ \A r \in Requests : req[r].at = "refresh.commit" =>
       \E p \in issued : /\ p.jti = req[r].old
                         /\ p.sid = req[r].sid /\ p.sub = req[r].user

\* The inductive invariant: whatever the interleaving, the stale reads of the
\* requests in progress describe tokens that are still theirs to replace.
RotationInv == /\ SessionHasOneToken /\ RotatedOnce
               /\ TokenProvenance /\ InFlightTokens

\* No rotation moves a session's own expiry, which getSessions goes by.  Every
\* device it lists still holds a token that can be exchanged, by its row and by
\* its JWT, though the two reckon in different units.
ListedSessionsLive ==
  \A s \in session : Listed(s) =>
    \E t \in refreshToken, p \in issued :
      /\ t.sessionId = s.id /\ t.expiresAt >= now
      /\ p.jti = t.jti /\ p.sub = s.userId /\ RefreshValid(p)

\* The tokens a session has been given, and the one it has a row for.
TokensOf(s) == {p.jti : p \in {i \in issued : i.sid = s}}
LiveToken(s) == IF \E t \in refreshToken : t.sessionId = s
                THEN (CHOOSE t \in refreshToken : t.sessionId = s).jti
                ELSE NoJti

\* The tables behave as RefreshFamily says, session by session.
Family == INSTANCE RefreshFamily WITH used <- [s \in Sids |-> TokensOf(s)],
                                      live <- [s \in Sids |-> LiveToken(s)]

\* Rotation, purge and sign-in implement the abstract token family: a token
\* once replaced or revoked is never accepted again.
RefreshFamilySpec == Family!Spec

-----------------------------------------------------------------------------
(* Stragglers: what a sign-in that has read its row may still do.          *)

SigningIn(u) == {r \in Requests : req[r].at = "login.commit" /\ req[r].user = u}

\* Deleting an account purges its sessions, and refuses every sign-in that
\* reads the row afterwards: the sessions a deleted account holds, and those
\* it can still be given, are never more than the sign-ins that were in
\* progress beside the deletion.
DeletedStragglersBounded ==
  \A u \in Users : user[u].status = "DELETED" =>
    Cardinality({s \in session : s.userId = u}) + Cardinality(SigningIn(u))
      < Cardinality(Requests)

\* The password that opened a session.
OpenedWith(s) == (CHOOSE p \in issued : p.sid = s.id).password

\* The same of a change of password: sessions opened with a password that is
\* no longer the account's, with the sign-ins about to open one, are never
\* more than the sign-ins that were in progress beside the change.
StalePasswordStragglersBounded ==
  \A u \in Users :
    Cardinality({s \in session : s.userId = u /\ OpenedWith(s) # user[u].password})
    + Cardinality({r \in SigningIn(u) : req[r].password # user[u].password})
      < Cardinality(Requests)

-----------------------------------------------------------------------------
(* The lock.                                                               *)

\* The account is counted over the limit, has never been locked since its count
\* was last cleared, and no request is about to lock it.
LockMissing(u) ==
  /\ user[u].failedLoginAttempts >= MAX_FAILED_LOGIN
  /\ user[u].lockUntil = 0
  /\ ~\E r \in Requests : req[r].at = "login.lock" /\ req[r].user = u

\* An account whose count of failures has reached the limit is locked, or has
\* been, or is about to be.  Concurrent failures and a concurrent success cannot
\* leave it counted and never locked: only the death of the request between
\* its increment and its lock can.
OnlyDeathLosesLock ==
  [][\A u \in Users : LockMissing(u)' /\ ~LockMissing(u) =>
       \E r \in Requests : /\ req[r].at = "login.lock" /\ req[r].user = u
                           /\ req'[r] = Idle /\ user' = user]_vars

\* The wrong passwords that have been compared and are not counted yet, and the
\* counted ones whose request is about to lock the account.
Counting(u) == {r \in Requests : req[r].at = "login.count" /\ req[r].user = u}
Locking(u) == {r \in Requests : req[r].at = "login.lock" /\ req[r].user = u}

\* Who can still lift or shorten the lock of an account: the sign-ins past the
\* check, and the failures that may have dated their lock before this one.
Undermining(u) == SigningIn(u) \cup
  {r \in Locking(u) : req[r].since + ACCOUNT_LOCK_DURATION < user[u].lockUntil}

\* While a lock is in force no sign-in gets past the check, and only the requests
\* that undermine it can lift or shorten it: no wrong or right password that is
\* tried under the lock is ever one of them, they were all on their way before.
LockStands ==
  [][\A u \in Users : Locked(u) =>
       /\ SigningIn(u)' \subseteq SigningIn(u)
       /\ user'[u].lockUntil <= user[u].lockUntil =>
            Undermining(u)' \subseteq Undermining(u)
       /\ user'[u].lockUntil < user[u].lockUntil =>
            \E r \in Undermining(u) : req'[r] = Idle]_vars

\* Time in durations of the lock: how many are over, and when this one will be.
Window == now \div ACCOUNT_LOCK_DURATION
WindowEnd == (Window + 1) * ACCOUNT_LOCK_DURATION

\* The account is locked for the rest of the window; and the requests whose lock
\* may have been dated in an earlier one, and will not hold as long.
Held(u) == user[u].lockUntil >= WindowEnd
Late(u) == {r \in Locking(u) : req[r].since + ACCOUNT_LOCK_DURATION < WindowEnd}

\* Twice the wrong passwords that can be counted before the window ends.  Held,
\* the account is open only to those past the check; else each slot that is not
\* about to lock it has a try.  A late lock that lands takes the place of one
\* that holds, and opens the account to every slot that is not late itself.
Chances(u) ==
  LET n == Cardinality(Requests)
      late == Cardinality(Late(u))
  IN 2 * (IF Held(u) THEN Cardinality(Counting(u)) ELSE n - Cardinality(Locking(u)))
       + late * (2 * n + 1 - late)

\* Twice what the limit leaves room for: the failures below it, those of all the
\* slots at once, and 1 + ... + n of them for each duration of the lock since.
Share ==
  LET n == Cardinality(Requests)
  IN 2 * (MAX_FAILED_LOGIN - 1 + n) + n * (n + 1) * Window

WithinShare(u) ==
  LET attempts == user[u].failedLoginAttempts
  IN attempts < MAX_FAILED_LOGIN \/ 2 * attempts + Chances(u) <= Share

\* The limit and the lock ration wrong passwords, however many are tried at
\* once, although an expired lock leaves the counter where it was and a lock
\* that is written late may shorten the one in force: a duration of the lock
\* lets at most n (n + 1) / 2 more be counted, with n requests at once.  Only a
\* request that dies between its increment and its lock adds to that.
GuessesRationed ==
  [][\A u \in Users : WithinShare(u) =>
       \/ WithinShare(u)'
       \/ \E r \in Locking(u) : req'[r] = Idle /\ user' = user]_vars

-----------------------------------------------------------------------------
(* Accounts, links and roles.                                              *)

\* A request for a verification link removes the earlier ones and then stores
\* its own, in two calls.  Requests that interleave leave several good links,
\* but never more than could be in progress at once, however many have been
\* asked for before.
EarlierLinksGo ==
  \A u \in Users :
    Cardinality({t \in emailVerificationToken : t.userId = u})
      + Cardinality({r \in Requests : req[r].at = "resend.create" /\ req[r].user = u})
        <= Cardinality(Requests)

\* An account that is not active, never verified or suspended, banned or
\* deleted since, becomes active by an administrator's decision or against a
\* verification link that is consumed by it: of two requests that have read
\* one link the second is rolled back, however long it waits for its turn.
ActivationSpendsLink ==
  [][\A u \in Users :
       user[u].status # "ACTIVE" /\ user'[u].status = "ACTIVE" =>
         \/ \E t \in emailVerificationToken \ emailVerificationToken' : t.userId = u
         \/ \E r \in Requests : /\ req[r].at = "updateStatus.commit"
                               /\ req[r].user = u /\ req'[r] = Idle]_vars

\* The resets past the check of a link.
Redeeming(link) ==
  {r \in Requests : req[r].at = "reset.commit" /\ req[r].link = link}

\* A reset token that has been used stays on record, used, whatever links are
\* asked for later; and no request that reads it then gets past the check:
\* only the resets that were past it already can still go through.
UsedLinkIsSpent ==
  [][\A t \in passwordResetToken : t.usedAt =>
       /\ t \in passwordResetToken'
       /\ Redeeming(t.link)' \subseteq Redeeming(t.link)]_vars

\* No account is an administrator's and no request acts as one.
NoAdminPower ==
  /\ \A u \in Users : user[u].role # "ADMIN"
  /\ \A r \in Requests : req[r].at \notin {"authorized", "updateRole.commit"}

\* Administrators are made by administrators: once the last one has been
\* demoted and no admin request is past its check, nobody is one ever again.
AdminRoleNotFromNothing == [][NoAdminPower => NoAdminPower']_vars

\* Every request that is in progress is answered, also the ones that lose a
\* race in the database.
Answered == \A r \in Requests : req[r] # Idle ~> req[r] = Idle

-----------------------------------------------------------------------------
(* What the repository says of the service, and the code does not do.      *)

\* "Atomic Deletion & Immediate Revocation ... purges all active Session and
\* RefreshToken records": a deleted account has no session.
DeletedHasNoSession ==
  \A s \in session : user[s.userId].status # "DELETED"

\* A reset link is a one-time token: a reset that goes through finds its
\* token unused.
ResetLinkUsedOnce ==
  [][\A r \in Requests :
       req[r].at = "reset.commit" /\ req'[r] = Idle /\ user' # user =>
         \E t \in passwordResetToken : t.link = req[r].link /\ ~t.usedAt]_vars

\* DELETE /sessions/:id revokes a session of the caller other than the one
\* it is made from.
RevokeSessionRevokes ==
  [][\A r \in Requests, sid \in Sids :
       /\ At(r, "authenticated", "revokeSession")
       /\ sid # req[r].sid
       /\ \E s \in session : s.id = sid /\ s.userId = req[r].user
       /\ RevokeSession(r, sid)
       => \A s \in session' : s.id # sid]_vars

\* A refresh token lives as long as its JWT and its cookie: while the JWT is
\* valid, the row rotation left for it has not expired.
TokenRowLivesAsLongAsJwt ==
  \A p \in issued, t \in refreshToken :
    p.jti = t.jti /\ RefreshValid(p) => t.expiresAt >= now

\* A deleted account is deleted permanently: its status stays DELETED.
DeletionIsPermanent ==
  \A u \in Users : user[u].deletedAt => user[u].status = "DELETED"
=============================================================================
