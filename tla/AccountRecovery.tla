-------------------------- MODULE AccountRecovery --------------------------
(***************************************************************************)
(* Registration and the one-time links: signup, verifyEmail,               *)
(* resendVerification, forgotPassword and resetPassword of                 *)
(* src/src/modules/auth/auth.service.ts.  A link is usable once its mail   *)
(* is on the queue; the queue itself and the SMTP worker are not here.     *)
(***************************************************************************)
EXTENDS IdentityStore

LinkExpiresAt(stamp) == stamp + LinkTtl

\* The last call of signup, resendVerification and forgotPassword.
Enqueue(r) ==
  /\ req[r].at = "enqueue"
  /\ mailed' = mailed \cup {[link |-> req[r].link, userId |-> req[r].user]}
  /\ Answer(r)
  /\ UNCHANGED <<user, tokenVars, emailVerificationToken, passwordResetToken, now>>

-----------------------------------------------------------------------------
SignupRead(r, u, password) ==
  /\ "signup" \in Ops
  /\ req[r] = Idle
  /\ ~HasAccount(u)
  /\ \E link \in FreshLinks :
       Await(r, [at |-> "signup.commit", user |-> u, password |-> password,
                 link |-> link, since |-> now])
  /\ UNCHANGED <<user, tokenVars, linkVars, now>>

\* The row and its verification token, in one transaction ...
SignupCommit(r) ==
  /\ req[r].at = "signup.commit"
  /\ \E stamp \in Stamps(req[r]) : LET q == req[r] IN
     /\ ~HasAccount(q.user)
     /\ user' = [user EXCEPT ![q.user] = NewUser(q.password)]
     /\ emailVerificationToken' = emailVerificationToken \cup
          {[link |-> q.link, userId |-> q.user,
            expiresAt |-> LinkExpiresAt(stamp)]}
     /\ Await(r, [at |-> "enqueue", user |-> q.user, link |-> q.link])
  /\ UNCHANGED <<tokenVars, passwordResetToken, mailed, now>>

\* ... which the unique e-mail refuses to the second of two signups.
SignupLost(r) ==
  /\ req[r].at = "signup.commit"
  /\ HasAccount(req[r].user)
  /\ Answer(r)
  /\ UNCHANGED <<user, tokenVars, linkVars, now>>

-----------------------------------------------------------------------------
VerifyRead(r, m) ==
  /\ "verifyEmail" \in Ops
  /\ req[r] = Idle
  /\ \E t \in emailVerificationToken :
       /\ t.link = m.link
       /\ t.expiresAt >= now
       /\ ~user[t.userId].isEmailVerified
       /\ Await(r, [at |-> "verify.commit", user |-> t.userId, link |-> t.link])
  /\ UNCHANGED <<user, tokenVars, linkVars, now>>

VerifiableAgain(q) == TRUE   \* mutant: deleteMany, content with no row

\* The delete by id needs the row it read to be there still.
Verifiable(q) == \E t \in emailVerificationToken : t.link = q.link

\* The status becomes ACTIVE whatever it is by now.
VerifyCommit(r) ==
  /\ req[r].at = "verify.commit"
  /\ Verifiable(req[r])
  /\ user' = [user EXCEPT ![req[r].user].isEmailVerified = TRUE,
                          ![req[r].user].status = "ACTIVE"]
  /\ emailVerificationToken' =
       {t \in emailVerificationToken : t.link # req[r].link}
  /\ Answer(r)
  /\ UNCHANGED <<tokenVars, passwordResetToken, mailed, now>>

VerifyLost(r) ==
  /\ req[r].at = "verify.commit"
  /\ ~Verifiable(req[r])
  /\ Answer(r)
  /\ UNCHANGED <<user, tokenVars, linkVars, now>>

-----------------------------------------------------------------------------
ResendRead(r) ==
  /\ req[r].at = "authenticated" /\ req[r].op = "resend"
  /\ IF user[req[r].user].isEmailVerified
     THEN Answer(r)
     ELSE Await(r, [at |-> "resend.delete", user |-> req[r].user])
  /\ UNCHANGED <<user, tokenVars, linkVars, now>>

\* Mutant: the links of everybody else go.
ResendDeleteOthers(r) ==
  /\ req[r].at = "resend.delete"
  /\ emailVerificationToken' =
       {t \in emailVerificationToken : t.userId = req[r].user}
  /\ IF FreshLinks = {}
     THEN Answer(r)
     ELSE \E link \in FreshLinks :
            Await(r, [at |-> "resend.create", user |-> req[r].user, link |-> link,
                      since |-> now])
  /\ UNCHANGED <<user, tokenVars, passwordResetToken, mailed, now>>

\* The earlier links go.  The instance's supply of links bounds the mails: a
\* request that finds none left goes no further.
ResendDelete(r) ==
  /\ req[r].at = "resend.delete"
  /\ emailVerificationToken' =
       {t \in emailVerificationToken : t.userId # req[r].user}
  /\ IF FreshLinks = {}
     THEN Answer(r)
     ELSE \E link \in FreshLinks :
            Await(r, [at |-> "resend.create", user |-> req[r].user, link |-> link,
                      since |-> now])
  /\ UNCHANGED <<user, tokenVars, passwordResetToken, mailed, now>>

ResendCreate(r) ==
  /\ req[r].at = "resend.create"
  /\ \E stamp \in Stamps(req[r]) :
       emailVerificationToken' = emailVerificationToken \cup
         {[link |-> req[r].link, userId |-> req[r].user,
           expiresAt |-> LinkExpiresAt(stamp)]}
  /\ Await(r, [at |-> "enqueue", user |-> req[r].user, link |-> req[r].link])
  /\ UNCHANGED <<user, tokenVars, passwordResetToken, mailed, now>>

-----------------------------------------------------------------------------
ForgotRead(r, u) ==
  /\ "forgot" \in Ops
  /\ req[r] = Idle
  /\ HasAccount(u)
  /\ \E link \in FreshLinks :
       Await(r, [at |-> "forgot.delete", user |-> u, link |-> link])
  /\ UNCHANGED <<user, tokenVars, linkVars, now>>

\* Mutant: the token drawn for the mail is not kept.
ForgotDeleteLinkless(r) ==
  /\ req[r].at = "forgot.delete"
  /\ Await(r, [at |-> "forgot.create", user |-> req[r].user])
  /\ UNCHANGED <<user, tokenVars, linkVars, now>>

\* Only unused tokens are removed; used ones stay as a record.
ForgotDelete(r) ==
  /\ req[r].at = "forgot.delete"
  /\ passwordResetToken' =
       {t \in passwordResetToken : t.userId # req[r].user \/ t.usedAt}
  /\ Await(r, [at |-> "forgot.create", user |-> req[r].user,
               link |-> req[r].link, since |-> now])
  /\ UNCHANGED <<user, tokenVars, emailVerificationToken, mailed, now>>

ForgotCreate(r) ==
  /\ req[r].at = "forgot.create"
  /\ \E stamp \in Stamps(req[r]) :
       passwordResetToken' = passwordResetToken \cup
         {[link |-> req[r].link, userId |-> req[r].user,
           expiresAt |-> LinkExpiresAt(stamp), usedAt |-> FALSE]}
  /\ Await(r, [at |-> "enqueue", user |-> req[r].user, link |-> req[r].link])
  /\ UNCHANGED <<user, tokenVars, emailVerificationToken, mailed, now>>

-----------------------------------------------------------------------------
RedeemableUsed(t) == t.expiresAt >= now   \* mutant: usedAt is not looked at
Redeemable(t) == ~t.usedAt /\ t.expiresAt >= now

\* resetPassword checks the token as it is read, and the new password
\* against the hash read with it.
ResetRead(r, m, new) ==
  /\ "reset" \in Ops
  /\ req[r] = Idle
  /\ \E t \in passwordResetToken :
       /\ t.link = m.link
       /\ Redeemable(t)
       /\ new # user[t.userId].password
       /\ Await(r, [at |-> "reset.commit", user |-> t.userId, password |-> new,
                    link |-> t.link])
  /\ UNCHANGED <<user, tokenVars, linkVars, now>>

\* The update by id needs the row, used or not.
Resettable(q) == \E t \in passwordResetToken : t.link = q.link

ResetCommit(r) ==
  /\ req[r].at = "reset.commit"
  /\ Resettable(req[r])
  /\ user' = [user EXCEPT ![req[r].user].password = req[r].password]
  /\ passwordResetToken' =
       {IF t.link = req[r].link THEN [t EXCEPT !.usedAt = TRUE] ELSE t :
          t \in passwordResetToken}
  /\ Purge(req[r].user)
  /\ Answer(r)
  /\ UNCHANGED <<emailVerificationToken, mailed, now>>

ResetLost(r) ==
  /\ req[r].at = "reset.commit"
  /\ ~Resettable(req[r])
  /\ Answer(r)
  /\ UNCHANGED <<user, tokenVars, linkVars, now>>

-----------------------------------------------------------------------------
RecoveryStep(r) ==
  \/ SignupCommit(r) \/ SignupLost(r)
  \/ VerifyCommit(r) \/ VerifyLost(r)
  \/ ResendRead(r) \/ ResendDelete(r) \/ ResendCreate(r)
  \/ ForgotDelete(r) \/ ForgotCreate(r)
  \/ ResetCommit(r) \/ ResetLost(r)
  \/ Enqueue(r)

RecoveryArrival(r) ==
  \/ \E u \in Users, password \in Passwords : SignupRead(r, u, password)
  \/ \E m \in mailed : VerifyRead(r, m)
  \/ \E u \in Users : ForgotRead(r, u)
  \/ \E m \in mailed, new \in Passwords : ResetRead(r, m, new)
=============================================================================
