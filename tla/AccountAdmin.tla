---------------------------- MODULE AccountAdmin ----------------------------
(***************************************************************************)
(* What is done to accounts: deleteAccount, getSessions and revokeSession  *)
(* of src/src/modules/user/user.service.ts, the middleware                 *)
(* authenticateAdmin, and updateUserRole, updateUserStatus and deleteUser  *)
(* of src/src/modules/admin/admin.service.ts.                              *)
(***************************************************************************)
EXTENDS IdentityStore

At(r, point, op) == req[r].at = point /\ req[r].op = op

\* The transaction deleteAccount and deleteUser share.
SoftDelete(u) ==
  /\ user' = [user EXCEPT ![u].status = "DELETED", ![u].deletedAt = TRUE]
  /\ Purge(u)

-----------------------------------------------------------------------------
DeleteAccountRead(r) ==
  /\ At(r, "authenticated", "deleteAccount")
  /\ IF user[req[r].user].deletedAt
     THEN Answer(r)
     ELSE Await(r, [at |-> "deleteAccount.commit", user |-> req[r].user])
  /\ UNCHANGED <<user, tokenVars, linkVars, now>>

DeleteAccountCommit(r) ==
  /\ req[r].at = "deleteAccount.commit"
  /\ SoftDelete(req[r].user)
  /\ Answer(r)
  /\ UNCHANGED <<linkVars, now>>

\* getSessions lists the caller's sessions whose own expiry has not passed.
ListedAlways(s) == TRUE   \* mutant: the expiry is not looked at
Listed(s) == s.expiresAt > now

\* revokeSession: the row exists, is the caller's and is not "current".  Its
\* read and its delete are one step: a row that passes the check does not
\* exist in any reachable state, so nothing happens between the two.
RevokeSession(r, sid) ==
  /\ At(r, "authenticated", "revokeSession")
  /\ LET revoked == {s \in session :
                       s.id = sid /\ s.userId = req[r].user /\ ~s.isCurrent}
     IN /\ session' = session \ revoked
        /\ refreshToken' = {t \in refreshToken :
                              \A s \in revoked : t.sessionId # s.id}
  /\ Answer(r)
  /\ UNCHANGED <<user, issued, linkVars, now>>

-----------------------------------------------------------------------------
\* Mutant: an authenticated request is let through whatever the role.
AuthenticateAnyone(r) ==
  /\ req[r].at = "authenticated" /\ req[r].op \in AdminOps
  /\ Await(r, [req[r] EXCEPT !.at = "authorized"])
  /\ UNCHANGED <<user, tokenVars, linkVars, now>>

\* authenticateAdmin reads the role again, after authenticateUser.
AuthenticateAdmin(r) ==
  /\ req[r].at = "authenticated" /\ req[r].op \in AdminOps
  /\ IF user[req[r].user].role = "ADMIN"
     THEN Await(r, [req[r] EXCEPT !.at = "authorized"])
     ELSE Answer(r)
  /\ UNCHANGED <<user, tokenVars, linkVars, now>>

UpdateUserRoleRead(r, u, role) ==
  /\ At(r, "authorized", "updateRole")
  /\ IF HasAccount(u) /\ user[u].role # role
     THEN Await(r, [at |-> "updateRole.commit", user |-> u, role |-> role])
     ELSE Answer(r)
  /\ UNCHANGED <<user, tokenVars, linkVars, now>>

UpdateUserRoleCommit(r) ==
  /\ req[r].at = "updateRole.commit"
  /\ user' = [user EXCEPT ![req[r].user].role = req[r].role]
  /\ Answer(r)
  /\ UNCHANGED <<tokenVars, linkVars, now>>

UpdateUserStatusRead(r, u, status) ==
  /\ At(r, "authorized", "updateStatus")
  /\ IF HasAccount(u) /\ user[u].status # status
     THEN Await(r, [at |-> "updateStatus.commit", user |-> u, status |-> status])
     ELSE Answer(r)
  /\ UNCHANGED <<user, tokenVars, linkVars, now>>

\* Only the column: sessions stay, and so does deletedAt.
UpdateUserStatusCommit(r) ==
  /\ req[r].at = "updateStatus.commit"
  /\ user' = [user EXCEPT ![req[r].user].status = req[r].status]
  /\ Answer(r)
  /\ UNCHANGED <<tokenVars, linkVars, now>>

DeleteUserRead(r, u) ==
  /\ At(r, "authorized", "deleteUser")
  /\ IF HasAccount(u) /\ user[u].status # "DELETED"
     THEN Await(r, [at |-> "deleteUser.commit", user |-> u])
     ELSE Answer(r)
  /\ UNCHANGED <<user, tokenVars, linkVars, now>>

DeleteUserCommit(r) ==
  /\ req[r].at = "deleteUser.commit"
  /\ SoftDelete(req[r].user)
  /\ Answer(r)
  /\ UNCHANGED <<linkVars, now>>

-----------------------------------------------------------------------------
AdminStep(r) ==
  \/ DeleteAccountRead(r) \/ DeleteAccountCommit(r)
  \/ \E sid \in Sids : RevokeSession(r, sid)
  \/ AuthenticateAdmin(r)
  \/ \E u \in Users, role \in {"USER", "ADMIN"} : UpdateUserRoleRead(r, u, role)
  \/ UpdateUserRoleCommit(r)
  \/ \E u \in Users, status \in {"ACTIVE", "SUSPENDED", "BANNED"} :
       UpdateUserStatusRead(r, u, status)
  \/ UpdateUserStatusCommit(r)
  \/ \E u \in Users : DeleteUserRead(r, u)
  \/ DeleteUserCommit(r)
=============================================================================
