---------------------------- MODULE ProfileCache ----------------------------
(***************************************************************************)
(* The cache-aside profiles and listings in Redis: getMe, getUserById and  *)
(* getAllUsers fill them, and every handler that changes a User row        *)
(* deletes some of them after its commit, or none.                         *)
(*                                                                         *)
(* As in IdentityStore a handler is a chain of awaited calls, one action   *)
(* each, here down to the single Redis command.  Of the User row there are *)
(* the fields some view shows; who is signed in, and as what, is the       *)
(* business of the other modules, so any account that is not blocked may   *)
(* make a request of its own and an administrator outside Users any other. *)
(* The dates that a view shows (createdAt, updatedAt, lastLoginAt) are not *)
(* kept: a sign-in makes the lastLoginAt of an entry old, and no handler   *)
(* cares.                                                                  *)
(***************************************************************************)
EXTENDS Naturals, Sequences

CONSTANTS
  Users,
  Names, NoName,   \* what a profile update may set, and the name at first
  Pages,           \* the pages of the listing that are asked for
  Requests,        \* slots: how many requests are in progress at once
  CacheTtl,        \* clock units an entry lives: 60 * 5 seconds in the code
  MaxWrites,       \* bound: how many changes of a row are asked for
  Faults           \* may a request die with its later calls not made?

ASSUME NamesAssumption == NoName \notin Names
ASSUME CacheAssumption == /\ CacheTtl \in Nat \ {0} /\ MaxWrites \in Nat
                          /\ Faults \in BOOLEAN

VARIABLES
  user,     \* the User table
  cache,    \* the entries Redis holds, at most one for a key
  req,      \* what each request slot is doing
  writes    \* how many changes have been asked for

vars == <<user, cache, req, writes>>

-----------------------------------------------------------------------------
Statuses == {"PENDING_VERIFICATION", "ACTIVE", "SUSPENDED", "BANNED", "DELETED"}
Roles == {"USER", "ADMIN"}
UserRow == [name: Names \cup {NoName}, role: Roles, status: Statuses,
            isEmailVerified: BOOLEAN]

Keys == ({"user", "admin:user"} \X Users) \cup ({"admin:users"} \X Pages)

\* The keys a call "del user:<id>", "del admin:user:<id>" or "keys
\* admin:users:*" is about.
Named(prefix, u) ==
  {k \in Keys : k[1] = prefix /\ (prefix = "admin:users" \/ k[2] = u)}

\* What getMe, getUserById and getAllUsers select, of the users a key is about:
\* getMe does not select the status.
Listed(k) == IF k[1] = "admin:users" THEN Users ELSE {k[2]}
View(k) == [u \in Listed(k) |->
              IF k[1] = "user" THEN [user[u] EXCEPT !.status = "UNKNOWN"]
                               ELSE user[u]]

Shown == [name: Names \cup {NoName}, role: Roles,
          status: Statuses \cup {"UNKNOWN"}, isEmailVerified: BOOLEAN]
Views == UNION {[S -> Shown] : S \in SUBSET Users}

\* overtaken is history: the view may have been read before a change whose
\* invalidation this entry, or this request, will not meet.
Entry == [key: Keys, view: Views, ttl: 1..CacheTtl, overtaken: BOOLEAN]

\* What a handler deletes after its commit, in order, and what is left of it.
OwnInvalidations   == <<"user">>
AdminInvalidations == <<"admin:user", "admin:users">>
AllInvalidations   == <<"user", "admin:user", "admin:users">>
NoInvalidations    == <<>>
Todos == {OwnInvalidations, AdminInvalidations, AllInvalidations, <<"admin:users">>}

Idle == [at |-> "idle"]
Request ==
  {Idle}
  \cup [at: {"authenticated"}, op: {"getMe", "updateProfile", "deleteAccount"},
        user: Users]
  \cup [at: {"find"}, key: Keys]
  \cup [at: {"set"}, key: Keys, view: Views, overtaken: BOOLEAN]
  \cup [at: {"updateProfile.commit"}, user: Users, name: Names]
  \cup [at: {"updateRole.commit"}, user: Users, role: Roles]
  \cup [at: {"updateStatus.commit"}, user: Users, status: Statuses]
  \cup [at: {"deleteAccount.commit", "deleteUser.commit", "verifyEmail.commit"},
        user: Users]
  \cup [at: {"invalidate"}, user: Users, todo: Todos]
  \cup [at: {"del.pages"}, keys: SUBSET Keys]

\* Entries and requests are about keys that exist; a request on its way to
\* Redis still holds what it is to store, or knows what it is to delete.
CacheTypeOK ==
  /\ user \in [Users -> UserRow]
  /\ cache \subseteq Entry
  /\ \A e1, e2 \in cache : e1.key = e2.key => e1 = e2
  /\ req \in [Requests -> Request]
  /\ writes \in 0..MaxWrites

Init == /\ user = [u \in Users |->
                     [name |-> NoName, role |-> "USER",
                      status |-> "PENDING_VERIFICATION", isEmailVerified |-> FALSE]]
        /\ cache = {}
        /\ req = [r \in Requests |-> Idle]
        /\ writes = 0

Blocked(u) == user[u].status \in {"DELETED", "SUSPENDED", "BANNED"}

\* The keys a request has yet to delete.
Owed(q) ==
  CASE q.at = "invalidate" ->
         UNION {Named(q.todo[i], q.user) : i \in DOMAIN q.todo}
    [] q.at = "del.pages" -> q.keys
    [] OTHER -> {}

-----------------------------------------------------------------------------
(* A request moves on, or is answered; those between their read and their  *)
(* set of one of the keys are overtaken.                                   *)

Overtaken(q, keys) ==
  IF q.at = "set" /\ q.key \in keys THEN [q EXCEPT !.overtaken = TRUE] ELSE q

AwaitOvertaking(r, locals, keys) ==
  req' = [q \in Requests |-> IF q = r THEN locals ELSE Overtaken(req[q], keys)]

Await(r, locals) == AwaitOvertaking(r, locals, {})
Answer(r) == Await(r, Idle)

Overtake(keys) ==
  cache' = {IF e.key \in keys THEN [e EXCEPT !.overtaken = TRUE] ELSE e :
              e \in cache}

Forget(keys) == cache' = {e \in cache : e.key \notin keys}

\* A budget for the changes of an instance.
AskForChange == writes < MaxWrites /\ writes' = writes + 1

-----------------------------------------------------------------------------
(* Readers.                                                                *)

\* authenticateUser, before the handlers of a user's own requests.
Authenticate(r, u, op) ==
  /\ req[r] = Idle
  /\ ~Blocked(u)
  /\ Await(r, [at |-> "authenticated", op |-> op, user |-> u])
  /\ UNCHANGED <<user, cache, writes>>

\* The get of a key: a hit is the answer.
Lookup(r, k) ==
  /\ IF \E e \in cache : e.key = k THEN Answer(r)
                                   ELSE Await(r, [at |-> "find", key |-> k])
  /\ UNCHANGED <<user, cache, writes>>

GetMe(r) == /\ req[r].at = "authenticated" /\ req[r].op = "getMe"
            /\ Lookup(r, <<"user", req[r].user>>)

GetUserById(r, u) == req[r] = Idle /\ Lookup(r, <<"admin:user", u>>)

GetAllUsers(r, page) == req[r] = Idle /\ Lookup(r, <<"admin:users", page>>)

\* The query of a miss ...
Find(r) ==
  /\ req[r].at = "find"
  /\ Await(r, [at |-> "set", key |-> req[r].key, view |-> View(req[r].key),
               overtaken |-> FALSE])
  /\ UNCHANGED <<user, cache, writes>>

\* ... and the set of what it found, with EX, whatever happened in between.
Fill(r) ==
  /\ req[r].at = "set"
  /\ LET q == req[r] IN
     cache' = {e \in cache : e.key # q.key} \cup
                {[key |-> q.key, view |-> q.view, ttl |-> CacheTtl,
                  overtaken |-> q.overtaken]}
  /\ Answer(r)
  /\ UNCHANGED <<user, writes>>

-----------------------------------------------------------------------------
(* Writers.                                                                *)

\* The commit of a handler that goes on to invalidate todo.  The keys that
\* show the change and are not among those are overtaken there and then.
Commit(r, row, todo) ==
  LET u == req[r].user
      next == IF todo = NoInvalidations THEN Idle
              ELSE [at |-> "invalidate", user |-> u, todo |-> todo]
      missed == {k \in Keys \ Owed(next) : View(k)' # View(k)}
  IN /\ user' = [user EXCEPT ![u] = row]
     /\ Overtake(missed)
     /\ AwaitOvertaking(r, next, missed)
     /\ UNCHANGED writes

\* Whether somebody else has the user name is left open, here and at the
\* commit: a name may be taken or given up in between.
UpdateProfileCheck(r, name) ==
  /\ req[r].at = "authenticated" /\ req[r].op = "updateProfile"
  /\ \/ Answer(r) /\ UNCHANGED writes
     \/ /\ AskForChange
        /\ Await(r, [at |-> "updateProfile.commit", user |-> req[r].user,
                     name |-> name])
  /\ UNCHANGED <<user, cache>>

\* Mutant: the handler ends with its commit.
UpdateProfileForgets(r) ==
  /\ req[r].at = "updateProfile.commit"
  /\ user' = [user EXCEPT ![req[r].user].name = req[r].name]
  /\ Answer(r)
  /\ UNCHANGED <<cache, writes>>

UpdateProfileCommit(r) ==
  /\ req[r].at = "updateProfile.commit"
  /\ Commit(r, [user[req[r].user] EXCEPT !.name = req[r].name], OwnInvalidations)

\* The unique key refuses the second of two updates to one user name.
UpdateProfileLost(r) ==
  /\ req[r].at = "updateProfile.commit"
  /\ Answer(r)
  /\ UNCHANGED <<user, cache, writes>>

\* deletedAt, which no view shows, refuses it: it is set when the status is
\* DELETED, and may be when it no longer is.
DeleteAccountRead(r) ==
  /\ req[r].at = "authenticated" /\ req[r].op = "deleteAccount"
  /\ \/ Answer(r) /\ UNCHANGED writes
     \/ /\ user[req[r].user].status # "DELETED"
        /\ AskForChange
        /\ Await(r, [at |-> "deleteAccount.commit", user |-> req[r].user])
  /\ UNCHANGED <<user, cache>>

DeleteAccountCommit(r) ==
  /\ req[r].at = "deleteAccount.commit"
  /\ Commit(r, [user[req[r].user] EXCEPT !.status = "DELETED"], OwnInvalidations)

UpdateUserRoleRead(r, u, role) ==
  /\ req[r] = Idle /\ user[u].role # role
  /\ AskForChange
  /\ Await(r, [at |-> "updateRole.commit", user |-> u, role |-> role])
  /\ UNCHANGED <<user, cache>>

UpdateUserRoleCommit(r) ==
  /\ req[r].at = "updateRole.commit"
  /\ Commit(r, [user[req[r].user] EXCEPT !.role = req[r].role], AdminInvalidations)

UpdateUserStatusRead(r, u, status) ==
  /\ req[r] = Idle /\ user[u].status # status
  /\ AskForChange
  /\ Await(r, [at |-> "updateStatus.commit", user |-> u, status |-> status])
  /\ UNCHANGED <<user, cache>>

UpdateUserStatusCommit(r) ==
  /\ req[r].at = "updateStatus.commit"
  /\ Commit(r, [user[req[r].user] EXCEPT !.status = req[r].status],
            AdminInvalidations)

DeleteUserRead(r, u) ==
  /\ req[r] = Idle /\ user[u].status # "DELETED"
  /\ AskForChange
  /\ Await(r, [at |-> "deleteUser.commit", user |-> u])
  /\ UNCHANGED <<user, cache>>

DeleteUserCommit(r) ==
  /\ req[r].at = "deleteUser.commit"
  /\ Commit(r, [user[req[r].user] EXCEPT !.status = "DELETED"], AllInvalidations)

\* Of a link that is good.
VerifyEmailRead(r, u) ==
  /\ req[r] = Idle /\ ~user[u].isEmailVerified
  /\ AskForChange
  /\ Await(r, [at |-> "verifyEmail.commit", user |-> u])
  /\ UNCHANGED <<user, cache>>

\* It changes what three keys show, and deletes none.
VerifyEmailCommit(r) ==
  /\ req[r].at = "verifyEmail.commit"
  /\ Commit(r, [user[req[r].user] EXCEPT !.isEmailVerified = TRUE,
                                        !.status = "ACTIVE"], NoInvalidations)

\* The link has been consumed since: P2025.
VerifyEmailLost(r) ==
  /\ req[r].at = "verifyEmail.commit"
  /\ Answer(r)
  /\ UNCHANGED <<user, cache, writes>>

-----------------------------------------------------------------------------
(* Invalidation.                                                           *)

RestAlways(q) == [q EXCEPT !.todo = Tail(@)]   \* mutant: the last is not told
Rest(q) == IF Len(q.todo) = 1 THEN Idle ELSE [q EXCEPT !.todo = Tail(@)]

\* del user:<id> or del admin:user:<id>.
Invalidate(r) ==
  /\ req[r].at = "invalidate" /\ Head(req[r].todo) # "admin:users"
  /\ LET keys == Named(Head(req[r].todo), req[r].user) IN
     /\ Forget(keys)
     /\ AwaitOvertaking(r, Rest(req[r]), keys)
  /\ UNCHANGED <<user, writes>>

\* keys admin:users:* lists the pages there are now ...
ScanPages(r) ==
  /\ req[r].at = "invalidate" /\ Head(req[r].todo) = "admin:users"
  /\ LET all == Named("admin:users", req[r].user)
         present == {k \in all : \E e \in cache : e.key = k}
     IN AwaitOvertaking(r, IF present = {} THEN Idle
                           ELSE [at |-> "del.pages", keys |-> present], all)
  /\ UNCHANGED <<user, cache, writes>>

\* ... and del takes those.
InvalidatePages(r) ==
  /\ req[r].at = "del.pages"
  /\ Forget(req[r].keys)
  /\ Answer(r)
  /\ UNCHANGED <<user, writes>>

\* logout, resetPassword, changePassword and revokeAllSessions delete the
\* profile's entry though they change nothing it shows.
EndSessions(u) ==
  /\ Forget(Named("user", u))
  /\ UNCHANGED <<user, req, writes>>

\* POST /system/cache/reset.
ResetCache == Forget(Keys) /\ UNCHANGED <<user, req, writes>>

-----------------------------------------------------------------------------
(* Time and failures.                                                      *)

ExpireNever(e) == TRUE   \* mutant: set without EX
Survives(e) == e.ttl > 1

Tick ==
  /\ cache' = {[e EXCEPT !.ttl = IF @ > 1 THEN @ - 1 ELSE @] :
                 e \in {f \in cache : Survives(f)}}
  /\ UNCHANGED <<user, req, writes>>

\* A call fails or the process dies: what has been deleted stays deleted,
\* and what was still owed is not.
Abort(r) ==
  /\ Faults
  /\ req[r] # Idle
  /\ Overtake(Owed(req[r]))
  /\ AwaitOvertaking(r, Idle, Owed(req[r]))
  /\ UNCHANGED <<user, writes>>

Arrive(r) ==
  \/ \E u \in Users, op \in {"getMe", "updateProfile", "deleteAccount"} :
       Authenticate(r, u, op)
  \/ \E u \in Users :
       GetUserById(r, u) \/ DeleteUserRead(r, u) \/ VerifyEmailRead(r, u)
  \/ \E page \in Pages : GetAllUsers(r, page)
  \/ \E u \in Users, role \in Roles : UpdateUserRoleRead(r, u, role)
  \/ \E u \in Users, status \in {"ACTIVE", "SUSPENDED", "BANNED"} :
       UpdateUserStatusRead(r, u, status)

Step(r) ==
  \/ GetMe(r) \/ Find(r) \/ Fill(r)
  \/ \E name \in Names : UpdateProfileCheck(r, name)
  \/ UpdateProfileCommit(r) \/ UpdateProfileLost(r)
  \/ DeleteAccountRead(r) \/ DeleteAccountCommit(r)
  \/ UpdateUserRoleCommit(r) \/ UpdateUserStatusCommit(r) \/ DeleteUserCommit(r)
  \/ VerifyEmailCommit(r) \/ VerifyEmailLost(r)
  \/ Invalidate(r) \/ ScanPages(r) \/ InvalidatePages(r)

Next == \/ \E r \in Requests : Arrive(r) \/ Step(r) \/ Abort(r)
        \/ \E u \in Users : EndSessions(u)
        \/ ResetCache
        \/ Tick

Spec == Init /\ [][Next]_vars

\* A request is resumed when its call returns, and Redis's clock runs.
FairSpec == Spec /\ WF_vars(Tick) /\ \A r \in Requests : WF_vars(Step(r))

-----------------------------------------------------------------------------
\* An entry shows the row as it is, unless a handler that has changed the row
\* is still to delete it, or it was read before a change whose invalidation
\* came while the reader was between its query and its set, died, or is not
\* made by the handler at all.  There is no other way to be served an old
\* profile: commit first and delete after is the right order, and nothing
\* that is read after the deletion is old.
Coherent ==
  \A e \in cache :
    \/ e.view = View(e.key)
    \/ e.overtaken
    \/ \E r \in Requests : e.key \in Owed(req[r])

\* What it is an induction from: the same of a view on its way to Redis, for
\* which the del that comes after a scan of the pages is no excuse.
FillCoherent ==
  \A r \in Requests : req[r].at = "set" =>
    \/ req[r].view = View(req[r].key)
    \/ req[r].overtaken
    \/ \E q \in Requests : /\ req[q].at = "invalidate"
                           /\ req[r].key \in Owed(req[q])

CoherenceInv == Coherent /\ FillCoherent

\* Once nobody changes a row any more, every entry is right for good within
\* the time an entry lives, also after races, deaths, and the changes that no
\* handler invalidates.
Converges == <>[](\A e \in cache : e.view = View(e.key))
=============================================================================
