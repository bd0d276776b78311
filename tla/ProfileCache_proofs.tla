------------------------- MODULE ProfileCache_proofs -------------------------
(***************************************************************************)
(* Theorems about ProfileCache, for every set of users, pages and requests *)
(* and every life of an entry.                                             *)
(***************************************************************************)
EXTENDS ProfileCache, TLAPS

LEMMA Shapes ==
  ASSUME NEW q \in Request
  PROVE  /\ q.at = "authenticated" =>
              q \in [at: {"authenticated"},
                     op: {"getMe", "updateProfile", "deleteAccount"}, user: Users]
         /\ q.at = "find" => q \in [at: {"find"}, key: Keys]
         /\ q.at = "set" =>
              q \in [at: {"set"}, key: Keys, view: Views, overtaken: BOOLEAN]
         /\ q.at = "updateProfile.commit" =>
              q \in [at: {"updateProfile.commit"}, user: Users, name: Names]
         /\ q.at = "updateRole.commit" =>
              q \in [at: {"updateRole.commit"}, user: Users, role: Roles]
         /\ q.at = "updateStatus.commit" =>
              q \in [at: {"updateStatus.commit"}, user: Users, status: Statuses]
         /\ q.at \in {"deleteAccount.commit", "deleteUser.commit",
                     "verifyEmail.commit"} =>
              q \in [at: {"deleteAccount.commit", "deleteUser.commit",
                         "verifyEmail.commit"}, user: Users]
         /\ q.at = "invalidate" =>
              q \in [at: {"invalidate"}, user: Users, todo: Todos]
         /\ q.at = "del.pages" => q \in [at: {"del.pages"}, keys: SUBSET Keys]
BY DEF Request, Idle

LEMMA KeyShapes ==
  ASSUME NEW u \in Users, NEW page \in Pages
  PROVE  /\ <<"user", u>> \in Keys
         /\ <<"admin:user", u>> \in Keys
         /\ <<"admin:users", page>> \in Keys
BY DEF Keys

LEMMA ViewType ==
  ASSUME CacheTypeOK, NEW k \in Keys
  PROVE  View(k) \in Views
<1>1. Listed(k) \in SUBSET Users  BY DEF Keys, Listed
<1>2. ASSUME NEW u \in Listed(k)
      PROVE  (IF k[1] = "user" THEN [user[u] EXCEPT !.status = "UNKNOWN"]
                               ELSE user[u]) \in Shown
  BY <1>1, <1>2 DEF CacheTypeOK, UserRow, Shown
<1>3. View(k) \in [Listed(k) -> Shown]  BY <1>2 DEF View
<1> QED  BY <1>1, <1>3 DEF Views

LEMMA OvertakenType ==
  ASSUME NEW q \in Request, NEW K
  PROVE  Overtaken(q, K) \in Request
<1>1. CASE q.at = "set"
  <2>1. q \in [at: {"set"}, key: Keys, view: Views, overtaken: BOOLEAN]
    BY <1>1, Shapes
  <2>2. [q EXCEPT !.overtaken = TRUE]
           \in [at: {"set"}, key: Keys, view: Views, overtaken: BOOLEAN]
    BY <2>1
  <2>3. [q EXCEPT !.overtaken = TRUE] \in Request  BY <2>2 DEF Request
  <2> QED  BY <2>3 DEF Overtaken
<1>2. CASE q.at # "set"  BY <1>2 DEF Overtaken
<1> QED  BY <1>1, <1>2

LEMMA AwaitType ==
  ASSUME CacheTypeOK, NEW r \in Requests, NEW q \in Request, NEW K,
         AwaitOvertaking(r, q, K)
  PROVE  req' \in [Requests -> Request]
BY OvertakenType DEF CacheTypeOK, AwaitOvertaking

LEMMA AnswerType ==
  ASSUME CacheTypeOK, NEW r \in Requests, Answer(r)
  PROVE  req' \in [Requests -> Request]
<1>1. Idle \in Request  BY DEF Request
<1> QED  BY <1>1, AwaitType DEF Answer, Await

\* The set of entries stays one entry for a key.
OnePerKey(c) == \A e1, e2 \in c : e1.key = e2.key => e1 = e2

LEMMA OvertakeType ==
  ASSUME CacheTypeOK, NEW K, Overtake(K)
  PROVE  cache' \subseteq Entry /\ OnePerKey(cache')
<1> DEFINE over(e) == IF e.key \in K THEN [e EXCEPT !.overtaken = TRUE] ELSE e
<1>1. ASSUME NEW e \in cache
      PROVE  over(e) \in Entry /\ over(e).key = e.key
  BY DEF CacheTypeOK, Entry
<1>2. cache' = {over(e) : e \in cache}  BY DEF Overtake
<1>3. ASSUME NEW e1 \in cache', NEW e2 \in cache', e1.key = e2.key
      PROVE  e1 = e2
  <2>1. PICK f1 \in cache, f2 \in cache : e1 = over(f1) /\ e2 = over(f2)
    BY <1>2
  <2>2. f1.key = f2.key  BY <1>1, <1>3, <2>1
  <2>3. f1 = f2  BY <2>2 DEF CacheTypeOK
  <2> QED  BY <2>1, <2>3
<1>4. cache' \subseteq Entry
  <2> HIDE DEF over
  <2> QED  BY <1>1, <1>2
<1> QED  BY <1>3, <1>4 DEF OnePerKey

LEMMA CommitType ==
  ASSUME CacheTypeOK, NEW r \in Requests, NEW row \in UserRow,
         NEW todo \in Todos \cup {NoInvalidations},
         req[r].user \in Users, Commit(r, row, todo)
  PROVE  CacheTypeOK'
<1> DEFINE u == req[r].user
           next == IF todo = NoInvalidations THEN Idle
                   ELSE [at |-> "invalidate", user |-> u, todo |-> todo]
           missed == {k \in Keys \ Owed(next) : View(k)' # View(k)}
<1>1. next \in Request  BY DEF Request
<1>2. /\ user' = [user EXCEPT ![u] = row] /\ Overtake(missed)
      /\ AwaitOvertaking(r, next, missed) /\ UNCHANGED writes
  BY DEF Commit
<1>3. user' \in [Users -> UserRow]  BY <1>2 DEF CacheTypeOK
<1>4. cache' \subseteq Entry /\ OnePerKey(cache')
  <2> HIDE DEF missed
  <2> QED  BY <1>2, OvertakeType
<1>5. req' \in [Requests -> Request]
  <2> HIDE DEF missed, next
  <2> QED  BY <1>1, <1>2, AwaitType
<1> QED  BY <1>2, <1>3, <1>4, <1>5 DEF CacheTypeOK, OnePerKey

LEMMA InitType == ASSUME Init PROVE CacheTypeOK
<1>1. user \in [Users -> UserRow]  BY DEF Init, UserRow, Roles, Statuses
<1>2. Idle \in Request  BY DEF Request
<1>3. writes \in 0..MaxWrites  BY CacheAssumption DEF Init
<1> QED  BY <1>1, <1>2, <1>3 DEF Init, CacheTypeOK

\* Requests that only wait for another call: the tables stay.
LEMMA WaitType ==
  ASSUME CacheTypeOK, NEW r \in Requests, NEW q \in Request, Await(r, q),
         UNCHANGED <<user, cache>>, AskForChange \/ UNCHANGED writes
  PROVE  CacheTypeOK'
<1>1. req' \in [Requests -> Request]  BY AwaitType DEF Await
<1>2. writes' \in 0..MaxWrites
  BY CacheAssumption DEF CacheTypeOK, AskForChange
<1> QED  BY <1>1, <1>2 DEF CacheTypeOK

LEMMA LookupType ==
  ASSUME CacheTypeOK, NEW r \in Requests, NEW k \in Keys, Lookup(r, k)
  PROVE  CacheTypeOK'
<1> DEFINE find == [at |-> "find", key |-> k]
<1>1. find \in Request /\ Idle \in Request  BY DEF Request
<1> HIDE DEF find
<1>2. Await(r, find) \/ Await(r, Idle)  BY DEF Lookup, Answer, find
<1>3. UNCHANGED <<user, cache>> /\ UNCHANGED writes  BY DEF Lookup
<1> QED  BY <1>1, <1>2, <1>3, WaitType

LEMMA ArriveType ==
  ASSUME CacheTypeOK, NEW r \in Requests, Arrive(r)
  PROVE  CacheTypeOK'
<1>1. ASSUME NEW u \in Users, NEW op \in {"getMe", "updateProfile", "deleteAccount"},
             Authenticate(r, u, op)
      PROVE  CacheTypeOK'
  <2> DEFINE q == [at |-> "authenticated", op |-> op, user |-> u]
  <2>1. q \in Request  BY DEF Request
  <2> QED  BY <1>1, <2>1, WaitType DEF Authenticate
<1>2. ASSUME NEW u \in Users, GetUserById(r, u) PROVE CacheTypeOK'
  BY <1>2, LookupType DEF GetUserById, Keys
<1>3. ASSUME NEW page \in Pages, GetAllUsers(r, page) PROVE CacheTypeOK'
  BY <1>3, LookupType DEF GetAllUsers, Keys
<1>4. ASSUME NEW u \in Users, DeleteUserRead(r, u) PROVE CacheTypeOK'
  <2> DEFINE q == [at |-> "deleteUser.commit", user |-> u]
  <2>1. q \in Request  BY DEF Request
  <2> QED  BY <1>4, <2>1, WaitType DEF DeleteUserRead
<1>5. ASSUME NEW u \in Users, NEW role \in Roles, UpdateUserRoleRead(r, u, role)
      PROVE  CacheTypeOK'
  <2> DEFINE q == [at |-> "updateRole.commit", user |-> u, role |-> role]
  <2>1. q \in Request  BY DEF Request
  <2> QED  BY <1>5, <2>1, WaitType DEF UpdateUserRoleRead
<1>6. ASSUME NEW u \in Users, NEW status \in {"ACTIVE", "SUSPENDED", "BANNED"},
             UpdateUserStatusRead(r, u, status)
      PROVE  CacheTypeOK'
  <2> DEFINE q == [at |-> "updateStatus.commit", user |-> u, status |-> status]
  <2>1. q \in Request  BY DEF Request, Statuses
  <2> QED  BY <1>6, <2>1, WaitType DEF UpdateUserStatusRead
<1>7. ASSUME NEW u \in Users, VerifyEmailRead(r, u) PROVE CacheTypeOK'
  <2> DEFINE q == [at |-> "verifyEmail.commit", user |-> u]
  <2>1. q \in Request  BY DEF Request
  <2> QED  BY <1>7, <2>1, WaitType DEF VerifyEmailRead
<1> QED  BY <1>1, <1>2, <1>3, <1>4, <1>5, <1>6, <1>7 DEF Arrive

LEMMA RestType ==
  ASSUME NEW q \in Request, q.at = "invalidate"
  PROVE  Rest(q) \in Request
<1>1. q \in [at: {"invalidate"}, user: Users, todo: Todos]  BY Shapes
<1>2. Len(q.todo) # 1 => Tail(q.todo) \in Todos
  <2>1. /\ Len(OwnInvalidations) = 1 /\ Len(<<"admin:users">>) = 1
        /\ Tail(AdminInvalidations) = <<"admin:users">>
        /\ Tail(AllInvalidations) = AdminInvalidations
    BY DEF OwnInvalidations, AdminInvalidations, AllInvalidations
  <2> QED  BY <1>1, <2>1 DEF Todos
<1>3. Len(q.todo) # 1 => [q EXCEPT !.todo = Tail(q.todo)] \in Request
  <2> DEFINE rest == [q EXCEPT !.todo = Tail(q.todo)]
  <2>1. Len(q.todo) # 1 => rest \in [at: {"invalidate"}, user: Users, todo: Todos]
    BY <1>1, <1>2
  <2> QED  BY <2>1 DEF Request
<1>4. Idle \in Request  BY DEF Request
<1> QED  BY <1>3, <1>4 DEF Rest

LEMMA FillType ==
  ASSUME CacheTypeOK, NEW r \in Requests, Fill(r)
  PROVE  CacheTypeOK'
<1> DEFINE q == req[r]
           e == [key |-> q.key, view |-> q.view, ttl |-> CacheTtl,
                 overtaken |-> q.overtaken]
<1>1. q \in [at: {"set"}, key: Keys, view: Views, overtaken: BOOLEAN]
  BY Shapes DEF CacheTypeOK, Fill
<1>2. CacheTtl \in 1..CacheTtl  BY CacheAssumption
<1>3. e \in Entry  BY <1>1, <1>2 DEF Entry
<1>4. cache' = {f \in cache : f.key # q.key} \cup {e}  BY DEF Fill
<1>5. e.key = q.key  OBVIOUS
<1>6. cache' \subseteq Entry /\ OnePerKey(cache')
  <2> HIDE DEF e, q
  <2> QED  BY <1>3, <1>4, <1>5 DEF CacheTypeOK, OnePerKey
<1>7. req' \in [Requests -> Request]  BY AnswerType DEF Fill
<1> QED  BY <1>6, <1>7 DEF Fill, CacheTypeOK, OnePerKey

LEMMA StepType ==
  ASSUME CacheTypeOK, NEW r \in Requests, Step(r)
  PROVE  CacheTypeOK'
<1> DEFINE q == req[r]
<1>0. q \in Request  BY DEF CacheTypeOK
<1>1. CASE GetMe(r)
  <2>1. q \in [at: {"authenticated"},
               op: {"getMe", "updateProfile", "deleteAccount"}, user: Users]
    BY <1>0, <1>1, Shapes DEF GetMe
  <2> QED  BY <1>1, <2>1, LookupType, KeyShapes DEF GetMe, Keys
<1>2. CASE Find(r)
  <2>1. q \in [at: {"find"}, key: Keys]  BY <1>0, <1>2, Shapes DEF Find
  <2> DEFINE set == [at |-> "set", key |-> q.key, view |-> View(q.key),
                     overtaken |-> FALSE]
  <2>2. View(q.key) \in Views  BY <2>1, ViewType
  <2>3. set \in Request  BY <2>1, <2>2 DEF Request
  <2> QED  BY <1>2, <2>3, WaitType DEF Find
<1>3. CASE Fill(r)  BY <1>3, FillType
<1>4. ASSUME NEW name \in Names, UpdateProfileCheck(r, name) PROVE CacheTypeOK'
  <2>1. q \in [at: {"authenticated"},
               op: {"getMe", "updateProfile", "deleteAccount"}, user: Users]
    BY <1>0, <1>4, Shapes DEF UpdateProfileCheck
  <2> DEFINE next == [at |-> "updateProfile.commit", user |-> q.user, name |-> name]
  <2>2. next \in Request /\ Idle \in Request  BY <2>1 DEF Request
  <2> QED  BY <1>4, <2>2, WaitType DEF UpdateProfileCheck, Answer
<1>5. CASE UpdateProfileCommit(r)
  <2>1. q \in [at: {"updateProfile.commit"}, user: Users, name: Names]
    BY <1>0, <1>5, Shapes DEF UpdateProfileCommit
  <2>2. [user[q.user] EXCEPT !.name = q.name] \in UserRow
    BY <2>1 DEF CacheTypeOK, UserRow
  <2>3. OwnInvalidations \in Todos  BY DEF Todos
  <2> QED  BY <1>5, <2>1, <2>2, <2>3, CommitType DEF UpdateProfileCommit
<1>6. CASE UpdateProfileLost(r) \/ VerifyEmailLost(r)
  <2>1. Idle \in Request  BY DEF Request
  <2> QED  BY <1>6, <2>1, WaitType DEF UpdateProfileLost, VerifyEmailLost, Answer
<1>7. CASE DeleteAccountRead(r)
  <2>1. q \in [at: {"authenticated"},
               op: {"getMe", "updateProfile", "deleteAccount"}, user: Users]
    BY <1>0, <1>7, Shapes DEF DeleteAccountRead
  <2> DEFINE next == [at |-> "deleteAccount.commit", user |-> q.user]
  <2>2. next \in Request /\ Idle \in Request  BY <2>1 DEF Request
  <2> QED  BY <1>7, <2>2, WaitType DEF DeleteAccountRead, Answer
<1>8. ASSUME DeleteAccountCommit(r) \/ DeleteUserCommit(r) PROVE CacheTypeOK'
  <2>1. q \in [at: {"deleteAccount.commit", "deleteUser.commit",
                    "verifyEmail.commit"}, user: Users]
    BY <1>0, <1>8, Shapes DEF DeleteAccountCommit, DeleteUserCommit
  <2>2. [user[q.user] EXCEPT !.status = "DELETED"] \in UserRow
    BY <2>1 DEF CacheTypeOK, UserRow, Statuses
  <2>3. OwnInvalidations \in Todos /\ AllInvalidations \in Todos  BY DEF Todos
  <2> QED
    BY <1>8, <2>1, <2>2, <2>3, CommitType DEF DeleteAccountCommit, DeleteUserCommit
<1>9. CASE UpdateUserRoleCommit(r)
  <2>1. q \in [at: {"updateRole.commit"}, user: Users, role: Roles]
    BY <1>0, <1>9, Shapes DEF UpdateUserRoleCommit
  <2>2. [user[q.user] EXCEPT !.role = q.role] \in UserRow
    BY <2>1 DEF CacheTypeOK, UserRow
  <2>3. AdminInvalidations \in Todos  BY DEF Todos
  <2> QED  BY <1>9, <2>1, <2>2, <2>3, CommitType DEF UpdateUserRoleCommit
<1>10. CASE UpdateUserStatusCommit(r)
  <2>1. q \in [at: {"updateStatus.commit"}, user: Users, status: Statuses]
    BY <1>0, <1>10, Shapes DEF UpdateUserStatusCommit
  <2>2. [user[q.user] EXCEPT !.status = q.status] \in UserRow
    BY <2>1 DEF CacheTypeOK, UserRow
  <2>3. AdminInvalidations \in Todos  BY DEF Todos
  <2> QED  BY <1>10, <2>1, <2>2, <2>3, CommitType DEF UpdateUserStatusCommit
<1>11. CASE Invalidate(r)
  <2>1. Rest(q) \in Request  BY <1>0, <1>11, RestType DEF Invalidate
  <2>2. req' \in [Requests -> Request]  BY <1>11, <2>1, AwaitType DEF Invalidate
  <2> QED  BY <1>11, <2>2 DEF Invalidate, Forget, CacheTypeOK
<1>12. CASE ScanPages(r)
  <2> DEFINE all == Named("admin:users", q.user)
             present == {k \in all : \E e \in cache : e.key = k}
             next == IF present = {} THEN Idle
                     ELSE [at |-> "del.pages", keys |-> present]
  <2>1. present \in SUBSET Keys  BY DEF Named
  <2>2. next \in Request
    <3> HIDE DEF present
    <3> QED  BY <2>1 DEF Request
  <2>3. AwaitOvertaking(r, next, all)  BY <1>12 DEF ScanPages
  <2>4. req' \in [Requests -> Request]
    <3> HIDE DEF next, all
    <3> QED  BY <2>2, <2>3, AwaitType
  <2> QED  BY <1>12, <2>4 DEF ScanPages, CacheTypeOK
<1>13. CASE InvalidatePages(r)
  <2>1. req' \in [Requests -> Request]  BY <1>13, AnswerType DEF InvalidatePages
  <2> QED  BY <1>13, <2>1 DEF InvalidatePages, Forget, CacheTypeOK
<1>14. CASE VerifyEmailCommit(r)
  <2>1. q \in [at: {"deleteAccount.commit", "deleteUser.commit",
                    "verifyEmail.commit"}, user: Users]
    BY <1>0, <1>14, Shapes DEF VerifyEmailCommit
  <2> DEFINE verified == [user[q.user] EXCEPT !.isEmailVerified = TRUE]
  <2>2. verified \in UserRow  BY <2>1 DEF CacheTypeOK, UserRow
  <2>3. [verified EXCEPT !.status = "ACTIVE"] \in UserRow
    <3> HIDE DEF verified
    <3> QED  BY <2>2 DEF UserRow, Statuses
  <2> QED  BY <1>14, <2>1, <2>3, CommitType DEF VerifyEmailCommit
<1> QED
  BY <1>1, <1>2, <1>3, <1>4, <1>5, <1>6, <1>7, <1>8, <1>9, <1>10, <1>11, <1>12,
     <1>13, <1>14
  DEF Step

LEMMA NextType == ASSUME CacheTypeOK, [Next]_vars PROVE CacheTypeOK'
<1>1. CASE \E r \in Requests : Arrive(r) \/ Step(r)
  BY <1>1, ArriveType, StepType
<1>2. ASSUME NEW r \in Requests, Abort(r) PROVE CacheTypeOK'
  <2> DEFINE K == Owed(req[r])
  <2>1. Overtake(K) /\ AwaitOvertaking(r, Idle, K) /\ UNCHANGED <<user, writes>>
    BY <1>2 DEF Abort
  <2> HIDE DEF K
  <2>2. Idle \in Request  BY DEF Request
  <2> QED  BY <2>1, <2>2, OvertakeType, AwaitType DEF CacheTypeOK, OnePerKey
<1>3. ASSUME NEW u \in Users, EndSessions(u) PROVE CacheTypeOK'
  BY <1>3 DEF EndSessions, Forget, CacheTypeOK
<1>4. CASE ResetCache  BY <1>4 DEF ResetCache, Forget, CacheTypeOK
<1>5. CASE Tick
  <2> DEFINE older(e) == [e EXCEPT !.ttl = IF @ > 1 THEN @ - 1 ELSE @]
  <2>1. ASSUME NEW e \in cache PROVE older(e) \in Entry /\ older(e).key = e.key
    BY CacheAssumption DEF CacheTypeOK, Entry
  <2>2. \A e \in cache' : \E f \in cache : e = older(f)  BY <1>5 DEF Tick
  <2>3. cache' \subseteq Entry
    <3> HIDE DEF older
    <3> QED  BY <2>1, <2>2
  <2>4. ASSUME NEW e1 \in cache', NEW e2 \in cache', e1.key = e2.key PROVE e1 = e2
    <3>1. PICK f1 \in cache, f2 \in cache : e1 = older(f1) /\ e2 = older(f2)
      BY <2>2
    <3>2. f1.key = f2.key  BY <2>1, <2>4, <3>1
    <3>3. f1 = f2  BY <3>2 DEF CacheTypeOK
    <3> QED  BY <3>1, <3>3
  <2> QED  BY <1>5, <2>3, <2>4 DEF Tick, CacheTypeOK
<1>6. CASE UNCHANGED vars  BY <1>6 DEF vars, CacheTypeOK
<1> QED  BY <1>1, <1>2, <1>3, <1>4, <1>5, <1>6 DEF Next

\* Every reachable state of every instance is well typed: Redis holds one entry
\* for a key, and a request of the cache-aside handlers holds what its next
\* call needs.
THEOREM CacheTypeCorrect == Spec => []CacheTypeOK
<1>1. Init => CacheTypeOK  BY InitType
<1>2. CacheTypeOK /\ [Next]_vars => CacheTypeOK'  BY NextType
<1> QED  BY <1>1, <1>2, PTL DEF Spec

-----------------------------------------------------------------------------
(* Coherence.                                                              *)

LEMMA OwedOvertaken ==
  ASSUME NEW q \in Request, NEW K
  PROVE  /\ Overtaken(q, K).at = q.at
         /\ Owed(Overtaken(q, K)) = Owed(q)
<1>1. CASE q.at = "set"
  <2>1. q \in [at: {"set"}, key: Keys, view: Views, overtaken: BOOLEAN]
    BY <1>1, Shapes
  <2>2. Overtaken(q, K).at = "set"  BY <2>1 DEF Overtaken
  <2> QED  BY <1>1, <2>2 DEF Owed
<1>2. CASE q.at # "set"  BY <1>2 DEF Overtaken
<1> QED  BY <1>1, <1>2

\* What an overtaken request to store holds.
LEMMA SetOvertaken ==
  ASSUME NEW q \in Request, NEW K, q.at = "set"
  PROVE  /\ Overtaken(q, K).key = q.key /\ Overtaken(q, K).view = q.view
         /\ q.overtaken \/ q.key \in K => Overtaken(q, K).overtaken
<1>1. q \in [at: {"set"}, key: Keys, view: Views, overtaken: BOOLEAN]  BY Shapes
<1> QED  BY <1>1 DEF Overtaken

LEMMA SameView ==
  ASSUME UNCHANGED user, NEW k
  PROVE  View(k)' = View(k)
BY DEF View, Listed

Owing == {"invalidate", "del.pages"}

LEMMA OwedOwing ==
  ASSUME NEW q, q.at \notin Owing
  PROVE  Owed(q) = {}
BY DEF Owed, Owing

\* A request moves between calls that neither store nor delete.
QuietRequests ==
  \A x \in Requests :
    \/ req'[x] = req[x]
    \/ req'[x].at # "set" /\ req[x].at \notin Owing

\* No entry comes in or is altered, but for its age.
NoNewEntry ==
  \A e \in cache' : \E f \in cache :
    f.key = e.key /\ f.view = e.view /\ f.overtaken = e.overtaken

LEMMA QuietCoherent ==
  ASSUME CoherenceInv, UNCHANGED user, NoNewEntry, QuietRequests
  PROVE  CoherenceInv'
<1>1. ASSUME NEW x \in Requests, NEW k, k \in Owed(req[x])
      PROVE  req'[x] = req[x]
  BY <1>1, OwedOwing DEF QuietRequests
<1>2. Coherent'
  BY <1>1, SameView DEF CoherenceInv, Coherent, NoNewEntry
<1>3. FillCoherent'
  BY <1>1, SameView DEF CoherenceInv, FillCoherent, QuietRequests
<1> QED  BY <1>2, <1>3 DEF CoherenceInv

\* A row is changed: every key whose view changes is overtaken (those in M)
\* or among those a request sets out to delete (those in O).
LEMMA ChangeCoherent ==
  ASSUME CacheTypeOK, CoherenceInv, NEW M, NEW O, Overtake(M),
         \A k \in Keys : View(k)' = View(k) \/ k \in M \/ k \in O,
         \A x \in Requests :
           \/ req'[x] = Overtaken(req[x], M)
           \/ req[x].at \notin Owing /\ req'[x].at # "set",
         O = {} \/ \E x \in Requests : req'[x].at = "invalidate" /\ O = Owed(req'[x])
  PROVE  CoherenceInv'
<1>1. ASSUME NEW x \in Requests, NEW k, k \in Owed(req[x])
      PROVE  req'[x].at = req[x].at /\ k \in Owed(req'[x])
  <2>1. req'[x] = Overtaken(req[x], M)  BY <1>1, OwedOwing
  <2> QED  BY <1>1, <2>1, OwedOvertaken DEF CacheTypeOK
<1>2. ASSUME NEW e \in cache'
      PROVE  \/ e.view = View(e.key)'
             \/ e.overtaken
             \/ \E r \in Requests : e.key \in Owed(req'[r])
  <2>1. PICK f \in cache :
          e = IF f.key \in M THEN [f EXCEPT !.overtaken = TRUE] ELSE f
    BY DEF Overtake
  <2>2. f \in Entry  BY DEF CacheTypeOK
  <2>3. /\ e.key = f.key /\ e.view = f.view /\ f.key \in Keys
        /\ f.overtaken \/ f.key \in M => e.overtaken
    BY <2>1, <2>2 DEF Entry
  <2>4. \/ f.view = View(f.key) \/ f.overtaken
        \/ \E r \in Requests : f.key \in Owed(req[r])
    BY DEF CoherenceInv, Coherent
  <2> QED  BY <1>1, <2>3, <2>4
<1>3. ASSUME NEW r \in Requests, req'[r].at = "set"
      PROVE  (\/ req[r].view = View(req[r].key)
              \/ req[r].overtaken
              \/ \E q \in Requests : /\ req[q].at = "invalidate"
                                     /\ req[r].key \in Owed(req[q]))'
  <2>1. req[r] \in Request /\ req'[r] = Overtaken(req[r], M)
    BY <1>3 DEF CacheTypeOK
  <2>2. req[r].at = "set"  BY <1>3, <2>1, OwedOvertaken
  <2>3. req[r].key \in Keys  BY <2>1, <2>2, Shapes
  <2>4. /\ req'[r].key = req[r].key /\ req'[r].view = req[r].view
        /\ req[r].overtaken \/ req[r].key \in M => req'[r].overtaken
    BY <2>1, <2>2, SetOvertaken
  <2>5. \/ req[r].view = View(req[r].key) \/ req[r].overtaken
        \/ \E q \in Requests : /\ req[q].at = "invalidate"
                               /\ req[r].key \in Owed(req[q])
    BY <2>2 DEF CoherenceInv, FillCoherent
  <2>6. View(req[r].key)' = View(req[r].key) \/ req[r].key \in M \/ req[r].key \in O
    BY <2>3, <2>4 DEF View, Listed
  <2> QED  BY <1>1, <2>4, <2>5, <2>6
<1>4. Coherent'  BY <1>2 DEF Coherent
<1>5. FillCoherent'  BY <1>3 DEF FillCoherent
<1> QED  BY <1>4, <1>5 DEF CoherenceInv

LEMMA AwaitQuiet ==
  ASSUME NEW r \in Requests, NEW q, Await(r, q), q.at # "set", req[r].at \notin Owing
  PROVE  QuietRequests
<1>1. req' = [x \in Requests |-> IF x = r THEN q ELSE Overtaken(req[x], {})]
  BY DEF Await, AwaitOvertaking
<1>2. \A x \in Requests : Overtaken(req[x], {}) = req[x]  BY DEF Overtaken
<1>3. \A x \in Requests : req'[x] = IF x = r THEN q ELSE req[x]  BY <1>1, <1>2
<1> QED  BY <1>3 DEF QuietRequests

LEMMA ArriveQuiet ==
  ASSUME NEW r \in Requests, Arrive(r)
  PROVE  UNCHANGED <<user, cache>> /\ QuietRequests
<1>1. ASSUME req[r] = Idle, NEW q, Await(r, q), q.at # "set"
      PROVE  QuietRequests
  <2>1. req[r].at \notin Owing  BY <1>1 DEF Idle, Owing
  <2> QED  BY <1>1, <2>1, AwaitQuiet
<1>2. ASSUME NEW k, req[r] = Idle, Lookup(r, k)
      PROVE  UNCHANGED <<user, cache>> /\ QuietRequests
  <2> DEFINE find == [at |-> "find", key |-> k]
  <2>1. find.at # "set" /\ Idle.at # "set"  BY DEF Idle
  <2>2. Await(r, find) \/ Await(r, Idle)  BY <1>2 DEF Lookup, Answer
  <2> HIDE DEF find
  <2> QED  BY <1>1, <1>2, <2>1, <2>2 DEF Lookup
<1>3. ASSUME NEW u, NEW op, Authenticate(r, u, op)
      PROVE  UNCHANGED <<user, cache>> /\ QuietRequests
  <2> DEFINE q == [at |-> "authenticated", op |-> op, user |-> u]
  <2>1. q.at # "set"  OBVIOUS
  <2> QED  BY <1>1, <1>3, <2>1 DEF Authenticate
<1>4. ASSUME NEW u, DeleteUserRead(r, u)
      PROVE  UNCHANGED <<user, cache>> /\ QuietRequests
  <2> DEFINE q == [at |-> "deleteUser.commit", user |-> u]
  <2>1. q.at # "set"  OBVIOUS
  <2> QED  BY <1>1, <1>4, <2>1 DEF DeleteUserRead
<1>5. ASSUME NEW u, NEW role, UpdateUserRoleRead(r, u, role)
      PROVE  UNCHANGED <<user, cache>> /\ QuietRequests
  <2> DEFINE q == [at |-> "updateRole.commit", user |-> u, role |-> role]
  <2>1. q.at # "set"  OBVIOUS
  <2> QED  BY <1>1, <1>5, <2>1 DEF UpdateUserRoleRead
<1>6. ASSUME NEW u, NEW status, UpdateUserStatusRead(r, u, status)
      PROVE  UNCHANGED <<user, cache>> /\ QuietRequests
  <2> DEFINE q == [at |-> "updateStatus.commit", user |-> u, status |-> status]
  <2>1. q.at # "set"  OBVIOUS
  <2> QED  BY <1>1, <1>6, <2>1 DEF UpdateUserStatusRead
<1>7. ASSUME NEW u, VerifyEmailRead(r, u)
      PROVE  UNCHANGED <<user, cache>> /\ QuietRequests
  <2> DEFINE q == [at |-> "verifyEmail.commit", user |-> u]
  <2>1. q.at # "set"  OBVIOUS
  <2> QED  BY <1>1, <1>7, <2>1 DEF VerifyEmailRead
<1> QED
  BY <1>2, <1>3, <1>4, <1>5, <1>6, <1>7 DEF Arrive, GetUserById, GetAllUsers

\* The calls of a request that look, check, or are refused.
LEMMA CheckQuiet ==
  ASSUME NEW r \in Requests,
         \/ GetMe(r) \/ UpdateProfileLost(r) \/ VerifyEmailLost(r)
         \/ DeleteAccountRead(r) \/ \E name \in Names : UpdateProfileCheck(r, name)
  PROVE  UNCHANGED <<user, cache>> /\ QuietRequests
<1>2. Idle.at # "set"  BY DEF Idle
<1>3. CASE GetMe(r)
  <2> DEFINE find == [at |-> "find", key |-> <<"user", req[r].user>>]
  <2>1. find.at # "set"  OBVIOUS
  <2>2. Await(r, find) \/ Await(r, Idle)  BY <1>3 DEF GetMe, Lookup, Answer
  <2>3. req[r].at \notin Owing  BY <1>3 DEF GetMe, Owing
  <2> HIDE DEF find
  <2> QED  BY AwaitQuiet, <1>2, <1>3, <2>1, <2>2, <2>3 DEF GetMe, Lookup
<1>4. CASE UpdateProfileLost(r) \/ VerifyEmailLost(r)
  <2>1. req[r].at \notin Owing
    BY <1>4 DEF UpdateProfileLost, VerifyEmailLost, Owing
  <2> QED
    BY AwaitQuiet, <1>2, <1>4, <2>1 DEF UpdateProfileLost, VerifyEmailLost, Answer
<1>5. CASE DeleteAccountRead(r)
  <2> DEFINE q == [at |-> "deleteAccount.commit", user |-> req[r].user]
  <2>1. q.at # "set"  OBVIOUS
  <2>2. req[r].at \notin Owing  BY <1>5 DEF DeleteAccountRead, Owing
  <2> QED  BY AwaitQuiet, <1>2, <1>5, <2>1, <2>2 DEF DeleteAccountRead, Answer
<1>6. ASSUME NEW name \in Names, UpdateProfileCheck(r, name)
      PROVE  UNCHANGED <<user, cache>> /\ QuietRequests
  <2> DEFINE q == [at |-> "updateProfile.commit", user |-> req[r].user, name |-> name]
  <2>1. q.at # "set"  OBVIOUS
  <2>2. req[r].at \notin Owing  BY <1>6 DEF UpdateProfileCheck, Owing
  <2> QED  BY AwaitQuiet, <1>2, <1>6, <2>1, <2>2 DEF UpdateProfileCheck, Answer
<1> QED  BY <1>3, <1>4, <1>5, <1>6

LEMMA CommitCoherent ==
  ASSUME CacheTypeOK, CoherenceInv, NEW r \in Requests, NEW row, NEW todo,
         req[r].at \notin Owing, Commit(r, row, todo)
  PROVE  CoherenceInv'
<1> DEFINE next == IF todo = NoInvalidations THEN Idle
                   ELSE [at |-> "invalidate", user |-> req[r].user, todo |-> todo]
           O == Owed(next)
           M == {k \in Keys \ O : View(k)' # View(k)}
<1>1. Overtake(M) /\ AwaitOvertaking(r, next, M)  BY DEF Commit
<1>2. \A k \in Keys : View(k)' = View(k) \/ k \in M \/ k \in O  OBVIOUS
<1>3. next.at # "set" /\ (O = {} \/ next.at = "invalidate")  BY DEF Idle, Owed
<1> HIDE DEF M, next
<1>4. req'[r] = next /\ \A x \in Requests \ {r} : req'[x] = Overtaken(req[x], M)
  BY <1>1 DEF AwaitOvertaking
<1>5. O = Owed(req'[r])  BY <1>4
<1> HIDE DEF O
<1> QED  BY <1>1, <1>2, <1>3, <1>4, <1>5, ChangeCoherent

LEMMA FindCoherent ==
  ASSUME CacheTypeOK, CoherenceInv, NEW r \in Requests, Find(r)
  PROVE  CoherenceInv'
<1> DEFINE k == req[r].key
           set == [at |-> "set", key |-> k, view |-> View(k), overtaken |-> FALSE]
<1>1. \A x \in Requests : req'[x] = IF x = r THEN set ELSE req[x]
  BY DEF Find, Await, AwaitOvertaking, Overtaken
<1>2. UNCHANGED <<user, cache>>  BY DEF Find
<1>3. set.at = "set" /\ set.key = k /\ set.view = View(k)  OBVIOUS
<1>4. req[r].at \notin Owing  BY DEF Find, Owing
<1> HIDE DEF set
<1>5. ASSUME NEW x \in Requests, NEW j, j \in Owed(req[x])
      PROVE  req'[x] = req[x]
  BY <1>1, <1>4, <1>5, OwedOwing
<1>6. Coherent'  BY <1>2, <1>5, SameView DEF CoherenceInv, Coherent
<1>7. ASSUME NEW x \in Requests, req'[x].at = "set"
      PROVE  (\/ req[x].view = View(req[x].key)
              \/ req[x].overtaken
              \/ \E q \in Requests : /\ req[q].at = "invalidate"
                                     /\ req[x].key \in Owed(req[q]))'
  <2>1. CASE x = r  BY <1>1, <1>2, <1>3, <2>1 DEF View, Listed
  <2>2. CASE x # r
    <3>1. req'[x] = req[x]  BY <1>1, <2>2
    <3>2. View(req[x].key)' = View(req[x].key)  BY <1>2, <3>1 DEF View, Listed
    <3> QED  BY <1>5, <1>7, <3>1, <3>2 DEF CoherenceInv, FillCoherent
  <2> QED  BY <2>1, <2>2
<1> QED  BY <1>6, <1>7 DEF CoherenceInv, FillCoherent

\* What a request was to store becomes an entry, with its excuse.
LEMMA FillStepCoherent ==
  ASSUME CacheTypeOK, CoherenceInv, NEW r \in Requests, Fill(r)
  PROVE  CoherenceInv'
<1> DEFINE q == req[r]
           new == [key |-> q.key, view |-> q.view, ttl |-> CacheTtl,
                   overtaken |-> q.overtaken]
<1>1. \A x \in Requests : req'[x] = IF x = r THEN Idle ELSE req[x]
  BY DEF Fill, Answer, Await, AwaitOvertaking, Overtaken
<1>2. UNCHANGED user /\ q.at = "set"  BY DEF Fill
<1>3. \A e \in cache' : e \in cache \/ e = new  BY DEF Fill
<1>4. new.key = q.key /\ new.view = q.view /\ new.overtaken = q.overtaken  OBVIOUS
<1>5. ASSUME NEW x \in Requests, NEW j, j \in Owed(req[x])
      PROVE  req'[x] = req[x]
  BY <1>1, <1>2, <1>5, OwedOwing DEF Owing
<1>6. \/ q.view = View(q.key) \/ q.overtaken
      \/ \E x \in Requests : q.key \in Owed(req[x])
  BY <1>2 DEF CoherenceInv, FillCoherent
<1> HIDE DEF new
<1>7. ASSUME NEW e \in cache'
      PROVE  \/ e.view = View(e.key)'
             \/ e.overtaken
             \/ \E x \in Requests : e.key \in Owed(req'[x])
  <2>1. \/ e.view = View(e.key) \/ e.overtaken
        \/ \E x \in Requests : e.key \in Owed(req[x])
    BY <1>3, <1>4, <1>6 DEF CoherenceInv, Coherent
  <2> QED  BY <1>2, <1>5, <2>1, SameView
<1>8. Coherent'  BY <1>7 DEF Coherent
<1>9. \A x \in Requests : req'[x] = req[x] \/ req'[x].at # "set"
  BY <1>1 DEF Idle
<1>10. FillCoherent'
  BY <1>2, <1>5, <1>9, SameView DEF CoherenceInv, FillCoherent
<1> QED  BY <1>8, <1>10 DEF CoherenceInv

\* Some keys K are settled: no entry of theirs is left that is not overtaken
\* or otherwise owed, and every view of theirs on its way is overtaken; and
\* what the request r owes shrinks by no more than those.
LEMMA SettleCoherent ==
  ASSUME CacheTypeOK, CoherenceInv, NEW r \in Requests, NEW K, NEW next,
         UNCHANGED user, AwaitOvertaking(r, next, K), next.at # "set",
         \A k \in Owed(req[r]) :
           k \in K \/ (k \in Owed(next) /\ next.at = req[r].at),
         \A e \in cache' :
           \/ e.overtaken
           \/ e.key \in Owed(next)
           \/ e \in cache /\ e.key \notin K
  PROVE  CoherenceInv'
<1>1. req'[r] = next /\ \A x \in Requests \ {r} : req'[x] = Overtaken(req[x], K)
  BY DEF AwaitOvertaking
<1>2. ASSUME NEW x \in Requests, NEW k, k \in Owed(req[x]), k \notin K
      PROVE  k \in Owed(req'[x]) /\ req'[x].at = req[x].at
  BY <1>1, <1>2, OwedOvertaken DEF CacheTypeOK
<1>3. ASSUME NEW e \in cache'
      PROVE  \/ e.view = View(e.key)'
             \/ e.overtaken
             \/ \E x \in Requests : e.key \in Owed(req'[x])
  BY <1>1, <1>2, SameView DEF CoherenceInv, Coherent
<1>4. ASSUME NEW x \in Requests, req'[x].at = "set"
      PROVE  (\/ req[x].view = View(req[x].key)
              \/ req[x].overtaken
              \/ \E q \in Requests : /\ req[q].at = "invalidate"
                                     /\ req[x].key \in Owed(req[q]))'
  <2>1. req[x] \in Request /\ req'[x] = Overtaken(req[x], K)
    BY <1>1, <1>4 DEF CacheTypeOK
  <2>2. req[x].at = "set"  BY <1>4, <2>1, OwedOvertaken
  <2>3. /\ req'[x].key = req[x].key /\ req'[x].view = req[x].view
        /\ req[x].overtaken \/ req[x].key \in K => req'[x].overtaken
    BY <2>1, <2>2, SetOvertaken
  <2>4. \/ req[x].view = View(req[x].key) \/ req[x].overtaken
        \/ \E q \in Requests : /\ req[q].at = "invalidate"
                               /\ req[x].key \in Owed(req[q])
    BY <2>2 DEF CoherenceInv, FillCoherent
  <2>5. View(req[x].key)' = View(req[x].key)  BY <2>3 DEF View, Listed
  <2> QED  BY <1>2, <2>3, <2>4, <2>5
<1>5. Coherent'  BY <1>3 DEF Coherent
<1>6. FillCoherent'  BY <1>4 DEF FillCoherent
<1> QED  BY <1>5, <1>6 DEF CoherenceInv

LEMMA OwedRest ==
  ASSUME NEW q \in Request, q.at = "invalidate"
  PROVE  \A k \in Owed(q) :
           \/ k \in Named(Head(q.todo), q.user)
           \/ k \in Owed(Rest(q)) /\ Rest(q).at = "invalidate"
<1>1. q \in [at: {"invalidate"}, user: Users, todo: Todos]  BY Shapes
<1> SUFFICES ASSUME NEW i \in DOMAIN q.todo, NEW k \in Named(q.todo[i], q.user)
             PROVE  \/ k \in Named(Head(q.todo), q.user)
                    \/ k \in Owed(Rest(q)) /\ Rest(q).at = "invalidate"
  BY DEF Owed
<1> DEFINE S == {"user", "admin:user", "admin:users"}
<1>2. q.todo \in Seq(S) /\ Len(q.todo) \in 1..3
  <2>1. OwnInvalidations \in Seq(S) /\ Len(OwnInvalidations) \in 1..3
    BY DEF OwnInvalidations
  <2>2. AdminInvalidations \in Seq(S) /\ Len(AdminInvalidations) \in 1..3
    BY DEF AdminInvalidations
  <2>3. AllInvalidations \in Seq(S) /\ Len(AllInvalidations) \in 1..3
    BY DEF AllInvalidations
  <2>4. <<"admin:users">> \in Seq(S) /\ Len(<<"admin:users">>) \in 1..3
    OBVIOUS
  <2> QED  BY <1>1, <2>1, <2>2, <2>3, <2>4 DEF Todos
<1>3. CASE i = 1  BY <1>2, <1>3
<1>4. CASE i # 1
  <2>1. Len(q.todo) # 1 /\ i - 1 \in DOMAIN Tail(q.todo)
        /\ Tail(q.todo)[i - 1] = q.todo[i]
    BY <1>2, <1>4
  <2>2. /\ Rest(q).at = "invalidate" /\ Rest(q).todo = Tail(q.todo)
        /\ Rest(q).user = q.user
    BY <1>1, <2>1 DEF Rest
  <2> QED  BY <2>1, <2>2 DEF Owed
<1> QED  BY <1>3, <1>4

LEMMA StepCoherent ==
  ASSUME CacheTypeOK, CoherenceInv, NEW r \in Requests, Step(r)
  PROVE  CoherenceInv'
<1> DEFINE q == req[r]
<1>0. q \in Request  BY DEF CacheTypeOK
<1>1. CASE \/ GetMe(r) \/ UpdateProfileLost(r) \/ VerifyEmailLost(r)
           \/ DeleteAccountRead(r) \/ \E name \in Names : UpdateProfileCheck(r, name)
  <2>1. UNCHANGED <<user, cache>> /\ QuietRequests  BY <1>1, CheckQuiet
  <2> QED  BY <2>1, QuietCoherent DEF NoNewEntry
<1>2. CASE Find(r)  BY <1>2, FindCoherent
<1>3. CASE Fill(r)  BY <1>3, FillStepCoherent
<1>4. CASE \/ UpdateProfileCommit(r) \/ DeleteAccountCommit(r)
           \/ UpdateUserRoleCommit(r) \/ UpdateUserStatusCommit(r)
           \/ DeleteUserCommit(r) \/ VerifyEmailCommit(r)
  <2>1. q.at \notin Owing
    BY <1>4 DEF UpdateProfileCommit, DeleteAccountCommit, UpdateUserRoleCommit,
       UpdateUserStatusCommit, DeleteUserCommit, VerifyEmailCommit, Owing
  <2>2. \E row, todo : Commit(r, row, todo)
    BY <1>4 DEF UpdateProfileCommit, DeleteAccountCommit, UpdateUserRoleCommit,
       UpdateUserStatusCommit, DeleteUserCommit, VerifyEmailCommit
  <2> QED  BY <2>1, <2>2, CommitCoherent
<1>5. CASE Invalidate(r)
  <2> DEFINE K == Named(Head(q.todo), q.user)
             next == Rest(q)
  <2>1. q.at = "invalidate" /\ Forget(K) /\ AwaitOvertaking(r, next, K)
        /\ UNCHANGED user
    BY <1>5 DEF Invalidate
  <2>2. \A k \in Owed(q) : k \in K \/ (k \in Owed(next) /\ next.at = q.at)
    BY <1>0, <2>1, OwedRest
  <2>3. \A e \in cache' : e \in cache /\ e.key \notin K  BY <2>1 DEF Forget
  <2>4. next.at # "set"
    <3>1. q \in [at: {"invalidate"}, user: Users, todo: Todos]
      BY <1>0, <2>1, Shapes
    <3> QED  BY <3>1 DEF Rest, Idle
  <2> HIDE DEF K, next
  <2> QED  BY <2>1, <2>2, <2>3, <2>4, SettleCoherent
<1>6. CASE ScanPages(r)
  <2> DEFINE K == Named("admin:users", q.user)
             present == {k \in K : \E e \in cache : e.key = k}
             next == IF present = {} THEN Idle
                     ELSE [at |-> "del.pages", keys |-> present]
  <2>1. /\ q.at = "invalidate" /\ Head(q.todo) = "admin:users"
        /\ AwaitOvertaking(r, next, K) /\ UNCHANGED <<user, cache>>
    BY <1>6 DEF ScanPages
  <2>2. \A k \in Owed(q) : k \in K
    <3>1. q \in [at: {"invalidate"}, user: Users, todo: Todos]
      BY <1>0, <2>1, Shapes
    <3>2. q.todo = <<"admin:users">>
      BY <2>1, <3>1
      DEF Todos, OwnInvalidations, AdminInvalidations, AllInvalidations
    <3> QED  BY <2>1, <3>2 DEF Owed
  <2>3. ASSUME NEW e \in cache', e.key \in K PROVE e.key \in Owed(next)
    <3>1. e.key \in present  BY <2>1, <2>3
    <3>2. next = [at |-> "del.pages", keys |-> present]  BY <3>1
    <3> HIDE DEF present
    <3> QED  BY <3>1, <3>2 DEF Owed
  <2>4. next.at # "set"  BY DEF Idle
  <2> HIDE DEF K, next
  <2> QED  BY <2>1, <2>2, <2>3, <2>4, SettleCoherent
<1>7. CASE InvalidatePages(r)
  <2> DEFINE K == q.keys
             next == Idle
  <2>1. /\ q.at = "del.pages" /\ Forget(K) /\ UNCHANGED user
        /\ \A x \in Requests : req'[x] = IF x = r THEN Idle ELSE req[x]
    BY <1>7 DEF InvalidatePages, Answer, Await, AwaitOvertaking, Overtaken
  <2>2. Owed(q) = K  BY <2>1 DEF Owed
  <2>3. ASSUME NEW x \in Requests, NEW k, k \in Owed(req[x]), k \notin K
        PROVE  req'[x] = req[x]
    BY <2>1, <2>2, <2>3
  <2>4. Coherent'
    BY <2>1, <2>3, SameView DEF CoherenceInv, Coherent, Forget
  <2>5. \A x \in Requests :
          req'[x].at = "set" \/ req[x].at = "invalidate" => req'[x] = req[x]
    BY <2>1 DEF Idle
  <2>6. FillCoherent'
    BY <2>1, <2>5, SameView DEF CoherenceInv, FillCoherent
  <2> QED  BY <2>4, <2>6 DEF CoherenceInv
<1> QED  BY <1>1, <1>2, <1>3, <1>4, <1>5, <1>6, <1>7 DEF Step

\* A request that dies leaves what it owed, overtaken.
LEMMA AbortCoherent ==
  ASSUME CacheTypeOK, CoherenceInv, NEW r \in Requests, Abort(r)
  PROVE  CoherenceInv'
<1> DEFINE K == Owed(req[r])
<1>1. /\ Overtake(K) /\ AwaitOvertaking(r, Idle, K) /\ UNCHANGED user
  BY DEF Abort
<1> HIDE DEF K
<1>2. Idle.at # "set"  BY DEF Idle
<1>3. ASSUME NEW e \in cache'
      PROVE  e.overtaken \/ (e \in cache /\ e.key \notin K)
  <2>1. PICK f \in cache :
          e = IF f.key \in K THEN [f EXCEPT !.overtaken = TRUE] ELSE f
    BY <1>1 DEF Overtake
  <2>2. f \in Entry  BY DEF CacheTypeOK
  <2> QED  BY <2>1, <2>2 DEF Entry
<1>4. \A k \in Owed(req[r]) : k \in K  BY DEF K
<1> QED  BY <1>1, <1>2, <1>3, <1>4, SettleCoherent

LEMMA NextCoherent ==
  ASSUME CacheTypeOK, CoherenceInv, [Next]_vars
  PROVE  CoherenceInv'
<1>1. ASSUME NEW r \in Requests, Arrive(r) PROVE CoherenceInv'
  BY <1>1, ArriveQuiet, QuietCoherent DEF NoNewEntry
<1>2. ASSUME NEW r \in Requests, Step(r) \/ Abort(r) PROVE CoherenceInv'
  BY <1>2, StepCoherent, AbortCoherent
<1>3. CASE ResetCache \/ \E u \in Users : EndSessions(u)
  <2>1. UNCHANGED <<user, req>> /\ NoNewEntry
    BY <1>3 DEF ResetCache, EndSessions, Forget, NoNewEntry
  <2> QED  BY <2>1, QuietCoherent DEF QuietRequests
<1>4. CASE Tick
  <2> DEFINE older(e) == [e EXCEPT !.ttl = IF @ > 1 THEN @ - 1 ELSE @]
  <2>1. \A e \in cache' : \E f \in cache : e = older(f)  BY <1>4 DEF Tick
  <2>2. \A f \in cache : /\ older(f).key = f.key /\ older(f).view = f.view
                         /\ older(f).overtaken = f.overtaken
    BY DEF CacheTypeOK, Entry
  <2>3. NoNewEntry
    <3> HIDE DEF older
    <3> QED  BY <2>1, <2>2 DEF NoNewEntry
  <2> QED  BY <1>4, <2>3, QuietCoherent DEF Tick, QuietRequests
<1>5. CASE UNCHANGED vars
  BY <1>5, QuietCoherent DEF vars, QuietRequests, NoNewEntry
<1> QED  BY <1>1, <1>2, <1>3, <1>4, <1>5 DEF Next

\* With any number of readers and writers, whatever dies: an old profile is
\* in the cache only while its deletion is outstanding, or by one of the
\* races, losses and omissions that "overtaken" records.
THEOREM CacheCoherent == Spec => []Coherent
<1>1. Init => CoherenceInv
  BY DEF Init, CoherenceInv, Coherent, FillCoherent, Idle
<1>2. CacheTypeOK /\ CoherenceInv /\ [Next]_vars => CoherenceInv'
  BY NextCoherent
<1>3. CoherenceInv => Coherent  BY DEF CoherenceInv
<1> QED  BY <1>1, <1>2, <1>3, CacheTypeCorrect, PTL DEF Spec
=============================================================================
