-------------------------- MODULE Stragglers_proofs --------------------------
(***************************************************************************)
(* Theorems about what stale reads leave behind: the bounds IdentityForge  *)
(* puts on sessions of deleted accounts, on sessions of old passwords, and *)
(* on verification links, for every set of users, requests and ids.        *)
(***************************************************************************)
EXTENDS Accounts_proofs, FiniteSetTheorems

-----------------------------------------------------------------------------
(* Rows A and requests B that may each still add one.                      *)

LEMMA Shrinks ==
  ASSUME NEW A, NEW B, NEW C, NEW D, IsFiniteSet(A), IsFiniteSet(B),
         C \subseteq A, D \subseteq B
  PROVE  /\ Cardinality(C) + Cardinality(D) <= Cardinality(A) + Cardinality(B)
         /\ Cardinality(C) + Cardinality(D) \in Nat
<1>1. /\ IsFiniteSet(C) /\ IsFiniteSet(D)
      /\ Cardinality(C) <= Cardinality(A) /\ Cardinality(D) <= Cardinality(B)
  BY FS_Subset
<1> QED  BY <1>1, FS_CardinalityType

\* A request becomes a row.
LEMMA Transfers ==
  ASSUME NEW A, NEW B, NEW C, NEW D, NEW a, NEW b \in B,
         IsFiniteSet(A), IsFiniteSet(B),
         C \subseteq A \cup {a}, D \subseteq B \ {b}
  PROVE  Cardinality(C) + Cardinality(D) <= Cardinality(A) + Cardinality(B)
<1>1. /\ IsFiniteSet(A \cup {a})
      /\ Cardinality(A \cup {a}) <= Cardinality(A) + 1
  <2>1. Cardinality(A) \in Nat  BY FS_CardinalityType
  <2>2. /\ IsFiniteSet(A \cup {a})
        /\ Cardinality(A \cup {a}) =
             IF a \in A THEN Cardinality(A) ELSE Cardinality(A) + 1
    BY FS_AddElement
  <2> QED  BY <2>1, <2>2
<1>2. /\ IsFiniteSet(B \ {b})
      /\ Cardinality(B \ {b}) = Cardinality(B) - 1
  BY FS_RemoveElement
<1>3. /\ Cardinality(C) + Cardinality(D)
           <= Cardinality(A \cup {a}) + Cardinality(B \ {b})
      /\ Cardinality(C) + Cardinality(D) \in Nat
  BY <1>1, <1>2, Shrinks
<1> QED  BY <1>1, <1>2, <1>3, FS_CardinalityType

\* The rows are gone, and one request is not among those that may add one.
LEMMA Restarts ==
  ASSUME NEW C, NEW D, NEW r \in Requests, C = {}, D \subseteq Requests \ {r}
  PROVE  Cardinality(C) + Cardinality(D) < Cardinality(Requests)
<1>1. /\ IsFiniteSet(Requests \ {r})
      /\ Cardinality(Requests \ {r}) = Cardinality(Requests) - 1
  BY RequestsAssumption, FS_RemoveElement
<1>2. IsFiniteSet(D) /\ Cardinality(D) <= Cardinality(Requests \ {r})
  BY <1>1, FS_Subset
<1>3. Cardinality(C) = 0  BY FS_EmptySet
<1>4. Cardinality(D) \in Nat /\ Cardinality(Requests) \in Nat
  BY <1>2, RequestsAssumption, FS_CardinalityType
<1> QED  BY <1>1, <1>2, <1>3, <1>4

-----------------------------------------------------------------------------
(* There are finitely many rows.                                           *)

FiniteRows == IsFiniteSet(session) /\ IsFiniteSet(emailVerificationToken)

\* What the sorts of steps do to sessions.
LEMMA SessionEffect ==
  ASSUME TypeOK, RotationInv, [Next]_vars
  PROVE  \/ session' \subseteq session /\ UNCHANGED issued
         \/ \E r \in Requests : LoginCommit(r)
         \/ \E r \in Requests : RefreshCommit(r)
BY StepEffect, EndsTogether DEF tokenVars

LEMMA StepFiniteRows ==
  ASSUME TypeOK, RotationInv, FiniteRows, [Next]_vars
  PROVE  FiniteRows'
<1>1. IsFiniteSet(session')
  <2>1. ASSUME NEW r \in Requests, LoginCommit(r)
        PROVE  \E s : session' = session \cup {s}
    BY <2>1 DEF LoginCommit
  <2>2. ASSUME NEW r \in Requests, RefreshCommit(r)
        PROVE  session' = session
    BY <2>2 DEF RefreshCommit
  <2> QED  BY <2>1, <2>2, SessionEffect, FS_AddElement, FS_Subset DEF FiniteRows
<1>2. IsFiniteSet(emailVerificationToken')
  BY VerificationRows, FS_AddElement, FS_Subset DEF FiniteRows
<1> QED  BY <1>1, <1>2 DEF FiniteRows

\* Every instance has finitely many sessions and links at a time.
THEOREM RowsFinite == Spec => []FiniteRows
<1>1. Init => FiniteRows  BY FS_EmptySet DEF Init, FiniteRows
<1>2. TypeOK /\ RotationInv /\ FiniteRows /\ [Next]_vars => FiniteRows'
  BY StepFiniteRows
<1> QED  BY <1>1, <1>2, TypeCorrect, Rotation, PTL DEF Spec

-----------------------------------------------------------------------------
(* Deleted accounts.                                                       *)

SessionsOf(u) == {s \in session : s.userId = u}

\* A sign-in that has not started now may not be under way then.
LEMMA NoLateSignIn ==
  ASSUME TypeOK, [Next]_vars, NEW u \in Users, Blocked(u)
  PROVE  SigningIn(u)' \subseteq SigningIn(u)
<1>1. ASSUME NEW r \in Requests, req'[r].at = "login.commit", req'[r].user = u
      PROVE  req'[r] = req[r]
  <2>1. ~Moved(r)  BY <1>1 DEF Moved, MaySignIn
  <2> QED  BY <2>1, StepMoves DEF Moved
<1> QED  BY <1>1 DEF SigningIn

LEMMA LoginCommitEffect ==
  ASSUME TypeOK, NEW r \in Requests, LoginCommit(r)
  PROVE  /\ r \in SigningIn(req[r].user) /\ req'[r] = Idle
         /\ \E s : /\ s.id = req[r].sid /\ s.userId = req[r].user
                   /\ session' = session \cup {s}
         /\ \E p : /\ p.sid = req[r].sid /\ p.password = req[r].password
                   /\ issued' = issued \cup {p}
<1>1. PICK s \in SessionRow, p \in TokenPair :
        /\ s.id = req[r].sid /\ s.userId = req[r].user
        /\ p.sid = req[r].sid /\ p.password = req[r].password
        /\ session' = session \cup {s} /\ issued' = issued \cup {p}
  BY LoginCommitRows
<1>2. req'[r] = Idle  BY DEF LoginCommit, Answer, Await, TypeOK
<1>3. r \in SigningIn(req[r].user)  BY DEF LoginCommit, SigningIn
<1> QED  BY <1>1, <1>2, <1>3

LEMMA RequestsFinite ==
  ASSUME NEW S, S \subseteq Requests
  PROVE  IsFiniteSet(S)
BY RequestsAssumption, FS_Subset

LEMMA StepDeletedStragglers ==
  ASSUME TypeOK, RotationInv, FiniteRows, DeletedStragglersBounded, [Next]_vars,
         NEW u \in Users, user'[u].status = "DELETED"
  PROVE  Cardinality(SessionsOf(u)') + Cardinality(SigningIn(u)')
           < Cardinality(Requests)
<1>1. CASE user[u].status = "DELETED"
  <2>1. Cardinality(SessionsOf(u)) + Cardinality(SigningIn(u)) < Cardinality(Requests)
    BY <1>1 DEF DeletedStragglersBounded, SessionsOf
  <2>2. SigningIn(u)' \subseteq SigningIn(u)
    BY <1>1, NoLateSignIn DEF Blocked
  <2>3. SessionsOf(u) \subseteq session /\ SigningIn(u) \subseteq Requests
    BY DEF SessionsOf, SigningIn
  <2>4. IsFiniteSet(SessionsOf(u)) /\ IsFiniteSet(SigningIn(u))
    BY <2>3, RequestsFinite, FS_Subset DEF FiniteRows
  <2>5. SUFFICES Cardinality(SessionsOf(u)') + Cardinality(SigningIn(u)')
                   <= Cardinality(SessionsOf(u)) + Cardinality(SigningIn(u))
    <3>1. /\ Cardinality(SessionsOf(u)) \in Nat /\ Cardinality(SigningIn(u)) \in Nat
          /\ Cardinality(Requests) \in Nat
      BY <2>4, RequestsAssumption, FS_CardinalityType
    <3>2. /\ Cardinality(SessionsOf(u)') \in Nat /\ Cardinality(SigningIn(u)') \in Nat
      <4>1. IsFiniteSet(session')  BY StepFiniteRows DEF FiniteRows
      <4>2. SessionsOf(u)' \subseteq session'  BY DEF SessionsOf
      <4> QED  BY <2>2, <2>4, <4>1, <4>2, FS_Subset, FS_CardinalityType
    <3> QED  BY <2>1, <2>5, <3>1, <3>2
  <2>6. CASE SessionsOf(u)' \subseteq SessionsOf(u)
    BY <2>2, <2>4, <2>6, Shrinks
  <2>7. ASSUME NEW r \in Requests, LoginCommit(r), req[r].user = u
        PROVE  Cardinality(SessionsOf(u)') + Cardinality(SigningIn(u)')
                 <= Cardinality(SessionsOf(u)) + Cardinality(SigningIn(u))
    <3>1. PICK s : session' = session \cup {s}  BY <2>7, LoginCommitEffect
    <3>2. SessionsOf(u)' \subseteq SessionsOf(u) \cup {s}
      BY <3>1 DEF SessionsOf
    <3>3. r \in SigningIn(u) /\ r \notin SigningIn(u)'
      BY <2>7, LoginCommitEffect DEF SigningIn, Idle
    <3>4. SigningIn(u)' \subseteq SigningIn(u) \ {r}  BY <2>2, <3>3
    <3> QED  BY <2>4, <3>2, <3>3, <3>4, Transfers
  <2>8. ASSUME NEW r \in Requests, LoginCommit(r), req[r].user # u
        PROVE  SessionsOf(u)' \subseteq SessionsOf(u)
    BY <2>8, LoginCommitEffect DEF SessionsOf
  <2>9. ASSUME NEW r \in Requests, RefreshCommit(r)
        PROVE  SessionsOf(u)' \subseteq SessionsOf(u)
    BY <2>9 DEF RefreshCommit, SessionsOf
  <2>10. CASE session' \subseteq session
    BY <2>6, <2>10 DEF SessionsOf
  <2> QED  BY <2>6, <2>7, <2>8, <2>9, <2>10, SessionEffect
<1>2. CASE user[u].status # "DELETED"
  <2>1. PICK r \in Requests : /\ DeleteAccountCommit(r) \/ DeleteUserCommit(r)
                              /\ req[r].user = u
    <3>1. ASSUME NEW r \in Requests,
                 LoginCount(r) \/ LoginLock(r) \/ LoginCommit(r) \/ SignupCommit(r)
          PROVE  FALSE
      BY <1>2, <3>1, RowWrites
    <3>2. ASSUME NEW r \in Requests, Edits(r)
          PROVE  /\ DeleteAccountCommit(r) \/ DeleteUserCommit(r)
                 /\ req[r].user = u
      BY <1>2, <3>2, EditRows
    <3> QED  BY <1>2, <3>1, <3>2, UserEffect
  <2>2. Purge(u) /\ Answer(r)
    BY <2>1 DEF DeleteAccountCommit, DeleteUserCommit, SoftDelete
  <2>3. SessionsOf(u)' = {}  BY <2>2 DEF Purge, EndSessionsOf, SessionsOf
  <2>4. req'[r].at = "idle"  BY <2>2 DEF Answer, Await, Idle, TypeOK
  <2>5. SigningIn(u)' \subseteq Requests \ {r}  BY <2>4 DEF SigningIn
  <2> QED  BY <2>3, <2>5, Restarts
<1> QED  BY <1>1, <1>2

\* However the sign-ins, rotations and deletions of an account interleave, a
\* deleted account has, and can still be given, fewer sessions than there are
\* requests at once.
THEOREM DeletedStragglers == Spec => []DeletedStragglersBounded
<1>1. Init => DeletedStragglersBounded
  <2>1. ASSUME Init, NEW u \in Users PROVE user[u].status \in {"ACTIVE", "NONE"}
    BY <2>1 DEF Init, NewUser
  <2> QED  BY <2>1 DEF DeletedStragglersBounded
<1>2. /\ TypeOK /\ RotationInv /\ FiniteRows /\ DeletedStragglersBounded
      /\ [Next]_vars
      => DeletedStragglersBounded'
  BY StepDeletedStragglers DEF DeletedStragglersBounded, SessionsOf
<1> QED  BY <1>1, <1>2, TypeCorrect, Rotation, RowsFinite, PTL DEF Spec

-----------------------------------------------------------------------------
(* Old passwords.                                                          *)

\* A session has one password, whichever of its pairs is asked.
OneSecret == \A p, q \in issued : p.sid = q.sid => p.password = q.password

StaleSessions(u) ==
  {s \in session : s.userId = u /\ OpenedWith(s) # user[u].password}
StaleSignIns(u) == {r \in SigningIn(u) : req[r].password # user[u].password}

LEMMA OpenedIs ==
  ASSUME OneSecret, NEW s, NEW p \in issued, p.sid = s.id
  PROVE  OpenedWith(s) = p.password
<1>1. (CHOOSE q \in issued : q.sid = s.id) \in {q \in issued : q.sid = s.id}
  OBVIOUS
<1> QED  BY <1>1 DEF OneSecret, OpenedWith

\* The pair that a rotation adds has the session and password of another.
LEMMA RotatedSecret ==
  ASSUME TypeOK, NEW r \in Requests, RefreshCommit(r)
  PROVE  \E p \in issued : \E n : /\ issued' = issued \cup {n}
                                  /\ n.sid = p.sid /\ n.password = p.password
BY RefreshCommitRows

LEMMA StepOneSecret ==
  ASSUME TypeOK, RotationInv, OneSecret, [Next]_vars
  PROVE  OneSecret'
<1>1. CASE UNCHANGED issued  BY <1>1 DEF OneSecret
<1>2. ASSUME NEW r \in Requests, LoginCommit(r) PROVE OneSecret'
  <2>1. \A p \in issued : p.sid # req[r].sid
    BY <1>2 DEF LoginCommit, RotationInv, InFlightTokens
  <2> QED  BY <1>2, <2>1, LoginCommitEffect DEF OneSecret
<1>3. ASSUME NEW r \in Requests, RefreshCommit(r) PROVE OneSecret'
  BY <1>3, RotatedSecret DEF OneSecret
<1> QED  BY <1>1, <1>2, <1>3, SessionEffect

\* What a session was opened with does not change.
LEMMA OpenedStays ==
  ASSUME TypeOK, RotationInv, OneSecret, [Next]_vars, NEW s \in session
  PROVE  OpenedWith(s)' = OpenedWith(s)
<1>1. PICK p \in issued : p.sid = s.id
  BY DEF RotationInv, SessionHasOneToken, TokenProvenance
<1>2. issued \subseteq issued'
  BY SessionEffect, LoginCommitEffect, RotatedSecret
<1>3. OpenedWith(s) = p.password  BY <1>1, OpenedIs
<1>4. OneSecret'  BY StepOneSecret
<1>5. (CHOOSE q \in issued' : q.sid = s.id) \in {q \in issued' : q.sid = s.id}
  BY <1>1, <1>2
<1>6. OpenedWith(s)' = (CHOOSE q \in issued' : q.sid = s.id).password
  BY DEF OpenedWith
<1>7. OpenedWith(s)' = p.password
  BY <1>1, <1>2, <1>4, <1>5, <1>6 DEF OneSecret
<1> QED  BY <1>3, <1>7

LEMMA StepStaleStragglers ==
  ASSUME TypeOK, RotationInv, FiniteRows, AccountFirst, OneSecret,
         StalePasswordStragglersBounded, [Next]_vars, NEW u \in Users
  PROVE  Cardinality(StaleSessions(u)') + Cardinality(StaleSignIns(u)')
           < Cardinality(Requests)
<1>1. CASE user'[u].password = user[u].password
  <2>1. Cardinality(StaleSessions(u)) + Cardinality(StaleSignIns(u))
          < Cardinality(Requests)
    BY DEF StalePasswordStragglersBounded, StaleSessions, StaleSignIns
  <2>2. StaleSignIns(u)' \subseteq StaleSignIns(u)
    <3>1. ASSUME NEW r \in Requests, req'[r].at = "login.commit", req'[r].user = u,
                 req'[r].password # user[u].password
          PROVE  req'[r] = req[r]
      <4>1. ~Moved(r)  BY <3>1 DEF Moved
      <4> QED  BY <4>1, StepMoves DEF Moved
    <3> QED  BY <1>1, <3>1 DEF StaleSignIns, SigningIn
  <2>3. StaleSessions(u) \subseteq session /\ StaleSignIns(u) \subseteq Requests
    BY DEF StaleSessions, StaleSignIns, SigningIn
  <2>4. IsFiniteSet(StaleSessions(u)) /\ IsFiniteSet(StaleSignIns(u))
    BY <2>3, RequestsFinite, FS_Subset DEF FiniteRows
  <2>5. SUFFICES Cardinality(StaleSessions(u)') + Cardinality(StaleSignIns(u)')
                   <= Cardinality(StaleSessions(u)) + Cardinality(StaleSignIns(u))
    <3>1. /\ Cardinality(StaleSessions(u)) \in Nat
          /\ Cardinality(StaleSignIns(u)) \in Nat
          /\ Cardinality(Requests) \in Nat
      BY <2>4, RequestsAssumption, FS_CardinalityType
    <3>2. /\ Cardinality(StaleSessions(u)') \in Nat
          /\ Cardinality(StaleSignIns(u)') \in Nat
      <4>1. IsFiniteSet(session')  BY StepFiniteRows DEF FiniteRows
      <4>2. StaleSessions(u)' \subseteq session'  BY DEF StaleSessions
      <4> QED  BY <2>2, <2>4, <4>1, <4>2, FS_Subset, FS_CardinalityType
    <3> QED  BY <2>1, <2>5, <3>1, <3>2
  <2>6. CASE StaleSessions(u)' \subseteq StaleSessions(u)
    BY <2>2, <2>4, <2>6, Shrinks
  <2>7. \A s \in session : s \in StaleSessions(u)' => s \in StaleSessions(u)
    BY <1>1, OpenedStays DEF StaleSessions
  <2>8. CASE session' \subseteq session
    <3>1. StaleSessions(u)' \subseteq session'  BY DEF StaleSessions
    <3> QED  BY <2>6, <2>7, <2>8, <3>1
  <2>9. ASSUME NEW r \in Requests, LoginCommit(r)
        PROVE  Cardinality(StaleSessions(u)') + Cardinality(StaleSignIns(u)')
                 <= Cardinality(StaleSessions(u)) + Cardinality(StaleSignIns(u))
    <3>1. PICK s : /\ s.id = req[r].sid /\ s.userId = req[r].user
                   /\ session' = session \cup {s}
      BY <2>9, LoginCommitEffect
    <3>2. PICK p \in issued' : p.sid = req[r].sid /\ p.password = req[r].password
      BY <2>9, LoginCommitEffect
    <3>3. StaleSessions(u)' \subseteq StaleSessions(u) \cup {s}
      BY <2>7, <3>1 DEF StaleSessions
    <3>4. CASE s \in StaleSessions(u)'
      <4>1. s.userId = u /\ OpenedWith(s)' # user[u].password
        BY <1>1, <3>4 DEF StaleSessions
      <4>2. OpenedWith(s)' = req[r].password
        <5>1. OneSecret'  BY StepOneSecret
        <5>2. (CHOOSE q \in issued' : q.sid = s.id) \in {q \in issued' : q.sid = s.id}
          BY <3>1, <3>2
        <5>3. OpenedWith(s)' = (CHOOSE q \in issued' : q.sid = s.id).password
          BY DEF OpenedWith
        <5> QED  BY <3>1, <3>2, <5>1, <5>2, <5>3 DEF OneSecret
      <4>3. r \in StaleSignIns(u) /\ r \notin StaleSignIns(u)'
        <5>1. r \in SigningIn(req[r].user) /\ req'[r] = Idle
          BY <2>9, LoginCommitEffect
        <5>2. req[r].user = u /\ req[r].password # user[u].password
          BY <3>1, <4>1, <4>2
        <5>3. req'[r].at # "login.commit"  BY <5>1 DEF Idle
        <5> QED  BY <5>1, <5>2, <5>3 DEF StaleSignIns, SigningIn
      <4>4. StaleSignIns(u)' \subseteq StaleSignIns(u) \ {r}  BY <2>2, <4>3
      <4> QED  BY <2>4, <3>3, <4>3, <4>4, Transfers
    <3>5. CASE s \notin StaleSessions(u)'
      BY <2>6, <3>3, <3>5
    <3> QED  BY <3>4, <3>5
  <2>10. ASSUME NEW r \in Requests, RefreshCommit(r)
         PROVE  session' \subseteq session
    BY <2>10 DEF RefreshCommit
  <2> QED  BY <2>8, <2>9, <2>10, SessionEffect
<1>2. CASE user'[u].password # user[u].password
  <2>1. ASSUME NEW r \in Requests, ChangePasswordCommit(r) \/ ResetCommit(r),
               req[r].user = u
        PROVE  StaleSessions(u)' = {} /\ req'[r].at = "idle"
    <3>1. Purge(u) /\ Answer(r)  BY <2>1 DEF ChangePasswordCommit, ResetCommit
    <3>2. StaleSessions(u)' = {}
      BY <3>1 DEF Purge, EndSessionsOf, StaleSessions
    <3> QED  BY <3>1, <3>2 DEF Answer, Await, Idle, TypeOK
  <2>2. ASSUME NEW r \in Requests, SignupCommit(r), req[r].user = u
        PROVE  StaleSessions(u)' = {} /\ req'[r].at = "enqueue"
    <3>1. \A s \in session : s.userId # u
      BY <2>2 DEF SignupCommit, AccountFirst
    <3>2. session' = session  BY <2>2 DEF SignupCommit, tokenVars
    <3>3. StaleSessions(u)' = {}  BY <3>1, <3>2 DEF StaleSessions
    <3> DEFINE q == [at |-> "enqueue", user |-> req[r].user, link |-> req[r].link]
    <3>4. Await(r, q) /\ q.at = "enqueue"  BY <2>2 DEF SignupCommit
    <3> HIDE DEF q
    <3> QED  BY <3>3, <3>4, AwaitMoves
  <2>3. \E r \in Requests : /\ \/ ChangePasswordCommit(r) \/ ResetCommit(r)
                               \/ SignupCommit(r)
                            /\ req[r].user = u
    <3>1. ASSUME NEW r \in Requests, LoginCount(r) \/ LoginLock(r) \/ LoginCommit(r)
          PROVE  FALSE
      BY <1>2, <3>1, RowWrites
    <3>2. ASSUME NEW r \in Requests, SignupCommit(r)
          PROVE  req[r].user = u
      BY <1>2, <3>2, RowWrites
    <3>3. ASSUME NEW r \in Requests, Edits(r)
          PROVE  /\ ChangePasswordCommit(r) \/ ResetCommit(r)
                 /\ req[r].user = u
      BY <1>2, <3>3, EditRows
    <3> QED  BY <1>2, <3>1, <3>2, <3>3, UserEffect
  <2>4. PICK r \in Requests :
          StaleSessions(u)' = {} /\ req'[r].at \in {"idle", "enqueue"}
    BY <2>1, <2>2, <2>3
  <2>5. StaleSignIns(u)' \subseteq Requests \ {r}
    BY <2>4 DEF StaleSignIns, SigningIn
  <2> QED  BY <2>4, <2>5, Restarts
<1> QED  BY <1>1, <1>2

\* However the sign-ins and changes of the password interleave, fewer sessions
\* of an old password are left, or can still be opened, than there are requests
\* at once.
THEOREM StalePasswordStragglers == Spec => []StalePasswordStragglersBounded
<1>1. Init => OneSecret  BY DEF Init, OneSecret
<1>2. TypeOK /\ RotationInv /\ OneSecret /\ [Next]_vars => OneSecret'
  BY StepOneSecret
<1>3. Spec => []OneSecret  BY <1>1, <1>2, TypeCorrect, Rotation, PTL DEF Spec
<1>4. Init => StalePasswordStragglersBounded
  <2>1. SUFFICES ASSUME Init, NEW u \in Users
                 PROVE  Cardinality(StaleSessions(u)) + Cardinality(StaleSignIns(u))
                          < Cardinality(Requests)
    BY DEF StalePasswordStragglersBounded, StaleSessions, StaleSignIns
  <2>2. StaleSessions(u) = {}
    <3>1. StaleSessions(u) \subseteq session  BY DEF StaleSessions
    <3>2. session = {}  BY <2>1 DEF Init
    <3> QED  BY <3>1, <3>2
  <2>3. \A r \in Requests : req[r].at = "idle"
    BY <2>1 DEF Init, Idle
  <2>4. PICK r \in Requests : TRUE  BY RequestsAssumption
  <2>5. StaleSignIns(u) \subseteq Requests \ {r}
    BY <2>3 DEF StaleSignIns, SigningIn
  <2> QED  BY <2>2, <2>5, Restarts
<1>5. /\ TypeOK /\ RotationInv /\ FiniteRows /\ AccountFirst /\ OneSecret
      /\ StalePasswordStragglersBounded /\ [Next]_vars
      => StalePasswordStragglersBounded'
  BY StepStaleStragglers
  DEF StalePasswordStragglersBounded, StaleSessions, StaleSignIns
<1> QED
  BY <1>3, <1>4, <1>5, TypeCorrect, Rotation, RowsFinite, AccountsFirst, PTL
  DEF Spec

-----------------------------------------------------------------------------
(* Verification links.                                                     *)

LinksOf(u) == {t \in emailVerificationToken : t.userId = u}
Resending(u) == {r \in Requests : req[r].at = "resend.create" /\ req[r].user = u}

\* Only the call that deletes the links of a user takes a request to a new one.
LEMMA ResendingEffect ==
  ASSUME TypeOK, [Next]_vars, NEW u \in Users
  PROVE  \/ Resending(u)' \subseteq Resending(u)
         \/ \E r \in Requests : ResendDelete(r) /\ req[r].user = u
<1>1. ASSUME NEW r \in Requests, req'[r].at = "resend.create", req'[r].user = u,
             req'[r] # req[r]
      PROVE  ResendDelete(r) /\ req[r].user = u
  <2>1. Moved(r)  BY <1>1, StepMoves DEF Moved
  <2> QED  BY <1>1, <2>1 DEF Moved
<1> QED  BY <1>1 DEF Resending

\* One link more at most, and what it costs.
LEMMA LinksOfEffect ==
  ASSUME TypeOK, [Next]_vars, NEW u \in Users
  PROVE  \/ LinksOf(u)' \subseteq LinksOf(u)
         \/ \E r \in Requests : \E t :
              /\ SignupCommit(r) \/ ResendCreate(r)
              /\ req[r].user = u /\ req'[r].at = "enqueue"
              /\ LinksOf(u)' \subseteq LinksOf(u) \cup {t}
<1>1. ASSUME NEW r \in Requests, SignupCommit(r) \/ ResendCreate(r)
      PROVE  \/ LinksOf(u)' \subseteq LinksOf(u)
             \/ \E t : /\ req[r].user = u /\ req'[r].at = "enqueue"
                       /\ LinksOf(u)' \subseteq LinksOf(u) \cup {t}
  <2> DEFINE row(stamp) == [link |-> req[r].link, userId |-> req[r].user,
                            expiresAt |-> LinkExpiresAt(stamp)]
             q == [at |-> "enqueue", user |-> req[r].user, link |-> req[r].link]
  <2>0. \A stamp : row(stamp).userId = req[r].user  OBVIOUS
  <2>9. PICK stamp : /\ emailVerificationToken' =
                          emailVerificationToken \cup {row(stamp)}
                     /\ Await(r, q)
    BY <1>1 DEF SignupCommit, ResendCreate
  <2> DEFINE t == row(stamp)
  <2>1. t.userId = req[r].user /\ q.at = "enqueue"  BY <2>0
  <2>2. /\ emailVerificationToken' = emailVerificationToken \cup {t}
        /\ Await(r, q)
    BY <2>9
  <2> HIDE DEF t, q, row
  <2>3. LinksOf(u)' \subseteq LinksOf(u) \cup {t}  BY <2>2 DEF LinksOf
  <2>4. req[r].user # u => LinksOf(u)' \subseteq LinksOf(u)
    BY <2>1, <2>2 DEF LinksOf
  <2>5. req'[r].at = "enqueue"  BY <2>1, <2>2, AwaitMoves
  <2> QED  BY <2>3, <2>4, <2>5
<1>2. ASSUME NEW r \in Requests, VerifyCommit(r) \/ ResendDelete(r)
      PROVE  LinksOf(u)' \subseteq LinksOf(u)
  BY <1>2 DEF VerifyCommit, ResendDelete, LinksOf
<1>3. CASE UNCHANGED emailVerificationToken  BY <1>3 DEF LinksOf
<1> QED  BY <1>1, <1>2, <1>3, LinkEffect

LEMMA StepEarlierLinks ==
  ASSUME TypeOK, FiniteRows, AccountFirst, EarlierLinksGo, [Next]_vars,
         TypeOK', FiniteRows', NEW u \in Users
  PROVE  Cardinality(LinksOf(u)') + Cardinality(Resending(u)')
           <= Cardinality(Requests)
<1>1. /\ LinksOf(u) \subseteq emailVerificationToken
      /\ LinksOf(u)' \subseteq emailVerificationToken'
      /\ Resending(u) \subseteq Requests /\ Resending(u)' \subseteq Requests
  BY DEF LinksOf, Resending
<1>2. /\ IsFiniteSet(LinksOf(u)) /\ IsFiniteSet(LinksOf(u)')
      /\ IsFiniteSet(Resending(u)) /\ IsFiniteSet(Resending(u)')
  BY <1>1, RequestsAssumption, FS_Subset DEF FiniteRows
<1>3. /\ Cardinality(LinksOf(u)) \in Nat /\ Cardinality(LinksOf(u)') \in Nat
      /\ Cardinality(Resending(u)) \in Nat /\ Cardinality(Resending(u)') \in Nat
      /\ Cardinality(Requests) \in Nat
  BY <1>2, RequestsAssumption, FS_CardinalityType
<1>4. Cardinality(LinksOf(u)) + Cardinality(Resending(u)) <= Cardinality(Requests)
  BY DEF EarlierLinksGo, LinksOf, Resending
\* The deletion: nothing is left but requests.
<1>5. ASSUME NEW r \in Requests, ResendDelete(r), req[r].user = u
      PROVE  Cardinality(LinksOf(u)') + Cardinality(Resending(u)')
               <= Cardinality(Requests)
  <2>1. LinksOf(u)' = {}  BY <1>5 DEF ResendDelete, LinksOf
  <2>2. Cardinality(LinksOf(u)') = 0  BY <2>1, FS_EmptySet
  <2>3. Cardinality(Resending(u)') <= Cardinality(Requests)
    BY <1>1, RequestsAssumption, FS_Subset
  <2> QED  BY <1>3, <2>2, <2>3
\* Otherwise links come from requests ...
<1>6. ASSUME Resending(u)' \subseteq Resending(u),
             NEW r \in Requests, NEW t, ResendCreate(r), req[r].user = u,
             req'[r].at = "enqueue", LinksOf(u)' \subseteq LinksOf(u) \cup {t}
      PROVE  Cardinality(LinksOf(u)') + Cardinality(Resending(u)')
               <= Cardinality(Requests)
  <2>1. r \in Resending(u)  BY <1>6 DEF ResendCreate, Resending
  <2>2. r \notin Resending(u)'  BY <1>6 DEF Resending
  <2>3. Resending(u)' \subseteq Resending(u) \ {r}  BY <1>6, <2>2
  <2>4. Cardinality(LinksOf(u)') + Cardinality(Resending(u)')
          <= Cardinality(LinksOf(u)) + Cardinality(Resending(u))
    BY <1>2, <1>6, <2>1, <2>3, Transfers
  <2> QED  BY <1>3, <1>4, <2>4
\* ... or are the first of a new account.
<1>7. ASSUME Resending(u)' \subseteq Resending(u),
             NEW r \in Requests, NEW t, SignupCommit(r), req[r].user = u,
             LinksOf(u)' \subseteq LinksOf(u) \cup {t}
      PROVE  Cardinality(LinksOf(u)') + Cardinality(Resending(u)')
               <= Cardinality(Requests)
  <2>1. ~HasAccount(u)  BY <1>7 DEF SignupCommit
  <2>2. LinksOf(u) = {}  BY <2>1 DEF AccountFirst, LinksOf
  <2>3. Resending(u) = {}
    BY <2>1 DEF AccountFirst, Resending, OwnerPoints
  <2>4. LinksOf(u)' \subseteq {t} /\ Resending(u)' = {}  BY <1>7, <2>2, <2>3
  <2>5. Cardinality({t}) = 1 /\ IsFiniteSet({t})  BY FS_Singleton
  <2>6. Cardinality(LinksOf(u)') <= 1  BY <2>4, <2>5, FS_Subset
  <2>7. Cardinality(Resending(u)') = 0  BY <2>4, FS_EmptySet
  <2>8. Cardinality(Requests) # 0  BY RequestsAssumption, FS_EmptySet
  <2> QED  BY <1>3, <2>6, <2>7, <2>8
<1>8. ASSUME Resending(u)' \subseteq Resending(u), LinksOf(u)' \subseteq LinksOf(u)
      PROVE  Cardinality(LinksOf(u)') + Cardinality(Resending(u)')
               <= Cardinality(Requests)
  <2>1. Cardinality(LinksOf(u)') + Cardinality(Resending(u)')
          <= Cardinality(LinksOf(u)) + Cardinality(Resending(u))
    BY <1>2, <1>8, Shrinks
  <2> QED  BY <1>3, <1>4, <2>1
<1> QED  BY <1>5, <1>6, <1>7, <1>8, ResendingEffect, LinksOfEffect

\* However many verification links are asked for, and however the requests
\* interleave, an account has no more good ones than there are requests at once.
THEOREM EarlierLinks == Spec => []EarlierLinksGo
<1>1. Init => EarlierLinksGo
  <2>1. SUFFICES ASSUME Init, NEW u \in Users
                 PROVE  Cardinality(LinksOf(u)) + Cardinality(Resending(u))
                          <= Cardinality(Requests)
    BY DEF EarlierLinksGo, LinksOf, Resending
  <2>2. LinksOf(u) = {}  BY <2>1 DEF Init, LinksOf
  <2>3. \A r \in Requests : req[r].at = "idle"  BY <2>1 DEF Init, Idle
  <2>4. PICK r \in Requests : TRUE  BY RequestsAssumption
  <2>5. Resending(u) \subseteq Requests \ {r}  BY <2>3 DEF Resending
  <2>6. Cardinality(LinksOf(u)) + Cardinality(Resending(u)) < Cardinality(Requests)
    BY <2>2, <2>5, Restarts
  <2>7. IsFiniteSet(Resending(u))  BY <2>5, RequestsFinite
  <2>8. Cardinality(Resending(u)) \in Nat /\ Cardinality(Requests) \in Nat
    BY <2>7, RequestsAssumption, FS_CardinalityType
  <2>9. Cardinality(LinksOf(u)) = 0  BY <2>2, FS_EmptySet
  <2> QED  BY <2>6, <2>8, <2>9
<1>2. /\ TypeOK /\ FiniteRows /\ AccountFirst /\ EarlierLinksGo /\ [Next]_vars
      /\ TypeOK' /\ FiniteRows'
      => EarlierLinksGo'
  BY StepEarlierLinks DEF EarlierLinksGo, LinksOf, Resending
<1> QED  BY <1>1, <1>2, TypeCorrect, RowsFinite, AccountsFirst, PTL DEF Spec

-----------------------------------------------------------------------------
(* Reset links.                                                            *)

\* The links of an account that a reset accepts until they expire, and the
\* requests that have removed the earlier ones and not stored theirs yet.
ResetLinksOf(u) == {t \in passwordResetToken : t.userId = u /\ ~t.usedAt}
Forgetting(u) == {r \in Requests : req[r].at = "forgot.create" /\ req[r].user = u}

\* The same bound for the links forgotPassword mails.
EarlierResetLinksGo ==
  \A u \in Users :
    /\ IsFiniteSet(ResetLinksOf(u))
    /\ Cardinality(ResetLinksOf(u)) + Cardinality(Forgetting(u))
         <= Cardinality(Requests)

LEMMA ForgettingEffect ==
  ASSUME TypeOK, [Next]_vars, NEW u \in Users
  PROVE  \/ Forgetting(u)' \subseteq Forgetting(u)
         \/ \E r \in Requests : ForgotDelete(r) /\ req[r].user = u
<1>1. ASSUME NEW r \in Requests, req'[r].at = "forgot.create", req'[r].user = u,
             req'[r] # req[r]
      PROVE  ForgotDelete(r) /\ req[r].user = u
  <2>1. Moved(r)  BY <1>1, StepMoves DEF Moved
  <2> QED  BY <1>1, <2>1 DEF Moved
<1> QED  BY <1>1 DEF Forgetting

\* One good link more at most, and what it costs; a used one is not good again.
LEMMA ResetLinksOfEffect ==
  ASSUME TypeOK, [Next]_vars, NEW u \in Users
  PROVE  \/ ResetLinksOf(u)' \subseteq ResetLinksOf(u)
         \/ \E r \in Requests : \E t :
              /\ ForgotCreate(r) /\ req[r].user = u /\ req'[r].at = "enqueue"
              /\ ResetLinksOf(u)' \subseteq ResetLinksOf(u) \cup {t}
<1>1. ASSUME NEW r \in Requests, ForgotCreate(r)
      PROVE  \/ ResetLinksOf(u)' \subseteq ResetLinksOf(u)
             \/ \E t : /\ req[r].user = u /\ req'[r].at = "enqueue"
                       /\ ResetLinksOf(u)' \subseteq ResetLinksOf(u) \cup {t}
  <2> DEFINE row(stamp) == [link |-> req[r].link, userId |-> req[r].user,
                            expiresAt |-> LinkExpiresAt(stamp), usedAt |-> FALSE]
             q == [at |-> "enqueue", user |-> req[r].user, link |-> req[r].link]
  <2>1. \A stamp : row(stamp).userId = req[r].user  OBVIOUS
  <2>9. PICK stamp : /\ passwordResetToken' = passwordResetToken \cup {row(stamp)}
                     /\ Await(r, q)
    BY <1>1 DEF ForgotCreate
  <2> DEFINE t == row(stamp)
  <2>2. t.userId = req[r].user  BY <2>1
  <2>3. q.at = "enqueue"  OBVIOUS
  <2>4. passwordResetToken' = passwordResetToken \cup {t} /\ Await(r, q)
    BY <2>9
  <2> HIDE DEF t, q, row
  <2>5. ResetLinksOf(u)' \subseteq ResetLinksOf(u) \cup {t}
    BY <2>4 DEF ResetLinksOf
  <2>6. req[r].user # u => ResetLinksOf(u)' \subseteq ResetLinksOf(u)
    BY <2>2, <2>4 DEF ResetLinksOf
  <2>7. req'[r].at = "enqueue"  BY <2>3, <2>4, AwaitMoves
  <2> QED  BY <2>5, <2>6, <2>7
<1>2. ASSUME NEW r \in Requests, ForgotDelete(r)
      PROVE  ResetLinksOf(u)' \subseteq ResetLinksOf(u)
  BY <1>2 DEF ForgotDelete, ResetLinksOf
<1>3. ASSUME NEW r \in Requests, ResetCommit(r)
      PROVE  ResetLinksOf(u)' \subseteq ResetLinksOf(u)
  <2>1. \A t \in passwordResetToken : [t EXCEPT !.usedAt = TRUE].usedAt
    BY DEF TypeOK, PasswordResetTokenRow
  <2>2. \A x \in passwordResetToken' :
          x \in passwordResetToken
            \/ \E t \in passwordResetToken : x = [t EXCEPT !.usedAt = TRUE]
    BY <1>3 DEF ResetCommit
  <2> QED  BY <2>1, <2>2 DEF ResetLinksOf
<1>4. CASE UNCHANGED passwordResetToken  BY <1>4 DEF ResetLinksOf
<1> QED  BY <1>1, <1>2, <1>3, <1>4, LinkEffect

LEMMA StepEarlierResetLinks ==
  ASSUME TypeOK, EarlierResetLinksGo, [Next]_vars, NEW u \in Users
  PROVE  /\ IsFiniteSet(ResetLinksOf(u)')
         /\ Cardinality(ResetLinksOf(u)') + Cardinality(Forgetting(u)')
              <= Cardinality(Requests)
<1>1. Forgetting(u) \subseteq Requests /\ Forgetting(u)' \subseteq Requests
  BY DEF Forgetting
<1>2. /\ IsFiniteSet(ResetLinksOf(u))
      /\ IsFiniteSet(Forgetting(u)) /\ IsFiniteSet(Forgetting(u)')
  BY <1>1, RequestsFinite DEF EarlierResetLinksGo
<1>3. IsFiniteSet(ResetLinksOf(u)')
  BY <1>2, ResetLinksOfEffect, FS_AddElement, FS_Subset
<1>4. /\ Cardinality(ResetLinksOf(u)) \in Nat /\ Cardinality(ResetLinksOf(u)') \in Nat
      /\ Cardinality(Forgetting(u)) \in Nat /\ Cardinality(Forgetting(u)') \in Nat
      /\ Cardinality(Requests) \in Nat
  BY <1>2, <1>3, RequestsAssumption, FS_CardinalityType
<1>5. Cardinality(ResetLinksOf(u)) + Cardinality(Forgetting(u))
        <= Cardinality(Requests)
  BY DEF EarlierResetLinksGo
\* The deletion: nothing is left but requests.
<1>6. ASSUME NEW r \in Requests, ForgotDelete(r), req[r].user = u
      PROVE  Cardinality(ResetLinksOf(u)') + Cardinality(Forgetting(u)')
               <= Cardinality(Requests)
  <2>1. ResetLinksOf(u)' = {}  BY <1>6 DEF ForgotDelete, ResetLinksOf
  <2>2. Cardinality(ResetLinksOf(u)') = 0  BY <2>1, FS_EmptySet
  <2>3. Cardinality(Forgetting(u)') <= Cardinality(Requests)
    BY <1>1, RequestsAssumption, FS_Subset
  <2> QED  BY <1>4, <2>2, <2>3
\* Otherwise links come from requests.
<1>7. ASSUME Forgetting(u)' \subseteq Forgetting(u),
             NEW r \in Requests, NEW t, ForgotCreate(r), req[r].user = u,
             req'[r].at = "enqueue",
             ResetLinksOf(u)' \subseteq ResetLinksOf(u) \cup {t}
      PROVE  Cardinality(ResetLinksOf(u)') + Cardinality(Forgetting(u)')
               <= Cardinality(Requests)
  <2>1. r \in Forgetting(u)  BY <1>7 DEF ForgotCreate, Forgetting
  <2>2. r \notin Forgetting(u)'  BY <1>7 DEF Forgetting
  <2>3. Forgetting(u)' \subseteq Forgetting(u) \ {r}  BY <1>7, <2>2
  <2>4. Cardinality(ResetLinksOf(u)') + Cardinality(Forgetting(u)')
          <= Cardinality(ResetLinksOf(u)) + Cardinality(Forgetting(u))
    BY <1>2, <1>7, <2>1, <2>3, Transfers
  <2> QED  BY <1>4, <1>5, <2>4
<1>8. ASSUME Forgetting(u)' \subseteq Forgetting(u),
             ResetLinksOf(u)' \subseteq ResetLinksOf(u)
      PROVE  Cardinality(ResetLinksOf(u)') + Cardinality(Forgetting(u)')
               <= Cardinality(Requests)
  <2>1. Cardinality(ResetLinksOf(u)') + Cardinality(Forgetting(u)')
          <= Cardinality(ResetLinksOf(u)) + Cardinality(Forgetting(u))
    BY <1>2, <1>8, Shrinks
  <2> QED  BY <1>4, <1>5, <2>1
<1> QED  BY <1>3, <1>6, <1>7, <1>8, ForgettingEffect, ResetLinksOfEffect

\* However many reset links are asked for, and however the requests interleave,
\* an account has no more unused ones than there are requests at once.
THEOREM EarlierResetLinks == Spec => []EarlierResetLinksGo
<1>1. Init => EarlierResetLinksGo
  <2>1. SUFFICES ASSUME Init, NEW u \in Users
                 PROVE  /\ IsFiniteSet(ResetLinksOf(u))
                        /\ Cardinality(ResetLinksOf(u)) + Cardinality(Forgetting(u))
                             <= Cardinality(Requests)
    BY DEF EarlierResetLinksGo
  <2>2. ResetLinksOf(u) = {}  BY <2>1 DEF Init, ResetLinksOf
  <2>3. Forgetting(u) = {}  BY <2>1 DEF Init, Idle, Forgetting
  <2>4. Cardinality(Requests) \in Nat  BY RequestsAssumption, FS_CardinalityType
  <2> QED  BY <2>2, <2>3, <2>4, FS_EmptySet
<1>2. TypeOK /\ EarlierResetLinksGo /\ [Next]_vars => EarlierResetLinksGo'
  BY StepEarlierResetLinks DEF EarlierResetLinksGo
<1> QED  BY <1>1, <1>2, TypeCorrect, PTL DEF Spec
=============================================================================
