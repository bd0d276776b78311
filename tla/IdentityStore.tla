--------------------------- MODULE IdentityStore ---------------------------
(***************************************************************************)
(* The state every part of the authentication service shares: the tables   *)
(* of prisma/schema.prisma, the tokens and links that have left the        *)
(* server, and the requests that are between two awaits of their handler.  *)
(*                                                                         *)
(* A handler of the service is a sequence of awaited database calls.  Each *)
(* call is one action; what the handler keeps in its local variables from  *)
(* one call to the next is the record req[r], whose field "at" names the   *)
(* call the request awaits.  A prisma.$transaction is one action: it       *)
(* commits all its statements or none.                                     *)
(***************************************************************************)
EXTENDS Integers, FiniteSets

CONSTANTS
  Users,                  \* e-mail addresses, each with at most one User row
  Registered,             \* the users that have an account at the start
  Admins,                 \* the registered users whose role is ADMIN
  Passwords,
  Requests,               \* slots: how many requests are in progress at once
  Sids, Jtis,             \* ids of sessions and of refresh tokens (supply)
  NoJti,                  \* the parent of a token that login issued
  Links,                  \* raw tokens mailed in verification and reset links
  MAX_FAILED_LOGIN,
  ACCOUNT_LOCK_DURATION,  \* in clock units: the code converts its minutes
  LinkTtl,                \* the 15 minutes of both kinds of link, likewise
  JWT_ACCESS_EXPIRES_IN, JWT_REFRESH_EXPIRES_IN,   \* in seconds
  Second,                 \* clock units in a second: Date counts milliseconds
  MaxClock,               \* bound: the clock stops here
  MaxAttempts,            \* bound: no wrong password is tried beyond this count
  Ops,                    \* the endpoints an instance exercises
  Faults                  \* may a request die with its later calls not made?

UserOps    == {"resend", "changePassword", "revokeAll", "deleteAccount",
               "revokeSession"}
AdminOps   == {"updateRole", "updateStatus", "deleteUser"}
PublicOps  == {"signup", "login", "logout", "refresh", "verifyEmail",
               "forgot", "reset"}

ASSUME AccountsAssumption == /\ Registered \subseteq Users
                             /\ Admins \subseteq Registered
ASSUME PasswordsAssumption == Passwords # {}
ASSUME RequestsAssumption == IsFiniteSet(Requests) /\ Requests # {}
ASSUME NoJtiAssumption == NoJti \notin Jtis
ASSUME DurationsAssumption ==
  /\ MAX_FAILED_LOGIN \in Nat \ {0} /\ ACCOUNT_LOCK_DURATION \in Nat \ {0}
  /\ JWT_ACCESS_EXPIRES_IN \in Nat \ {0}
  /\ JWT_REFRESH_EXPIRES_IN \in Nat \ {0}
  /\ LinkTtl \in Nat \ {0} /\ Second \in Nat \ {0} /\ MaxClock \in Nat
  /\ MaxAttempts \in Nat
ASSUME InstanceAssumption == /\ Ops \subseteq UserOps \cup AdminOps \cup PublicOps
                             /\ Faults \in BOOLEAN

VARIABLES
  user,                    \* the User table, by e-mail address
  session, refreshToken,   \* tables, as sets of rows
  emailVerificationToken, passwordResetToken,
  issued,                  \* history: every token pair a client was handed
  mailed,                  \* history: every link handed to the mail queue
  req,                     \* what each request slot is doing
  now                      \* Date.now()

tokenVars == <<session, refreshToken, issued>>
linkVars  == <<emailVerificationToken, passwordResetToken, mailed>>
vars      == <<user, tokenVars, linkVars, req, now>>

-----------------------------------------------------------------------------
Statuses == {"PENDING_VERIFICATION", "ACTIVE", "SUSPENDED", "BANNED", "DELETED"}

\* A User row.  Status "NONE" stands for an address without a row; deletedAt
\* is whether the column is set; lockUntil 0 is null.
UserRow == [status: Statuses \cup {"NONE"}, role: {"USER", "ADMIN"},
            password: Passwords, isEmailVerified: BOOLEAN, deletedAt: BOOLEAN,
            failedLoginAttempts: Nat, lockUntil: Nat]

SessionRow == [id: Sids, userId: Users, isCurrent: BOOLEAN, expiresAt: Nat]

\* tokenHash is SHA-256 of the jti, so the jti identifies the row.
RefreshTokenRow == [jti: Jtis, userId: Users, sessionId: Sids, expiresAt: Nat]

EmailVerificationTokenRow == [link: Links, userId: Users, expiresAt: Nat]
PasswordResetTokenRow ==
  [link: Links, userId: Users, expiresAt: Nat, usedAt: BOOLEAN]

\* An access token and a refresh token issued together at iat.  sid, parent
\* (the token this one replaced) and password (the one that opened the
\* session) are history: no JWT carries them.
TokenPair == [jti: Jtis, sub: Users, sid: Sids, parent: Jtis \cup {NoJti},
              password: Passwords, iat: Nat]

\* Local variables of a handler, by the call it awaits.  A handler that dates
\* what it is about to write reads the clock before it awaits the write: "since"
\* is when its previous call was made, and Stamps the times it can have read.
Idle == [at |-> "idle"]
UserPoints == {"login.count", "resend.delete",
               "deleteAccount.commit", "deleteUser.commit"}
LinkPoints == {"forgot.delete", "enqueue", "verify.commit"}
CreatePoints == {"resend.create", "forgot.create"}
Request ==
  {Idle}
  \cup [at: {"authenticated", "authorized"}, op: UserOps \cup AdminOps,
        user: Users, sid: Sids]
  \cup [at: UserPoints, user: Users]
  \cup [at: LinkPoints, user: Users, link: Links]
  \cup [at: {"login.lock"}, user: Users, since: Nat]
  \cup [at: CreatePoints, user: Users, link: Links, since: Nat]
  \cup [at: {"login.commit"}, user: Users, password: Passwords,
        sid: Sids, jti: Jtis, since: Nat]
  \cup [at: {"refresh.commit"}, user: Users, old: Jtis, sid: Sids, jti: Jtis,
        since: Nat]
  \cup [at: {"changePassword.commit"}, user: Users, password: Passwords]
  \cup [at: {"signup.commit"}, user: Users, password: Passwords, link: Links,
        since: Nat]
  \cup [at: {"reset.commit"}, user: Users, password: Passwords, link: Links]
  \cup [at: {"updateRole.commit"}, user: Users, role: {"USER", "ADMIN"}]
  \cup [at: {"updateStatus.commit"}, user: Users,
        status: {"ACTIVE", "SUSPENDED", "BANNED"}]

\* Every variable holds values of the schema's columns and every request
\* awaits a call its handler makes, with the locals that call needs.
TypeOK ==
  /\ user \in [Users -> UserRow]
  /\ session \subseteq SessionRow
  /\ refreshToken \subseteq RefreshTokenRow
  /\ emailVerificationToken \subseteq EmailVerificationTokenRow
  /\ passwordResetToken \subseteq PasswordResetTokenRow
  /\ issued \subseteq TokenPair
  /\ mailed \subseteq [link: Links, userId: Users]
  /\ req \in [Requests -> Request]
  /\ now \in Nat

-----------------------------------------------------------------------------
\* The row user.create inserts: the schema's defaults.
NewUser(password) ==
  [status |-> "PENDING_VERIFICATION", role |-> "USER", password |-> password,
   isEmailVerified |-> FALSE, deletedAt |-> FALSE,
   failedLoginAttempts |-> 0, lockUntil |-> 0]

HasAccount(u) == user[u].status # "NONE"
Blocked(u) == user[u].status \in {"DELETED", "SUSPENDED", "BANNED"}
Locked(u) == user[u].lockUntil > now

\* Ids no row, token or request holds: randomUUID, cuid and randomBytes.
FreshJtis == {j \in Jtis : /\ \A p \in issued : p.jti # j
                           /\ \A r \in Requests :
                                req[r].at \in {"login.commit", "refresh.commit"}
                                  => req[r].jti # j}
FreshSids == {s \in Sids : /\ \A p \in issued : p.sid # s
                           /\ \A r \in Requests :
                                req[r].at = "login.commit" => req[r].sid # s}
FreshLinks ==
  {l \in Links :
     /\ \A t \in emailVerificationToken \cup passwordResetToken \cup mailed :
          t.link # l
     /\ \A r \in Requests :
          req[r].at \in LinkPoints \cup CreatePoints
                           \cup {"signup.commit", "reset.commit"}
            => req[r].link # l}

\* What Date.now() was when request q dated the write it awaits.
Stamps(q) == q.since .. now

\* jsonwebtoken's expiresIn is in seconds.
AccessValid(p)  == now < p.iat + JWT_ACCESS_EXPIRES_IN * Second
RefreshValid(p) == now < p.iat + JWT_REFRESH_EXPIRES_IN * Second

\* A request moves on to its next call, or is answered.
Await(r, locals) == req' = [req EXCEPT ![r] = locals]
Answer(r) == Await(r, Idle)

\* session.deleteMany by user; the foreign key of RefreshToken cascades.
EndSessionsOf(u) == session' = {s \in session : s.userId # u}
OrphanedNever(t, u) == FALSE   \* mutant: the foreign key does not cascade
Orphaned(t, u) == \E s \in session : s.userId = u /\ s.id = t.sessionId

\* refreshToken.deleteMany then session.deleteMany, both by user.
Purge(u) ==
  /\ refreshToken' = {t \in refreshToken : t.userId # u /\ ~Orphaned(t, u)}
  /\ EndSessionsOf(u)
  /\ UNCHANGED issued

Init ==
  /\ user = [u \in Users |->
               LET row == NewUser(CHOOSE p \in Passwords : TRUE)
               IN IF u \in Registered
                  THEN [row EXCEPT !.status = "ACTIVE", !.isEmailVerified = TRUE,
                                   !.role = IF u \in Admins THEN "ADMIN" ELSE "USER"]
                  ELSE [row EXCEPT !.status = "NONE"]]
  /\ session = {} /\ refreshToken = {} /\ issued = {}
  /\ emailVerificationToken = {} /\ passwordResetToken = {} /\ mailed = {}
  /\ req = [r \in Requests |-> Idle]
  /\ now = 0

\* Time passes between any two calls.
Tick == /\ now < MaxClock
        /\ now' = now + 1
        /\ UNCHANGED <<user, tokenVars, linkVars, req>>

\* A call fails, its transaction is rolled back, or the process dies: the
\* calls the handler has made stay made and the others are never made.
Abort(r) == /\ Faults
            /\ req[r] # Idle
            /\ Answer(r)
            /\ UNCHANGED <<user, tokenVars, linkVars, now>>
=============================================================================
