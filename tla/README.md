# IdentityForge: formal models, checks and proofs

IdentityForge is an authentication service (Express, Prisma on PostgreSQL,
Redis, BullMQ). This directory holds TLA+ modules of its core, the TLC
configurations that check them, and TLAPS proofs about them. Paths of the form
`src/src/...` and `src/prisma/...` are relative to the root that contains the
repository as `src`.

## 1. The system

### Components

| Component | State it keeps | Operations | Who it talks to |
|---|---|---|---|
| AuthService (`modules/auth`) | tables User, Session, RefreshToken, EmailVerificationToken, PasswordResetToken | signup, login, logout, refreshToken, verifyEmail, resendVerification, forgotPassword, resetPassword, changePassword, revokeAllSessions, getMe | PostgreSQL by one call or one transaction at a time; Redis after the commit; the e-mail queue last |
| UserService (`modules/user`) | the same tables | deleteAccount, getSessions, revokeSession, updateProfile | as above |
| AdminService (`modules/admin`) | the same tables | updateUserRole, updateUserStatus, deleteUser, getAllUsers, getUserById | as above |
| authenticateUser, authenticateAdmin | none: they read the User row, on every request | gate the handlers behind them | PostgreSQL |
| Relational schema (`schema.prisma`) | unique keys, cascading foreign keys | | |
| Profile and listing caches (`cacheRedis`) | keys `user:<id>`, `admin:user:<id>`, `admin:users:*`, with a time to live | fill on a miss, delete on a change | the handlers above |
| Rate limiter | key `ratelimit:<ip>` with a time to live | INCR, EXPIRE, TTL | Redis, before every handler |
| E-mail queue and worker | BullMQ jobs | add, run (up to 3 attempts, back-off), complete, fail, stall | Redis, SMTP |
| Process life cycle (`server.ts`) | one flag, a timer, the callbacks of the 'close' event | signal, unhandled error, close, teardown, force-exit | all of the above |
| System endpoints | none | `POST /system/cache/reset` (FLUSHALL); the rest reads | Redis, with everything that lives in it |
| Error mapping, validation, health, logging, metrics | none the rest reads | | |

One process serves many requests at once, and several processes may run against
one database. A handler is a chain of awaited calls, so between any two of its
calls every other request may run. What a handler decides on was read some
awaits ago: an administrator may have deleted the account, another device may
have rotated the token, a bcrypt compare may have taken a tenth of a second in
between. The only protection is what a transaction itself checks (a row that
must exist to be deleted or updated, a unique key). That is what the core
models, and what unit tests with one request at a time do not reach.

### Hard behaviours and the properties they ask for

* **Sessions and tokens.** Rotation, logout, and the purges of a password
  change, a reset, a deletion and "revoke all" all remove or replace the same
  rows by different keys. Session and token rows must stay in step
  (`SessionHasOneToken`), and a token must never be exchanged twice
  (`RotatedOnce`, `RefreshFamilySpec`). Rotation does not move the session's own
  expiry, by which `getSessions` goes (`ListedSessionsLive`).
* **Stale sign-ins.** A sign-in reads the row, compares the password, and later
  opens a session without looking again. What that can leave behind after a
  deletion or a change of password has to be bounded
  (`DeletedStragglersBounded`, `StalePasswordStragglersBounded`).
* **The lock.** The counter and the lock are two updates, concurrent with other
  failures and with a success that clears both (`OnlyDeathLosesLock`). The lock is
  dated before its update is awaited, so updates that land in another order, or
  late, can shorten the lock that is in force (`LockStands`). An expired lock
  leaves the counter where it was, so how many passwords can be tried depends on
  every lock before, and on the late ones (`GuessesRationed`).
* **Links.** Verification and reset read a token, work, then use it; a request
  for a link deletes the earlier ones and creates its own in two calls
  (`ActivationSpendsLink`, `UsedLinkIsSpent`, `EarlierLinksGo`).
* **Roles.** An admin request that is past its check keeps its power until its
  write (`AdminRoleNotFromNothing`).
* **Cached profiles.** A change commits, then deletes keys one command at a
  time; a reader may be between its query and its set, a handler may die half
  way, and some handlers omit keys (`Coherent`, `Converges`).
* **Losing a race.** P2025 and P2002 must become an answer (`Answered`).
* **Row locks.** The statements of a logout, a purge and a rotation take locks
  in different orders and see each other's commits half way: the atomic
  transactions of the core have to be shown, and a deadlock has to end
  (`CommitsAsFamily`, `TablesInStep`, `PurgeIsComplete`, `TxnsEnd`), and it has
  to be known who can deadlock at all (`DeadlockNeedsEnd`).
* **Three commands, one counter.** INCR, EXPIRE and TTL interleave with those
  of other requests, with the end of the window, with failures and FLUSHALL
  (`WindowIsBounded`, `CounterHasDeadline`, `Readmitted`).
* **Mail.** A job runs again after a failure or a death, whether or not its
  mail has left (`MailsBounded`, `JobsSettle`).
* **Stopping.** Signals, unhandled errors and the force-exit timer race with
  requests, jobs and clients, who may send slowly, send more on a connection that
  was busy when the server was closed, or wait for an answer that will not come
  (`CleanExit`, `ClosingEnds`).

`PROJECT.json` lists each hazard with the line where it bites, the properties
that cover it, or the reason why none does.

## 2. Modules

    IdentityStore          tables, requests, time, faults
      +-- AuthSessions     login, logout, refresh, changePassword, revokeAll
      +-- AccountRecovery  signup, verify, resend, forgot, reset
      +-- AccountAdmin     deletion, session revocation, admin role and status
            \
             IdentityForge          all of them, interleaved; the properties
               |-- RefreshFamily    the abstract token family it implements
               |     +-- RefreshFamily_proofs   what the family promises
               |-- MCIdentityForge  instances for TLC
               +-- IdentityForge_proofs     types, tokens, the refinement
                     +-- Accounts_proofs    locks, roles, links
                           +-- Stragglers_proofs    the bounds
                                 +-- Timing_proofs  wrong passwords, expiry

    ProfileCache           readers and writers of the cached profiles
      +-- ProfileCache_proofs

    RotationTxn            the session transactions, statement by statement
      |-- RefreshFamily    the abstract token family they implement
      +-- RotationTxn_proofs

    RateLimiter            the counters and the requests at their commands
    EmailQueue             jobs, and runs of them
    ServerLifecycle        how the process stops
            \
             Runtime                the three in one process and one Redis
               +-- Runtime_proofs

**IdentityStore** is the state. `user` maps each address to its row (status
`NONE`: no row); `session`, `refreshToken`, `emailVerificationToken` and
`passwordResetToken` are sets of rows, so a unique key is something to show
rather than something the model assumes. `req[r]` is what a handler in progress
holds in its local variables; its field `at` names the call it awaits. `now` is
`Date.now()`. `issued` and `mailed` are what left the server: token pairs
handed to clients (from then on anyone may present them, any number of times,
in any order) and links handed to the mail queue. Fields `sid`, `parent` and
`password` of a token pair, and `sid` of an authenticated request, are history
used by the properties; no action decides on them, except that a rotation
copies the row's session.

**AuthSessions**, **AccountRecovery** and **AccountAdmin** have one action per
awaited call of each handler. `XRead` is the part of handler X up to the call
that changes something, with all its checks; `XCommit` is the transaction;
`XLost` is the same transaction rolled back because a row it needs is gone or a
unique key is taken. The names follow the source.

**IdentityForge** composes them: `Next` is any arrival, any step of a request
in progress, a logout, an abort, or a tick of the clock.

**RefreshFamily** is the promise of rotation without tables or requests: each
session has the set of tokens it ever had and at most one that is live; a
rotation replaces the live one by a token nobody ever had; ending a session
retires its token for ever. `RetiredForGood` says what that is worth to a reader;
`RefreshFamily_proofs` proves it of the family, and `IdentityForge_proofs` carries
it over to the tables.

**ProfileCache** is a module of its own: what it needs of an account is only
the part that a view shows, and what happens to sessions and tokens does not
concern it. `user` maps each account to those fields; `cache` is the set of
entries in Redis, `[key, view, ttl, overtaken]`; `req[r]` is a handler in
progress, as in IdentityStore. Keys are pairs: `user` or `admin:user` with an
account, `admin:users` with a page of the listing. Every Redis command is an
action: the `get` (`Lookup`), the query of a miss (`Find`), the `set` with its
expiry (`Fill`), each `del` (`Invalidate`), and `KEYS` and the `del` of its
result as two (`ScanPages`, `InvalidatePages`). A handler that changes a row
commits and then works off a list of deletions; three lists occur in the code,
and verifyEmail has an empty one. `Owed(req[r])` are the keys a request has
still to delete.

`overtaken` is history. It marks an entry, or a view on its way to the cache,
that may have been read before a change and will not meet the deletion that
belongs to it: the `del` (or `KEYS`) was executed while the view was between
its query and its set; the handler died before its `del`; or the handler that
changed what the key shows does not delete that key. No action decides on it.
Note what it does *not* cover: an entry that was filled before the `KEYS` is
not marked by it, and so has to be deleted by the `del` that follows.

**RotationTxn** opens up what AuthSessions takes as one action: the
transactions of sign-in, rotation, logout and purge on one account (those of
different accounts share no row). `session` and `refreshToken` are the committed
rows; `txn[t]` is what a transaction is at, what it has still to lock (`want`)
and what it has deleted (`gone`). A statement sees the rows that are committed
when it starts, locks those it deletes one after the other in any order, waits
for a lock that another transaction holds (`Deleters`, `Sharers`), and passes
over a row that is gone when the lock is granted. A rotation that finds its
token gone rolls back (P2025). The foreign key of an inserted token locks its
session row against deletion; the cascade of a deleted session takes the tokens
there are when it runs, among them those that a rotation has committed since.
`InDeadlock` is the cycle of waits, `GiveUp` the transaction that PostgreSQL
aborts; which one of the cycle that is, is left open. New ids are as good as one
another, so `Some` picks one instead of branching over all. How PostgreSQL locks
is external to the repository and modelled from the statements that Prisma sends
it.

**RateLimiter**, **EmailQueue** and **ServerLifecycle** are modules of parts:
each has its own variables and actions that say what becomes of them, and
**Runtime** puts them beside each other. They meet in two places. A process that
exits takes its requests and its runs of jobs with it (`Ends`) and leaves Redis
as it is; FLUSHALL takes the counters and the jobs and leaves the process as it
is.

* *RateLimiter*: `counter[ip]` is the key, with count 0 where there is none and
  ttl 0 where it does not expire. Counts above the limit are alike, so they
  saturate one above it. A request awaits EXPIRE if its INCR returned 1, then
  TTL, then it is refused or is in the handler. `admitted` and `forsaken` are
  history: how many requests a key has let pass in its life, and whether whoever
  was to give it a deadline has died. An INCR that ioredis sends again because its
  reply was lost is not modelled; it would count one request twice.
* *EmailQueue*: `job[j]` is the record in Redis, `run[j]` the processor in the
  process, `sent[j]` counts the mails that SMTP has taken. `Fail` leaves open
  whether the server took the mail before the connection failed. A job whose
  process has died is found by the stall check and is run again, at most
  `maxStalledCount` times. BullMQ is external: its moves between states are
  modelled from the options the queue and the worker are given, and from its
  defaults.
* *ServerLifecycle*: `onClose` holds the callbacks that wait for the server's
  'close' event. Node runs them all when the last connection has ended; the one
  registered by an unhandled error exits with 1 in the same turn, whatever the
  graceful one has begun. `teardown` is what the graceful callback awaits: the
  worker, then the connections to PostgreSQL and Redis as one step, since
  nothing of the model happens between the two. A second signal is ignored; the
  timer is armed with the flag, by a signal only. The restart is Docker's
  (`restart: unless-stopped`), which is external.
* *Runtime* adds `connection[r]`, what a client has with the server in slot r:
  "busy" from the first byte of a request until its answer (with `request[r]`
  idle, the client is still sending: `Sending`), "stuck" when an unhandled error
  has ended the handler that should have answered, "idle" when it is kept alive
  after the server was closed, and "none". A closed server refuses new
  connections and ends those that are idle (`Closed`); one that was busy then may
  carry more requests after its answer (`Another`) until the keep-alive timeout or
  the client ends it. Node sets no limit on how long a client sends once the
  server is closed: `close` stops the check that enforces `requestTimeout`. While
  the server listens, a connection that is kept alive is not told from none,
  since it brings no request that a new one could not. A client may hang up at
  any time, and its handler goes on. 'close' comes when no connection is left
  (`Drained`), whatever handlers still run.

### Modelling decisions

* **A transaction is one action** in the core. PostgreSQL runs them READ
  COMMITTED, so this is a claim, and RotationTxn is where it is shown for the
  transactions on sessions and tokens: what concurrent statements commit are
  steps of the same abstract token family that the core implements. The other
  transactions touch one User row and one link row each, addressed by id or
  unique key; a row that is gone raises P2025 and rolls everything back, and so
  does a taken unique key.
* **Read and check are one action** with the call that reads: nothing is
  awaited between them except bcrypt, whose result depends only on the row
  already read. So the *later* write sees an old decision, which is the point.
* **The second read of the user in refreshToken** has no action: no code
  removes a User row, so it always succeeds, and nothing of it is used.
* **Ids** (`randomUUID`, cuid, `randomBytes`) are drawn from a finite supply
  when the request passes its checks, and are never drawn again.
* **Dates.** The handlers compute `lockUntil`, `expiresAt` and the `iat` of a JWT
  and then await the write that stores them, for as long as the pool, the network
  and the database take. A request that is about to write a date therefore holds
  `since`, when its previous call was made, and the write takes any time from then
  to now (`Stamps`). So a date can be old when it is stored, and two dates can be
  stored in the other order. A time that is only compared is that of the read in
  the model. The code takes it just before (login, for the lock) or just after
  (tokens and links), and then it refuses more, never less. authenticateUser and
  the verification of JWTs are on the other side: the lock is compared after the
  read, and a JWT verified before it may expire until it. No proof uses those
  three guards.
* **Logout** takes one transaction and decides on nothing it has read, so it
  needs no slot. **RevokeSession** reads and deletes in one action: no
  reachable row passes its check (see the finding `revoke_other`), so nothing
  can happen between the two.
* **Requests refused on arrival** (validation, missing row, wrong status)
  change nothing and take no step. `LoginRefuse` is there as an example.
  Validation failures never reach a service.
* **`Abort`** stands for any failed call after which the handler throws, and
  for a process that dies: what was committed stays, the rest is never called.
  `Faults` turns it on.
* **Units.** `Date` counts milliseconds, `jsonwebtoken` seconds, and the code
  adds the seconds of `JWT_REFRESH_EXPIRES_IN` to milliseconds. `Second` is the
  number of clock units in a second: 1000 in the program, 2 here, which is
  enough to tell the two apart.
* **In ProfileCache** whether a user name is taken is left open, so both
  answers of the check and of the unique key occur whatever the names; likewise
  `deletedAt`, which no view shows, may refuse a self-deletion at any time.
  Only changes of accounts that exist are modelled: signup deletes no listing
  key, so a page may miss a newcomer until it expires. An administrator is
  somebody outside `Users`. The deletions of `user:<id>` after logout,
  resetPassword, changePassword and revokeAllSessions follow commits that
  change nothing a view shows, so they can come at any time (`EndSessions`).
* **Redis, the queue, logs and metrics** are not in the core modules (Runtime
  and ProfileCache have the first two). A link is
  usable once `queue.add` has returned (`mailed`). `lastUsedAt`, `lastLoginAt`,
  IP addresses, user agents and profile fields are left out: nothing decides on
  them.

## 3. Runs

The core's runs use `MCIdentityForge`; `cache`, `rotation_txn` and `runtime`
check their module directly. Deadlock checking is on everywhere:
`LoginRefuse`, `RotateRefuse`, `Refused` or a new arrival is always possible,
and a request that could never go on would show up in `progress` or
`rotation_txn`.

| Run | Question | What makes it interesting |
|---|---|---|
| `sessions` | do concurrent rotations, logouts, purges and sign-ins keep the tables in step and implement `RefreshFamily`, what is left of an old password, and can what is listed be refreshed? | 3 requests, an account and an address without one, 2 passwords, 3 sessions, 3 tokens, a clock that passes the life of tokens, of their rows and of sessions, faults |
| `lockout` | is an account over the limit locked, does the lock stand, and how many wrong passwords does it let pass? | 3 requests, limit 2, lock of 2 units in a clock of 4 so that locks expire and are set again, locks that land late and in another order than they were dated, faults |
| `accounts` | deletion, status, role, revocation and verification of two accounts against each other | an administrator and a newcomer, who may become one; faults |
| `progress` | is every request answered, is every state well typed, and what becomes of earlier links? | fairness; both signups of one address, both verifications of one link, both refreshes of one token; 3 links, so that a resend meets the link of a signup and of another resend |
| `cache` | when is a cached profile old, and for how long? | 2 requests on one account and all three kinds of key, 2 changes, requests that die between any two commands, FLUSHALL, expiry |
| `rotation_txn` | are the transactions as good as atomic, who can deadlock, and does every deadlock end? | 3 transactions at once, 2 sessions, 3 tokens, 2 logouts or purges, every order of locking |
| `runtime` | do limiter, queue and worker keep their promises through failures, FLUSHALL and stops, and does the process end and end cleanly? | 2 requests at one address with limit 1 and a window of 2 seconds, clients that send slowly, hang up, or go on over a connection that was busy at the close, handlers broken by an unhandled error, a job with 2 attempts and one forgiven stall, SMTP that fails before or after it has taken the mail, 2 troubles of any kind |

**Bounds and why they are enough.** `Requests` is the number of requests in
progress *at once*; slots are reused, so a run has any number of requests.
Every race in this code is between two requests (one that has read, one that
writes); the third in `sessions` and `lockout` lets two stale requests meet a
third that changes the rows under both. `Sids`, `Jtis` and `Links` bound how
many sessions, tokens and mails an instance ever has; with 3 sessions and 3
tokens there is a session beside a family that has been rotated. `MaxClock`
stops the clock; where time plays no part in a run's question it is 0.
`MaxAttempts` bounds wrong passwords (12 in `lockout`, six times the limit).
`Ops` selects the endpoints of a run. Sets of ids and slots are symmetric;
symmetry is used for invariants and action properties only, never for a
liveness property. `progress` has no faults: a death answers a request too, and
the question is whether it is answered without one.

`cache` has one account and one page: each race is about one key, and a change
shows in all three kinds of key at once; listings of several accounts differ
only in that more changes show in them. Two requests are a reader against a
writer or two writers; `MaxWrites` = 2 lets a change follow one whose deletions
are outstanding, and is also what makes "changes have stopped" true in the end.
`CacheTtl` stands for 300 seconds: its value says only how many ticks an entry
survives.

`rotation_txn` has three transactions because two make the shortest deadlock
and the third can be waiting for either, or commit between two statements of
both. `MaxEnds` = 2 is a logout against a purge, or two purges, beside
rotations and sign-ins. In `runtime`, `MaxTroubles` bounds the signals, unhandled
errors, kills, flushes and failing commands together: two are a signal and the
error that comes before or during its shutdown, a death and the flush before
it, or one death more than a job is forgiven. Hang-ups, requests on one
connection, failures of SMTP and restarts are not bounded. Two requests are the
one that creates the key and one that counts in it, or a client that holds a
connection and one that does not. Two attempts are one with a back-off after it
and the last one; the code has three. One address and one job are enough since
neither depends on another. The proofs of section 4 have none of these bounds.

States, up to the symmetry of ids and slots where a run uses it: `sessions`
103,595, `lockout` 189,494, `accounts` 1,072,352, `cache` 363,339, `rotation_txn`
81,061, `runtime` 237,166.

**Fairness.** `FairSpec` adds `WF_vars(Step(r))` for every request slot: Node
runs the continuation of every settled promise, and the drivers settle every
promise with a result or an error. It assumes nothing of arrivals, of the
clock, of logouts, or of aborts. In `ProfileCache` and `Runtime` it also has
`WF_vars(Tick)`, since Redis's clock runs whatever the service does.
`RotationTxn` assumes it of each transaction: PostgreSQL runs the statements it
is sent, Node sends the next one, and the deadlock detector looks at whoever has
waited for `deadlock_timeout`. `Runtime` assumes it of each request that the
server has (its commands are answered, and so is its client, unless an unhandled
error has broken the handler), of the keep-alive timeout, of each job (a worker
polls; a back-off and a stall check end), and of `Closing \/ Restart`: the
server's 'close' comes when no connection is left, the timer fires, and a
container that has exited is started again. Nothing is assumed of clients: they
need not finish what they send, nor hang up, nor stop sending. Signals, errors,
kills and flushes need not happen.

**What `lockout` shows.** A lock is dated before it is written. Two failures over
the limit whose updates land in the other order leave the earlier of the two
locks, and one that is written late enough leaves a lock that is over. So a lock
does not always stand for what is left of its duration, but whatever shortens or
lifts it was on its way when the lock was dated (`Undermining`): a sign-in past
its check, or a failure that has dated its own lock. Nobody joins them while the
lock is in force (`LockStands`). How much that lets through is bounded as well:
with n requests at once, a duration of the lock lets at most n (n + 1) / 2 wrong
passwords be counted beyond the limit (`GuessesRationed`): n requests can hold
late locks, and each that lands opens the account to the slots that do not hold
one. The run reaches that bound. If updates landed at once it would be n.

**What `cache` shows.** Commit first and delete after is the right order: an
entry read after the deletion is never old, and every old entry has one of the
causes above (`Coherent`). None of the causes outlasts the entry, because each
`set` has an expiry and a hit does not renew it: once changes stop, all entries
become right and stay so (`Converges`). Without the expiry one race would leave
an old profile for ever. Until then the code does serve old profiles after
requests that all succeeded: role and status changes leave `user:<id>`,
updateProfile and deleteAccount leave the admin keys, and verifyEmail leaves
all three. No text of the repository promises more than five minutes, so these
are noted and not counted as findings.

**What `rotation_txn` shows.** Logout and rotation take their locks in opposite
orders: logout deletes a session and then, by cascade, a token that a rotation
has deleted and not committed, while that rotation waits for the session. The
run has these deadlocks and ends each of them (`TxnsEnd`). Sign-ins and rotations
by themselves never deadlock (`DeadlockNeedsEnd`): each of them locks a token
before a session, and only a logout or a purge holds a session against another.
What commits is
nevertheless what the atomic transactions would have committed; a purge misses
no token that was rotated between its two statements, because its second
statement takes all sessions and the cascade takes what they have by then.

**What `runtime` shows.** The limit holds for the life of a key, whatever
interleaves (`WindowIsBounded`). An address over the limit is let in again
(`Readmitted`) except after a request that created the key has failed between
INCR and EXPIRE: that key has no deadline, and the address stays refused until
somebody deletes it (`forsaken`; nothing else can cause it). A mail may leave
once for each attempt and once more for a forgiven stall (`MailsBounded`): with
the code's three attempts and BullMQ's one stall, up to four times. A clean
exit comes only when nobody is connected and no job runs (`CleanExit`). A
process that was told to stop exits, since its timer waits for nobody
(`ClosingEnds`). One that was closed by an unhandled error has no timer, and
`ClosingEnds` says what that leaves: it exits, unless a client holds it (`Holding`), by a
request that it is still sending on a connection which was busy at the close,
or by waiting for the answer that the error has prevented. The code does not
end these, so such a process can stay up, refusing every new connection, until
it is signalled.

### What the code does differently from what it says

Each of these runs checks one statement of the repository and finds a behaviour
that contradicts it. The texts are quoted under "findings" in `PROJECT.json`.

| Run | Statement | Behaviour |
|---|---|---|
| `deleted_session` | deletion purges all sessions | login reads the row; the account is deleted; login opens its session |
| `reset_twice` | a reset link is a one-time token | two resets read the unused token, both update it by id |
| `revoke_other` | a session can be revoked by its id | every row has `isCurrent: true`, which the handler refuses |
| `row_expiry` | refresh tokens live as long as their cookie | the row's expiry adds seconds to milliseconds: ten minutes, not seven days |
| `undelete` | deletion is permanent | a verification link mailed before the deletion sets the status to ACTIVE |

Met while modelling, and not run: `logout` ends the sessions of all devices; a
session that has been refreshed drops out of `getSessions` when its own expiry
passes, though its token lives on; two `forgotPassword` requests both delete
the earlier links before either creates its own and leave two that work, though
step 2 of the handler means to "Invalidate previous unused reset tokens", and
likewise two `resendVerification` requests; a sign-in past its password check
opens a session after the password has been changed (`sessions` bounds how
many). Two signups of one address that both find it free are answered 201 and
500, not 409, and likewise two profile updates with one username. If PostgreSQL
gives up a logout in a deadlock, the `catch` of `logout` (written for expired
tokens) swallows that error too, and the client is told that it has been logged
out. A comment of `email.queue.ts` counts "3 retry attempts" where `attempts:
3` makes two retries. `server.close` waits for connections, not for handlers,
so one whose client has hung up may be cut off by an exit with 0: `CleanExit`
speaks of clients that are connected and of jobs. FLUSHALL, meant for the
cache, also removes queued mail and the counters of the rate limiter.

## 4. Proofs

`IdentityForge_proofs` proves, for every number of users, requests, sessions,
tokens and links and every clock:

| Theorem | States |
|---|---|
| `TypeCorrect` | `Spec => []TypeOK` |
| `Rotation` | `Spec => []RotationInv`, the inductive invariant |
| `SingleUse` | `Spec => []RotatedOnce` |
| `SessionsMatchTokens` | `Spec => []SessionHasOneToken` |
| `ImplementsFamily` | `Spec => RefreshFamilySpec` |
| `RevocationsLast` | `Spec => RevokedForGood`, from the refinement |

They assume only named ASSUMEs of `IdentityStore`: registered users are
users, durations are positive, `NoJti` is no token, there is a password.

**The argument.** `RotatedOnce` is not inductive: it says nothing of the
requests that have read a token and not yet replaced it. `TokenProvenance` adds
that a token row stems from a pair that was handed out and that a replaced
token has no row, so a rotation that finds its row knows that nobody has
replaced it. `InFlightTokens` adds that the ids a request is about to commit
are in no pair and in no other request, and that the token it is about to
replace belongs to the session and user it has noted. `RotationInv` is the
conjunction of the four.

Most steps say nothing about tokens. `StepEffect` therefore sorts every step
into three kinds, one lemma per module: it leaves the token tables alone and no
new request is about to commit ids (`QuietRotation`); it ends all sessions of a
set of users or one session, with their tokens (`EndsRotation`); it reserves
fresh ids (`MintsRotation`). `LoginCommit` and `RefreshCommit` have lemmas of
their own. The refinement follows the same division: quiet steps stutter, ends
map to `End`, the two commits to `Open` and `Rotate`, where `RotationInv`
supplies that the new token is nobody's and that the rotated session is live.

**The family.** `RefreshFamily_proofs` proves of the abstract specification, for
every supply of ids:

| Theorem | States |
|---|---|
| `FamilyHolds` | `Spec => []LiveIsUsed` |
| `FamilyRetires` | `Spec => RetiredForGood`, if `NoJti` is no token |

`RevocationsLast` brings the second to the tables: the theorem is instantiated
with the refinement mapping, the mapped specification is `RefreshFamilySpec`,
and `PromiseInTables` reads a live token as a row and a token ever used as a pair
that was handed out. So a pair whose row has gone has none ever again, and a
session that has lost its last token is given no other. Nothing about the
handlers is proved twice for it.

**The cache.** `ProfileCache_proofs` proves, for every set of accounts, names,
pages and requests, every life of an entry and every number of changes:

| Theorem | States |
|---|---|
| `CacheTypeCorrect` | `Spec => []CacheTypeOK` |
| `CacheCoherent` | `Spec => []Coherent` |

They assume `CacheAssumption`: an entry lives a positive number of units.
`Coherent` is not inductive, because a view that is about to be stored is not
an entry yet. `FillCoherent` says the same of it, with one excuse fewer: the
`del` that follows a `KEYS` is none, for it will not take a listing that is
stored after the `KEYS`. `CoherenceInv` is the conjunction. The steps fall into
those that neither change a row nor bring a new entry (`QuietCoherent`),
changes of a row (`ChangeCoherent`), deletions and deaths, which settle some
keys (`SettleCoherent`), and the query and the set of a reader.

**Transactions.** `RotationTxn_proofs` proves, for every supply of ids, every
number of transactions and every number of logouts and purges:

| Theorem | States |
|---|---|
| `TxnTypeCorrect` | `Spec => []TxnTypeOK` |
| `TxnHolds` | `Spec => []TxnInv`, the inductive invariant |
| `TablesStayInStep` | `Spec => []TablesInStep` |
| `PurgesComplete` | `Spec => PurgeIsComplete` |
| `CommitsImplementFamily` | `Spec => CommitsAsFamily` |
| `DeadlocksNeedEnds` | `Spec => []DeadlockNeedsEnd` |
| `SomebodyAlwaysGoesOn` | `Spec => []SomebodyGoesOn`, if `Txns` is finite |

They assume `RowsAssumption`: ids of sessions and of tokens are different, and
`NoJti` is no token. `TablesInStep` speaks of committed rows only, and needs
what the transactions have in hand (`InHand`): the ids they are about to insert
are nobody else's (`MintsFresh`); a row that is locked is there and is locked
against the others (`LocksHold`); and the three statements of a purge agree
(`DeletesInStep`): at its second, every token that is deleted belongs to a
session that is deleted or about to be; at the cascade, a session is deleted
exactly if its token is, or is about to be. A rotation cannot break this: its
token's session is locked against the purge, or is not among the deleted ones.
Statements leave the tables alone (`QuietStep`), so the work is in what the next
statement has in hand; commits are seen by the others only through rows that
they have no lock on (`CommitInHand`). Deadlocks play no part, except that a
transaction with nothing left to lock is never the one that is given up
(`NoVictim`).

The last two theorems are about who waits for whom. `Behind(t)` is what `t` waits
for, directly or through others, as the least set that is closed under waiting.
Whoever is behind himself waits for somebody who is (`DeadlockGoesOn`), and
following the waits leads from a delete to an insert and from an insert to a
logout or a purge. `SomebodyGoesOn` says that, while transactions run, one of
them can take its next step or may be given up by PostgreSQL. Were none in a
deadlock and all waiting, the set behind one of them would be smallest, finitely
many being in progress, and whoever that one waits for would have a smaller one.
It is the safety half of `TxnsEnd`; the other half, that whoever can go on does,
is the fairness that TLC's run assumes.

**The process.** `Runtime_proofs` proves, for every set of addresses, requests
and jobs, every limit, window and number of attempts, and every number of
troubles:

| Theorem | States |
|---|---|
| `RuntimeHolds` | `Spec => []RuntimeInv`, the inductive invariant |
| `RuntimeTypeCorrect` | `Spec => []RuntimeTypeOK` |
| `DeadlineKept` | `Spec => []CounterHasDeadline` |
| `WindowBounded` | `Spec => []WindowIsBounded` |
| `MailBound` | `Spec => []MailsBounded` |
| `CleanExits` | `Spec => CleanExit` |

They assume `LimiterAssumption` (a positive window and limit, finitely many
request slots) and `QueueAssumption`. `CounterHasDeadline` is inductive as it
stands. For `WindowIsBounded` the key has to have counted what it has let pass
or still can (`PassesAreCounted`). For `MailsBounded` every mail is paid for
(`JobInv`): by an attempt that failed, a stall, or the run of a job that is not
settled; a run whose job was flushed has one mail to send at most. For
`CleanExit` the teardown begins when nobody is connected or can connect
(`ConnectionStep`, `ClosedConnections`: without a server that listens no step
makes a connection of none), and its last phase when the worker is idle
(`LifeInv`). Each step of the whole is first sorted by what it does to the
limiter and to the queue (`StepMoves`).

**Accounts.** `Accounts_proofs` proves, of the same specification and for every
value of its constants:

| Theorem | States |
|---|---|
| `AccountsFirst` | `Spec => []AccountFirst`, a helper invariant |
| `LimitLocks` | `Spec => OnlyDeathLosesLock` |
| `LocksEnd` | `Spec => []LockWithin`, a helper invariant |
| `LocksStand` | `Spec => LockStands` |
| `RolesNotFromNothing` | `Spec => AdminRoleNotFromNothing` |
| `LinksAreUnique` | `Spec => []LinkInv`, a helper invariant |
| `ActivationCostsLink` | `Spec => ActivationSpendsLink` |
| `UsedLinksStaySpent` | `Spec => UsedLinkIsSpent` |

Two classifications carry all of them. `Moved` says of a request that moves why
it may be where it is: at `login.commit` because it passed the check of the
lock and the password, at `updateRole.commit` because it was authorized, at
`verify.commit` because a row holds its link. `UserEffect`, with `RowWrites` and
`EditRows`, says which actions write which column of a User row;
`VerificationRows` and `LinkEffect` say the same of the two link tables. Each
property then needs only the actions that can touch it.

`LockStands` is not a matter of the step alone. That a request which dates its
lock now does not undermine the one in force needs that none reaches further than
one `ACCOUNT_LOCK_DURATION` from now (`LocksEnd`), and that signup finds an empty
row needs that nothing is kept in the name of an address without an account
(`AccountFirst`). `ActivationSpendsLink` needs `LinkInv`: an activation takes the
row with its link and activates the user it has read, which are the same account
only because a link names one row and keeps its owner. `UsedLinkIsSpent` needs
that no second row ever carries the link of a used one.

**Stragglers.** `Stragglers_proofs` proves the bounds:

| Theorem | States |
|---|---|
| `RowsFinite` | `Spec => []FiniteRows`, a helper invariant |
| `DeletedStragglers` | `Spec => []DeletedStragglersBounded` |
| `StalePasswordStragglers` | `Spec => []StalePasswordStragglersBounded` |
| `EarlierLinks` | `Spec => []EarlierLinksGo` |
| `EarlierResetLinks` | `Spec => []EarlierResetLinksGo` |

They also assume `RequestsAssumption`: the service has finitely many requests in
progress at once, and can have one. Each bound counts rows that ought not to be
there together with the requests that can still add one. A step does one of
three things to the two sets: both shrink or stay (`Shrinks`); one request turns
into one row (`Transfers`); or a purge leaves no row, and the request that ran
it is not among those that can add one (`Restarts`), which is where the bound
comes from, since from then on the requests are at most the others. What has to
be shown is that no other step adds to either set: no sign-in passes its check
on a deleted account, none with a password that is not the account's, and a
resend comes to its second call only by its first, which deletes the links. For
old passwords, `OneSecret` adds that all pairs of one session were opened with
one password, so that a rotation does not make a session old or new.

`EarlierResetLinks` is the bound of the links that `forgotPassword` mails: no more
unused ones than there are requests at once. No run states it, because an
instance that could break it needs one more link than TLC has time for under the
fairness of `progress`; the theorem has no bound at all.

**Time.** `Timing_proofs` proves what depends on the clock:

| Theorem | States |
|---|---|
| `GuessesAreRationed` | `Spec => GuessesRationed` |
| `GuessesAreBounded` | `Spec => []GuessesBounded`, if no request dies (`~Faults`) |
| `ListedLive` | `Spec => []ListedSessionsLive` |

The counter of wrong passwords is not reset when a lock expires, so it has no
bound that is free of time. `WithinShare` is the bound with time in it. Time is
divided into windows of one `ACCOUNT_LOCK_DURATION`, and `Share` grows by n (n
+ 1) / 2 per window, n being the requests at once. (Twice the numbers are
compared, to stay in the integers.) What an account can be charged before the
window ends is its count and its `Chances`: a lock that is dated in this window
holds to its end (`Held`) and leaves only those past the check; if there is
none, each slot that is not about to lock has one try, after which it is about
to lock or is refused by whoever has; and a lock dated in an earlier window
(`Late`) is over before this one is, so when it lands in the place of one that
holds it opens the account to all slots but those that are still late. s late
locks are worth s (2n + 1 - s) in this account, half of it (n) + (n - 1) + ...:
`WeightFalls` says that the one that lands gives up what the slots it opens are
worth, and `WeightWithin` that a new window, in which every request about to
lock becomes late, makes up for all of them.

Each kind of step keeps an account within its share: a count is paid for by a
slot that moves on to lock (`CountKeepsShare`), a lock in time closes the
account and a late one is paid for by itself (`LockKeepsShare`), and time
brings what it costs (`TimeKeepsShare`). That a slot tries once rests on
`NoGuessWhileLocked`, and that new locks are never late on `LateOnlyInTime`.
`GuessesRationed` says that every step keeps an account within its share,
except the death of a request between its increment and its lock. Without
deaths every account is within its share at all times, which gives the plain
bound of `GuessesAreBounded`. `~Faults` is there because the code has no remedy
for that death: each one really adds to what can be tried, as
`OnlyDeathLosesLock` says of the lock itself.

`ListedLive` rests on `ExpiryInv`: no pair is issued later than now, the row of
a token is to expire one lifetime after its pair was issued, no session later
than the row of its token, and no session later than the row that a rotation in
progress is about to date for it. Rotation moves the last two apart in one
direction only, so what is listed can be refreshed; the reverse is what the
code does not give (section 3). That the JWT outlives its row (`RowWithinJwt`)
is where the mistaken unit is on the safe side: `Second` is at least 1.

**Model-checked only.** `Answered`, `Converges`, `TxnsEnd`, `ClosingEnds`,
`Readmitted` and `JobsSettle` are liveness under fairness, which
is out of the prover's reach; of `TxnsEnd` the safety half is proved
(`SomebodyAlwaysGoesOn`). Every other property of a passing run has a theorem,
named under "theorems" in `PROJECT.json`. The statements of the violation runs
have none: they are false.

## 5. Not modelled, and the plan

Not modelled, and why:

* **Error mapping and validation**: stateless. A validation failure never
  reaches a service, and what the mapping decides is the status of an answer and
  the shape of its body. The models keep that a refusal changes nothing.
* **Page arithmetic of getAllUsers**, headers of the rate limiter: read-only
  values that nothing decides on.
* **The age of a link when its mail leaves**: the back-off has no clock in
  EmailQueue. Links that have expired when they are used are in
  AccountRecovery.
* **Logging, metrics, request context, e-mail templates, API documentation,
  deployment files, load tests**: no state of the service. The health probes and
  the other system endpoints only read.

The plan from here:

1. The client: the cookie jar of a browser with several tabs, whose answers
   arrive in another order than the requests left, in front of the handlers of
   `auth.controller.ts`. It would say which token a client is left with after
   two refreshes, one of which lost.
2. A clock in EmailQueue, so that the age of a link when its mail leaves can be
   compared with the life of the link.
3. Who has which user name in ProfileCache, to state what the unique key of
   `username` promises the two profile updates that race for it.
4. Several processes beside one database and one Redis. The core does not tell
   processes apart; the queue (two workers, one stall check) and the shutdown do.
