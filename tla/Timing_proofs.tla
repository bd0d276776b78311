---------------------------- MODULE Timing_proofs ----------------------------
(***************************************************************************)
(* Theorems about what IdentityForge measures in time: how many wrong      *)
(* passwords a lock lets pass, and how long a listed session can still be  *)
(* refreshed; for every limit, duration, lifetime and number of requests.  *)
(***************************************************************************)
EXTENDS Stragglers_proofs

-----------------------------------------------------------------------------
(* Durations of the lock, and what the late locks are worth.               *)

LEMMA DivStep ==
  ASSUME NEW t \in Nat, NEW d \in Nat \ {0}
  PROVE  /\ t \div d \in Nat
         /\ (t \div d) * d <= t /\ t < (t \div d + 1) * d
         /\ (t + 1) \div d = t \div d \/ (t + 1) \div d = t \div d + 1
<1>1. t \div d \in Nat  OBVIOUS
<1>2. (t \div d) * d <= t /\ t < (t \div d + 1) * d  OBVIOUS
<1>3. (t + 1) \div d = t \div d \/ (t + 1) \div d = t \div d + 1  OBVIOUS
<1> QED  BY <1>1, <1>2, <1>3

LEMMA OneMore ==
  ASSUME NEW a \in Nat, NEW d \in Nat
  PROVE  a * d \in Nat /\ (a + 1) * d = a * d + d /\ d * (a + 1) = d * a + d
OBVIOUS

\* The window that now is in ends after now, within a lock that is set now.
LEMMA WindowFacts ==
  ASSUME TypeOK
  PROVE  /\ Window \in Nat /\ WindowEnd \in Nat
         /\ now < WindowEnd /\ WindowEnd <= now + ACCOUNT_LOCK_DURATION
         /\ Window = 0 => WindowEnd = ACCOUNT_LOCK_DURATION
<1>1. /\ now \in Nat /\ ACCOUNT_LOCK_DURATION \in Nat \ {0}
      /\ ACCOUNT_LOCK_DURATION \in Nat
  BY DurationsAssumption DEF TypeOK
<1>2. /\ Window \in Nat /\ Window * ACCOUNT_LOCK_DURATION <= now
      /\ now < WindowEnd
  BY <1>1, DivStep DEF Window, WindowEnd
<1>3. /\ Window * ACCOUNT_LOCK_DURATION \in Nat
      /\ WindowEnd = Window * ACCOUNT_LOCK_DURATION + ACCOUNT_LOCK_DURATION
  BY <1>1, <1>2, OneMore DEF WindowEnd
<1>4. Window = 0 => Window * ACCOUNT_LOCK_DURATION = 0  BY <1>1
<1> QED  BY <1>1, <1>2, <1>3, <1>4

\* Time stays in a window or enters the next one.
LEMMA WindowMoves ==
  ASSUME TypeOK, now' = now \/ now' = now + 1
  PROVE  \/ Window' = Window /\ WindowEnd' = WindowEnd
         \/ /\ now' = now + 1 /\ Window' = Window + 1
            /\ WindowEnd' = WindowEnd + ACCOUNT_LOCK_DURATION
<1>1. /\ now \in Nat /\ ACCOUNT_LOCK_DURATION \in Nat \ {0}
      /\ ACCOUNT_LOCK_DURATION \in Nat /\ Window \in Nat /\ Window + 1 \in Nat
  BY WindowFacts, DurationsAssumption DEF TypeOK
<1>2. Window' = Window \/ (now' = now + 1 /\ Window' = Window + 1)
  <2>1. /\ Window = now \div ACCOUNT_LOCK_DURATION
        /\ Window' = now' \div ACCOUNT_LOCK_DURATION
    BY DEF Window
  <2>2. CASE now' = now  BY <1>1, <2>1, <2>2
  <2>3. CASE now' = now + 1
    <3>1. \/ (now + 1) \div ACCOUNT_LOCK_DURATION = now \div ACCOUNT_LOCK_DURATION
          \/ (now + 1) \div ACCOUNT_LOCK_DURATION
               = now \div ACCOUNT_LOCK_DURATION + 1
      BY <1>1, DivStep
    <3> QED  BY <1>1, <2>1, <2>3, <3>1
  <2> QED  BY <2>2, <2>3
<1>3. (Window + 1 + 1) * ACCOUNT_LOCK_DURATION
        = (Window + 1) * ACCOUNT_LOCK_DURATION + ACCOUNT_LOCK_DURATION
  BY <1>1, OneMore
<1>4. WindowEnd' = (Window' + 1) * ACCOUNT_LOCK_DURATION  BY DEF WindowEnd
<1> QED  BY <1>2, <1>3, <1>4 DEF WindowEnd

Slots == Cardinality(Requests)

LEMMA RequestCount == Slots \in Nat
BY RequestsAssumption, FS_CardinalityType DEF Slots

\* Twice what s late locks can still let pass.
Weight(s) == s * (2 * Slots + 1 - s)

\* More late locks let more pass ...
LEMMA WeightGrows ==
  ASSUME NEW s \in Nat, NEW t \in Nat, s <= t, t <= Slots
  PROVE  Weight(s) \in Nat /\ Weight(t) \in Nat /\ Weight(s) <= Weight(t)
<1>1. \A n \in Nat : s <= n /\ t <= n =>
        /\ s * (2 * n + 1 - s) \in Nat /\ t * (2 * n + 1 - t) \in Nat
        /\ s * (2 * n + 1 - s) <= t * (2 * n + 1 - t)
  <2>1. SUFFICES ASSUME NEW n \in Nat, s <= n, t <= n
                 PROVE  /\ s * (2 * n + 1 - s) \in Nat
                        /\ t * (2 * n + 1 - t) \in Nat
                        /\ s * (2 * n + 1 - s) <= t * (2 * n + 1 - t)
    OBVIOUS
  <2>2. /\ 2 * n + 1 - s \in Nat /\ 2 * n + 1 - t \in Nat
        /\ t - s \in Nat /\ 2 * n + 1 - t - s \in Nat
    BY <2>1
  <2>3. s * (2 * n + 1 - s) \in Nat /\ t * (2 * n + 1 - t) \in Nat  BY <2>2
  <2>4. (t - s) * (2 * n + 1 - t - s) \in Nat  BY <2>2
  <2>5. t * (2 * n + 1 - t) - s * (2 * n + 1 - s) = (t - s) * (2 * n + 1 - t - s)
    OBVIOUS
  <2> QED  BY <2>3, <2>4, <2>5
<1> QED  BY <1>1, RequestCount DEF Weight

\* ... the one that lands gives up what it was worth ...
LEMMA WeightFalls ==
  ASSUME NEW s \in Nat \ {0}
  PROVE  Weight(s) = Weight(s - 1) + 2 * (Slots + 1 - s)
<1>1. \A n \in Nat : s * (2 * n + 1 - s)
        = (s - 1) * (2 * n + 1 - (s - 1)) + 2 * (n + 1 - s)
  OBVIOUS
<1> QED  BY <1>1, RequestCount DEF Weight

\* ... and a duration of the lock makes up for all of them.
LEMMA WeightWithin ==
  ASSUME NEW l \in Nat, l <= Slots
  PROVE  /\ 2 * (Slots - l) + Weight(l) <= Slots * (Slots + 1)
         /\ Weight(l) <= Slots * (Slots + 1)
<1>1. \A n \in Nat : l <= n =>
        2 * (n - l) + l * (2 * n + 1 - l) <= n * (n + 1)
  <2>1. SUFFICES ASSUME NEW n \in Nat, l <= n
                 PROVE  2 * (n - l) + l * (2 * n + 1 - l) <= n * (n + 1)
    OBVIOUS
  <2>2. n - l \in Nat /\ \A m \in Nat : m * (m - 1) >= 0  BY <2>1
  <2>3. n * (n + 1) - (2 * (n - l) + l * (2 * n + 1 - l)) = (n - l) * (n - l - 1)
    OBVIOUS
  <2> QED  BY <2>2, <2>3
<1>2. 2 * (Slots - l) + Weight(l) <= Slots * (Slots + 1)
  BY <1>1, RequestCount DEF Weight
<1>3. Weight(l) \in Nat  BY WeightGrows
<1>4. Slots * (Slots + 1) \in Nat  BY RequestCount
<1> QED  BY <1>2, <1>3, <1>4, RequestCount

\* The share of the first window, and that each one adds as much.
LEMMA ShareFacts ==
  ASSUME NEW w \in Nat
  PROVE  /\ 2 * (MAX_FAILED_LOGIN - 1 + Slots) \in Nat
         /\ Slots * (Slots + 1) \in Nat /\ Slots * (Slots + 1) * w \in Nat
         /\ Slots * (Slots + 1) * (w + 1)
              = Slots * (Slots + 1) * w + Slots * (Slots + 1)
         /\ w # 0 => Slots * (Slots + 1) <= Slots * (Slots + 1) * w
<1>1. 2 * (MAX_FAILED_LOGIN - 1 + Slots) \in Nat /\ Slots * (Slots + 1) \in Nat
  BY DurationsAssumption, RequestCount
<1>2. \A k \in Nat : /\ k * w \in Nat /\ k * (w + 1) = k * w + k
                     /\ w # 0 => k <= k * w
  OBVIOUS
<1> QED  BY <1>1, <1>2

-----------------------------------------------------------------------------
(* The requests with a wrong password.                                     *)

LEMMA FewerRequests ==
  ASSUME NEW S, NEW T, S \subseteq T, T \subseteq Requests
  PROVE  /\ IsFiniteSet(S) /\ IsFiniteSet(T)
         /\ Cardinality(S) \in Nat /\ Cardinality(T) \in Nat
         /\ Cardinality(S) <= Cardinality(T)
<1>1. IsFiniteSet(T)  BY RequestsFinite
<1> QED  BY <1>1, FS_Subset, FS_CardinalityType

LEMMA GuessersAreRequests ==
  ASSUME NEW u
  PROVE  /\ Counting(u) \subseteq Requests /\ Counting(u)' \subseteq Requests
         /\ Locking(u) \subseteq Requests /\ Locking(u)' \subseteq Requests
         /\ Late(u) \subseteq Locking(u) /\ Late(u)' \subseteq Locking(u)'
         /\ Counting(u) \cap Locking(u) = {}
         /\ Counting(u)' \cap Locking(u)' = {}
BY DEF Counting, Locking, Late

\* None is both uncounted and counted, so together they are requests at once.
LEMMA GuessersFit ==
  ASSUME NEW C, NEW L, NEW S, C \subseteq Requests, L \subseteq Requests,
         S \subseteq L, C \cap L = {}
  PROVE  /\ IsFiniteSet(C) /\ IsFiniteSet(L) /\ IsFiniteSet(S)
         /\ Cardinality(C) \in Nat /\ Cardinality(L) \in Nat
         /\ Cardinality(S) \in Nat /\ Cardinality(S) <= Cardinality(L)
         /\ Cardinality(C) + Cardinality(L) <= Slots
<1>1. IsFiniteSet(C) /\ IsFiniteSet(L) /\ C \cup L \subseteq Requests
  BY RequestsFinite
<1>2. Cardinality(C \cup L) <= Slots
  BY <1>1, RequestsAssumption, FS_Subset DEF Slots
<1>3. Cardinality(C) \in Nat /\ Cardinality(L) \in Nat
  BY <1>1, FS_CardinalityType
<1>4. Cardinality(C \cup L)
        = Cardinality(C) + Cardinality(L) - Cardinality(C \cap L)
  BY <1>1, FS_Union
<1>5. Cardinality(C \cap L) = 0  BY FS_EmptySet
<1>6. Cardinality(C) + Cardinality(L) <= Slots  BY <1>2, <1>3, <1>4, <1>5
<1>7. IsFiniteSet(S) /\ Cardinality(S) <= Cardinality(L)  BY <1>1, FS_Subset
<1>8. Cardinality(S) \in Nat  BY <1>7, FS_CardinalityType
<1> QED  BY <1>1, <1>3, <1>6, <1>7, <1>8

\* The wrong passwords the account is open to, before a late lock lands.
Open(u) == IF Held(u) THEN Cardinality(Counting(u))
                      ELSE Slots - Cardinality(Locking(u))

LEMMA ChancesAre ==
  ASSUME NEW u
  PROVE  /\ Cardinality(Counting(u)) \in Nat /\ Cardinality(Locking(u)) \in Nat
         /\ Cardinality(Late(u)) \in Nat
         /\ Cardinality(Late(u)) <= Cardinality(Locking(u))
         /\ Cardinality(Locking(u)) <= Slots
         /\ Open(u) \in Nat /\ Cardinality(Counting(u)) <= Open(u)
         /\ Open(u) <= Slots - Cardinality(Locking(u))
         /\ Weight(Cardinality(Late(u))) \in Nat
         /\ Chances(u) = 2 * Open(u) + Weight(Cardinality(Late(u)))
<1>1. /\ Cardinality(Counting(u)) \in Nat /\ Cardinality(Locking(u)) \in Nat
      /\ Cardinality(Late(u)) \in Nat
      /\ Cardinality(Late(u)) <= Cardinality(Locking(u))
      /\ Cardinality(Counting(u)) + Cardinality(Locking(u)) <= Slots
  BY GuessersAreRequests, GuessersFit
<1>2. Cardinality(Locking(u)) <= Slots /\ Cardinality(Late(u)) <= Slots
  BY <1>1, RequestCount
<1>3. Weight(Cardinality(Late(u))) \in Nat  BY <1>1, <1>2, WeightGrows
<1>4. /\ Open(u) \in Nat /\ Cardinality(Counting(u)) <= Open(u)
      /\ Open(u) <= Slots - Cardinality(Locking(u))
  BY <1>1, RequestCount DEF Open
<1>5. Chances(u) = 2 * Open(u) + Weight(Cardinality(Late(u)))
  BY DEF Chances, Open, Weight, Slots
<1> QED  BY <1>1, <1>2, <1>3, <1>4, <1>5

LEMMA ChancesWillBe ==
  ASSUME NEW u
  PROVE  /\ Cardinality(Counting(u)') \in Nat /\ Cardinality(Locking(u)') \in Nat
         /\ Cardinality(Late(u)') \in Nat
         /\ Cardinality(Late(u)') <= Cardinality(Locking(u)')
         /\ Cardinality(Locking(u)') <= Slots
         /\ Open(u)' \in Nat /\ Cardinality(Counting(u)') <= Open(u)'
         /\ Open(u)' <= Slots - Cardinality(Locking(u)')
         /\ Weight(Cardinality(Late(u)')) \in Nat
         /\ Chances(u)' = 2 * Open(u)' + Weight(Cardinality(Late(u)'))
<1>1. /\ Cardinality(Counting(u)') \in Nat /\ Cardinality(Locking(u)') \in Nat
      /\ Cardinality(Late(u)') \in Nat
      /\ Cardinality(Late(u)') <= Cardinality(Locking(u)')
      /\ Cardinality(Counting(u)') + Cardinality(Locking(u)') <= Slots
  BY GuessersAreRequests, GuessersFit
<1>2. Cardinality(Locking(u)') <= Slots /\ Cardinality(Late(u)') <= Slots
  BY <1>1, RequestCount
<1>3. Weight(Cardinality(Late(u)')) \in Nat  BY <1>1, <1>2, WeightGrows
<1>4. /\ Open(u)' \in Nat /\ Cardinality(Counting(u)') <= Open(u)'
      /\ Open(u)' <= Slots - Cardinality(Locking(u)')
  BY <1>1, RequestCount DEF Open, Slots
<1>5. Chances(u)' = 2 * Open(u)' + Weight(Cardinality(Late(u)'))
  BY DEF Chances, Open, Weight, Slots
<1> QED  BY <1>1, <1>2, <1>3, <1>4, <1>5

LEMMA ShareIs ==
  ASSUME TypeOK
  PROVE  /\ Share = 2 * (MAX_FAILED_LOGIN - 1 + Slots)
                      + Slots * (Slots + 1) * Window
         /\ Share' = 2 * (MAX_FAILED_LOGIN - 1 + Slots)
                       + Slots * (Slots + 1) * Window'
         /\ Share \in Nat /\ 2 * (MAX_FAILED_LOGIN - 1 + Slots) <= Share
<1>1. /\ Share = 2 * (MAX_FAILED_LOGIN - 1 + Slots)
                   + Slots * (Slots + 1) * Window
      /\ Share' = 2 * (MAX_FAILED_LOGIN - 1 + Slots)
                    + Slots * (Slots + 1) * Window'
  BY DEF Share, Slots
<1>2. /\ 2 * (MAX_FAILED_LOGIN - 1 + Slots) \in Nat
      /\ Slots * (Slots + 1) * Window \in Nat
  BY WindowFacts, ShareFacts
<1> QED  BY <1>1, <1>2

\* The first window has no late locks, and the others leave room for any.
LEMMA LateWithinShare ==
  ASSUME TypeOK, NEW u
  PROVE  2 * (MAX_FAILED_LOGIN - 1 + Slots) + Weight(Cardinality(Late(u))) <= Share
<1> DEFINE w == Weight(Cardinality(Late(u)))
           per == Slots * (Slots + 1)
           base == 2 * (MAX_FAILED_LOGIN - 1 + Slots)
<1>1. CASE Window = 0
  <2>1. \A r \in Locking(u) : req[r].since + ACCOUNT_LOCK_DURATION
                                >= ACCOUNT_LOCK_DURATION
    <3>1. ASSUME NEW r \in Locking(u) PROVE req[r].since \in Nat
      BY StampType DEF Locking, StampPoints
    <3> QED  BY <3>1, DurationsAssumption
  <2>2. \A r \in Locking(u) : req[r].since \in Nat
    BY StampType DEF Locking, StampPoints
  <2>3. Late(u) = {}
    BY <1>1, <2>1, <2>2, WindowFacts, DurationsAssumption DEF Late
  <2>4. w = 0  BY <2>3, FS_EmptySet, RequestCount DEF Weight
  <2> QED  BY <2>4, ShareIs, ShareFacts
<1>2. CASE Window # 0
  <2>1. w <= per /\ w \in Nat
    BY ChancesAre, WeightWithin, RequestCount
  <2>2. per \in Nat /\ per * Window \in Nat /\ per <= per * Window /\ base \in Nat
    BY <1>2, WindowFacts, ShareFacts
  <2>3. Share = base + per * Window  BY ShareIs
  <2> HIDE DEF w, per, base
  <2>4. base + w <= Share  BY <2>1, <2>2, <2>3
  <2> QED  BY <2>4 DEF w, base
<1> QED  BY <1>1, <1>2

\* A wrong password that has been compared belongs to an account that was open.
LEMMA NoGuessWhileLocked ==
  ASSUME TypeOK, [Next]_vars, NEW u, Locked(u)
  PROVE  /\ Counting(u)' \subseteq Counting(u)
         /\ Cardinality(Counting(u)') <= Cardinality(Counting(u))
         /\ Cardinality(Counting(u)') \in Nat
<1>1. ASSUME NEW r \in Requests, req'[r].at = "login.count", req'[r].user = u
      PROVE  req'[r] = req[r]
  <2>1. ~Moved(r)  BY <1>1 DEF Moved, MaySignIn
  <2> QED  BY <2>1, StepMoves DEF Moved
<1>2. Counting(u)' \subseteq Counting(u)  BY <1>1 DEF Counting
<1> QED  BY <1>2, GuessersAreRequests, FewerRequests

\* A request that counts is not counting any more, and may be about to lock: the
\* lock it will write is dated in this window.
LEMMA CountMoves ==
  ASSUME TypeOK, NEW r \in Requests, LoginCount(r), NEW u, req[r].user = u
  PROVE  /\ r \in Counting(u) /\ Counting(u)' = Counting(u) \ {r}
         /\ r \notin Locking(u)
         /\ Exhausted(user[u].failedLoginAttempts + 1) =>
              Locking(u)' = Locking(u) \cup {r} /\ Late(u)' = Late(u)
<1>1. Moved(r) /\ req[r].at = "login.count" /\ now' = now
  BY AuthStepMoves DEF AuthStep, LoginCount
<1> DEFINE q == [at |-> "login.lock", user |-> u, since |-> now]
<1>2. /\ q.at = "login.lock" /\ q.user = u /\ q.since = now
      /\ Idle.at # "login.count"
  BY DEF Idle
<1>3. /\ req'[r] = Idle \/ req'[r] = q
      /\ Exhausted(user[u].failedLoginAttempts + 1) => req'[r] = q
  BY AwaitMoves DEF LoginCount, Answer
<1>4. /\ ~(now + ACCOUNT_LOCK_DURATION < WindowEnd)
      /\ WindowEnd' = WindowEnd
  <2>1. WindowEnd' = WindowEnd  BY <1>1 DEF WindowEnd, Window
  <2> QED  BY <2>1, WindowFacts, DurationsAssumption DEF TypeOK
<1> HIDE DEF q
<1>5. /\ r \in Counting(u) /\ Counting(u)' = Counting(u) \ {r}
      /\ r \notin Locking(u)
  BY <1>1, <1>2, <1>3 DEF Moved, Counting, Locking
<1>6. ASSUME Exhausted(user[u].failedLoginAttempts + 1)
      PROVE  Locking(u)' = Locking(u) \cup {r}
  BY <1>1, <1>2, <1>3, <1>6 DEF Moved, Locking
<1>7. ASSUME Exhausted(user[u].failedLoginAttempts + 1)
      PROVE  Late(u)' = Late(u)
  <2>1. req'[r].since = now  BY <1>2, <1>3, <1>7
  <2>2. \A x \in Locking(u) : x # r /\ req'[x] = req[x]
    BY <1>1, <1>5 DEF Moved, Locking
  <2> QED  BY <1>4, <1>6, <1>7, <2>1, <2>2 DEF Late
<1> QED  BY <1>5, <1>6, <1>7

\* A request that locks is done.
LEMMA LockMoves ==
  ASSUME TypeOK, NEW r \in Requests, LoginLock(r), NEW u, req[r].user = u
  PROVE  /\ r \in Locking(u) /\ Locking(u)' = Locking(u) \ {r}
         /\ Counting(u)' = Counting(u) /\ Late(u)' = Late(u) \ {r}
<1>1. /\ Moved(r) /\ req[r].at = "login.lock" /\ now' = now
      /\ req'[r] = Idle /\ Idle.at \notin {"login.lock", "login.count"}
  BY AuthStepMoves, AwaitMoves DEF AuthStep, LoginLock, Answer, Idle
<1>2. WindowEnd' = WindowEnd  BY <1>1 DEF WindowEnd, Window
<1>3. /\ r \in Locking(u) /\ Locking(u)' = Locking(u) \ {r}
      /\ Counting(u)' = Counting(u)
  BY <1>1 DEF Moved, Locking, Counting
<1>4. \A x \in Locking(u)' : req'[x] = req[x]  BY <1>1, <1>3 DEF Moved, Locking
<1>5. Late(u)' = Late(u) \ {r}  BY <1>2, <1>3, <1>4 DEF Late
<1> QED  BY <1>3, <1>5

\* A request that has come to lock in this step will date its lock in this window.
LEMMA LateOnlyInTime ==
  ASSUME TypeOK, [Next]_vars, NEW u, WindowEnd' = WindowEnd
  PROVE  Late(u)' \subseteq Late(u)
<1>1. SUFFICES ASSUME NEW x \in Late(u)' PROVE x \in Late(u)
  OBVIOUS
<1>2. /\ x \in Requests /\ req'[x].at = "login.lock" /\ req'[x].user = u
      /\ req'[x].since + ACCOUNT_LOCK_DURATION < WindowEnd
  BY <1>1 DEF Late, Locking
<1>3. req'[x].since # now
  BY <1>2, WindowFacts, DurationsAssumption DEF TypeOK
<1>4. ~Moved(x)  BY <1>2, <1>3 DEF Moved
<1>5. req'[x] = req[x]  BY <1>2, <1>4, StepMoves DEF Moved
<1> QED  BY <1>2, <1>5 DEF Late, Locking

-----------------------------------------------------------------------------
(* The guesses.                                                            *)

\* A lock that lands in time closes the account; a late one opens it to every
\* slot that is not late itself, and is one late lock less.
LEMMA LockKeepsShare ==
  ASSUME TypeOK, NEW r \in Requests, LoginLock(r), NEW u \in Users,
         req[r].user = u, WithinShare(u)
  PROVE  WithinShare(u)'
<1> DEFINE a == user[u].failedLoginAttempts
           c == Cardinality(Counting(u))
           l == Cardinality(Locking(u))
           s == Cardinality(Late(u))
<1>1. /\ a \in Nat /\ user'[u].failedLoginAttempts = a
      /\ Share' = Share /\ WindowEnd' = WindowEnd
  BY LockColumns DEF LoginLock, Share, WindowEnd, Window, TypeOK, UserRow
<1>2. SUFFICES ASSUME ~(a < MAX_FAILED_LOGIN)
               PROVE  Chances(u)' <= Chances(u)
  <2>1. Chances(u) \in Int /\ Chances(u)' \in Int
    BY ChancesAre, ChancesWillBe
  <2>2. WithinShare(u) <=> a < MAX_FAILED_LOGIN \/ 2 * a + Chances(u) <= Share
    BY DEF WithinShare
  <2>3. WithinShare(u)' <=> a < MAX_FAILED_LOGIN \/ 2 * a + Chances(u)' <= Share
    BY <1>1 DEF WithinShare
  <2>4. Share \in Nat  BY ShareIs
  <2> HIDE DEF a
  <2> QED  BY <1>1, <1>2, <2>1, <2>2, <2>3, <2>4
<1>3. /\ r \in Locking(u) /\ Locking(u)' = Locking(u) \ {r}
      /\ Counting(u)' = Counting(u) /\ Late(u)' = Late(u) \ {r}
  BY LockMoves
<1>4. IsFiniteSet(Locking(u)) /\ IsFiniteSet(Late(u))
  BY GuessersAreRequests, GuessersFit
<1>5. Cardinality(Locking(u)') = l - 1 /\ Cardinality(Counting(u)') = c
  BY <1>3, <1>4, FS_RemoveElement
<1>6. CASE r \notin Late(u)
  <2>1. Late(u)' = Late(u)  BY <1>3, <1>6
  <2>2. ~(req[r].since + ACCOUNT_LOCK_DURATION < WindowEnd)
    BY <1>3, <1>6 DEF Late
  <2>3. /\ req[r].since \in Nat /\ user'[u].lockUntil \in Nat
        /\ req[r].since + ACCOUNT_LOCK_DURATION <= user'[u].lockUntil
    BY LockColumns
  <2>4. user'[u].lockUntil >= WindowEnd
    BY <2>2, <2>3, WindowFacts, DurationsAssumption
  <2>5. Held(u)'  BY <1>1, <2>4 DEF Held
  <2>6. Open(u)' = c  BY <1>5, <2>5 DEF Open
  <2> HIDE DEF c
  <2>7. c <= Open(u)  BY ChancesAre DEF c
  <2> QED  BY <2>1, <2>6, <2>7, ChancesAre, ChancesWillBe
<1>7. CASE r \in Late(u)
  <2>1. Cardinality(Late(u)') = s - 1 /\ s \in Nat \ {0}
    <3>1. Cardinality(Late(u)') = s - 1  BY <1>3, <1>4, <1>7, FS_RemoveElement
    <3>2. s \in Nat /\ s - 1 \in Nat  BY <3>1, ChancesAre, ChancesWillBe
    <3> QED  BY <3>1, <3>2
  <2>2. Open(u)' <= Slots - (l - 1) /\ Open(u)' \in Nat
    BY <1>5, ChancesWillBe
  <2>3. Weight(s) = Weight(s - 1) + 2 * (Slots + 1 - s)
    BY <2>1, WeightFalls
  <2>4. /\ Chances(u) = 2 * Open(u) + Weight(s) /\ Open(u) \in Nat
        /\ s <= l /\ l \in Nat /\ Weight(s) \in Nat
    BY ChancesAre
  <2>5. Chances(u)' = 2 * Open(u)' + Weight(s - 1) /\ Weight(s - 1) \in Nat
    BY <2>1, ChancesWillBe
  <2> HIDE DEF l, s
  <2> QED  BY <2>1, <2>2, <2>3, <2>4, <2>5, RequestCount
<1> QED  BY <1>6, <1>7

\* One password more is counted and one chance less is left, unless the count
\* has only now reached the limit, and then every slot but this one has a try.
LEMMA CountKeepsShare ==
  ASSUME TypeOK, NEW r \in Requests, LoginCount(r), NEW u \in Users,
         req[r].user = u, WithinShare(u)
  PROVE  WithinShare(u)'
<1> DEFINE a == user[u].failedLoginAttempts
           c == Cardinality(Counting(u))
           l == Cardinality(Locking(u))
           w == Weight(Cardinality(Late(u)))
<1>1. /\ a \in Nat /\ user'[u].failedLoginAttempts = a + 1
      /\ user'[u].lockUntil = user[u].lockUntil
      /\ Share' = Share /\ WindowEnd' = WindowEnd
  BY LockColumns DEF LoginCount, Share, WindowEnd, Window, TypeOK, UserRow
<1>2. WithinShare(u)' <=>
        a + 1 < MAX_FAILED_LOGIN \/ 2 * (a + 1) + Chances(u)' <= Share
  BY <1>1 DEF WithinShare
<1>3. SUFFICES ASSUME Exhausted(a + 1)
               PROVE  2 * (a + 1) + Chances(u)' <= Share
  <2>1. ~Exhausted(a + 1) => a + 1 < MAX_FAILED_LOGIN
    <3>1. a + 1 \in Nat /\ MAX_FAILED_LOGIN \in Nat
      BY <1>1, DurationsAssumption
    <3> HIDE DEF a
    <3> QED  BY <3>1 DEF Exhausted
  <2> QED  BY <1>2, <1>3, <2>1
<1>4. /\ r \in Counting(u) /\ Counting(u)' = Counting(u) \ {r}
      /\ r \notin Locking(u) /\ Locking(u)' = Locking(u) \cup {r}
      /\ Late(u)' = Late(u)
  BY <1>3, CountMoves
<1>5. IsFiniteSet(Counting(u)) /\ IsFiniteSet(Locking(u))
  BY GuessersAreRequests, GuessersFit
<1>6. Cardinality(Counting(u)') = c - 1 /\ Cardinality(Locking(u)') = l + 1
  <2>1. Cardinality(Counting(u) \ {r}) = c - 1  BY <1>4, <1>5, FS_RemoveElement
  <2>2. Cardinality(Locking(u) \cup {r}) = l + 1  BY <1>4, <1>5, FS_AddElement
  <2> QED  BY <1>4, <2>1, <2>2
<1>7. Held(u)' <=> Held(u)  BY <1>1 DEF Held
<1>8. Open(u)' = Open(u) - 1
  <2>1. CASE Held(u)
    BY <1>6, <1>7, <2>1 DEF Open
  <2>2. CASE ~Held(u)
    <3>1. Open(u) = Slots - l /\ Open(u)' = Slots - (l + 1)
      BY <1>6, <1>7, <2>2 DEF Open
    <3>2. l \in Nat /\ Slots \in Nat  BY ChancesAre, RequestCount
    <3> HIDE DEF l
    <3> QED  BY <3>1, <3>2
  <2> QED  BY <2>1, <2>2
<1>9. /\ Chances(u) = 2 * Open(u) + w /\ Chances(u)' = 2 * (Open(u) - 1) + w
      /\ Open(u) \in Nat /\ w \in Nat /\ Open(u) <= Slots - l /\ l \in Nat
  BY <1>4, <1>8, ChancesAre, ChancesWillBe
<1>10. CASE a < MAX_FAILED_LOGIN
  <2>1. 2 * (MAX_FAILED_LOGIN - 1 + Slots) + w <= Share  BY LateWithinShare
  <2>2. Share \in Nat /\ Slots \in Nat /\ MAX_FAILED_LOGIN \in Nat
    BY ShareIs, RequestCount, DurationsAssumption
  <2> HIDE DEF a, w, l
  <2> QED  BY <1>1, <1>9, <1>10, <2>1, <2>2
<1>11. CASE ~(a < MAX_FAILED_LOGIN)
  <2>1. 2 * a + Chances(u) <= Share  BY <1>11 DEF WithinShare
  <2>2. Share \in Nat  BY ShareIs
  <2> HIDE DEF a, w
  <2> QED  BY <1>1, <1>9, <2>1, <2>2
<1> QED  BY <1>10, <1>11

\* While neither column changes and nobody is lost who was about to lock, the
\* chances only fall, and a new window makes up for the lock that it outlasts.
LEMMA TimeKeepsShare ==
  ASSUME TypeOK, LockWithin, [Next]_vars, NEW u \in Users, WithinShare(u),
         user'[u].failedLoginAttempts = user[u].failedLoginAttempts,
         user'[u].lockUntil = user[u].lockUntil,
         Locking(u) \subseteq Locking(u)'
  PROVE  WithinShare(u)'
<1> DEFINE a == user[u].failedLoginAttempts
           per == Slots * (Slots + 1)
           w == Weight(Cardinality(Late(u)))
           x == Weight(Cardinality(Late(u)'))
<1>1. a \in Nat  BY DEF TypeOK, UserRow
<1>2. now' = now \/ now' = now + 1  BY ClockEffect
<1>3. /\ Chances(u) = 2 * Open(u) + w /\ Open(u) \in Nat /\ w \in Nat
      /\ Chances(u)' = 2 * Open(u)' + x /\ Open(u)' \in Nat /\ x \in Nat
  BY ChancesAre, ChancesWillBe
<1>4. Cardinality(Locking(u)) <= Cardinality(Locking(u)')
  BY GuessersAreRequests, FewerRequests
<1>5. WithinShare(u)' <=> a < MAX_FAILED_LOGIN \/ 2 * a + Chances(u)' <= Share'
  BY DEF WithinShare
<1>6. SUFFICES ASSUME ~(a < MAX_FAILED_LOGIN)
               PROVE  2 * a + Chances(u)' <= Share'
  BY <1>5
<1>7. 2 * a + Chances(u) <= Share  BY <1>6 DEF WithinShare
<1>8. Share \in Nat  BY ShareIs
<1>9. CASE Window' = Window /\ WindowEnd' = WindowEnd
  <2>1. Share' = Share /\ (Held(u)' <=> Held(u))  BY <1>9 DEF Share, Held
  <2>2. Late(u)' \subseteq Late(u)  BY <1>9, LateOnlyInTime
  <2>3. x <= w
    <3>1. Cardinality(Late(u)') <= Cardinality(Late(u))
      BY <2>2, GuessersAreRequests, FewerRequests
    <3>2. Cardinality(Late(u)) <= Slots  BY ChancesAre, RequestCount
    <3> QED  BY <3>1, <3>2, ChancesAre, ChancesWillBe, WeightGrows
  <2>4. Open(u)' <= Open(u)
    <3>1. CASE Held(u)
      <4>1. Locked(u)
        BY <3>1, WindowFacts DEF Held, Locked, TypeOK, UserRow
      <4>2. Cardinality(Counting(u)') <= Cardinality(Counting(u))
        BY <4>1, NoGuessWhileLocked
      <4> QED  BY <2>1, <3>1, <4>2 DEF Open
    <3>2. CASE ~Held(u)
      <4>1. /\ Open(u) = Slots - Cardinality(Locking(u))
            /\ Open(u)' = Slots - Cardinality(Locking(u)')
        BY <2>1, <3>2 DEF Open
      <4> QED  BY <1>4, <4>1, ChancesAre, ChancesWillBe, RequestCount
    <3> QED  BY <3>1, <3>2
  <2> HIDE DEF a, w, x
  <2> QED  BY <1>1, <1>3, <1>7, <1>8, <2>1, <2>3, <2>4
<1>10. CASE Window' = Window + 1
  <2>1. 2 * Open(u)' + x <= per
    <3> DEFINE l == Cardinality(Locking(u)')
    <3>1. x <= Weight(l) /\ Weight(l) \in Nat
      BY ChancesWillBe, WeightGrows
    <3>2. 2 * (Slots - l) + Weight(l) <= per /\ l \in Nat
      BY ChancesWillBe, WeightWithin
    <3>3. Open(u)' <= Slots - l  BY ChancesWillBe
    <3>4. per \in Nat /\ Slots \in Nat  BY RequestCount
    <3> HIDE DEF x, l, per
    <3> QED  BY <1>3, <3>1, <3>2, <3>3, <3>4
  <2>2. Share' = Share + per
    <3>1. /\ per * (Window + 1) = per * Window + per
          /\ per * Window \in Nat /\ per \in Nat
          /\ 2 * (MAX_FAILED_LOGIN - 1 + Slots) \in Nat
      BY WindowFacts, ShareFacts
    <3>2. /\ Share = 2 * (MAX_FAILED_LOGIN - 1 + Slots) + per * Window
          /\ Share' = 2 * (MAX_FAILED_LOGIN - 1 + Slots) + per * (Window + 1)
      BY <1>10, ShareIs
    <3> HIDE DEF per
    <3> QED  BY <3>1, <3>2
  <2>3. per \in Nat  BY RequestCount
  <2> HIDE DEF a, w, x, per
  <2> QED  BY <1>1, <1>3, <1>7, <1>8, <2>1, <2>2, <2>3
<1> QED  BY <1>2, <1>9, <1>10, WindowMoves

LEMMA StepGuesses ==
  ASSUME TypeOK, LockWithin, [Next]_vars, NEW u \in Users, WithinShare(u)
  PROVE  \/ WithinShare(u)'
         \/ \E r \in Locking(u) : Abort(r) /\ req'[r] = Idle /\ user' = user
<1>1. ASSUME NEW r \in Requests, LoginLock(r), req[r].user = u
      PROVE  WithinShare(u)'
  BY <1>1, LockKeepsShare
<1>2. ASSUME NEW r \in Requests, LoginCount(r), req[r].user = u
      PROVE  WithinShare(u)'
  BY <1>2, CountKeepsShare
\* A sign-in and a new account start from nothing.
<1>3. ASSUME NEW r \in Requests, LoginCommit(r) \/ SignupCommit(r), req[r].user = u
      PROVE  WithinShare(u)'
  <2>1. user'[u].failedLoginAttempts = 0  BY <1>3, LockColumns, RowWrites
  <2> QED  BY <2>1, DurationsAssumption DEF WithinShare
\* Whatever else happens, only time and the death of a request matter.
<1>4. ASSUME user'[u].failedLoginAttempts = user[u].failedLoginAttempts,
             user'[u].lockUntil = user[u].lockUntil,
             ~\E r \in Requests : LoginLock(r) /\ req[r].user = u
      PROVE  \/ WithinShare(u)'
             \/ \E r \in Locking(u) : Abort(r) /\ req'[r] = Idle /\ user' = user
  <2>1. CASE Locking(u) \subseteq Locking(u)'
    BY <1>4, <2>1, TimeKeepsShare
  <2>2. ASSUME NEW r \in Locking(u), r \notin Locking(u)'
        PROVE  Abort(r) /\ req'[r] = Idle /\ user' = user
    <3>1. r \in Requests /\ req[r].at = "login.lock" /\ req'[r] # req[r]
      BY <2>2 DEF Locking
    <3>2. Abort(r)  BY <1>4, <2>2, <3>1, LockLeaves DEF Locking
    <3> QED  BY <3>1, <3>2, AwaitMoves DEF Abort, Answer
  <2> QED  BY <2>1, <2>2
<1>5. ASSUME ~\E r \in Requests :
                 /\ LoginCount(r) \/ LoginLock(r) \/ LoginCommit(r) \/ SignupCommit(r)
                 /\ req[r].user = u
      PROVE  /\ user'[u].failedLoginAttempts = user[u].failedLoginAttempts
             /\ user'[u].lockUntil = user[u].lockUntil
  BY <1>5, UserEffect, RowWrites, EditRows
<1> QED  BY <1>1, <1>2, <1>3, <1>4, <1>5

\* The limit and the lock ration wrong passwords for every limit, duration and
\* number of requests at once, also when an expired lock leaves the counter over
\* the limit; only a request that dies before it locks adds to the share.
THEOREM GuessesAreRationed == Spec => GuessesRationed
<1>1. TypeOK /\ LockWithin /\ [Next]_vars =>
        [\A u \in Users : WithinShare(u) =>
           \/ WithinShare(u)'
           \/ \E r \in Locking(u) : req'[r] = Idle /\ user' = user]_vars
  BY StepGuesses
<1> QED  BY <1>1, TypeCorrect, LocksEnd, PTL DEF Spec, GuessesRationed

\* What it comes to where no request dies.
GuessesBounded == \A u \in Users : 2 * user[u].failedLoginAttempts <= Share

LEMMA ShareIsBound ==
  ASSUME TypeOK, \A u \in Users : WithinShare(u)
  PROVE  GuessesBounded
<1>1. SUFFICES ASSUME NEW u \in Users
               PROVE  2 * user[u].failedLoginAttempts <= Share
  BY DEF GuessesBounded
<1> DEFINE a == user[u].failedLoginAttempts
<1>2. /\ a \in Nat /\ Share \in Nat /\ Slots \in Nat /\ MAX_FAILED_LOGIN \in Nat
      /\ 2 * (MAX_FAILED_LOGIN - 1 + Slots) <= Share
  BY ShareIs, RequestCount, DurationsAssumption DEF TypeOK, UserRow
<1>3. Chances(u) \in Nat  BY ChancesAre
<1>4. a < MAX_FAILED_LOGIN \/ 2 * a + Chances(u) <= Share  BY DEF WithinShare
<1>5. 2 * a <= Share
  <2> HIDE DEF a
  <2> QED  BY <1>2, <1>3, <1>4
<1> QED  BY <1>5

\* Where no request dies half way, the wrong passwords counted against an account
\* since its last sign-in are below the limit and as many more as there are
\* requests at once, and n (n + 1) / 2 more per duration of the lock that is over:
\* however late the locks are written that ration them.
THEOREM GuessesAreBounded ==
  ASSUME ~Faults
  PROVE  Spec => []GuessesBounded
<1>1. Init => \A u \in Users : WithinShare(u)
  <2>1. SUFFICES ASSUME Init, NEW u \in Users PROVE WithinShare(u)
    OBVIOUS
  <2>2. user[u].failedLoginAttempts = 0  BY <2>1 DEF Init, NewUser
  <2> QED  BY <2>2, DurationsAssumption DEF WithinShare
<1>2. TypeOK /\ LockWithin /\ [Next]_vars /\ (\A u \in Users : WithinShare(u)) =>
        (\A u \in Users : WithinShare(u))'
  <2>1. SUFFICES ASSUME TypeOK, LockWithin, [Next]_vars, NEW u \in Users,
                        WithinShare(u)
                 PROVE  WithinShare(u)'
    OBVIOUS
  <2>2. \A r \in Requests : ~Abort(r)  BY DEF Abort
  <2> QED  BY <2>1, <2>2, StepGuesses DEF Locking
<1>3. TypeOK /\ (\A u \in Users : WithinShare(u)) => GuessesBounded
  BY ShareIsBound
<1> QED  BY <1>1, <1>2, <1>3, TypeCorrect, LocksEnd, PTL DEF Spec

-----------------------------------------------------------------------------
(* Expiry of sessions and tokens.                                          *)

\* A pair is not issued later than now; the row of its token is to expire its
\* lifetime, taken for milliseconds, after it was issued; and the session that
\* the first of its tokens opened no later than the row of its last one, nor than
\* the row of a rotation in progress, which is dated after the read.
ExpiryInv ==
  /\ \A p \in issued : p.iat <= now
  /\ \A t \in refreshToken, p \in issued :
       p.jti = t.jti => t.expiresAt = p.iat + JWT_REFRESH_EXPIRES_IN
  /\ \A s \in session, t \in refreshToken :
       t.sessionId = s.id => s.expiresAt <= t.expiresAt
  /\ \A r \in Requests, s \in session :
       req[r].at = "refresh.commit" /\ req[r].sid = s.id =>
         s.expiresAt <= req[r].since + JWT_REFRESH_EXPIRES_IN

\* The rows of a token and of its session, with the pair that was handed out.
LEMMA TokenOfSession ==
  ASSUME RotationInv, NEW s \in session
  PROVE  \E t \in refreshToken, p \in issued :
           /\ t.sessionId = s.id /\ p.jti = t.jti
           /\ p.sid = s.id /\ p.sub = s.userId
<1>1. PICK t \in refreshToken : t.sessionId = s.id /\ t.userId = s.userId
  BY DEF RotationInv, SessionHasOneToken
<1>2. PICK p \in issued : p.jti = t.jti /\ p.sub = t.userId /\ p.sid = t.sessionId
  BY DEF RotationInv, TokenProvenance
<1> QED  BY <1>1, <1>2

LEMMA EndsExpiry ==
  ASSUME RotationInv, ExpiryInv, TypeOK, now' = now \/ now' = now + 1,
         NoneMints, UNCHANGED tokenVars \/ Ends
  PROVE  ExpiryInv'
<1>1. /\ session' \subseteq session /\ refreshToken' \subseteq refreshToken
      /\ issued' = issued
  BY EndsTogether DEF tokenVars
<1>2. \A p \in issued : p.iat <= now'
  <2>1. now \in Nat /\ \A p \in issued : p.iat \in Nat  BY DEF TypeOK, TokenPair
  <2> QED  BY <2>1 DEF ExpiryInv
<1>3. \A r \in Requests : req'[r].at = "refresh.commit" => req'[r] = req[r]
  BY DEF NoneMints, MintPoints
<1> QED  BY <1>1, <1>2, <1>3 DEF ExpiryInv

\* A rotation that has read its row will date the new one later than the old.
LEMMA MintsExpiry ==
  ASSUME RotationInv, ExpiryInv, TypeOK, NEW r \in Requests, Mints(r),
         UNCHANGED tokenVars
  PROVE  ExpiryInv'
<1>1. /\ session' = session /\ refreshToken' = refreshToken /\ issued' = issued
      /\ now' = now
  BY DEF tokenVars, Mints, LoginRightPassword, RefreshRead
<1>2. \A x \in Requests : x # r => req'[x] = req[x]
  BY DEF Mints, LoginRightPassword, RefreshRead, Await, TypeOK
<1>3. ASSUME NEW u, NEW password, LoginRightPassword(r, u, password)
      PROVE  req'[r].at = "login.commit"
  BY <1>3, AwaitMoves DEF LoginRightPassword
<1>4. ASSUME NEW p \in issued, RefreshRead(r, p)
      PROVE  \E t \in refreshToken :
               /\ t.jti = p.jti /\ req'[r].sid = t.sessionId /\ req'[r].since = now
  <2>1. PICK t \in refreshToken, jti \in FreshJtis :
          /\ t.jti = p.jti
          /\ Await(r, [at |-> "refresh.commit", user |-> p.sub, old |-> t.jti,
                       sid |-> t.sessionId, jti |-> jti, since |-> now])
    BY <1>4 DEF RefreshRead
  <2> QED  BY <2>1, AwaitMoves
<1>5. ASSUME NEW s \in session, req'[r].at = "refresh.commit", req'[r].sid = s.id
      PROVE  s.expiresAt <= req'[r].since + JWT_REFRESH_EXPIRES_IN
  <2>1. PICK p \in issued : RefreshRead(r, p)  BY <1>3, <1>5 DEF Mints
  <2>2. PICK t \in refreshToken :
          t.jti = p.jti /\ req'[r].sid = t.sessionId /\ req'[r].since = now
    BY <1>4, <2>1
  <2>3. /\ s.expiresAt <= t.expiresAt /\ p.iat <= now
        /\ t.expiresAt = p.iat + JWT_REFRESH_EXPIRES_IN
    BY <1>5, <2>2 DEF ExpiryInv
  <2>4. /\ s.expiresAt \in Nat /\ t.expiresAt \in Nat /\ p.iat \in Nat
        /\ now \in Nat /\ JWT_REFRESH_EXPIRES_IN \in Nat
    BY DurationsAssumption DEF TypeOK, SessionRow, RefreshTokenRow, TokenPair
  <2> QED  BY <2>2, <2>3, <2>4
<1> QED  BY <1>1, <1>2, <1>5 DEF ExpiryInv

LEMMA LoginCommitExpiry ==
  ASSUME TypeOK, RotationInv, ExpiryInv, NEW r \in Requests, LoginCommit(r)
  PROVE  ExpiryInv'
<1> DEFINE q == req[r]
<1>1. PICK stamp \in Stamps(q), s \in SessionRow, t \in RefreshTokenRow,
           p \in TokenPair :
        /\ session' = session \cup {s} /\ refreshToken' = refreshToken \cup {t}
        /\ issued' = issued \cup {p}
        /\ s.id = q.sid /\ s.expiresAt = RefreshExpiresAt(stamp)
        /\ t.jti = q.jti /\ t.sessionId = q.sid
        /\ t.expiresAt = RefreshExpiresAt(stamp)
        /\ p.jti = q.jti /\ p.iat = stamp
  BY LoginCommitRows
<1>2. now' = now  BY DEF LoginCommit
<1>3. /\ stamp \in Nat /\ now \in Nat /\ stamp <= now
      /\ RefreshExpiresAt(stamp) \in Nat
      /\ RefreshExpiresAt(stamp) = stamp + JWT_REFRESH_EXPIRES_IN
  BY StampType DEF LoginCommit, StampPoints, RefreshExpiresAt
<1>4. \A i \in issued : i.jti # q.jti /\ i.sid # q.sid
  BY DEF LoginCommit, RotationInv, InFlightTokens, Minting
<1>5. \A o \in refreshToken : o.jti # q.jti /\ o.sessionId # q.sid
  BY <1>4 DEF RotationInv, TokenProvenance
<1>6. \A o \in session : o.id # q.sid  BY <1>4, TokenOfSession
<1>7. \A x \in Requests : req[x].at = "refresh.commit" => req[x].sid # q.sid
  BY <1>4 DEF RotationInv, InFlightTokens
<1>8. \A x \in Requests : req'[x].at = "refresh.commit" => req'[x] = req[x]
  BY DEF LoginCommit, Answer, Await, Idle, TypeOK
<1> HIDE DEF q
<1>9. \A i \in issued' : i.iat <= now'  BY <1>1, <1>2, <1>3 DEF ExpiryInv
<1>10. \A x \in refreshToken', i \in issued' :
         i.jti = x.jti => x.expiresAt = i.iat + JWT_REFRESH_EXPIRES_IN
  BY <1>1, <1>3, <1>4, <1>5 DEF ExpiryInv
<1>11. \A o \in session', x \in refreshToken' :
         x.sessionId = o.id => o.expiresAt <= x.expiresAt
  BY <1>1, <1>3, <1>5, <1>6 DEF ExpiryInv
<1>12. \A x \in Requests, o \in session' :
         req'[x].at = "refresh.commit" /\ req'[x].sid = o.id =>
           o.expiresAt <= req'[x].since + JWT_REFRESH_EXPIRES_IN
  BY <1>1, <1>7, <1>8 DEF ExpiryInv
<1> QED  BY <1>9, <1>10, <1>11, <1>12 DEF ExpiryInv

LEMMA RefreshCommitExpiry ==
  ASSUME TypeOK, RotationInv, ExpiryInv, NEW r \in Requests, RefreshCommit(r)
  PROVE  ExpiryInv'
<1> DEFINE q == req[r]
<1>1. PICK stamp \in Stamps(q), t \in RefreshTokenRow, p \in TokenPair :
        /\ session' = session /\ issued' = issued \cup {p}
        /\ refreshToken' = {x \in refreshToken : x.jti # q.old} \cup {t}
        /\ t.jti = q.jti /\ t.sessionId = q.sid
        /\ t.expiresAt = RefreshExpiresAt(stamp)
        /\ p.jti = q.jti /\ p.iat = stamp
  BY RefreshCommitRows
<1>2. now' = now  BY DEF RefreshCommit
<1>3. /\ stamp \in Nat /\ now \in Nat /\ stamp <= now
      /\ q.since \in Nat /\ q.since <= stamp
      /\ JWT_REFRESH_EXPIRES_IN \in Nat /\ RefreshExpiresAt(stamp) \in Nat
      /\ RefreshExpiresAt(stamp) = stamp + JWT_REFRESH_EXPIRES_IN
  BY StampType, DurationsAssumption DEF RefreshCommit, StampPoints, RefreshExpiresAt
<1>4. \A x \in issued : x.jti # q.jti
  BY DEF RefreshCommit, RotationInv, InFlightTokens, Minting
<1>5. \A x \in refreshToken : x.jti # q.jti
  BY <1>4 DEF RotationInv, TokenProvenance
<1>6. \A s \in session : s.id = q.sid => s.expiresAt <= RefreshExpiresAt(stamp)
  <2>1. SUFFICES ASSUME NEW s \in session, s.id = q.sid
                 PROVE  s.expiresAt <= RefreshExpiresAt(stamp)
    OBVIOUS
  <2>2. s.expiresAt <= q.since + JWT_REFRESH_EXPIRES_IN
    BY <2>1 DEF RefreshCommit, ExpiryInv
  <2>3. s.expiresAt \in Nat  BY DEF TypeOK, SessionRow
  <2> QED  BY <1>3, <2>2, <2>3
<1>7. \A x \in Requests : req'[x].at = "refresh.commit" => req'[x] = req[x]
  BY DEF RefreshCommit, Answer, Await, Idle, TypeOK
<1> HIDE DEF q
<1>8. \A x \in issued' : x.iat <= now'  BY <1>1, <1>2, <1>3 DEF ExpiryInv
<1>9. \A x \in refreshToken', y \in issued' :
        y.jti = x.jti => x.expiresAt = y.iat + JWT_REFRESH_EXPIRES_IN
  BY <1>1, <1>3, <1>4, <1>5 DEF ExpiryInv
<1>10. \A s \in session', x \in refreshToken' :
         x.sessionId = s.id => s.expiresAt <= x.expiresAt
  BY <1>1, <1>6 DEF ExpiryInv
<1>11. \A x \in Requests, s \in session' :
         req'[x].at = "refresh.commit" /\ req'[x].sid = s.id =>
           s.expiresAt <= req'[x].since + JWT_REFRESH_EXPIRES_IN
  BY <1>1, <1>7 DEF ExpiryInv
<1> QED  BY <1>8, <1>9, <1>10, <1>11 DEF ExpiryInv

LEMMA StepExpiry ==
  ASSUME TypeOK, RotationInv, ExpiryInv, [Next]_vars
  PROVE  ExpiryInv'
BY StepEffect, ClockEffect, EndsExpiry, MintsExpiry, LoginCommitExpiry,
   RefreshCommitExpiry

\* A lifetime in milliseconds is within the same lifetime in seconds.
LEMMA RowWithinJwt ==
  JWT_REFRESH_EXPIRES_IN <= JWT_REFRESH_EXPIRES_IN * Second
<1>1. \A n \in Nat, k \in Nat \ {0} : n <= n * k  OBVIOUS
<1> QED  BY <1>1, DurationsAssumption

LEMMA ListedIsLive ==
  ASSUME TypeOK, RotationInv, ExpiryInv
  PROVE  ListedSessionsLive
<1>1. SUFFICES ASSUME NEW s \in session, Listed(s)
               PROVE  \E t \in refreshToken, p \in issued :
                        /\ t.sessionId = s.id /\ t.expiresAt >= now
                        /\ p.jti = t.jti /\ p.sub = s.userId /\ RefreshValid(p)
  BY DEF ListedSessionsLive
<1>2. PICK t \in refreshToken, p \in issued :
        t.sessionId = s.id /\ p.jti = t.jti /\ p.sub = s.userId
  BY TokenOfSession
<1>3. /\ s.expiresAt > now /\ s.expiresAt <= t.expiresAt
      /\ t.expiresAt = p.iat + JWT_REFRESH_EXPIRES_IN
  BY <1>1, <1>2 DEF Listed, ExpiryInv
<1>4. /\ now \in Nat /\ s.expiresAt \in Nat /\ t.expiresAt \in Nat /\ p.iat \in Nat
      /\ JWT_REFRESH_EXPIRES_IN \in Nat /\ JWT_REFRESH_EXPIRES_IN * Second \in Nat
  BY DurationsAssumption DEF TypeOK, SessionRow, RefreshTokenRow, TokenPair
<1>5. t.expiresAt >= now /\ RefreshValid(p)
  BY <1>3, <1>4, RowWithinJwt DEF RefreshValid
<1> QED  BY <1>2, <1>5

\* Whatever rotations, logouts and purges have run, and however long since, a
\* session getSessions lists has a token that refreshToken exchanges.
THEOREM ListedLive == Spec => []ListedSessionsLive
<1>1. Init => ExpiryInv  BY DEF Init, ExpiryInv, Idle
<1>2. TypeOK /\ RotationInv /\ ExpiryInv /\ [Next]_vars => ExpiryInv'
  BY StepExpiry
<1>3. TypeOK /\ RotationInv /\ ExpiryInv => ListedSessionsLive  BY ListedIsLive
<1> QED  BY <1>1, <1>2, <1>3, TypeCorrect, Rotation, PTL DEF Spec
=============================================================================
