--------------------------- MODULE Runtime_proofs ---------------------------
(***************************************************************************)
(* Theorems about Runtime, for every set of addresses, requests and jobs,  *)
(* every limit and window, and every number of signals, crashes, kills and *)
(* flushes.  Fairness plays no part in them.                               *)
(***************************************************************************)
EXTENDS Runtime, FiniteSetTheorems, TLAPS

(***************************************************************************)
(* What a step may do to the limiter, and what it may do to the queue.     *)
(***************************************************************************)
\* The handler behind the limiter ends, with or without an answer.
Leaves(r) == /\ r \in InHandler
             /\ Answer(r)
             /\ UNCHANGED <<counter, admitted, forsaken>>

LimiterMoves ==
  \/ UNCHANGED limiterVars
  \/ \E r \in Requests, ip \in Addresses : Hit(r, ip)
  \/ \E r \in Requests : Expire(r) \/ Ttl(r) \/ Leaves(r)
  \/ \E dead \in SUBSET Requests : Die(dead)
  \/ LimiterTick
  \/ KeysGo(Addresses, counter)

QueueMoves ==
  \/ UNCHANGED queueVars
  \/ \E j \in Jobs : Add(j) \/ Take(j) \/ RunStep(j) \/ Promote(j) \/ Stall(j)
  \/ RunsDie
  \/ FlushJobs

LEMMA StepMoves ==
  ASSUME [Next]_vars
  PROVE  LimiterMoves /\ QueueMoves
<1> USE DEF LimiterMoves, QueueMoves
<1>1. ASSUME NEW r \in Requests, Arrive(r)
      PROVE  LimiterMoves /\ QueueMoves
  BY <1>1 DEF Arrive, Others
<1>2. ASSUME NEW r \in Requests, Refused(r)
      PROVE  LimiterMoves /\ QueueMoves
  BY <1>2 DEF Refused, vars
<1>3. ASSUME NEW r \in Requests,
             Connect(r) \/ Another(r) \/ KeepAliveEnds(r) \/ HangUp(r)
      PROVE  LimiterMoves /\ QueueMoves
  BY <1>3 DEF Connect, Another, KeepAliveEnds, HangUp, Others
<1>4. ASSUME NEW r \in Requests, RequestStep(r)
      PROVE  LimiterMoves /\ QueueMoves
  BY <1>4 DEF RequestStep, Limited, LimiterStep, HandlerEnds, Leaves, Others
<1>5. ASSUME NEW r \in Requests, CommandFails(r)
      PROVE  LimiterMoves /\ QueueMoves
  <2>1. {r} \in SUBSET Requests  OBVIOUS
  <2> QED  BY <1>5, <2>1 DEF CommandFails, Others
<1>6. ASSUME NEW j \in Jobs, WorkerStep(j)
      PROVE  LimiterMoves /\ QueueMoves
  BY <1>6 DEF WorkerStep
<1>7. CASE Tick  BY <1>7 DEF Tick, Others
<1>8. CASE FlushAll  BY <1>8 DEF FlushAll
<1>9. ASSUME Ends  PROVE LimiterMoves /\ QueueMoves
  <2>1. {r \in Requests : request[r] # Idle} \in SUBSET Requests  OBVIOUS
  <2> QED  BY <1>9, <2>1 DEF Ends
<1>10. CASE Stop
  <2>1. CASE Broken /\ UNCHANGED <<counter, admitted, forsaken, queueVars>>
    <3>1. UNCHANGED request \/ \E r \in InHandler : Answer(r)  BY <2>1 DEF Broken
    <3>2. InHandler \subseteq Requests  BY DEF InHandler
    <3> QED  BY <2>1, <3>1, <3>2 DEF Leaves, limiterVars
  <2> QED  BY <1>9, <1>10, <2>1 DEF Stop
<1>11. CASE Closing  BY <1>9, <1>11 DEF Closing
<1>12. CASE Restart  BY <1>12 DEF Restart
<1>13. CASE UNCHANGED vars  BY <1>13 DEF vars
<1> QED  BY <1>1, <1>2, <1>3, <1>4, <1>5, <1>6, <1>7, <1>8, <1>10, <1>11, <1>12, <1>13 DEF Next

(***************************************************************************)
(* The limiter.                                                            *)
(***************************************************************************)
LEMMA OverLimitType == OverLimit \in Nat /\ OverLimit > MAX_REQUESTS
BY LimiterAssumption DEF OverLimit

LEMMA CountedType ==
  ASSUME NEW n \in Nat
  PROVE  /\ Counted(n + 1) \in 1 .. OverLimit
         /\ Counted(n + 1) <= n + 1
         /\ Counted(n + 1) <= MAX_REQUESTS => Counted(n + 1) = n + 1
BY LimiterAssumption DEF Counted, OverLimit

\* A request at one of the limiter's commands has an address and a count.
LEMMA RequestShapes ==
  ASSUME NEW q \in Request
  PROVE  /\ q.at \in {"expire", "ttl"} =>
              q \in [at: {"expire", "ttl"}, ip: Addresses, count: 1 .. OverLimit,
                     current: BOOLEAN]
         /\ Idle \in Request /\ [at |-> "handler"] \in Request
BY DEF Request, Idle

LEMMA HitType ==
  ASSUME LimiterTypeOK, NEW r \in Requests, NEW ip \in Addresses, Hit(r, ip)
  PROVE  LimiterTypeOK'
<1> DEFINE n == Counted(counter[ip].count + 1)
<1>1. counter[ip].count \in Nat  BY OverLimitType DEF LimiterTypeOK, Counter
<1>2. n \in 1 .. OverLimit  BY <1>1, CountedType
<1>3. [counter[ip] EXCEPT !.count = n] \in Counter
  BY <1>2, OverLimitType DEF LimiterTypeOK, Counter
<1>4. counter' \in [Addresses -> Counter]  BY <1>3 DEF Hit, LimiterTypeOK
<1>5. [at |-> IF First(n) THEN "expire" ELSE "ttl", ip |-> ip,
       count |-> n, current |-> TRUE] \in Request
  BY <1>2 DEF Request
<1>6. request' \in [Requests -> Request]
  BY <1>5 DEF Hit, Await, LimiterTypeOK
<1> QED  BY <1>4, <1>6 DEF Hit, LimiterTypeOK

LEMMA ExpireType ==
  ASSUME LimiterTypeOK, NEW r \in Requests, Expire(r)
  PROVE  LimiterTypeOK'
<1> DEFINE ip == request[r].ip
<1>1. request[r] \in [at: {"expire", "ttl"}, ip: Addresses, count: 1 .. OverLimit,
                      current: BOOLEAN]
  BY RequestShapes DEF Expire, LimiterTypeOK
<1>2. [request[r] EXCEPT !.at = "ttl"] \in Request  BY <1>1 DEF Request
<1>3. [counter[ip] EXCEPT !.ttl = WINDOW_SECONDS] \in Counter
  BY <1>1, LimiterAssumption DEF LimiterTypeOK, Counter
<1>4. counter' \in [Addresses -> Counter] /\ forsaken' \in [Addresses -> BOOLEAN]
  BY <1>1, <1>3 DEF Expire, LimiterTypeOK
<1>5. request' \in [Requests -> Request]  BY <1>2 DEF Expire, Await, LimiterTypeOK
<1> QED  BY <1>4, <1>5 DEF Expire, LimiterTypeOK

LEMMA TtlType ==
  ASSUME LimiterTypeOK, NEW r \in Requests, Ttl(r)
  PROVE  LimiterTypeOK'
<1>1. request[r] \in [at: {"expire", "ttl"}, ip: Addresses, count: 1 .. OverLimit,
                      current: BOOLEAN]
  BY RequestShapes DEF Ttl, LimiterTypeOK
<1>2. Idle \in Request /\ [at |-> "handler"] \in Request  BY DEF Request
<1>3. request' \in [Requests -> Request]
  BY <1>2 DEF Ttl, Answer, Await, LimiterTypeOK
<1>4. admitted' \in [Addresses -> Nat]
  BY <1>1 DEF Ttl, LimiterTypeOK
<1> QED  BY <1>3, <1>4 DEF Ttl, LimiterTypeOK

LEMMA KeysGoType ==
  ASSUME LimiterTypeOK, NEW gone, NEW remaining \in [Addresses -> Counter],
         KeysGo(gone, remaining)
  PROVE  LimiterTypeOK'
<1>1. NoKey \in Counter  BY OverLimitType, LimiterAssumption DEF NoKey, Counter
<1>2. counter' \in [Addresses -> Counter]  BY <1>1 DEF KeysGo
<1>3. ASSUME NEW r \in Requests, NEW ip, r \in Passing(ip)
      PROVE  [request[r] EXCEPT !.current = FALSE] \in Request
  <2>1. request[r] \in [at: {"expire", "ttl"}, ip: Addresses,
                        count: 1 .. OverLimit, current: BOOLEAN]
    BY <1>3, RequestShapes DEF Passing, LimiterTypeOK
  <2> QED  BY <2>1 DEF Request
<1>4. request' \in [Requests -> Request]  BY <1>3 DEF KeysGo, LimiterTypeOK
<1>5. admitted' \in [Addresses -> Nat] /\ forsaken' \in [Addresses -> BOOLEAN]
  BY DEF KeysGo, LimiterTypeOK
<1> QED  BY <1>2, <1>4, <1>5 DEF LimiterTypeOK

LEMMA TickRemaining ==
  ASSUME LimiterTypeOK
  PROVE  [ip \in Addresses |->
            [counter[ip] EXCEPT !.ttl = IF @ = 0 THEN 0 ELSE @ - 1]]
           \in [Addresses -> Counter]
<1>1. ASSUME NEW ip \in Addresses
      PROVE  [counter[ip] EXCEPT !.ttl = IF @ = 0 THEN 0 ELSE @ - 1] \in Counter
  BY <1>1, LimiterAssumption DEF LimiterTypeOK, Counter
<1> QED  BY <1>1

LEMMA LimiterType ==
  ASSUME LimiterTypeOK, LimiterMoves
  PROVE  LimiterTypeOK'
<1>1. CASE UNCHANGED limiterVars  BY <1>1 DEF limiterVars, LimiterTypeOK
<1>2. CASE \E r \in Requests, ip \in Addresses : Hit(r, ip)  BY <1>2, HitType
<1>3. CASE \E r \in Requests : Expire(r) \/ Ttl(r)  BY <1>3, ExpireType, TtlType
<1>4. ASSUME NEW r \in Requests, Leaves(r)  PROVE LimiterTypeOK'
  <2>1. Idle \in Request  BY DEF Request
  <2>2. request' \in [Requests -> Request]
    BY <1>4, <2>1 DEF Leaves, Answer, Await, LimiterTypeOK
  <2> QED  BY <1>4, <2>2 DEF Leaves, LimiterTypeOK
<1>5. ASSUME NEW dead \in SUBSET Requests, Die(dead)  PROVE LimiterTypeOK'
  <2>1. Idle \in Request  BY DEF Request
  <2> QED  BY <1>5, <2>1 DEF Die, LimiterTypeOK
<1>6. CASE LimiterTick  BY <1>6, TickRemaining, KeysGoType DEF LimiterTick
<1>7. CASE KeysGo(Addresses, counter)  BY <1>7, KeysGoType DEF LimiterTypeOK
<1> QED  BY <1>1, <1>2, <1>3, <1>4, <1>5, <1>6, <1>7 DEF LimiterMoves

\* Who is at the call to EXPIRE is there for all addresses but its own.
LEMMA DeadlineStep ==
  ASSUME LimiterTypeOK, CounterHasDeadline, LimiterMoves
  PROVE  CounterHasDeadline'
<1> SUFFICES ASSUME NEW ip \in Addresses, counter'[ip].count > 0, counter'[ip].ttl = 0
             PROVE  Setting(ip)' # {} \/ forsaken'[ip]
  BY DEF CounterHasDeadline
<1>1. CASE UNCHANGED limiterVars
  BY <1>1 DEF limiterVars, CounterHasDeadline, Setting
<1>2. ASSUME NEW r \in Requests, NEW a \in Addresses, Hit(r, a)
      PROVE  Setting(ip)' # {} \/ forsaken'[ip]
  <2> DEFINE n == Counted(counter[a].count + 1)
  <2>1. /\ counter' = [counter EXCEPT ![a].count = n]
        /\ request' = [request EXCEPT ![r] =
             [at |-> IF First(n) THEN "expire" ELSE "ttl", ip |-> a,
              count |-> n, current |-> TRUE]]
        /\ request[r] = Idle /\ forsaken' = forsaken
    BY <1>2 DEF Hit, Await
  <2>2. r \notin Setting(ip)  BY <2>1 DEF Setting, Idle
  <2>3. Setting(ip) \subseteq Setting(ip)'  BY <2>1, <2>2 DEF Setting, LimiterTypeOK
  <2>4. counter'[ip].ttl = counter[ip].ttl  BY <2>1 DEF LimiterTypeOK, Counter
  <2>5. CASE counter[ip].count > 0  BY <2>1, <2>3, <2>4, <2>5 DEF CounterHasDeadline
  <2>6. CASE ~(counter[ip].count > 0)
    <3>1. counter[ip].count = 0  BY <2>6, OverLimitType DEF LimiterTypeOK, Counter
    <3>2. a = ip  BY <2>1, <3>1 DEF LimiterTypeOK
    <3>3. n = 1  BY <3>1, <3>2, LimiterAssumption DEF Counted, OverLimit
    <3>4. First(n)  BY <3>3 DEF First
    <3>5. r \in Setting(ip)'  BY <2>1, <3>2, <3>4 DEF Setting, LimiterTypeOK
    <3> QED  BY <3>5
  <2> QED  BY <2>5, <2>6
<1>3. ASSUME NEW r \in Requests, Expire(r)
      PROVE  Setting(ip)' # {} \/ forsaken'[ip]
  <2> DEFINE a == request[r].ip
  <2>1. a \in Addresses  BY <1>3, RequestShapes DEF Expire, LimiterTypeOK
  <2>2. CASE counter[a].count # 0
    <3>1. counter' = [counter EXCEPT ![a].ttl = WINDOW_SECONDS]
      BY <1>3, <2>2 DEF Expire
    <3>2. ip # a  BY <2>1, <3>1, LimiterAssumption DEF LimiterTypeOK, Counter
    <3> QED  BY <1>3, <2>1, <3>1, <3>2
             DEF Expire, Await, CounterHasDeadline, Setting, LimiterTypeOK
  <2>3. CASE counter[a].count = 0
    <3>1. counter' = counter /\ forsaken' = forsaken  BY <1>3, <2>3 DEF Expire
    <3>2. ip # a  BY <2>3, <3>1
    <3> QED  BY <1>3, <3>1, <3>2
             DEF Expire, Await, CounterHasDeadline, Setting, LimiterTypeOK
  <2> QED  BY <2>2, <2>3
<1>4. ASSUME NEW r \in Requests, Ttl(r) \/ Leaves(r)
      PROVE  Setting(ip)' # {} \/ forsaken'[ip]
  <2>1. r \notin Setting(ip)  BY <1>4 DEF Ttl, Leaves, InHandler, Setting
  <2>2. \A q \in Requests \ {r} : request'[q] = request[q]
    BY <1>4 DEF Ttl, Leaves, Answer, Await, LimiterTypeOK
  <2>3. Setting(ip) \subseteq Setting(ip)'  BY <2>1, <2>2 DEF Setting
  <2>4. counter' = counter /\ forsaken' = forsaken  BY <1>4 DEF Ttl, Leaves
  <2> QED  BY <2>3, <2>4 DEF CounterHasDeadline
<1>5. ASSUME NEW dead \in SUBSET Requests, Die(dead)
      PROVE  Setting(ip)' # {} \/ forsaken'[ip]
  <2>1. counter' = counter  BY <1>5 DEF Die
  <2>2. CASE forsaken[ip]  BY <1>5, <2>2 DEF Die
  <2>3. CASE ~forsaken[ip]
    <3>1. Setting(ip) # {}  BY <2>1, <2>3 DEF CounterHasDeadline
    <3>2. CASE Setting(ip) \subseteq dead  BY <1>5, <2>1, <3>1, <3>2 DEF Die
    <3>3. CASE ~(Setting(ip) \subseteq dead)
      <4>1. PICK q \in Setting(ip) : q \notin dead  BY <3>3
      <4>2. q \in Setting(ip)'  BY <1>5, <4>1 DEF Die, Setting
      <4> QED  BY <4>2
    <3> QED  BY <3>2, <3>3
  <2> QED  BY <2>2, <2>3
<1>6. ASSUME NEW gone, NEW remaining, KeysGo(gone, remaining), ip \notin gone,
             remaining[ip].count = counter[ip].count,
             remaining[ip].ttl = 0 => counter[ip].ttl = 0
      PROVE  Setting(ip)' # {} \/ forsaken'[ip]
  <2>1. counter[ip].count > 0 /\ counter[ip].ttl = 0  BY <1>6 DEF KeysGo
  <2>2. forsaken'[ip] = forsaken[ip]  BY <1>6 DEF KeysGo, LimiterTypeOK
  <2>3. ASSUME NEW q \in Setting(ip)  PROVE q \in Setting(ip)'
    <3>1. request[q] \in [at: {"expire", "ttl"}, ip: Addresses,
                          count: 1 .. OverLimit, current: BOOLEAN]
      BY <2>3, RequestShapes DEF Setting, LimiterTypeOK
    <3>2. request'[q].at = request[q].at /\ request'[q].ip = request[q].ip
      BY <1>6, <3>1, <2>3 DEF KeysGo, Setting
    <3> QED  BY <2>3, <3>2 DEF Setting
  <2> QED  BY <2>1, <2>2, <2>3 DEF CounterHasDeadline
<1>7. ASSUME NEW gone, NEW remaining, KeysGo(gone, remaining)  PROVE ip \notin gone
  BY <1>7 DEF KeysGo, NoKey
<1>8. CASE LimiterTick
  <2> DEFINE gone == {a \in Addresses : counter[a].ttl = 1}
             left == [a \in Addresses |->
                        [counter[a] EXCEPT !.ttl = IF @ = 0 THEN 0 ELSE @ - 1]]
  <2>1. KeysGo(gone, left)  BY <1>8 DEF LimiterTick
  <2>2. ip \notin gone  BY <2>1, <1>7
  <2>3. left[ip].count = counter[ip].count /\ (left[ip].ttl = 0 => counter[ip].ttl = 0)
    BY <2>2, LimiterAssumption DEF LimiterTypeOK, Counter
  <2> HIDE DEF gone, left
  <2> QED  BY <2>1, <2>2, <2>3, <1>6
<1>9. CASE KeysGo(Addresses, counter)  BY <1>9, <1>7
<1> QED  BY <1>1, <1>2, <1>3, <1>4, <1>5, <1>8, <1>9 DEF LimiterMoves

\* What a key has let pass, or still can, it has counted.
LetPass(ip) == admitted[ip] + Cardinality(Passing(ip))
PassesAreCounted == \A ip \in Addresses : LetPass(ip) <= counter[ip].count
WindowInv == WindowIsBounded /\ PassesAreCounted

LEMMA PassingFinite ==
  ASSUME NEW ip
  PROVE  IsFiniteSet(Passing(ip)) /\ Cardinality(Passing(ip)) \in Nat
<1>1. Passing(ip) \subseteq Requests  BY DEF Passing
<1>2. IsFiniteSet(Requests)  BY LimiterAssumption
<1> QED  BY <1>1, <1>2, FS_Subset, FS_CardinalityType

LEMMA PassingFinitePrime ==
  ASSUME NEW ip
  PROVE  IsFiniteSet(Passing(ip)') /\ Cardinality(Passing(ip)') \in Nat
<1>1. Passing(ip)' \subseteq Requests  BY DEF Passing
<1>2. IsFiniteSet(Requests)  BY LimiterAssumption
<1> QED  BY <1>1, <1>2, FS_Subset, FS_CardinalityType

\* A step that lets no more pass, and takes nothing from the count, is safe.
LEMMA WindowQuiet ==
  ASSUME LimiterTypeOK, LimiterTypeOK', WindowInv, NEW ip \in Addresses,
         admitted'[ip] <= admitted[ip], Passing(ip)' \subseteq Passing(ip),
         counter'[ip].count >= counter[ip].count
  PROVE  LetPass(ip)' <= MAX_REQUESTS /\ LetPass(ip)' <= counter'[ip].count
<1>1. Cardinality(Passing(ip)') <= Cardinality(Passing(ip))
  BY PassingFinite, FS_Subset
<1>2. Cardinality(Passing(ip)) \in Nat /\ Cardinality(Passing(ip)') \in Nat
  BY PassingFinite, PassingFinitePrime
<1>3. /\ admitted[ip] \in Nat /\ admitted'[ip] \in Nat
      /\ counter[ip].count \in Nat /\ counter'[ip].count \in Nat
  BY OverLimitType DEF LimiterTypeOK, Counter
<1>4. MAX_REQUESTS \in Nat  BY LimiterAssumption
<1>5. LetPass(ip) <= MAX_REQUESTS /\ LetPass(ip) <= counter[ip].count
  BY DEF WindowInv, WindowIsBounded, PassesAreCounted, LetPass
<1>6. LetPass(ip)' = admitted'[ip] + Cardinality(Passing(ip)')  BY DEF LetPass
<1> QED  BY <1>1, <1>2, <1>3, <1>4, <1>5, <1>6 DEF LetPass

LEMMA WindowStep ==
  ASSUME LimiterTypeOK, LimiterTypeOK', WindowInv, LimiterMoves
  PROVE  WindowInv'
<1> SUFFICES ASSUME NEW ip \in Addresses
             PROVE  LetPass(ip)' <= MAX_REQUESTS /\ LetPass(ip)' <= counter'[ip].count
  BY DEF WindowInv, WindowIsBounded, PassesAreCounted, LetPass
<1>0. /\ admitted[ip] \in Nat /\ counter[ip].count \in Nat
      /\ MAX_REQUESTS \in Nat
      /\ Cardinality(Passing(ip)) \in Nat
      /\ LetPass(ip) <= MAX_REQUESTS /\ LetPass(ip) <= counter[ip].count
      /\ LetPass(ip) = admitted[ip] + Cardinality(Passing(ip))
      /\ LetPass(ip)' = admitted'[ip] + Cardinality(Passing(ip)')
  BY OverLimitType, LimiterAssumption, PassingFinite
     DEF LimiterTypeOK, Counter, WindowInv, WindowIsBounded, PassesAreCounted, LetPass
<1>1. CASE UNCHANGED limiterVars
  <2>1. Passing(ip)' = Passing(ip)  BY <1>1 DEF limiterVars, Passing
  <2> QED  BY <1>0, <1>1, <2>1 DEF limiterVars
<1>2. ASSUME NEW r \in Requests, NEW a \in Addresses, Hit(r, a)
      PROVE  LetPass(ip)' <= MAX_REQUESTS /\ LetPass(ip)' <= counter'[ip].count
  <2> DEFINE n == Counted(counter[a].count + 1)
  <2>1. /\ counter' = [counter EXCEPT ![a].count = n]
        /\ request' = [request EXCEPT ![r] =
             [at |-> IF First(n) THEN "expire" ELSE "ttl", ip |-> a,
              count |-> n, current |-> TRUE]]
        /\ request[r] = Idle /\ admitted' = admitted
    BY <1>2 DEF Hit, Await
  <2>2. counter[a].count \in 0 .. OverLimit  BY DEF LimiterTypeOK, Counter
  <2>3. n \in 1 .. OverLimit /\ n >= counter[a].count
        /\ (n <= MAX_REQUESTS => n = counter[a].count + 1)
    BY <2>2, LimiterAssumption DEF Counted, OverLimit
  <2>4. r \notin Passing(ip)  BY <2>1 DEF Passing, Idle
  <2>5. CASE a = ip /\ n <= MAX_REQUESTS
    <3>1. Passing(ip)' = Passing(ip) \cup {r}
      BY <2>1, <2>4, <2>5 DEF Passing, LimiterTypeOK
    <3>2. Cardinality(Passing(ip)') = Cardinality(Passing(ip)) + 1
      BY <3>1, <2>4, PassingFinite, FS_AddElement
    <3>3. counter'[ip].count = counter[ip].count + 1
      BY <2>1, <2>3, <2>5 DEF LimiterTypeOK, Counter
    <3>4. counter'[ip].count <= MAX_REQUESTS
      BY <2>1, <2>5 DEF LimiterTypeOK, Counter
    <3> QED  BY <1>0, <2>1, <3>2, <3>3, <3>4
  <2>6. CASE ~(a = ip /\ n <= MAX_REQUESTS)
    <3>1. Passing(ip)' = Passing(ip)
      BY <2>1, <2>3, <2>4, <2>6 DEF Passing, LimiterTypeOK
    <3>2. counter'[ip].count >= counter[ip].count
      BY <1>0, <2>1, <2>2, <2>3 DEF LimiterTypeOK, Counter
    <3> QED  BY <1>0, <2>1, <3>1, <3>2, WindowQuiet
  <2> QED  BY <2>5, <2>6
<1>3. ASSUME NEW r \in Requests, Expire(r)
      PROVE  LetPass(ip)' <= MAX_REQUESTS /\ LetPass(ip)' <= counter'[ip].count
  <2>1. request[r] \in [at: {"expire", "ttl"}, ip: Addresses, count: 1 .. OverLimit,
                        current: BOOLEAN]
    BY <1>3, RequestShapes DEF Expire, LimiterTypeOK
  <2>2. request' = [request EXCEPT ![r].at = "ttl"]
    BY <1>3 DEF Expire, Await
  <2>3. Passing(ip)' = Passing(ip)
    BY <1>3, <2>1, <2>2 DEF Expire, Passing, LimiterTypeOK
  <2>4. counter'[ip].count = counter[ip].count
    BY <1>3, <2>1 DEF Expire, LimiterTypeOK, Counter
  <2> QED  BY <1>0, <1>3, <2>3, <2>4, WindowQuiet DEF Expire
<1>4. ASSUME NEW r \in Requests, Ttl(r)
      PROVE  LetPass(ip)' <= MAX_REQUESTS /\ LetPass(ip)' <= counter'[ip].count
  <2>1. request[r] \in [at: {"expire", "ttl"}, ip: Addresses, count: 1 .. OverLimit,
                        current: BOOLEAN]
    BY <1>4, RequestShapes DEF Ttl, LimiterTypeOK
  <2>2. Passing(ip)' = Passing(ip) \ {r}
    BY <1>4 DEF Ttl, Answer, Await, Idle, Passing, LimiterTypeOK
  <2>3. counter' = counter  BY <1>4 DEF Ttl
  <2>4. CASE admitted' = admitted
    BY <1>0, <2>2, <2>3, <2>4, WindowQuiet
  <2>5. CASE admitted' # admitted
    <3>1. /\ request[r].current /\ request[r].count <= MAX_REQUESTS
          /\ admitted' = [admitted EXCEPT ![request[r].ip] = @ + 1]
      BY <1>4, <2>1, <2>5, LimiterAssumption DEF Ttl, Blocked, OverLimit
    <3>2. CASE request[r].ip = ip
      <4>1. r \in Passing(ip)  BY <1>4, <3>1, <3>2 DEF Passing, Ttl
      <4>2. Cardinality(Passing(ip)') = Cardinality(Passing(ip)) - 1
        BY <2>2, <4>1, PassingFinite, FS_RemoveElement
      <4>3. admitted'[ip] = admitted[ip] + 1  BY <3>1, <3>2 DEF LimiterTypeOK
      <4> QED  BY <1>0, <2>3, <4>2, <4>3
    <3>3. CASE request[r].ip # ip
      <4>1. admitted'[ip] = admitted[ip]  BY <3>1, <3>3 DEF LimiterTypeOK
      <4> QED  BY <1>0, <2>2, <2>3, <4>1, WindowQuiet
    <3> QED  BY <3>2, <3>3
  <2> QED  BY <2>4, <2>5
<1>5. ASSUME NEW r \in Requests, Leaves(r)
      PROVE  LetPass(ip)' <= MAX_REQUESTS /\ LetPass(ip)' <= counter'[ip].count
  <2>1. Passing(ip)' \subseteq Passing(ip)
    BY <1>5 DEF Leaves, InHandler, Answer, Await, Idle, Passing, LimiterTypeOK
  <2> QED  BY <1>0, <1>5, <2>1, WindowQuiet DEF Leaves
<1>6. ASSUME NEW dead \in SUBSET Requests, Die(dead)
      PROVE  LetPass(ip)' <= MAX_REQUESTS /\ LetPass(ip)' <= counter'[ip].count
  <2>1. Passing(ip)' \subseteq Passing(ip)  BY <1>6 DEF Die, Idle, Passing
  <2> QED  BY <1>0, <1>6, <2>1, WindowQuiet DEF Die
<1>7. ASSUME NEW gone, NEW remaining, KeysGo(gone, remaining),
             remaining[ip].count = counter[ip].count
      PROVE  LetPass(ip)' <= MAX_REQUESTS /\ LetPass(ip)' <= counter'[ip].count
  <2>1. ASSUME NEW r \in Requests, r \in Passing(ip)'
        PROVE  r \in Passing(ip) /\ ip \notin gone
    <3>1. CASE \E a \in gone : r \in Passing(a)
      <4>1. request[r] \in [at: {"expire", "ttl"}, ip: Addresses,
                            count: 1 .. OverLimit, current: BOOLEAN]
        BY <3>1, RequestShapes DEF Passing, LimiterTypeOK
      <4>2. request'[r] = [request[r] EXCEPT !.current = FALSE]
        BY <1>7, <3>1 DEF KeysGo
      <4> QED  BY <2>1, <4>1, <4>2 DEF Passing
    <3>2. CASE ~\E a \in gone : r \in Passing(a)
      <4>1. request'[r] = request[r]  BY <1>7, <3>2 DEF KeysGo
      <4> QED  BY <2>1, <3>2, <4>1 DEF Passing
    <3> QED  BY <3>1, <3>2
  <2>2. CASE ip \in gone
    <3>1. Passing(ip)' = {}  BY <2>1, <2>2 DEF Passing
    <3>2. Cardinality(Passing(ip)') = 0  BY <3>1, FS_EmptySet
    <3>3. admitted'[ip] = 0 /\ counter'[ip].count = 0
      BY <1>7, <2>2 DEF KeysGo, NoKey
    <3> QED  BY <1>0, <3>2, <3>3
  <2>3. CASE ip \notin gone
    <3>1. admitted'[ip] = admitted[ip] /\ counter'[ip].count = counter[ip].count
      BY <1>7, <2>3 DEF KeysGo
    <3>2. Passing(ip)' \subseteq Passing(ip)  BY <2>1 DEF Passing
    <3> QED  BY <1>0, <3>1, <3>2, WindowQuiet
  <2> QED  BY <2>2, <2>3
<1>8. CASE LimiterTick
  <2> DEFINE gone == {a \in Addresses : counter[a].ttl = 1}
             left == [a \in Addresses |->
                        [counter[a] EXCEPT !.ttl = IF @ = 0 THEN 0 ELSE @ - 1]]
  <2>1. KeysGo(gone, left)  BY <1>8 DEF LimiterTick
  <2>2. left[ip].count = counter[ip].count  BY DEF LimiterTypeOK, Counter
  <2> HIDE DEF gone, left
  <2> QED  BY <2>1, <2>2, <1>7
<1>9. CASE KeysGo(Addresses, counter)  BY <1>9, <1>7
<1> QED  BY <1>1, <1>2, <1>3, <1>4, <1>5, <1>6, <1>8, <1>9 DEF LimiterMoves

(***************************************************************************)
(* The queue.                                                              *)
(***************************************************************************)
\* What a job has used up of its attempts and of the stalls it is forgiven.
Spent(j) == job[j].attemptsMade + job[j].stalled

\* Every mail that has left is paid for by an attempt that failed, by a stall,
\* or by the run of the job that is not settled yet.  A run whose job has been
\* flushed has nothing on record; it has still one mail to send at most.
JobInv ==
  \A j \in Jobs :
    /\ job[j].state = "none" =>
         run[j] = "no" /\ sent[j] = 0 /\ job[j].attemptsMade = 0 /\ job[j].stalled = 0
    /\ job[j].state \in {"wait", "active", "delayed"} =>
         job[j].attemptsMade < ATTEMPTS /\ job[j].stalled <= MaxStalled
    /\ run[j] # "no" => job[j].state \in {"active", "flushed"}
    /\ \/ job[j].state \in {"wait", "delayed"}
       \/ job[j].state = "active" /\ run[j] = "sending"
       => sent[j] <= Spent(j)
    /\ job[j].state = "active" => sent[j] <= Spent(j) + 1
    /\ run[j] = "sending" => sent[j] < ATTEMPTS + MaxStalled
    /\ run[j] = "sent" => sent[j] > 0

QueueInv == JobInv /\ MailsBounded

LEMMA JobShape ==
  ASSUME QueueTypeOK, NEW j \in Jobs
  PROVE  /\ job[j] \in Job /\ sent[j] \in Nat
         /\ run[j] \in {"no", "sending", "sent"}
         /\ job[j].attemptsMade \in Nat /\ job[j].attemptsMade <= ATTEMPTS
         /\ job[j].stalled \in Nat /\ job[j].stalled <= MaxStalled + 1
BY QueueAssumption DEF QueueTypeOK, Job

LEMMA QueueStep ==
  ASSUME QueueTypeOK, QueueInv, QueueMoves
  PROVE  QueueTypeOK' /\ QueueInv'
<1> USE QueueAssumption
<1>1. CASE UNCHANGED queueVars
  BY <1>1 DEF queueVars, QueueTypeOK, QueueInv, JobInv, Spent, MailsBounded
<1>2. ASSUME NEW j \in Jobs, Add(j)  PROVE QueueTypeOK' /\ QueueInv'
  BY <1>2, JobShape DEF Add, QueueTypeOK, Job, Settled, QueueInv, JobInv, Spent, MailsBounded
<1>3. ASSUME NEW j \in Jobs, Take(j)  PROVE QueueTypeOK' /\ QueueInv'
  BY <1>3, JobShape DEF Take, QueueTypeOK, Job, Settled, QueueInv, JobInv, Spent, MailsBounded
<1>4. ASSUME NEW j \in Jobs, Promote(j)  PROVE QueueTypeOK' /\ QueueInv'
  BY <1>4, JobShape DEF Promote, QueueTypeOK, Job, Settled, QueueInv, JobInv, Spent, MailsBounded
<1>5. ASSUME NEW j \in Jobs, Stall(j)  PROVE QueueTypeOK' /\ QueueInv'
  BY <1>5, JobShape DEF Stall, Forgiven, QueueTypeOK, Job, Settled, QueueInv, JobInv, Spent, MailsBounded
<1>6. ASSUME NEW j \in Jobs, Send(j)  PROVE QueueTypeOK' /\ QueueInv'
  BY <1>6, JobShape DEF Send, QueueTypeOK, Job, Settled, QueueInv, JobInv, Spent, MailsBounded
<1>7. ASSUME NEW j \in Jobs, Complete(j)  PROVE QueueTypeOK' /\ QueueInv'
  BY <1>7, JobShape DEF Complete, QueueTypeOK, Job, Settled, QueueInv, JobInv, Spent, MailsBounded
<1>8. ASSUME NEW j \in Jobs, Fail(j)  PROVE QueueTypeOK' /\ QueueInv'
  BY <1>8, JobShape DEF Fail, AttemptsLeft, QueueTypeOK, Job, Settled, QueueInv, JobInv, Spent, MailsBounded
<1>9. CASE RunsDie
  BY <1>9, JobShape DEF RunsDie, QueueTypeOK, QueueInv, JobInv, Spent, MailsBounded
<1>10. CASE FlushJobs
  BY <1>10, JobShape DEF FlushJobs, NoJob, QueueTypeOK, Job, Settled, QueueInv, JobInv, Spent, MailsBounded
<1> QED  BY <1>1, <1>2, <1>3, <1>4, <1>5, <1>6, <1>7, <1>8, <1>9, <1>10 DEF QueueMoves, RunStep

(***************************************************************************)
(* The life of the process.                                                *)
(***************************************************************************)
\* A connection that is kept alive is one of a server that is closed.  The
\* teardown begins with nobody connected, and nobody can connect again; its last
\* phase begins with the worker idle, and the worker takes nothing.
ConnectionTypeOK == connection \in [Requests -> Connections]
LifeInv ==
  /\ onClose # {} \/ isShuttingDown \/ teardown # "none" => ~listening
  /\ ~up => onClose = {} /\ teardown = "none" /\ ~isShuttingDown
  /\ teardown # "none" => Connected = {}
  /\ teardown = "connections" => Running = {}

LEMMA BecomesType ==
  ASSUME ConnectionTypeOK, NEW r \in Requests, NEW state \in Connections,
         Becomes(r, state)
  PROVE  ConnectionTypeOK'
BY DEF ConnectionTypeOK, Becomes

\* What a step of a request or of its client does to its connection: a new one
\* needs a server that listens, the others are there before.
LEMMA ConnectionStep ==
  ASSUME ConnectionTypeOK, NEW r \in Requests,
         \/ Connect(r) \/ Another(r) \/ KeepAliveEnds(r) \/ HangUp(r)
         \/ Arrive(r) \/ RequestStep(r) \/ CommandFails(r)
  PROVE  /\ ConnectionTypeOK'
         /\ ~listening => Connected' \subseteq Connected
<1>1. ASSUME Answered(r)
      PROVE  ConnectionTypeOK' /\ Connected' \subseteq Connected
  <2>1. ConnectionTypeOK'
    BY <1>1, BecomesType DEF Answered, Connections
  <2>2. connection[r] = "none" => connection'[r] = "none"
    BY <1>1 DEF Answered, Becomes, ConnectionTypeOK
  <2>3. \A q \in Requests \ {r} : connection'[q] = connection[q]
    BY <1>1 DEF Answered, Becomes, ConnectionTypeOK
  <2> QED  BY <2>1, <2>2, <2>3 DEF Connected
<1>2. CASE Connect(r)
  BY <1>2, BecomesType DEF Connect, Connections
<1>3. CASE Another(r) \/ KeepAliveEnds(r) \/ HangUp(r)
  <2>1. ConnectionTypeOK'
    BY <1>3, BecomesType DEF Another, KeepAliveEnds, HangUp, Connections
  <2>2. connection[r] # "none" /\ \A q \in Requests \ {r} : connection'[q] = connection[q]
    BY <1>3 DEF Another, KeepAliveEnds, HangUp, Becomes, ConnectionTypeOK
  <2> QED  BY <2>1, <2>2 DEF Connected
<1>4. CASE UNCHANGED connection
  BY <1>4 DEF ConnectionTypeOK, Connected
<1>5. CASE Arrive(r)  BY <1>4, <1>5 DEF Arrive
<1>6. CASE RequestStep(r)
  BY <1>1, <1>4, <1>6 DEF RequestStep, Limited, HandlerEnds
<1>7. CASE CommandFails(r)  BY <1>1, <1>7 DEF CommandFails
<1> QED  BY <1>2, <1>3, <1>5, <1>6, <1>7

\* Closing the server connects nobody.
LEMMA ClosedConnections ==
  ASSUME ConnectionTypeOK, connection' = Closed \/ Broken
  PROVE  ConnectionTypeOK' /\ Connected' \subseteq Connected
<1>1. Closed \in [Requests -> Connections]
      /\ \A q \in Requests : connection[q] = "none" => Closed[q] = "none"
  BY DEF Closed, ConnectionTypeOK, Connections
<1>2. CASE connection' = Closed  BY <1>1, <1>2 DEF ConnectionTypeOK, Connected
<1>3. CASE Broken
  <2>1. CASE connection' = Closed  BY <1>2, <2>1
  <2>2. CASE connection' # Closed
    <3>1. PICK r \in Requests :
            connection[r] # "none" /\ connection' = [Closed EXCEPT ![r] = "stuck"]
      BY <1>3, <2>2 DEF Broken, InHandler
    <3>2. ConnectionTypeOK'  BY <1>1, <3>1 DEF ConnectionTypeOK, Connections
    <3>3. \A q \in Requests : connection[q] = "none" => connection'[q] = "none"
      BY <1>1, <3>1
    <3> QED  BY <3>2, <3>3 DEF Connected
  <2> QED  BY <2>1, <2>2
<1> QED  BY <1>2, <1>3

LEMMA LifeStep ==
  ASSUME QueueTypeOK, LifeTypeOK, ConnectionTypeOK, LifeInv, [Next]_vars
  PROVE  LifeTypeOK' /\ ConnectionTypeOK' /\ LifeInv'
<1> DEFINE Goal == LifeTypeOK' /\ ConnectionTypeOK' /\ LifeInv'
<1> USE DEF LifeTypeOK, LifeInv
<1>1. ASSUME NEW r \in Requests,
             \/ Connect(r) \/ Another(r) \/ KeepAliveEnds(r) \/ HangUp(r)
             \/ Arrive(r) \/ RequestStep(r) \/ CommandFails(r)
      PROVE  Goal
  <2>1. UNCHANGED lifeVars /\ run' = run
    BY <1>1 DEF Connect, Another, KeepAliveEnds, HangUp, Arrive, RequestStep, Limited,
                HandlerEnds, CommandFails, Others, queueVars, Add
  <2>2. ConnectionTypeOK' /\ (~listening => Connected' \subseteq Connected)
    BY <1>1, ConnectionStep
  <2> QED  BY <2>1, <2>2 DEF lifeVars, Running
<1>2. CASE Tick \/ FlushAll
  <2>1. UNCHANGED lifeVars /\ run' = run /\ connection' = connection
    BY <1>2 DEF Tick, FlushAll, Others, queueVars, FlushJobs
  <2> QED  BY <2>1 DEF lifeVars, Running, Connected, ConnectionTypeOK
<1>3. ASSUME NEW j \in Jobs, WorkerStep(j)  PROVE Goal
  <2>1. UNCHANGED lifeVars /\ connection' = connection
    BY <1>3 DEF WorkerStep
  <2>2. teardown = "connections" => Running' = {}
    BY <1>3 DEF WorkerStep, RunStep, Send, Complete, Fail, Running
  <2> QED  BY <2>1, <2>2 DEF lifeVars, Connected, ConnectionTypeOK
<1>4. ASSUME NEW code \in {0, 1}, Exit(code), Ends  PROVE Goal
  BY <1>4 DEF Exit, Ends, ConnectionTypeOK, Connections
<1>5. CASE Stop
  <2>1. CASE Killed /\ Ends  BY <1>4, <2>1 DEF Killed
  <2>2. CASE Signal \/ Crash
    <3>1. connection' = Closed \/ Broken  BY <1>5, <2>2 DEF Stop, Killed, Exit, Signal, Crash
    <3>2. ConnectionTypeOK' /\ Connected' \subseteq Connected  BY <3>1, ClosedConnections
    <3>3. run' = run  BY <1>5, <2>2 DEF Stop, Killed, Exit, Signal, Crash, queueVars
    <3> QED  BY <2>2, <3>2, <3>3 DEF Signal, Crash, Running
  <2> QED  BY <1>5, <2>1, <2>2 DEF Stop
<1>6. CASE Closing
  <2>1. CASE GracefulClosed /\ Drained /\ UNCHANGED <<queueVars, connection>>
    BY <2>1 DEF GracefulClosed, Drained, queueVars, Connected, Running, ConnectionTypeOK
  <2>2. CASE WorkerClosed /\ WorkerIdle /\ UNCHANGED <<queueVars, connection>>
    BY <2>2 DEF WorkerClosed, WorkerIdle, queueVars, Connected, Running, ConnectionTypeOK
  <2>3. CASE (CrashClosed \/ Disconnected \/ TeardownFailed \/ ForceExit) /\ Ends
    BY <1>4, <2>3 DEF CrashClosed, Disconnected, TeardownFailed, ForceExit
  <2> QED  BY <1>6, <2>1, <2>2, <2>3 DEF Closing
<1>7. CASE Restart
  BY <1>7 DEF Restart, Start, queueVars, Connected, Running, ConnectionTypeOK
<1>8. CASE UNCHANGED vars
  BY <1>8 DEF vars, queueVars, lifeVars, Connected, Running, ConnectionTypeOK
<1> QED  BY <1>1, <1>2, <1>3, <1>5, <1>6, <1>7, <1>8 DEF Next, Refused

\* Only the last phase of the teardown exits with 0.
LEMMA ExitStep ==
  ASSUME LifeTypeOK, LifeInv, [Next]_vars, up, ~up', exitCode' = 0
  PROVE  Running = {} /\ Connected = {}
<1>1. CASE Closing
  <2>1. CASE GracefulClosed \/ WorkerClosed
    BY <2>1 DEF GracefulClosed, WorkerClosed
  <2>2. CASE CrashClosed \/ TeardownFailed \/ ForceExit
    BY <2>2 DEF CrashClosed, TeardownFailed, ForceExit, Exit
  <2>3. CASE Disconnected
    BY <2>3 DEF Disconnected, LifeInv
  <2> QED  BY <1>1, <2>1, <2>2, <2>3 DEF Closing
<1>2. CASE Stop
  <2>1. CASE Signal \/ Crash  BY <2>1 DEF Signal, Crash
  <2>2. CASE Killed  BY <2>2 DEF Killed, Exit
  <2> QED  BY <1>2, <2>1, <2>2 DEF Stop
<1>3. CASE Restart  BY <1>3 DEF Restart, Start
<1>4. CASE up' = up  BY <1>4
<1> QED
  BY <1>1, <1>2, <1>3, <1>4
     DEF Next, vars, lifeVars, Others, Connect, Refused, Another, KeepAliveEnds, HangUp,
         Arrive, RequestStep, Limited, HandlerEnds, CommandFails, WorkerStep, Tick, FlushAll

(***************************************************************************)
(* The theorems.                                                           *)
(***************************************************************************)
RuntimeInv ==
  RuntimeTypeOK /\ CounterHasDeadline /\ WindowInv /\ QueueInv /\ LifeInv

LEMMA RuntimeStart ==
  ASSUME Init
  PROVE  RuntimeInv
<1>1. LimiterTypeOK
  BY LimiterAssumption, OverLimitType
     DEF Init, LimiterInit, LimiterTypeOK, NoKey, Counter, Request
<1>2. CounterHasDeadline
  BY DEF Init, LimiterInit, CounterHasDeadline, NoKey
<1>3. WindowInv
  <2>1. ASSUME NEW ip \in Addresses
        PROVE  admitted[ip] = 0 /\ Cardinality(Passing(ip)) = 0
    <3>1. Passing(ip) = {}  BY DEF Init, LimiterInit, Passing, Idle
    <3> QED  BY <3>1, FS_EmptySet DEF Init, LimiterInit
  <2> QED
    BY <2>1, LimiterAssumption
       DEF Init, LimiterInit, NoKey, WindowInv, WindowIsBounded, PassesAreCounted, LetPass
<1>4. QueueTypeOK /\ QueueInv
  BY QueueAssumption
     DEF Init, QueueInit, NoJob, QueueTypeOK, Job, QueueInv, JobInv, Spent, MailsBounded
<1>5. LifeTypeOK /\ LifeInv
  BY DEF Init, LifeInit, LifeTypeOK, LifeInv
<1>6. ConnectionTypeOK  BY DEF Init, ConnectionTypeOK, Connections
<1> QED  BY <1>1, <1>2, <1>3, <1>4, <1>5, <1>6
         DEF RuntimeInv, RuntimeTypeOK, ConnectionTypeOK, Init

LEMMA RuntimeStepInv ==
  ASSUME RuntimeInv, [Next]_vars
  PROVE  RuntimeInv'
<1>1. LimiterMoves /\ QueueMoves  BY StepMoves
<1>2. /\ LimiterTypeOK /\ QueueTypeOK /\ LifeTypeOK /\ ConnectionTypeOK
      /\ troubles \in Nat
  BY DEF RuntimeInv, RuntimeTypeOK, ConnectionTypeOK
<1>3. LimiterTypeOK'  BY <1>1, <1>2, LimiterType
<1>4. CounterHasDeadline'  BY <1>1, <1>2, DeadlineStep DEF RuntimeInv
<1>5. WindowInv'  BY <1>1, <1>2, <1>3, WindowStep DEF RuntimeInv
<1>6. QueueTypeOK' /\ QueueInv'  BY <1>1, <1>2, QueueStep DEF RuntimeInv
<1>7. LifeTypeOK' /\ ConnectionTypeOK' /\ LifeInv'  BY <1>2, LifeStep DEF RuntimeInv
<1>8. troubles' \in Nat
  <2>1. CASE Stop \/ FlushAll  BY <1>2, <2>1 DEF Stop, FlushAll, Trouble
  <2>2. ASSUME NEW r \in Requests, CommandFails(r)  PROVE troubles' \in Nat
    BY <1>2, <2>2 DEF CommandFails, Trouble
  <2>3. CASE Closing \/ Restart  BY <1>2, <2>3 DEF Closing, Restart
  <2>4. CASE UNCHANGED troubles  BY <1>2, <2>4
  <2> QED
    BY <2>1, <2>2, <2>3, <2>4
       DEF Next, vars, Others, Connect, Refused, Another, KeepAliveEnds, HangUp, Arrive,
           RequestStep, Limited, HandlerEnds, WorkerStep, Tick
<1> QED  BY <1>3, <1>4, <1>5, <1>6, <1>7, <1>8
         DEF RuntimeInv, RuntimeTypeOK, ConnectionTypeOK

\* The inductive invariant: in every reachable state the limiter, the queue and
\* the process are well typed, and what each promises is backed by its record.
THEOREM RuntimeHolds == Spec => []RuntimeInv
BY RuntimeStart, RuntimeStepInv, PTL DEF Spec

\* Every reachable state is well typed: a count stays within the limit and one,
\* a job uses no more attempts than it has.
THEOREM RuntimeTypeCorrect == Spec => []RuntimeTypeOK
<1>1. RuntimeInv => RuntimeTypeOK  BY DEF RuntimeInv
<1> QED  BY <1>1, RuntimeHolds, PTL

\* A counter without a deadline has a request that is about to give it one,
\* unless that request has died.
THEOREM DeadlineKept == Spec => []CounterHasDeadline
<1>1. RuntimeInv => CounterHasDeadline  BY DEF RuntimeInv
<1> QED  BY <1>1, RuntimeHolds, PTL

\* A key lets no more requests pass in its life than the limit, whichever way
\* their commands, deaths, the clock and FLUSHALL interleave.
THEOREM WindowBounded == Spec => []WindowIsBounded
<1>1. RuntimeInv => WindowIsBounded  BY DEF RuntimeInv, WindowInv
<1> QED  BY <1>1, RuntimeHolds, PTL

\* A mail leaves at most once for each attempt and each forgiven stall, and a
\* completed job's mail has left.
THEOREM MailBound == Spec => []MailsBounded
<1>1. RuntimeInv => MailsBounded  BY DEF RuntimeInv, QueueInv
<1> QED  BY <1>1, RuntimeHolds, PTL

\* A process that exits with 0 has no job half done and no client connected: not
\* one that waits for its answer, nor one that is sending a request.
THEOREM CleanExits == Spec => CleanExit
<1>1. RuntimeInv /\ [Next]_vars
        => (up /\ ~up' /\ exitCode' = 0 => Running = {} /\ Connected = {})
  BY ExitStep DEF RuntimeInv, RuntimeTypeOK
<1>2. RuntimeInv /\ [Next]_vars
        => [up /\ ~up' /\ exitCode' = 0 => Running = {} /\ Connected = {}]_vars
  BY <1>1
<1> QED  BY <1>2, RuntimeHolds, PTL DEF Spec, CleanExit
=============================================================================
