---------------------------- MODULE RateLimiter ----------------------------
(***************************************************************************)
(* src/src/shared/middlewares/redisRateLimiter.ts: a counter in Redis for  *)
(* each address, and three commands of a request, between any two of which *)
(* other requests, other commands and the clock may come.                  *)
(*                                                                         *)
(* A module of parts: its actions say what becomes of its own variables,   *)
(* and Runtime puts them beside the others.                                *)
(***************************************************************************)
EXTENDS Naturals, FiniteSets

CONSTANTS
  Addresses, Requests,    \* req.ip; slots for requests in progress
  WINDOW_SECONDS, MAX_REQUESTS

ASSUME LimiterAssumption == /\ WINDOW_SECONDS \in Nat \ {0}
                            /\ MAX_REQUESTS \in Nat \ {0}
                            /\ IsFiniteSet(Requests)

VARIABLES
  counter,    \* the keys ratelimit:<ip>
  request,    \* what each request slot is doing
  admitted,   \* history: how many requests a key that is still there let pass
  forsaken    \* history: who was to give the key its deadline has died

limiterVars == <<counter, request, admitted, forsaken>>

-----------------------------------------------------------------------------
\* A key that is not there has count 0, one that does not expire has ttl 0.
\* Counts beyond the limit are alike.
OverLimit == MAX_REQUESTS + 1
NoKey == [count |-> 0, ttl |-> 0]
Counter == [count: 0 .. OverLimit, ttl: 0 .. WINDOW_SECONDS]

\* current: the key is still the one that the request has counted in, or it is
\* over the limit (history).
Idle == [at |-> "idle"]
Request == {Idle}
           \cup [at: {"expire", "ttl"}, ip: Addresses, count: 1 .. OverLimit,
                 current: BOOLEAN]
           \cup [at: {"handler"}]

LimiterTypeOK ==
  /\ counter \in [Addresses -> Counter]
  /\ request \in [Requests -> Request]
  /\ admitted \in [Addresses -> Nat]
  /\ forsaken \in [Addresses -> BOOLEAN]

Await(r, state) == request' = [request EXCEPT ![r] = state]
Answer(r) == Await(r, Idle)

Counted(n) == IF n > OverLimit THEN OverLimit ELSE n

FirstEvery(n) == TRUE   \* mutant: every request moves the deadline
FirstZero(n) == n = 0   \* mutant: INCR taken to return the old value
First(n) == n = 1

\* INCR creates the key or adds one; the first to count sets the deadline.
Hit(r, ip) ==
  /\ request[r] = Idle
  /\ LET n == Counted(counter[ip].count + 1) IN
     /\ counter' = [counter EXCEPT ![ip].count = n]
     /\ Await(r, [at |-> IF First(n) THEN "expire" ELSE "ttl", ip |-> ip,
                  count |-> n, current |-> TRUE])
  /\ UNCHANGED <<admitted, forsaken>>

\* EXPIRE, which does nothing to a key that is gone.
Expire(r) ==
  /\ request[r].at = "expire"
  /\ LET ip == request[r].ip IN
     IF counter[ip].count = 0
     THEN UNCHANGED <<counter, forsaken>>
     ELSE /\ counter' = [counter EXCEPT ![ip].ttl = WINDOW_SECONDS]
          /\ forsaken' = [forsaken EXCEPT ![ip] = FALSE]
  /\ Await(r, [request[r] EXCEPT !.at = "ttl"])
  /\ UNCHANGED admitted

BlockedNever(n) == FALSE   \* mutant: the headers are set and nobody is refused
Blocked(n) == n > MAX_REQUESTS

\* TTL, for the headers; then 429, or next().
Ttl(r) ==
  /\ request[r].at = "ttl"
  /\ LET q == request[r] IN
     IF Blocked(q.count)
     THEN Answer(r) /\ UNCHANGED admitted
     ELSE /\ Await(r, [at |-> "handler"])
          /\ admitted' = IF q.current THEN [admitted EXCEPT ![q.ip] = @ + 1]
                                      ELSE admitted
  /\ UNCHANGED <<counter, forsaken>>

LimiterStep(r) == Expire(r) \/ Ttl(r)

-----------------------------------------------------------------------------
\* Those at the call to EXPIRE, for the key that is there.
Setting(ip) == {r \in Requests : request[r].at = "expire" /\ request[r].ip = ip}

\* Requests end with their later calls not made: next(error) after a failed
\* command, or the process has died.
Die(dead) ==
  /\ request' = [r \in Requests |-> IF r \in dead THEN Idle ELSE request[r]]
  /\ forsaken' = [ip \in Addresses |->
                    \/ forsaken[ip]
                    \/ /\ counter[ip].count > 0 /\ counter[ip].ttl = 0
                       /\ Setting(ip) # {} /\ Setting(ip) \subseteq dead]
  /\ UNCHANGED <<counter, admitted>>

\* The requests a key can still let pass.
Passing(ip) ==
  {r \in Requests : /\ request[r].at \in {"expire", "ttl"} /\ request[r].ip = ip
                    /\ request[r].current /\ request[r].count <= MAX_REQUESTS}

\* Keys go: their window is over, or FLUSHALL.  remaining is what is left.
KeysGo(gone, remaining) ==
  /\ counter' = [ip \in Addresses |-> IF ip \in gone THEN NoKey ELSE remaining[ip]]
  /\ admitted' = [ip \in Addresses |-> IF ip \in gone THEN 0 ELSE admitted[ip]]
  /\ forsaken' = [ip \in Addresses |-> ip \notin gone /\ forsaken[ip]]
  /\ request' = [r \in Requests |->
                   IF \E ip \in gone : r \in Passing(ip)
                   THEN [request[r] EXCEPT !.current = FALSE] ELSE request[r]]

\* A second passes in Redis.
LimiterTick ==
  /\ \E ip \in Addresses : counter[ip].ttl > 0
  /\ KeysGo({ip \in Addresses : counter[ip].ttl = 1},
            [ip \in Addresses |->
               [counter[ip] EXCEPT !.ttl = IF @ = 0 THEN 0 ELSE @ - 1]])

LimiterInit ==
  /\ counter = [ip \in Addresses |-> NoKey]
  /\ request = [r \in Requests |-> Idle]
  /\ admitted = [ip \in Addresses |-> 0]
  /\ forsaken = [ip \in Addresses |-> FALSE]

-----------------------------------------------------------------------------
\* A counter always has a deadline, or a request that is about to give it one,
\* unless the request that was to do so has died: then the key stays, and the
\* address is refused until somebody deletes it.
CounterHasDeadline ==
  \A ip \in Addresses : counter[ip].count > 0 /\ counter[ip].ttl = 0 =>
    Setting(ip) # {} \/ forsaken[ip]

\* However the three commands of concurrent requests interleave, a key lets no
\* more than MAX_REQUESTS requests pass in its life.
WindowIsBounded ==
  \A ip \in Addresses :
    admitted[ip] + Cardinality(Passing(ip)) <= MAX_REQUESTS
=============================================================================
