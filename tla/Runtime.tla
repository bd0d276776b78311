------------------------------ MODULE Runtime ------------------------------
(***************************************************************************)
(* The process with what runs in it: the rate limiter and the handlers     *)
(* behind it, the queue that mail goes through, the worker, and the ways   *)
(* the process ends.  They meet in two places: a process that exits takes  *)
(* requests and runs of jobs with it and leaves Redis as it is; FLUSHALL   *)
(* takes what is in Redis and leaves the process as it is.                 *)
(***************************************************************************)
EXTENDS RateLimiter, EmailQueue, ServerLifecycle

CONSTANT MaxTroubles   \* bound: how many signals, crashes, kills, flushes and
                      \* failed commands there are
ASSUME TroublesAssumption == MaxTroubles \in Nat

VARIABLES
  connection,    \* of each request slot: who waits for whom on it
  troubles       \* how many troubles there have been

vars == <<limiterVars, queueVars, lifeVars, connection, troubles>>

Init == /\ LimiterInit /\ QueueInit /\ LifeInit
        /\ connection = [r \in Requests |-> "none"]
        /\ troubles = 0

-----------------------------------------------------------------------------
(* Connections.  One is "busy" from the first byte of a request until its  *)
(* answer, "stuck" when its handler will not answer, and "idle" when it is *)
(* kept alive.  While the server listens an idle connection is none: it    *)
(* could bring no request that a new one could not.                        *)

Connections == {"none", "busy", "idle", "stuck"}

Others == <<queueVars, lifeVars, troubles>>

Becomes(r, state) == connection' = [connection EXCEPT ![r] = state]

\* What server.close waits for; and the clients that are still sending, which
\* it waits for like the others.
Connected == {r \in Requests : connection[r] # "none"}
Sending == {r \in Requests : connection[r] = "busy" /\ request[r] = Idle}

Connect(r) == /\ up /\ listening
              /\ request[r] = Idle /\ connection[r] = "none"
              /\ Becomes(r, "busy")
              /\ UNCHANGED <<limiterVars, Others>>

\* A connection to a port nobody listens on is refused.
Refused(r) == /\ request[r] = Idle /\ connection[r] = "none"
              /\ up /\ ~listening
              /\ UNCHANGED vars

\* An answered connection is kept alive, also after the server was closed: the
\* client may send another request on it, or the keep-alive timeout ends it.
Answered(r) ==
  Becomes(r, IF connection[r] = "busy" /\ ~listening THEN "idle" ELSE "none")

Another(r) == /\ connection[r] = "idle"
              /\ Becomes(r, "busy")
              /\ UNCHANGED <<limiterVars, Others>>

KeepAliveEnds(r) == /\ connection[r] = "idle"
                    /\ Becomes(r, "none")
                    /\ UNCHANGED <<limiterVars, Others>>

\* The client hangs up.  The handler is not told, and goes on.
HangUp(r) == /\ connection[r] # "none"
             /\ Becomes(r, "none")
             /\ UNCHANGED <<limiterVars, Others>>

-----------------------------------------------------------------------------
(* Requests.                                                               *)

Trouble == troubles < MaxTroubles /\ troubles' = troubles + 1

\* The request has been received, as far as the body: it meets the limiter.
Arrive(r) == /\ r \in Sending
             /\ \E ip \in Addresses : Hit(r, ip)
             /\ UNCHANGED <<connection, Others>>

InHandler == {r \in Requests : request[r].at = "handler"}

\* The handler behind the limiter ends: with the mail it has queued, if it is
\* signup, resendVerification or forgotPassword and got that far.
HandlerEnds(r) ==
  /\ r \in InHandler
  /\ Answer(r) /\ Answered(r)
  /\ \/ UNCHANGED queueVars
     \/ \E j \in Jobs : Add(j)
  /\ UNCHANGED <<counter, admitted, forsaken, lifeVars, troubles>>

\* The next command of the limiter, or the 429 that is an answer too.
Limited(r) ==
  /\ LimiterStep(r)
  /\ IF request'[r] = Idle THEN Answered(r) ELSE UNCHANGED connection
  /\ UNCHANGED Others

RequestStep(r) == Limited(r) \/ HandlerEnds(r)

\* A Redis command fails: catch, next(error), 500.
CommandFails(r) == /\ request[r].at \in {"expire", "ttl"}
                   /\ Die({r}) /\ Answered(r)
                   /\ Trouble
                   /\ UNCHANGED <<queueVars, lifeVars>>

Tick == LimiterTick /\ UNCHANGED <<connection, Others>>

\* POST /system/cache/reset, which is behind the limiter too.
FlushAll == /\ InHandler # {}
            /\ KeysGo(Addresses, counter)
            /\ FlushJobs
            /\ Trouble
            /\ UNCHANGED <<connection, lifeVars>>

-----------------------------------------------------------------------------
(* The worker.                                                             *)

\* A worker that is being closed finishes what it runs and takes nothing new.
\* The back-off of a delayed job is kept by Redis and whoever asks it next.
WorkerStep(j) ==
  /\ up
  /\ RunStep(j) \/ (teardown = "none" /\ (Take(j) \/ Promote(j) \/ Stall(j)))
  /\ UNCHANGED <<limiterVars, connection, lifeVars, troubles>>

-----------------------------------------------------------------------------
(* The process.                                                            *)

\* What runs in a process ends with it.
Ends == /\ Die({r \in Requests : request[r] # Idle})
        /\ RunsDie
        /\ connection' = [r \in Requests |-> "none"]

\* What server.close does at once to the connections that are idle.
Closed == [r \in Requests |-> IF connection[r] = "idle" THEN "none" ELSE connection[r]]

\* An error nobody has caught may be the end of a handler, which then leaves its
\* client without an answer.
Broken == \/ UNCHANGED request /\ connection' = Closed
          \/ \E r \in InHandler :
               /\ Answer(r)
               /\ connection' = IF connection[r] = "none" THEN Closed
                                ELSE [Closed EXCEPT ![r] = "stuck"]

Stop == \/ /\ Signal /\ Trouble
           /\ connection' = Closed
           /\ UNCHANGED <<limiterVars, queueVars>>
        \/ /\ Crash /\ Trouble
           /\ Broken
           /\ UNCHANGED <<counter, admitted, forsaken, queueVars>>
        \/ Killed /\ Trouble /\ Ends

WorkerIdleAlways == TRUE   \* mutant: close(true), which does not wait
WorkerIdle == Running = {}

Drained == Connected = {}

Closing ==
  \/ /\ GracefulClosed /\ Drained
     /\ UNCHANGED <<limiterVars, queueVars, connection, troubles>>
  \/ /\ WorkerClosed /\ WorkerIdle
     /\ UNCHANGED <<limiterVars, queueVars, connection, troubles>>
  \/ /\ CrashClosed /\ Drained
     /\ Ends /\ UNCHANGED troubles
  \/ /\ Disconnected \/ TeardownFailed \/ ForceExit
     /\ Ends /\ UNCHANGED troubles

Restart == Start /\ UNCHANGED <<limiterVars, queueVars, connection, troubles>>

Next == \/ \E r \in Requests : \/ Connect(r) \/ Refused(r) \/ Another(r)
                              \/ KeepAliveEnds(r) \/ HangUp(r)
                              \/ Arrive(r) \/ RequestStep(r) \/ CommandFails(r)
        \/ \E j \in Jobs : WorkerStep(j)
        \/ Tick \/ FlushAll
        \/ Stop \/ Closing \/ Restart

Spec == Init /\ [][Next]_vars

\* The server's own steps are fair.  What a client does is not: it may send a
\* request as slowly as it likes, and keep a connection that is stuck.
FairSpec ==
  /\ Spec
  /\ \A r \in Requests : WF_vars(RequestStep(r) \/ KeepAliveEnds(r))
  /\ \A j \in Jobs : WF_vars(WorkerStep(j))
  /\ WF_vars(Tick) /\ WF_vars(Closing \/ Restart)

-----------------------------------------------------------------------------
RuntimeTypeOK == /\ LimiterTypeOK /\ QueueTypeOK /\ LifeTypeOK
                 /\ connection \in [Requests -> Connections]
                 /\ troubles \in Nat

\* A process that exits with 0 cuts nobody off: no job is half done, and no
\* client that is still connected goes without its answer.
CleanExit ==
  [][up /\ ~up' /\ exitCode' = 0 => Running = {} /\ Connected = {}]_vars

\* A client that holds a closed server: it is still sending a request, on a
\* connection that was busy at the close, or is owed an answer for ever.
Holding == Sending \cup {r \in Requests : connection[r] = "stuck"}

\* A process that was told to stop exits, whatever clients do and whatever
\* errors come before or after: the timer does not wait for connections.  One
\* that was only closed by an error has no timer: it exits too, unless clients
\* hold it.
ClosingEnds ==
  (up /\ ~listening) ~> (~up \/ (~isShuttingDown /\ Holding # {}))

\* An address that is over the limit is let in again, unless the request that
\* was to give its key a deadline has died.
Readmitted ==
  \A ip \in Addresses :
    counter[ip].count > MAX_REQUESTS ~> counter[ip].count = 0 \/ forsaken[ip]

\* Every job is completed or failed in the end, or lost to FLUSHALL, through
\* all failures of SMTP and deaths of the process.
JobsSettle ==
  \A j \in Jobs : job[j].state # "none" ~> job[j].state \in Settled
=============================================================================
