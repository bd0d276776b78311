-------------------------- MODULE ServerLifecycle --------------------------
(***************************************************************************)
(* src/src/server.ts: how the process stops.  A signal starts the graceful *)
(* shutdown; an unhandled rejection or exception closes the server and     *)
(* exits; both register a callback for the server's 'close' event, which   *)
(* comes when the last connection has ended (Runtime says when).           *)
(*                                                                         *)
(* A module of parts, like RateLimiter.                                    *)
(***************************************************************************)
EXTENDS Naturals

VARIABLES
  up,              \* is there a process?
  listening,       \* the server has not been closed
  isShuttingDown,  \* the flag of gracefulShutdown; its timer is armed with it
  onClose,         \* the callbacks that wait for the 'close' event
  teardown,        \* what the graceful callback awaits
  exitCode         \* of the process that has exited; 0 while one runs

lifeVars == <<up, listening, isShuttingDown, onClose, teardown, exitCode>>

LifeTypeOK ==
  /\ up \in BOOLEAN /\ listening \in BOOLEAN /\ isShuttingDown \in BOOLEAN
  /\ onClose \subseteq {"graceful", "crash"}
  /\ teardown \in {"none", "worker", "connections"}
  /\ exitCode \in {0, 1}

-----------------------------------------------------------------------------
\* SIGINT or SIGTERM; a second one is ignored.  After a crash has closed the
\* server the callback is registered like any other.
Signal ==
  /\ up /\ ~isShuttingDown
  /\ isShuttingDown' = TRUE
  /\ listening' = FALSE
  /\ onClose' = onClose \cup {"graceful"}
  /\ UNCHANGED <<up, teardown, exitCode>>

\* unhandledRejection or uncaughtException.
Crash ==
  /\ up
  /\ listening' = FALSE
  /\ onClose' = onClose \cup {"crash"}
  /\ UNCHANGED <<up, isShuttingDown, teardown, exitCode>>

Exit(code) ==
  /\ up' = FALSE /\ exitCode' = code
  /\ listening' = FALSE /\ isShuttingDown' = FALSE
  /\ onClose' = {} /\ teardown' = "none"

\* mutant: the callback does not exit.
CrashClosedOnly == /\ up /\ "crash" \in onClose
                   /\ onClose' = onClose \ {"crash"}
                   /\ UNCHANGED <<up, listening, isShuttingDown, teardown, exitCode>>
\* 'close' runs every callback that waits for it.  The one of a crash exits in
\* the same turn; the graceful one gets no further than its first await.  A
\* close of a server that is closed already is followed by 'close' once more.
CrashClosed == up /\ "crash" \in onClose /\ Exit(1)

GracefulClosed ==
  /\ up /\ onClose = {"graceful"}
  /\ onClose' = {}
  /\ teardown' = "worker"
  /\ UNCHANGED <<up, listening, isShuttingDown, exitCode>>

\* emailWorker.close() waits for the jobs that are run (Runtime says when).
WorkerClosed ==
  /\ teardown = "worker"
  /\ teardown' = "connections"
  /\ UNCHANGED <<up, listening, isShuttingDown, onClose, exitCode>>

\* prisma.$disconnect() and cacheRedis.quit(), then exit(0).
Disconnected == teardown = "connections" /\ Exit(0)

\* One of the three rejects: exit(1).
TeardownFailed == teardown # "none" /\ Exit(1)

\* mutant: the timer is armed when 'close' has come.
ForceExitLate == teardown # "none" /\ Exit(1)
\* The ten seconds are over.  Only a signal has armed the timer: a process that
\* was closed by an error has none.
ForceExit == up /\ isShuttingDown /\ Exit(1)

\* The process is killed.
Killed == up /\ Exit(1)

\* It is started again: "restart: unless-stopped", or by the operator.
Start ==
  /\ ~up
  /\ up' = TRUE /\ listening' = TRUE /\ exitCode' = 0
  /\ UNCHANGED <<isShuttingDown, onClose, teardown>>

LifeInit ==
  /\ up = TRUE /\ listening = TRUE /\ isShuttingDown = FALSE
  /\ onClose = {} /\ teardown = "none" /\ exitCode = 0
=============================================================================
